------------------------------- MODULE SmafScore -------------------------------
(***************************************************************************)
(* Three parsers of SmafParsers run side by side: `whole' on a body, `cut' *)
(* on a beginning of it, as a file that was cut short gives it, and        *)
(* `voices', the parser of human-voice notes, on the whole body again.     *)
(* `paged' is the body after a page marker was spliced into it and         *)
(* stripped again.                                                         *)
(***************************************************************************)
EXTENDS SmafParsers

CONSTANTS EventsOf,       \* format -> the events its bodies are made of
          MarksOf,        \* format -> page markers
          MaxEvents       \* bound: events of a body

Formats == DOMAIN EventsOf

SmafScoreAssumption ==
  SmafParsersAssumption /\ Formats \subseteq {"midi", "fmt7", "handy", "audio"} /\ MaxEvents \in Nat

VARIABLE score

Init ==
  \E format \in Formats : \E n \in 1..MaxEvents :
  \E events \in [1..n -> EventsOf[format]] : \E less \in 1..Len(events[n]) :
  \E mark \in IF n < MaxEvents THEN MarksOf[format] ELSE {<<>>} :   \* bound: no page in the longest
    LET body == FlattenSeq(events)
        short == SubSeq(body, 1, Len(body) - less)
        rest == SubSeq(body, Len(short) + 1, Len(body))
        start(b) == Fresh(format, Prepared(format, b))
    IN score = [whole |-> start(body), cut |-> start(short), voices |-> start(body),
                paged |-> Prepared(format, short \o mark \o rest)]

Parses ==
  /\ ~(score.whole.over /\ score.cut.over /\ score.voices.over)
  /\ score' = [score EXCEPT !.whole = Stepped(@, Event), !.cut = Stepped(@, Event),
                            !.voices = IF @.format \in {"midi", "fmt7"}
                                       THEN Stepped(@, VoiceEvent) ELSE Over(@)]

Next == Parses

Spec == Init /\ [][Next]_score

-------------------------------------------------------------------------------
(* Properties.                                                             *)

TypeOK ==
  \A d \in {score.whole, score.cut, score.voices} :
    /\ d.pos \in 0..Len(d.body) /\ d.tick \in Nat /\ d.over \in BOOLEAN
    /\ \A i \in DOMAIN d.notes : d.notes[i].at < Len(d.body)

(* Notes follow one another in time, although a mark takes a delta back    *)
(* (tick of parse_mtsq_midi_like, and of all the others).                  *)
NotesInOrder ==
  \A d \in {score.whole, score.cut, score.voices} :
    /\ \A i \in 1..(Len(d.notes) - 1) : d.notes[i].tick <= d.notes[i + 1].tick
    /\ d.notes # <<>> => Last(d.notes).tick <= d.tick

(* A score that was cut short loses what was cut and nothing else: its     *)
(* notes and controls are the first of the whole score's.  The event the   *)
(* cut goes through may be a note that is too short; a command of the      *)
(* synthesizer, which looks like a note then, may be one that never was.   *)
CutKeepsTheRest ==
  LET w == score.whole
      c == score.cut
      torn(n) == n.at + Len(n.raw) = Len(c.body) /\ 139 \in Range(n.raw)
      sameButShorter(n, m) ==
        [n EXCEPT !.span = 0, !.raw = <<>>] = [m EXCEPT !.span = 0, !.raw = <<>>] /\ n.span <= m.span
  IN (w.over /\ c.over) =>
       /\ \A i \in DOMAIN c.notes :
            IF torn(c.notes[i]) THEN i = Len(c.notes)
            ELSE /\ i <= Len(w.notes)
                 /\ IF i < Len(c.notes) THEN c.notes[i] = w.notes[i]
                    ELSE sameButShorter(c.notes[i], w.notes[i])
       /\ \A i \in 1..(Len(c.controls) - 1) :
            i <= Len(w.controls) /\ c.controls[i] = w.controls[i]

(* A page marker between any two bytes, of one number too, leaves the      *)
(* score as it was (strip_mtsq_transport_markers, ...handy...).            *)
MarkersAreInvisible == score.paged = score.whole.body

(* The two parsers of one body agree where its events are and when, so a   *)
(* voice sounds at its place among the notes.  Of format 2 this holds as   *)
(* far as no page marker, start mark or packet of one byte comes.          *)
VoicesKeepTime ==
  LET w == score.whole
      v == score.voices
      special == \E i \in 1..(Len(w.body) - 1) :
        <<w.body[i], w.body[i + 1]>> \in {<<255, 0>>, <<240, 1>>, <<254, 0>>}
  IN (w.format \in {"midi", "fmt7"} /\ ~w.over /\ ~v.over /\ (w.format = "midi" => ~special)) =>
       w.pos = v.pos /\ w.tick = v.tick
===============================================================================
