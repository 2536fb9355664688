----------------------------- MODULE SnapshotNotes -----------------------------
(***************************************************************************)
(* _Ma2SnapshotDecoder of e170_gm_audio.py: the guest writes a Handy score *)
(* into the FIFO of an MA2, byte by byte, and starts the chip from time to *)
(* time.  Each start gives a snapshot of all bytes since the epoch began;  *)
(* the decoder parses it anew and plays the notes it has not played yet.   *)
(* FIFOs are decoded independently, so there is one.                       *)
(***************************************************************************)
EXTENDS SmafParsers

CONSTANTS Events,         \* events of the guest's score
          MaxEvents,      \* bound: events of an epoch
          MaxEpochs       \* bound: epochs

SnapshotNotesAssumption == SmafParsersAssumption /\ MaxEvents \in Nat /\ MaxEpochs \in Nat

VARIABLE fifo

TypeOK ==
  /\ fifo.epoch \in 1..MaxEpochs /\ fifo.decoder \in 0..MaxEpochs
  /\ fifo.events \in 0..MaxEvents
  /\ Len(fifo.bytes) >= Len(fifo.taken)          \* bytes of the last snapshot
  /\ \A i \in DOMAIN fifo.played : fifo.played[i].end \in 1..Len(fifo.taken)   \* of this epoch

Init ==
  fifo = [epoch |-> 1, bytes |-> <<>>, rest |-> <<>>, events |-> 0,
          decoder |-> 0, emitted |-> {}, taken |-> <<>>, played |-> <<>>]

-------------------------------------------------------------------------------
(* The guest: an event is written byte by byte, and a change of timebase   *)
(* may come at any time and begins an epoch with an empty FIFO.            *)

BeginEvent(event) ==
  /\ fifo.rest = <<>> /\ fifo.events < MaxEvents
  /\ fifo' = [fifo EXCEPT !.rest = event, !.events = @ + 1]

WriteByte ==
  /\ fifo.rest # <<>>
  /\ fifo' = [fifo EXCEPT !.bytes = Append(@, Head(fifo.rest)), !.rest = Tail(@)]

BeginEpoch ==
  /\ fifo.epoch < MaxEpochs
  /\ fifo' = [fifo EXCEPT !.epoch = @ + 1, !.bytes = <<>>, !.rest = <<>>, !.events = 0,
                          !.taken = <<>>, !.played = <<>>]

-------------------------------------------------------------------------------
(* decode.                                                                 *)

(* parse_mtsq_handy to its end: an event takes a byte at least.            *)
Notes(bytes) ==
  FoldLeft(LAMBDA d, byte : Stepped(d, Event), Fresh("handy", Prepared("handy", bytes)), bytes).notes

Key(note) == <<note.at, note.raw>>

(* Wrong: the marks outlive their epoch.                                   *)
Emitted_AnyEpoch(d) == d.emitted

(* The notes it has marked as played, of this epoch.                       *)
Emitted(d) == IF d.decoder = d.epoch THEN d.emitted ELSE {}

Within(note, bytes) == note.at + Len(note.raw) <= Len(bytes)

Snapshot ==
  /\ fifo.bytes # <<>>
  /\ LET new(note) == Within(note, fifo.bytes) /\ Key(note) \notin Emitted(fifo)
         notes == SelectSeq(Notes(fifo.bytes), new)
         plays == [i \in DOMAIN notes |-> [end |-> Len(fifo.bytes), note |-> notes[i]]]
     IN fifo' = [fifo EXCEPT
          !.decoder = fifo.epoch, !.taken = fifo.bytes, !.played = @ \o plays,
          !.emitted = Emitted(fifo) \cup {Key(notes[i]) : i \in DOMAIN notes}]

Next == (\E event \in Events : BeginEvent(event)) \/ WriteByte \/ BeginEpoch \/ Snapshot

Spec == Init /\ [][Next]_fifo

-------------------------------------------------------------------------------
(* Properties.                                                             *)

(* What a snapshot played, but for the event it broke off in, the later    *)
(* bytes do not change: it is a note of every later snapshot.  And after a *)
(* snapshot all its notes have been played.                                *)
SnapshotsAgree ==
  /\ \A i \in DOMAIN fifo.played :
       LET play == fifo.played[i]
       IN play.note.at + Len(play.note.raw) < play.end =>
            play.note \in Range(Notes(fifo.bytes))
  /\ \A note \in Range(Notes(fifo.taken)) :
       \E i \in DOMAIN fifo.played : fifo.played[i].note = note

(* Two plays of one event: the first broke off in the event's gate.        *)
Replayed == {ij \in (DOMAIN fifo.played) \X (DOMAIN fifo.played) :
               /\ ij[1] < ij[2]
               /\ fifo.played[ij[1]].note.at = fifo.played[ij[2]].note.at}

OnlyTornNotesReplayed ==
  \A ij \in Replayed :
    LET first == fifo.played[ij[1]]
    IN /\ IsStrictPrefix(first.note.raw, fifo.played[ij[2]].note.raw)
       /\ first.note.at + Len(first.note.raw) = first.end

(* The docstring of _Ma2SnapshotDecoder: "Parse cumulative MA2 FIFO        *)
(* snapshots without replaying old notes."                                 *)
NoNoteReplayed == Replayed = {}
===============================================================================
