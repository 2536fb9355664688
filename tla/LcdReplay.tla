------------------------------- MODULE LcdReplay -------------------------------
(***************************************************************************)
(* The three candidates of the 0x020 panel port that hold writes back, in  *)
(* the order a write meets them (devices/display):                         *)
(*   row     four-byte packets that address one row and fill it (page.py)  *)
(*   refresh a selector bus that is being taken back after other traffic   *)
(*           (controller.py, _lcd_route_write)                             *)
(*   low     the low-byte page words that would otherwise fill a raw       *)
(*           capture (page.py)                                             *)
(* The first two hold writes, the third the words of a capture.            *)
(***************************************************************************)
EXTENDS Integers, Sequences, SequencesExt

CONSTANTS RowWords,        \* 128 in the code
          LowWords,        \* 96 in the code: words of a row of low bytes
          RefreshOrder,    \* the registers of a refresh; [register, zero] says its argument is 0
          Words,           \* the words the guest may write at +4
          Commands         \* the byte commands it may write

LcdReplayAssumption ==
  /\ RowWords \in Nat \ {0} /\ LowWords \in Nat \ {0}
  /\ RefreshOrder # <<>> /\ Words \subseteq 0..65535 /\ Commands \subseteq 0..255

VARIABLE replay

Write(port, size, value) == [port |-> port, size |-> size, value |-> value]
Zero == Write("base", 1, 0)
SelectCommand == Write("base", 2, 0)
SelectData == Write("base", 2, 1)

Writes ==
  {Write("base", 1, c) : c \in Commands \cup {0}}
    \cup {Write("plus2", 1, v) : v \in {0, \h14}}
    \cup {SelectCommand, SelectData}
    \cup {Write("plus4", 2, w) : w \in Words}

NoRow == [probe |-> <<>>, events |-> <<>>, stage |-> "", words |-> 0]
NoLow == [stage |-> "", page |-> -1, last |-> -1, high |-> -1, rows |-> 0, words |-> <<>>]

TypeOK ==
  /\ replay.row.stage \in {"", "ready", "x", "y", "data"}
  /\ Len(replay.row.probe) < 4 /\ replay.row.words < RowWords
  /\ replay.refresh \in -1..Len(RefreshOrder)                \* -1: none under way
  /\ Len(replay.refreshed) = (IF replay.refresh = -1 THEN 0 ELSE replay.refresh)
  /\ replay.low.stage \in {"", "high", "low", "data", "next"}
  /\ replay.low.rows \in 0..2
  /\ replay.selector \in BOOLEAN                             \* the bus of a proved selector, at rest
  /\ replay.out \in Seq(Writes)
  /\ replay.took \in {"nothing", "none", "row", "rows", "refresh"}   \* by the last step

Init ==
  \E selector \in BOOLEAN :
    replay = [row |-> NoRow, refresh |-> -1, refreshed |-> <<>>, low |-> NoLow, selector |-> selector,
              out |-> <<>>, raw |-> <<>>, took |-> "none", seen |-> <<>>]

-------------------------------------------------------------------------------
(* low: _lcd_lowbyte_page_event on every write the decoders see, then      *)
(* _lcd_lowbyte_page_raw_word on a word they give to the capture.          *)
IsCommand(write, from, to) == write.port = "base" /\ write.size = 1 /\ write.value \in from..to
IsLowWord(write) == write.port = "plus4" /\ write.size = 2 /\ write.value < 256

LowStart(low, write) ==
  IF IsCommand(write, \hB0, \hB7)
  THEN [low EXCEPT !.page = write.value % 16, !.stage = "high"]
  ELSE low

(* Wrong: the words of a candidate that fails are dropped.                 *)
LowReset_Drops(r) == [r EXCEPT !.low = NoLow]
LowReset(r) == [r EXCEPT !.low = NoLow, !.raw = @ \o r.low.words]

LowGoesOn(low, write) ==
  CASE low.stage = "data" /\ IsLowWord(write) -> low
    [] low.stage = "high" /\ IsCommand(write, \h10, \h1F) ->
         [low EXCEPT !.high = write.value % 16, !.stage = "low"]
    [] low.stage = "low" /\ IsCommand(write, \h00, \h0F) /\ 16 * low.high + write.value = 4 ->
         [low EXCEPT !.stage = "data"]
    [] low.stage = "next" /\ IsCommand(write, \hB0, \hB7) /\ write.value % 16 = low.last + 1 ->
         [low EXCEPT !.page = write.value % 16, !.stage = "high"]
    [] OTHER -> NoLow

LowEvent(r, write) ==
  IF LowGoesOn(r.low, write) # NoLow
  THEN [r EXCEPT !.low = LowGoesOn(r.low, write)]
  ELSE LET reset == IF r.low.stage = "" THEN r ELSE LowReset(r)
       IN [reset EXCEPT !.low = LowStart(@, write)]

(* A row more; the second one beside it proves the candidate, and its      *)
(* words are no raw picture.                                               *)
LowRow(r, words) ==
  LET rows == IF r.low.rows < 2 THEN r.low.rows + 1 ELSE 2
  IN [r EXCEPT !.low = [@ EXCEPT !.last = r.low.page, !.rows = rows, !.stage = "next",
                                 !.words = IF rows = 2 THEN <<>> ELSE words],
               !.took = IF rows = 2 THEN "rows" ELSE @]

Captured(r, word) ==
  LET words == Append(r.low.words, word)
  IN CASE r.low.stage = "data" /\ word < 256 /\ Len(words) % LowWords # 0 ->
            [r EXCEPT !.low.words = words]
       [] r.low.stage = "data" /\ word < 256 /\ Len(words) % LowWords = 0 -> LowRow(r, words)
       [] OTHER -> [r EXCEPT !.raw = Append(@, word)]

(* What the decoders see; captures says they know no better use of a word. *)
Decoded(r, write, captures) ==
  LET seen == [LowEvent(r, write) EXCEPT !.out = Append(@, write)]
  IN IF captures /\ write.port = "plus4"
     THEN [Captured(seen, write.value) EXCEPT !.seen = Append(@, write.value)]
     ELSE seen

-------------------------------------------------------------------------------
(* refresh: a selector that was proved begins a refresh with a 0 at the    *)
(* base.  Its register words are kept until the 1 that ends them; then the *)
(* selector takes them, and its bus again.                                 *)
RefreshWrites(r) ==
  IF r.refresh = -1 THEN <<>>
  ELSE <<SelectCommand>> \o [n \in DOMAIN r.refreshed |-> Write("plus4", 2, r.refreshed[n])]

RefreshGivesUp(r, captures) ==
  FoldLeft(LAMBDA s, write : Decoded(s, write, captures),
           [r EXCEPT !.refresh = -1, !.refreshed = <<>>], RefreshWrites(r))

InOrder(r, write) ==
  /\ r.refresh < Len(RefreshOrder)
  /\ write.port = "plus4" /\ write.size = 2
  /\ write.value \div 256 = RefreshOrder[r.refresh + 1].register
  /\ RefreshOrder[r.refresh + 1].zero => write.value % 256 = 0

(* opens: the window the registers name is one the selector accepts.       *)
Routed(r, write, opens, captures) ==
  CASE r.refresh = -1 /\ r.selector /\ write = SelectCommand -> [r EXCEPT !.refresh = 0]
    [] r.refresh = -1 /\ ~(r.selector /\ write = SelectCommand) -> Decoded(r, write, captures)
    [] r.refresh # -1 /\ InOrder(r, write) ->
         [r EXCEPT !.refresh = @ + 1, !.refreshed = Append(@, write.value)]
    [] r.refresh = Len(RefreshOrder) /\ write = SelectData /\ opens ->
         [r EXCEPT !.refresh = -1, !.refreshed = <<>>, !.selector = FALSE, !.took = "refresh"]
    [] OTHER -> Decoded(RefreshGivesUp(r, captures), write, captures)

(* The selector's next picture is drawn: its bus is at rest again.         *)
SelectorPicture ==
  /\ ~replay.selector
  /\ replay' = [replay EXCEPT !.selector = TRUE, !.out = <<>>, !.raw = <<>>, !.took = "nothing",
                              !.seen = <<>>]

-------------------------------------------------------------------------------
(* row: packets of a 0, a command and two bytes.                           *)
RowPort == <<"base", "base", "plus2", "plus2">>

RoutedAll(r, writes, opens, captures) ==
  FoldLeft(LAMBDA s, write : Routed(s, write, opens, captures), r, writes)

RowGivesUp(r, opens, captures) ==
  RoutedAll([r EXCEPT !.row = NoRow], r.row.events, opens, captures)

RowCommit(r, opens, captures) ==
  LET command == r.row.probe[2].value
      word    == 256 * r.row.probe[3].value + r.row.probe[4].value
      packet  == [r EXCEPT !.row.probe = <<>>]
      stage   == r.row.stage
  IN CASE command = \h05 /\ word = \h14 /\ stage \in {"", "ready"} -> [packet EXCEPT !.row.stage = "x"]
       [] command = \h10 /\ word = 0 /\ stage = "x" -> [packet EXCEPT !.row.stage = "y"]
       [] command = \h11 /\ word = 0 /\ stage = "y" ->
            [packet EXCEPT !.row.stage = "data", !.row.words = 0]
       [] command = \h12 /\ stage = "data" /\ r.row.words + 1 < RowWords ->
            [packet EXCEPT !.row.words = @ + 1]
       [] command = \h12 /\ stage = "data" /\ r.row.words + 1 = RowWords ->
            [packet EXCEPT !.row = [NoRow EXCEPT !.stage = "ready"], !.took = "row"]
       [] OTHER -> RowGivesUp(r, opens, captures)

RowWrite(r, write, opens, captures) ==
  LET held == [r EXCEPT !.row.events = Append(@, write)]
      more == [held EXCEPT !.row.probe = Append(@, write)]
      next == Len(r.row.probe) + 1
  IN CASE r.row.probe = <<>> /\ write = Zero -> more
       [] r.row.probe = <<>> /\ write # Zero /\ r.row.stage \in {"", "ready"} ->
            Routed(r, write, opens, captures)
       [] r.row.probe = <<>> /\ write # Zero /\ r.row.stage \notin {"", "ready"} ->
            RowGivesUp(held, opens, captures)
       [] r.row.probe # <<>> /\ (write.port # RowPort[next] \/ write.size # 1) ->
            RowGivesUp(held, opens, captures)
       [] r.row.probe # <<>> /\ write.port = RowPort[next] /\ write.size = 1 /\ next < 4 -> more
       [] OTHER -> RowCommit(more, opens, captures)

GuestWrites ==
  \E write \in Writes :
  \E opens \in (IF write = SelectData THEN BOOLEAN ELSE {FALSE}),
     captures \in (IF write.port = "plus4" \/ replay.refresh # -1 THEN BOOLEAN ELSE {FALSE}) :
    replay' = RowWrite([replay EXCEPT !.out = <<>>, !.raw = <<>>, !.took = "none", !.seen = <<>>],
                       write, opens, captures)

Next == GuestWrites \/ SelectorPicture

Spec == Init /\ [][Next]_replay

-------------------------------------------------------------------------------
Held(r) == RefreshWrites(r) \o r.row.events

(* Every write of the guest reaches the decoders once and in order, late   *)
(* if a candidate held it, unless a row or a refresh was whole and took    *)
(* what it held (the near misses of the tests: "mismatch replays each      *)
(* event once").                                                           *)
WritesReplayedInOrder ==
  replay'.took \notin {"row", "refresh"} =>
        LET after == replay'.out \o Held(replay')
        IN IF replay'.took = "nothing" THEN after = Held(replay)
           ELSE after # <<>> /\ Front(after) = Held(replay)

(* So does every word a decoder gives to the raw capture, unless two       *)
(* neighbouring rows have proved that the words are none of a picture.     *)
WordsCapturedInOrder ==
  replay'.took # "rows" =>
        replay'.raw \o replay'.low.words = replay.low.words \o replay'.seen
===============================================================================
