-------------------------------- MODULE LcdHold --------------------------------
(***************************************************************************)
(* The two candidates of the 0x028 panel port that hold writes back        *)
(* (devices/display/protocols/direct.py): the low-byte RGB332 window and   *)
(* the old Samsung direct window.  Both begin with the same registers, so  *)
(* a write is withheld until its grammar is complete or is disproved; a    *)
(* disproved candidate gives what it held to the ordinary decoder.         *)
(*                                                                         *)
(* One record, hold, is the state of both.  Its out and frame say what     *)
(* the last write did: the writes that reached the ordinary decoder, in    *)
(* order, and whether a whole frame was drawn or dropped.                  *)
(***************************************************************************)
EXTENDS Integers, Sequences, SequencesExt, FiniteSetsExt

CONSTANTS Width, Height,   \* the panel
          MinSpan,         \* 64 in the code: the least side of a full window
          Bytes,           \* the bytes a data write of size 1, and of size 2, may carry
          Wide             \* a data word above 0xFF

LcdHoldAssumption ==
  /\ Width \in Nat /\ Height \in Nat /\ MinSpan \in Nat
  /\ \A s \in {1, 2} : Bytes[s] \subseteq 0..255
  /\ Wide > 255

VARIABLE hold

Base == "base"       \* 0x02800000
Data == "data"       \* 0x02800004
Other == "other"     \* any other address of the LCD aperture

SelectY == \h75
SelectX == \h15
Pixels == \h5C
Ordinary == \h22     \* a command of no grammar

Write(port, size, value) == [port |-> port, size |-> size, value |-> value]

Writes ==
  {Write(Base, s, v) : s \in {1, 2}, v \in {SelectY, SelectX, Pixels}}
    \cup (UNION {{Write(Data, s, v) : v \in Bytes[s]} : s \in {1, 2}})
    \cup {Write(Base, 2, Ordinary), Write(Data, 2, Wide), Write(Other, 2, 0)}

(* The grammar of a window: a register or AnyByte at each place.           *)
AnyByte == -1
Grammar == <<SelectY, AnyByte, AnyByte, SelectX, AnyByte, AnyByte, Pixels>>

Fits(write, place, size) ==
  /\ write.size = size
  /\ IF Grammar[place] = AnyByte
     THEN write.port = Data /\ write.value \in 0..255
     ELSE write.port = Base /\ write.value = Grammar[place]

TypeOK ==
  /\ hold.rgb \in Seq(Writes) /\ hold.direct \in Seq(Writes) /\ hold.out \in Seq(Writes)
  /\ hold.pixels \in Nat                 \* of the RGB332 window
  /\ hold.within \in BOOLEAN             \* that window lies on the panel
  /\ hold.qualified \in BOOLEAN          \* one RGB332 frame was drawn
  /\ hold.protocol \in {"unknown", "parallel-2", "direct", "direct-rgb332"}
  /\ hold.frame \in {"none", "drawn", "dropped"}
  /\ hold.rgb # <<>> => Fits(Head(hold.rgb), 1, Head(hold.rgb).size)

Init ==
  hold = [rgb |-> <<>>, direct |-> <<>>, out |-> <<>>, pixels |-> 0, within |-> FALSE,
          qualified |-> FALSE, protocol |-> "unknown", frame |-> "none"]

-------------------------------------------------------------------------------
(* The ordinary decoder: a command on the base port makes an unknown bus   *)
(* a direct one.  (A 0 or 1 there selects a mode; none of Writes is one.)  *)
Legacy(h, write) ==
  [h EXCEPT !.out = Append(@, write),
            !.protocol = CASE write.port = Base /\ @ # "parallel-2" -> "direct"
                           [] write.port = Other -> "parallel-2"
                           [] OTHER -> @]

Replayed(h, writes) == FoldLeft(Legacy, h, writes)

(* Wrong: a disproved RGB332 candidate is forgotten.                       *)
RgbReplay_Forgets(h) == [h EXCEPT !.rgb = <<>>]

RgbReplay(h) == Replayed([h EXCEPT !.rgb = <<>>], h.rgb)

(* What the six registers say: rows first, then columns.                   *)
Side(first, last) == last - first + 1
YAxis(rgb) == <<rgb[2].value, rgb[3].value>>
XAxis(rgb) == <<rgb[5].value, rgb[6].value>>

FullWindow(x, y) ==
  /\ x[1] = 0 /\ y[1] = 0
  /\ Side(x[1], x[2]) >= MinSpan /\ Side(y[1], y[2]) >= MinSpan

OnPanel(x, y) == x[1] <= x[2] /\ y[1] <= y[2] /\ x[2] < Width /\ y[2] < Height

(* The grammar is whole: a full window, or after the first frame any       *)
(* window of the panel, is a frame to collect; any other is replayed.      *)
RgbWindow(h) ==
  LET x == XAxis(h.rgb)
      y == YAxis(h.rgb)
  IN IF FullWindow(x, y) \/ (h.qualified /\ OnPanel(x, y))
     THEN [h EXCEPT !.pixels = Side(x[1], x[2]) * Side(y[1], y[2]), !.within = OnPanel(x, y)]
     ELSE RgbReplay(h)

(* A complete frame.  Its first one may have the panel adopt its geometry; *)
(* a panel that keeps a smaller one draws nothing.                         *)
RgbFrame(h, adopted) ==
  IF h.within \/ (~h.qualified /\ adopted)
  THEN [h EXCEPT !.rgb = <<>>, !.qualified = TRUE, !.protocol = "direct-rgb332", !.frame = "drawn"]
  ELSE [h EXCEPT !.rgb = <<>>, !.frame = "dropped"]

(* _lcd_028_rgb332_write: the candidate after a write, and whether it took *)
(* the write.                                                              *)
RgbStarts(h, write) ==
  /\ write.port = Base /\ write.value = SelectY
  /\ write.size = 1 \/ h.qualified

RgbWrite(h, write, adopted) ==
  LET held   == [h EXCEPT !.rgb = Append(@, write)]
      size   == Head(h.rgb).size
      place  == Len(h.rgb) + 1
      inside == place <= Len(Grammar)
  IN CASE h.rgb = <<>> /\ ~RgbStarts(h, write) -> [hold |-> h, taken |-> FALSE]
       [] h.rgb = <<>> /\ RgbStarts(h, write) -> [hold |-> held, taken |-> TRUE]
       [] h.rgb # <<>> /\ inside /\ Fits(write, place, size) ->
            [hold |-> IF place = Len(Grammar) THEN RgbWindow(held) ELSE held, taken |-> TRUE]
       [] h.rgb # <<>> /\ ~inside /\ Fits(write, 2, size) ->
            [hold |-> IF place = Len(Grammar) + h.pixels THEN RgbFrame(held, adopted) ELSE held,
             taken |-> TRUE]
       [] OTHER -> [hold |-> RgbReplay(h), taken |-> FALSE]

(* _lcd_028_direct_probe_write after it.                                   *)
DirectReplay(h) == Replayed([h EXCEPT !.direct = <<>>], h.direct)

DirectWrite(h, write) ==
  LET held == [h EXCEPT !.direct = Append(@, write)]
      place == Len(held.direct)
  IN CASE h.direct = <<>> /\ ~(h.protocol = "parallel-2" /\ Fits(write, 1, 2)) -> Legacy(h, write)
       [] h.direct = <<>> /\ h.protocol = "parallel-2" /\ Fits(write, 1, 2) -> held
       [] h.direct # <<>> /\ ~Fits(write, place, 2) -> Legacy(DirectReplay(h), write)
       [] h.direct # <<>> /\ Fits(write, place, 2) /\ place < Len(Grammar) -> held
       [] OTHER -> DirectReplay([held EXCEPT !.protocol = "direct"])

(* One write of the guest into the aperture.                               *)
GuestWrites ==
  \E write \in Writes, adopted \in BOOLEAN :
    LET h   == [hold EXCEPT !.out = <<>>, !.frame = "none"]
        rgb == RgbWrite(h, write, adopted)
    IN hold' = IF rgb.taken THEN rgb.hold ELSE DirectWrite(rgb.hold, write)

Next == GuestWrites

Spec == Init /\ [][Next]_hold

-------------------------------------------------------------------------------
Held(h) == h.direct \o h.rgb
Count(writes, write) == Cardinality({n \in DOMAIN writes : writes[n] = write})

(* The candidates lose nothing and give nothing twice: what reached the    *)
(* ordinary decoder and what is still held are, after a write, what was    *)
(* held and one write more, unless a whole frame took them.                *)
NothingWithheld ==
  hold'.frame = "none" =>
        LET before == Held(hold)
            after  == hold'.out \o Held(hold')
        IN /\ Len(after) = Len(before) + 1
           /\ \A write \in ToSet(before) : Count(after, write) >= Count(before, write)

(* The comment in front of the candidates: an intervening access to the    *)
(* aperture is a mismatch, not a later continuation.  So a direct          *)
(* candidate that grows holds consecutive writes, and none of them goes to *)
(* the ordinary decoder before an earlier one.                             *)
HeldInOrder ==
  hold'.frame = "none" =>
        \E write \in Writes : hold'.out \o Held(hold') = Held(hold) \o <<write>>
===============================================================================
