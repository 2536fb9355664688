------------------------------ MODULE PollRelease ------------------------------
(***************************************************************************)
(* _infer_thumb_poll_value and _release_hardware_poll of                   *)
(* core/memory_bus.py for one register: the loops that wait for it, the    *)
(* bit and the value inferred from each loop's code, and the masks that    *)
(* force released bits on every later read.  RunLoop decides when a poll   *)
(* is released.                                                            *)
(*                                                                         *)
(* A loop is its grammar and the numbers in its code; the registers of its *)
(* instructions fit each other, or no grammar matches and nothing is       *)
(* inferred.                                                               *)
(***************************************************************************)
EXTENDS Integers

CONSTANTS Width,    \* bits of the register
          Loops     \* the loops of the firmware that wait for it

VARIABLE poll

Values == 0..(2^Width - 1)
BitSet == 0..(Width - 1)

Bit(value, b) == (value \div 2^b) % 2 = 1
(* The number with the given bits.                                         *)
Number(bits) == CHOOSE v \in Values : \A b \in BitSet : Bit(v, b) <=> b \in bits
BitsOf(value) == {b \in BitSet : Bit(value, b)}
With(value, b, on) == Number(IF on THEN BitsOf(value) \cup {b} ELSE BitsOf(value) \ {b})

Idle == [kind |-> "none"]

TypeOK ==
  /\ poll.loop \in Loops \cup {Idle}
  /\ poll.value \in Values
  /\ poll.set \subseteq BitSet /\ poll.clear \subseteq BitSet    \* ready_bits
  /\ poll.releases \in Nat

Init ==
  \E v \in Values :
    poll = [loop |-> Idle, value |-> v, set |-> {}, clear |-> {}, releases |-> 0]

-------------------------------------------------------------------------------
(* What the guest's loops do.                                              *)

Taken(l, value) ==
  LET carry == Bit(value, l.shift - 1)
  IN IF l.condition = "hs" THEN carry ELSE ~carry

(* The loop is left with this value of the register:                       *)
(*   compare  CMP #expected, and a branch back on equal or unequal         *)
(*   mask     ANDS mask, and a branch out on unequal                       *)
(*   literal  CMP with a literal, and a branch back on unequal             *)
(*   split    the low bit, CMP #1, and a branch back on equal              *)
(*   extract  the low bits, CMP #0 or #1, and a branch out                 *)
(*   carry    LSRS, and a branch on the carry with its two edges           *)
Exits(l, value) ==
  CASE l.kind = "compare" -> (value = l.expected) # (l.condition = "eq")
    [] l.kind = "mask"    -> Bit(value, l.bit)
    [] l.kind = "literal" -> value = l.expected
    [] l.kind = "split"   -> ~Bit(value, 0)
    [] l.kind = "extract" -> (value % 2^l.bits = l.expected) = (l.condition = "eq")
    [] l.kind = "carry"   -> (IF Taken(l, value) THEN l.taken ELSE l.fall) \in {"exit", "return"}

-------------------------------------------------------------------------------
(* What is inferred from their code.                                       *)

LowestBit(bits) == IF bits = {} THEN 0 ELSE CHOOSE b \in bits : \A c \in bits : b <= c

(* The edge out of the loop: the branch if it goes forward, if the code    *)
(* after it goes back, or if its target returns; but not if its target     *)
(* only retries.                                                           *)
WantTaken(l) ==
  /\ l.taken \in {"exit", "return", "retry"} \/ l.fall = "back"
  /\ l.taken # "retry"

(* Wrong: both conditions wait for the carry.                              *)
Carry_Set(l) == WantTaken(l)

Carry(l) == IF l.condition = "hs" THEN WantTaken(l) ELSE ~WantTaken(l)

(* A grammar matches only if its numbers fit the register.                 *)
Grammars ==
  [kind : {"compare"}, expected : Values, condition : {"eq", "ne"}]
  \cup [kind : {"mask"}, bit : BitSet]
  \cup [kind : {"literal"}, expected : Values]
  \cup [kind : {"split"}]
  \cup [kind : {"extract"}, bits : Nat \ {0}, expected : {0, 1}, condition : {"eq", "ne"}]
  \cup [kind : {"carry"}, shift : 1..Width, condition : {"hs", "lo"},
         taken : {"exit", "return", "retry", "back"}, fall : {"exit", "return", "back"}]

(* The edge that is taken for the way out is one.                          *)
PollReleaseAssumption ==
  /\ Width \in Nat \ {0} /\ Loops \subseteq Grammars
  /\ \A l \in Loops : l.kind = "carry" =>
       (IF WantTaken(l) THEN l.taken ELSE l.fall) \in {"exit", "return"}

(* Wrong: a loop on equality gets the value it loops on.                   *)
Wanted_Same(l) == l.expected

Wanted(l) ==
  IF l.condition = "ne" THEN l.expected ELSE IF l.expected = 0 THEN 1 ELSE 0

Inference(value, bit, state) == [value |-> value, bit |-> bit, state |-> state]

Inferred(l, value) ==
  CASE l.kind = "compare" ->
         LET changed == {b \in BitSet : Bit(value, b) # Bit(Wanted(l), b)}
         IN Inference(Wanted(l), LowestBit(changed), Bit(Wanted(l), LowestBit(changed)))
    [] l.kind = "mask"    -> Inference(With(value, l.bit, TRUE), l.bit, TRUE)
    [] l.kind = "literal" -> Inference(l.expected, 0, Bit(l.expected, 0))
    [] l.kind = "split"   -> Inference(With(value, 0, FALSE), 0, FALSE)
    [] l.kind = "extract" ->
         LET wanted == IF l.condition = "eq" THEN l.expected = 1 ELSE l.expected = 0
         IN Inference(With(value, 0, wanted), 0, wanted)
    [] l.kind = "carry"   ->
         Inference(With(value, l.shift - 1, Carry(l)), l.shift - 1, Carry(l))

-------------------------------------------------------------------------------
(* A read applies the masks to the register first.                         *)
Read(value) == Number((BitsOf(value) \cup poll.set) \ poll.clear)

Waits == poll.loop # Idle /\ ~Exits(poll.loop, Read(poll.value))

(* A bit that is forced already is not released again.                     *)
Supplied(i) == i.bit \in IF i.state THEN poll.set ELSE poll.clear

Enter(l) ==
  /\ poll.loop = Idle
  /\ poll' = [poll EXCEPT !.loop = l, !.releases = 0, !.value = Read(@)]

Leave ==
  /\ poll.loop # Idle /\ ~Waits
  /\ poll' = [poll EXCEPT !.loop = Idle, !.value = Read(@)]

Release ==
  /\ Waits
  /\ LET i == Inferred(poll.loop, Read(poll.value))
     IN /\ ~Supplied(i)
        /\ poll' = [poll EXCEPT !.value = i.value, !.releases = @ + 1,
                                !.set   = IF i.state THEN @ \cup {i.bit} ELSE @ \ {i.bit},
                                !.clear = IF i.state THEN @ \ {i.bit} ELSE @ \cup {i.bit}]

(* The guest writes to the register between two waits.                     *)
Written(value) ==
  /\ poll.loop = Idle
  /\ poll' = [poll EXCEPT !.value = value]

Next ==
  \/ \E l \in Loops : Enter(l)
  \/ Leave
  \/ Release
  \/ \E value \in Values : Written(value)

Spec == Init /\ [][Next]_poll

-------------------------------------------------------------------------------
(* Properties.                                                             *)

(* Two grammars infer less than their loop asks for: a literal is waited   *)
(* for as a whole, but only its lowest bit is ever taken for missing, so   *)
(* it may wait for ever where another release forced a bit before; and of  *)
(* an extracted field only the lowest bit is supplied.                     *)
Exact(l) ==
  /\ l.kind = "literal" /\ poll.releases = 0 => poll.set \cup poll.clear = {}
  /\ l.kind = "literal" => poll.set \cup poll.clear \subseteq {0}
  /\ l.kind = "extract" => l.bits = 1

(* No wait is for ever: while the loop is not left, the next release is    *)
(* not withheld as a repetition, and there are at most as many releases as *)
(* bits.                                                                   *)
ReleasesEndWait ==
  poll.loop # Idle /\ Exact(poll.loop) =>
    /\ poll.releases <= Width
    /\ Waits => ~Supplied(Inferred(poll.loop, Read(poll.value))) /\ poll.releases < Width
===============================================================================
