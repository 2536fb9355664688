------------------------------ MODULE FlashImage ------------------------------
(***************************************************************************)
(* The contents of a persistent medium (NOR, EEPROM or NAND) and the       *)
(* operations the devices log against it.                                  *)
(*                                                                         *)
(* A byte is a set of bits that read 1, so that the NOR rule "a program    *)
(* only clears bits" is intersection and an erased byte is Bits.  A list   *)
(* of logged operations is kept as its composed effect on every byte       *)
(* ("keep these bits, then set those"), which is closed under composition. *)
(***************************************************************************)
CONSTANTS Cells,    \* the bytes of the medium
          Bits      \* the bits of a byte

Byte  == SUBSET Bits
Image == [Cells -> Byte]

Blank == [c \in Cells |-> Bits]      \* an erased medium

(* One entry of _operations: ("program", start, bytes), ("erase", start,   *)
(* end) or ("replace", start, bytes).                                      *)
Operation == [kind : {"program", "erase", "replace"},
              at   : SUBSET Cells,
              byte : Byte]

(* The loop body of _apply_operations: what one entry does to a byte.      *)
ApplyToByte(op, old) ==
  IF op.kind = "program" THEN old \cap op.byte
  ELSE IF op.kind = "erase" THEN Bits ELSE op.byte

ApplyOperation(op, image) ==
  [c \in Cells |-> IF c \in op.at THEN ApplyToByte(op, image[c]) ELSE image[c]]

(***************************************************************************)
(* Composed effects.                                                       *)
(***************************************************************************)
ByteEffect == [keep : Byte, set : Byte]
Effect     == [Cells -> ByteEffect]

NoEffect == [c \in Cells |-> [keep |-> Bits, set |-> {}]]

EffectOf(op) ==
  [c \in Cells |->
     IF c \notin op.at THEN [keep |-> Bits, set |-> {}]
     ELSE [keep |-> IF op.kind = "program" THEN op.byte ELSE {},
           set  |-> ApplyToByte(op, {})]]

Apply(effect, image) ==
  [c \in Cells |-> (image[c] \cap effect[c].keep) \cup effect[c].set]

(* The effect of a list of operations followed by another one.             *)
Then(first, second) ==
  [c \in Cells |->
     [keep |-> first[c].keep \cap second[c].keep,
      set  |-> (first[c].set \cap second[c].keep) \cup second[c].set]]
===============================================================================
