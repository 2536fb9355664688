------------------------------- MODULE NorCalls -------------------------------
(***************************************************************************)
(* devices/storage/nor.py: routines of the firmware for its second NOR     *)
(* whose work a hook at their entry does.  The commands of the device are  *)
(* NorFlash's, what a hook does when the code was changed HleCalls'.       *)
(*                                                                         *)
(* A cell has one bit, 1 when erased; the second NOR's offset 0 is at      *)
(* address Base, the RAM has addresses below it.  A routine that a hook    *)
(* leaves alone is "native": the firmware goes on by itself.               *)
(***************************************************************************)
EXTENDS Integers, Sequences

CONSTANTS Capacity,    \* cells of the second NOR
          RamSize,     \* cells of the RAM, at addresses from 0
          Base,        \* secondary_flash_address
          MaxLog       \* bound: programs of the second NOR

Offsets == 0..(Capacity - 1)
Bit == {0, 1}
Routines == {"read", "legacy", "bulk", "perWord"}

NorCallsAssumption ==
  /\ {Capacity, RamSize, Base, MaxLog} \subseteq Nat
  /\ Base >= RamSize /\ Base >= Capacity

VARIABLE nor

NoCall == [routine |-> "none", answer |-> "none"]

TypeOK ==
  /\ nor.data \in [Offsets -> Bit] /\ nor.memory \in [Offsets -> Bit]
  /\ nor.ram \in [0..(RamSize - 1) -> Bit] /\ nor.bypass \in BOOLEAN
  /\ Len(nor.log) <= MaxLog

Init ==
  \E seed \in [Offsets -> Bit] :
    nor = [data |-> seed, memory |-> seed, seed |-> seed, log |-> <<>>, bypass |-> FALSE,
           ram |-> [a \in 0..(RamSize - 1) |-> a % 2],
           call |-> NoCall]      \* history: the last call, what was before it

-------------------------------------------------------------------------------
(* NORFlash.program: bits are only cleared, and the log has what came.     *)

Range(start, length) == start..(start + length - 1)
Fits(start, length) == length > 0 /\ Range(start, length) \subseteq Offsets

And(old, new) == old * new

Cleared(data, offset, values) ==
  [o \in Offsets |-> IF o \in Range(offset, Len(values)) THEN And(data[o], values[o - offset + 1])
                     ELSE data[o]]

Programmed(n, offset, values) ==
  LET data == Cleared(n.data, offset, values)
  IN [n EXCEPT !.data = data, !.log = Append(@, [at |-> offset, values |-> values]),
               !.memory = [o \in Offsets |-> IF o \in Range(offset, Len(values)) THEN data[o] ELSE @[o]]]

Incoming(source, length) == [i \in 1..length |-> nor.ram[source + i - 1]]

InRam(address, length) == address >= 0 /\ address + length <= RamSize

-------------------------------------------------------------------------------
(* _secondary_flash_read_fast and _secondary_flash_write_fast.             *)

Called(n, routine, buffer, at, length, answer) ==
  [n EXCEPT !.call = [routine |-> routine, buffer |-> buffer, at |-> at, length |-> length,
                      answer |-> answer, data |-> nor.data, ram |-> nor.ram]]

(* Wrong: what is read starts with the device, not at the offset.          *)
Delivered_Start(destination, offset, length) ==
  [a \in DOMAIN nor.ram |-> IF a \in Range(destination, length) THEN nor.data[a - destination]
                            ELSE nor.ram[a]]

Delivered(destination, offset, length) ==
  [a \in DOMAIN nor.ram |-> IF a \in Range(destination, length) THEN nor.data[offset + a - destination]
                            ELSE nor.ram[a]]

ReadFast(destination, offset, length) ==
  /\ nor.call = NoCall
  /\ LET Answered(n, answer) == Called(n, "read", destination, offset, length, answer)
     IN nor' = IF ~InRam(destination, length) THEN Answered(nor, "native")
               ELSE IF Fits(offset, length)
               THEN Answered([nor EXCEPT !.ram = Delivered(destination, offset, length)], "done")
               ELSE Answered(nor, "error")

(* Wrong: the legacy writer is only given offsets.                         *)
OffsetOf_Raw(routine, destination) == IF routine = "bulk" THEN destination - Base ELSE destination

(* The legacy writer takes an offset, or an address of the NOR.            *)
OffsetOf(routine, destination) ==
  IF routine = "bulk" \/ destination \in Range(Base, Capacity) THEN destination - Base ELSE destination

(* Wrong: bits of the unlock-bypass writer may come back.                  *)
BulkMay_Raise(offset, values) == nor.bypass

(* The unlock-bypass writer verifies: the device must be in bypass, and no *)
(* bit may have to be set.                                                 *)
BulkMay(offset, values) ==
  nor.bypass /\ \A i \in DOMAIN values : And(nor.data[offset + i - 1], values[i]) = values[i]

WriteAnswer(routine, source, destination, length, odd) ==
  LET offset == OffsetOf(routine, destination) IN
  CASE routine = "perWord" -> "native"
    [] routine = "bulk" /\ odd -> "error"
    [] routine = "bulk" /\ ~odd /\ length = 0 -> "done"
    [] OTHER ->
         IF ~InRam(source, length) THEN "native"
         ELSE IF routine = "bulk" /\ ~Fits(offset, length) THEN "native"
         ELSE IF ~Fits(offset, length) THEN "error"
         ELSE IF routine = "bulk" /\ ~BulkMay(offset, Incoming(source, length)) THEN "native"
         ELSE "done"

WriteFast(routine, source, destination, length, odd) ==
  LET answer == WriteAnswer(routine, source, destination, length, odd)
      offset == OffsetOf(routine, destination)
      n == IF answer = "done" /\ length > 0
           THEN Programmed(nor, offset, Incoming(source, length)) ELSE nor
  IN /\ nor.call = NoCall /\ Len(nor.log) < MaxLog
     /\ nor' = Called(n, routine, source, destination, length, answer)

(* The guest goes on: it stores to its RAM, or sets or leaves the bypass.  *)
GuestReturns == nor.call # NoCall /\ nor' = [nor EXCEPT !.call = NoCall]

GuestStores(address, bit) ==
  nor.call = NoCall /\ nor' = [nor EXCEPT !.ram[address] = bit]

GuestBypasses == nor.call = NoCall /\ nor' = [nor EXCEPT !.bypass = ~@]

-------------------------------------------------------------------------------
Next ==
  \/ \E destination \in 0..RamSize, offset \in 0..Capacity, length \in 0..2 :
       ReadFast(destination, offset, length)
  \/ \E routine \in Routines \ {"read"}, source \in 0..RamSize,
        destination \in (0..Capacity) \cup (Base..(Base + Capacity)), length \in 0..2, odd \in BOOLEAN :
       WriteFast(routine, source, destination, length, odd)
  \/ \E address \in 0..(RamSize - 1), bit \in Bit : GuestStores(address, bit)
  \/ GuestBypasses
  \/ GuestReturns

Spec == Init /\ [][Next]_nor

-------------------------------------------------------------------------------
(* Properties.                                                             *)

(* What a save writes is what the guest did: the log leads from the seed   *)
(* to the image, and the guest's memory shows the image.                   *)
LogIsImage ==
  LET after[i \in 0..Len(nor.log)] ==
        IF i = 0 THEN nor.seed ELSE Cleared(after[i - 1], nor.log[i].at, nor.log[i].values)
  IN nor.data = after[Len(nor.log)] /\ nor.memory = nor.data

(* A hooked call that reports success did what the firmware asked: a read  *)
(* leaves the device's bits in the buffer and nothing else changed, the    *)
(* verifying writer stores to the bit, and no writer touches a cell that   *)
(* it was not given.  One that fails or is left to the firmware changed    *)
(* nothing, and a range inside the device is never an error                *)
(* (test_fujitsu_bulk_hle_normalizes_absolute_secondary_address).          *)
CallsDoTheirWork ==
  LET c == nor.call IN
  c.answer # "none" =>
    LET at == IF c.routine # "read" /\ c.at >= Base THEN c.at - Base ELSE c.at IN
    /\ c.answer \in {"native", "error"} => nor.data = c.data /\ nor.ram = c.ram
    /\ c.answer = "error" /\ c.routine # "bulk" => ~Fits(at, c.length)
    /\ c.answer = "done" /\ c.routine = "read" =>
         /\ nor.data = c.data
         /\ \A a \in 0..(RamSize - 1) :
              nor.ram[a] = IF a \in Range(c.buffer, c.length) THEN c.data[at + a - c.buffer] ELSE c.ram[a]
    /\ c.answer = "done" /\ c.routine = "bulk" =>
         \A i \in 0..(c.length - 1) : nor.memory[at + i] = c.ram[c.buffer + i]
    /\ c.answer = "done" /\ c.routine = "legacy" =>
         \A i \in 0..(c.length - 1) : nor.memory[at + i] = And(c.data[at + i], c.ram[c.buffer + i])
    /\ c.answer = "done" /\ c.routine # "read" =>
         /\ nor.ram = c.ram
         /\ \A o \in Offsets \ Range(at, c.length) : nor.memory[o] = c.data[o]
===============================================================================
