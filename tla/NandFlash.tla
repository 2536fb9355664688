------------------------------ MODULE NandFlash -------------------------------
(***************************************************************************)
(* The NAND device of devices/storage/nand.py: the machine behind the      *)
(* command, address and data ports, and the guest's own page routines that *)
(* are replaced by _nand_read_fast, _nand_write_fast and _nand_bad_block.  *)
(*                                                                         *)
(* The image is a row of raw pages, each PageSize data bytes followed by   *)
(* SpareSize spare bytes.  A byte is a set of bits that read 1.  Addresses *)
(* come in cycles of one byte, which has Radix values (256 in the code).   *)
(***************************************************************************)
EXTENDS Integers, Sequences, SequencesExt, FiniteSetsExt

CONSTANTS Bits,
          PageSize, SpareSize, PagesPerBlock, Pages, BusWidth,
          LargePage,       \* nand_page_size > 512
          Radix,
          Values,          \* bytes the guest writes
          Rows,            \* page numbers the guest's routines are called with
          MaxCycles,       \* bound: address cycles in a row
          MaxProgram,      \* bound: data bytes in a row
          MaxChanges       \* bound: entries of nand_operations

Byte    == SUBSET Bits
RawPage == PageSize + SpareSize
End     == Pages * RawPage           \* len(nand_image)
Cells   == 0..(End - 1)

NandAssumption ==
  /\ PageSize \in Nat \ {0} /\ SpareSize \in Nat \ {0, 1}
  /\ PagesPerBlock \in Nat \ {0} /\ Pages \in Nat \ {0}
  /\ BusWidth \in {1, 2} /\ Radix \in Nat \ {0}
  /\ Values \subseteq Byte /\ Rows \subseteq Nat

VARIABLE nand

Modes == {"idle", "status", "read", "read-spare", "program", "program-spare", "erase"}

TypeOK ==
  /\ nand.mode \in Modes
  /\ nand.spare \in BOOLEAN                    \* nand_spare_latched
  /\ nand.address \in Seq(0..(Radix - 1))
  /\ nand.cursor \in Nat
  /\ nand.program \in Seq(Values)
  /\ nand.image \in [Cells -> Byte]
  /\ nand.log \in Seq([kind : {"program", "erase"}, first : Nat, last : Nat,
                       bytes : Seq(Values)])   \* nand_operations

Erased == [c \in Cells |-> Bits]

Init == nand = [mode |-> "idle", spare |-> FALSE, address |-> <<>>, cursor |-> 0,
                program |-> <<>>, image |-> Erased, log |-> <<>>]

Reading     == nand.mode \in {"read", "read-spare"}
Programming == nand.mode \in {"program", "program-spare"}
MayChange   == Len(nand.log) < MaxChanges

-------------------------------------------------------------------------------
(* _nand_program_bytes: cells are cleared up to the end of the image, and  *)
(* what was done is logged.                                                *)
Programmed(n, start, bytes) ==
  LET payload == SubSeq(bytes, 1, Min({Len(bytes), Max({0, End - start})}))
  IN [n EXCEPT
        !.image = [c \in Cells |-> IF c - start + 1 \in DOMAIN payload
                                   THEN n.image[c] \cap payload[c - start + 1]
                                   ELSE n.image[c]],
        !.log = IF payload = <<>> THEN n.log
                ELSE Append(n.log, [kind |-> "program", first |-> start,
                                    last |-> start + Len(payload), bytes |-> payload])]

(* _nand_erase_bytes.                                                      *)
ErasedCells(n, first, last) ==
  LET stop == Min({End, last})
  IN IF first >= stop THEN n
     ELSE [n EXCEPT
             !.image = [c \in Cells |-> IF c \in first..(stop - 1) THEN Bits ELSE n.image[c]],
             !.log = Append(n.log, [kind |-> "erase", first |-> first, last |-> stop,
                                    bytes |-> <<>>])]

-------------------------------------------------------------------------------
(* _nand_command, one action per command.                                  *)

(* 0x70                                                                    *)
ReadStatus == nand' = [nand EXCEPT !.mode = "status"]

(* 0x00 and 0x50                                                           *)
BeginRead(spare) ==
  nand' = [nand EXCEPT !.mode = IF spare THEN "read-spare" ELSE "read",
                       !.spare = spare, !.address = <<>>]

(* 0xFF                                                                    *)
Reset ==
  nand' = [nand EXCEPT !.mode = "idle", !.spare = FALSE, !.address = <<>>]

(* 0x80                                                                    *)
BeginProgram ==
  nand' = [nand EXCEPT !.mode = IF nand.spare THEN "program-spare" ELSE "program",
                       !.address = <<>>, !.program = <<>>]

(* 0x60                                                                    *)
BeginErase ==
  nand' = [nand EXCEPT !.mode = "erase", !.spare = FALSE,
                       !.address = <<>>, !.program = <<>>]

(* Wrong: the page buffer is programmed without an entry in the log.       *)
ConfirmProgram_Unlogged ==
  /\ Programming /\ MayChange
  /\ LET done == Programmed(nand, nand.cursor, nand.program)
     IN nand' = [done EXCEPT !.mode = "status", !.spare = FALSE, !.log = nand.log]

(* 0x10                                                                    *)
ConfirmProgram ==
  /\ Programming /\ MayChange
  /\ LET done == Programmed(nand, nand.cursor, nand.program)
     IN nand' = [done EXCEPT !.mode = "status", !.spare = FALSE]

(* The little-endian number a list of address cycles stands for.           *)
Number(cycles) == FoldRight(LAMBDA low, high : low + Radix * high, cycles, 0)

BlockOf(page) == (page \div PagesPerBlock) * PagesPerBlock * RawPage

(* Wrong: from the addressed page, not from the first one of its block.    *)
ConfirmErase_Unaligned ==
  /\ nand.mode = "erase" /\ nand.address # <<>> /\ MayChange
  /\ LET start == Number(nand.address) * RawPage
         done  == ErasedCells(nand, start, start + PagesPerBlock * RawPage)
     IN nand' = [done EXCEPT !.mode = "status"]

(* 0xD0                                                                    *)
ConfirmErase ==
  /\ nand.mode = "erase" /\ nand.address # <<>> /\ MayChange
  /\ LET start == BlockOf(Number(nand.address))
         done  == ErasedCells(nand, start, start + PagesPerBlock * RawPage)
     IN nand' = [done EXCEPT !.mode = "status"]

Command ==
  \/ ReadStatus \/ Reset \/ BeginProgram \/ BeginErase \/ ConfirmProgram \/ ConfirmErase
  \/ \E spare \in BOOLEAN : BeginRead(spare)

-------------------------------------------------------------------------------
(* _nand_address_write.                                                    *)

ColumnCycles == IF LargePage THEN 2 ELSE 1

(* The cursor once the address has its column and two row cycles; until    *)
(* then the one of the address before stays.                               *)
CursorAt(cycles) ==
  IF nand.mode = "erase" THEN Number(cycles) * RawPage
  ELSE IF Len(cycles) < ColumnCycles + 2 THEN nand.cursor
  ELSE Number(SubSeq(cycles, ColumnCycles + 1, Len(cycles))) * RawPage
       + Number(SubSeq(cycles, 1, ColumnCycles)) * BusWidth
       + (IF nand.mode \in {"read-spare", "program-spare"} THEN PageSize ELSE 0)

Address(cycle) ==
  /\ Reading \/ Programming \/ nand.mode = "erase"
  /\ Len(nand.address) < MaxCycles
  /\ LET cycles == Append(nand.address, cycle)
     IN nand' = [nand EXCEPT !.address = cycles, !.cursor = CursorAt(cycles)]

-------------------------------------------------------------------------------
(* _nand_data_write and _nand_data_read.                                   *)

(* Only what still fits on the page is taken.                              *)
DataWrite(bytes) ==
  /\ Programming
  /\ LET remaining == RawPage - (nand.cursor % RawPage)
         available == Max({0, remaining - Len(nand.program)})
         taken     == SubSeq(bytes, 1, Min({Len(bytes), available}))
     IN /\ Len(nand.program) + Len(taken) <= MaxProgram
        /\ nand' = [nand EXCEPT !.program = nand.program \o taken]

(* In status mode the port shows C0 and nothing moves.                     *)
DataRead(size) ==
  /\ Reading
  /\ nand.cursor + size <= End + MaxProgram
  /\ nand' = [nand EXCEPT !.cursor = nand.cursor + size]

-------------------------------------------------------------------------------
(* The guest's routines.  A call leaves the command machine as it is.      *)

Fits(page, column, length) ==
  /\ 0 < length /\ column < RawPage /\ length <= RawPage - column
  /\ page < Pages

(* _nand_write_fast: on a 16-bit bus column and length are rounded to      *)
(* halfwords (bytes is what lies at the source, rounded up); a call that   *)
(* does not fit changes nothing.                                           *)
FastWrite(page, column, bytes) ==
  LET even == IF BusWidth = 2 THEN column - (column % 2) ELSE column
  IN /\ BusWidth = 2 => Len(bytes) % 2 = 0
     /\ Fits(page, even, Len(bytes)) /\ MayChange
     /\ nand' = Programmed(nand, page * RawPage + even, bytes)

(* What _nand_read_fast copies to the guest of a range that fits.          *)
FastRead(page, column, length) ==
  [i \in 1..length |-> nand.image[page * RawPage + column + i - 1]]

(* _nand_bad_block: the two bytes of the spare area that mark a bad block. *)
GoodBlock(page) ==
  LET marker == page * RawPage + PageSize
  IN /\ page < Pages
     /\ marker + 2 <= End
     /\ \A c \in marker..(marker + 1) : nand.image[c] = Bits

Words == {<<v>> : v \in Values} \cup {<<v, w>> : v, w \in Values}

Next ==
  \/ Command
  \/ \E cycle \in 0..(Radix - 1) : Address(cycle)
  \/ \E bytes \in Words : DataWrite(bytes)
  \/ \E size \in 1..2 : DataRead(size)
  \/ \E page \in Rows, column \in 0..RawPage, bytes \in Words :
       FastWrite(page, column, bytes)

Spec == Init /\ [][Next]_nand

-------------------------------------------------------------------------------
(* Properties.                                                             *)

(* How _save_nand replays one entry onto the file's latest image.          *)
ReplayEntry(entry, image) ==
  [c \in Cells |->
     IF c \notin entry.first..(entry.last - 1) THEN image[c]
     ELSE IF entry.kind = "erase" THEN Bits
     ELSE image[c] \cap entry.bytes[c - entry.first + 1]]

Replayed(log, image) ==
  FoldLeft(LAMBDA latest, entry : ReplayEntry(entry, latest), image, log)

(* The log is all a save knows: replayed on the image the session started  *)
(* with it gives the image the guest sees, whichever way the guest changed *)
(* it and wherever its addresses pointed, also behind the end.             *)
LogIsImage == Replayed(nand.log, Erased) = nand.image

(* Bits come back only by the erase of the block they are in, and then all *)
(* bits of the block: what a page routine read stays or loses bits, and a  *)
(* block the guest marked bad is not reported good again, until it is      *)
(* erased.                                                                 *)
BitsComeBackByErase ==
  LET Row(page) == FastRead(page, 0, RawPage)
      entry     == nand'.log[Len(nand'.log)]
      erases    == Len(nand'.log) > Len(nand.log) /\ entry.kind = "erase"
  IN \A page \in 0..(Pages - 1) :
       IF erases /\ nand.mode = "erase" /\ BlockOf(page) = BlockOf(Number(nand.address))
       THEN \A i \in 1..RawPage : Row(page)'[i] = Bits
       ELSE /\ \A i \in 1..RawPage : Row(page)'[i] \subseteq Row(page)[i]
            /\ GoodBlock(page)' => GoodBlock(page)
===============================================================================
