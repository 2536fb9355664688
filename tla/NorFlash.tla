------------------------------- MODULE NorFlash -------------------------------
(***************************************************************************)
(* One AMD-command NOR device behind the guest's memory: NORFlash.write /  *)
(* read and the Unicorn hooks _flash_write / _flash_read of NorStorageMixin*)
(* (the probe observer they also feed has no effect on the device; it is   *)
(* the module NorProbe).                                                   *)
(*                                                                         *)
(* The guest reads ordinary mapped memory (visible).  A store hook runs    *)
(* just before the store lands, so the raw stored value is visible until   *)
(* the bytes kept in restore are written back: before the next read of the *)
(* device, at the next basic block and at the end of a run.                *)
(*                                                                         *)
(* A cell is one bus unit; all accesses have its size.                     *)
(***************************************************************************)
EXTENDS FlashImage, Naturals

CONSTANTS First, Second,   \* cells at page offsets AAA/555 and 554/2AA
          PageBase,        \* the first cell of a cell's page
          IdCells,         \* per page, the cells of the two identifier words
          SectorOf,        \* the erase sector of a cell
          Board,           \* cells of the board-revision register
          BitsOf,          \* the bits of a stored value
          IdBits,          \* what an identifier word reads
          Identifiable,    \* whether identifiers can be detected at run time
          GuestStores,     \* the <<cell, value>> pairs the guest stores
          EraseOwnBlock,   \* TRUE: the store confirming an erase is the first
                           \* store of its basic block
          InitialImages,   \* the contents the device may start with
          Nothing          \* no bytes kept for a cell

Values == DOMAIN BitsOf

ASSUME NorFlashAssumption ==
  /\ First \subseteq Cells /\ Second \subseteq Cells /\ Board \subseteq Cells
  /\ PageBase \in [Cells -> Cells]
  /\ IdCells \in [Cells -> SUBSET Cells]
  /\ SectorOf \in [Cells -> SUBSET Cells]
  /\ BitsOf \in [Values -> Byte] /\ IdBits \in Byte
  /\ GuestStores \subseteq Cells \X Values
  /\ Identifiable \in BOOLEAN /\ EraseOwnBlock \in BOOLEAN
  /\ InitialImages \subseteq Image
  /\ \A b \in Byte : Nothing # b

Phases == {"idle", "unlock1", "unlock2", "program", "erase1", "erase2",
           "erase3", "bypass", "bypass_program", "bypass_exit", "autoselect"}

VARIABLES phase, commandBase, ids, contents,   \* the device
          visible, restore,                    \* guest memory over it
          recent, previous, lastCell           \* history, see below

norVars == <<phase, commandBase, ids, contents, visible, restore,
             recent, previous, lastCell>>

NorTypeOK ==
  /\ phase \in Phases
  /\ commandBase \in Cells
  /\ ids \in BOOLEAN
  /\ contents \in Image /\ visible \in Image
  /\ restore \in [Cells -> {Nothing} \cup Byte]
  /\ recent \in [1..5 -> {"AA", "55", "80", "-"}]
  /\ previous \in {"A0", "10", "30", "other"} /\ lastCell \in Cells

NorInit ==
  /\ phase = "idle"
  /\ commandBase \in {c \in Cells : PageBase[c] = c}
  /\ ids \in BOOLEAN
  /\ contents \in InitialImages /\ visible = contents
  /\ restore = [c \in Cells |-> Nothing]
  /\ recent = [i \in 1..5 |-> "-"] /\ previous = "other" /\ lastCell = commandBase

-------------------------------------------------------------------------------
(* The command state machine: NORFlash.write.                              *)

(* <<phase, value, the cells it must be stored at, next phase>>            *)
Transitions ==
  { <<"idle",        "AA", First,  "unlock1">>,
    <<"unlock1",     "55", Second, "unlock2">>,
    <<"unlock2",     "A0", First,  "program">>,
    <<"unlock2",     "80", First,  "erase1">>,
    <<"unlock2",     "20", First,  "bypass">>,
    <<"unlock2",     "90", First,  "autoselect">>,
    <<"erase1",      "AA", First,  "erase2">>,
    <<"erase2",      "55", Second, "erase3">>,
    <<"bypass",      "A0", Cells,  "bypass_program">>,
    <<"bypass",      "90", Cells,  "bypass_exit">>,
    <<"bypass_exit", "00", Cells,  "idle">> }

Applies(t, a, v) == t[1] = phase /\ t[2] = v /\ a \in t[3]

(* Wrong: the cycle after the unlock is taken for data.                    *)
DataPhases_TooSoon == {"program", "bypass_program", "unlock2"}

DataPhases == {"program", "bypass_program"}

(* In a data phase every value is data, the reset opcode F0 included.      *)
NextPhase(a, v) ==
  IF phase \in DataPhases
  THEN IF phase = "bypass_program" THEN "bypass" ELSE "idle"
  ELSE IF v = "F0" THEN "idle"
  ELSE IF \E t \in Transitions : Applies(t, a, v)
  THEN (CHOOSE t \in Transitions : Applies(t, a, v))[4]
  ELSE IF phase \in {"bypass", "bypass_exit"} THEN "bypass" ELSE "idle"

(* Wrong: the second unlock of the erase command is not waited for.        *)
Erased_TooSoon(a, v) ==
  IF phase \notin {"erase2", "erase3"} THEN {}
  ELSE IF v = "10" /\ a \in First THEN Cells
  ELSE IF v = "30" THEN SectorOf[a] ELSE {}

(* Wrong: a sector erase takes the range of the chip.                      *)
Erased_Wide(a, v) ==
  IF phase = "erase3" /\ (v = "30" \/ (v = "10" /\ a \in First)) THEN Cells ELSE {}

(* The cells _erase clears on this store, if it confirms an erase.         *)
Erased(a, v) ==
  IF phase # "erase3" THEN {}
  ELSE IF v = "10" /\ a \in First THEN Cells
  ELSE IF v = "30" THEN SectorOf[a] ELSE {}

(* The device's contents after the store.                                  *)
DataAfter(a, v) ==
  [c \in Cells |->
     IF c = a /\ phase \in DataPhases THEN contents[c] \cap BitsOf[v]
     ELSE IF c \in Erased(a, v) THEN Bits ELSE contents[c]]

(* Wrong: an erase is not reported to the hook.                            *)
Modified_ProgramOnly(a, v) == IF phase \in DataPhases THEN {a} ELSE {}

(* modified_range: written back to guest memory by the hook.               *)
Modified(a, v) == IF phase \in DataPhases THEN {a} ELSE Erased(a, v)

-------------------------------------------------------------------------------
(* History for the properties: the last five stores, as far as they are    *)
(* cycles of the erase command, and the value and cell of the last store.  *)

EraseCommand == << "AA", "55", "80", "AA", "55" >>

Cycle(a, v) ==
  IF \/ v \in {"AA", "80"} /\ a \in First
     \/ v = "55" /\ a \in Second
  THEN v ELSE "-"

RecordStore(a, v) ==
  /\ recent' = [i \in 1..5 |-> IF i < 5 THEN recent[i + 1] ELSE Cycle(a, v)]
  /\ previous' = IF v \in {"A0", "10", "30"} THEN v ELSE "other"
  /\ lastCell' = a

-------------------------------------------------------------------------------
(* The hooks.                                                              *)

Flushed == [c \in Cells |-> IF restore[c] = Nothing THEN visible[c] ELSE restore[c]]
NoneKept == [c \in Cells |-> Nothing]

(* _flash_write, then the store lands.                                     *)
FlashWrite(a, v) ==
  /\ a \notin Board
  /\ EraseOwnBlock /\ phase = "erase3" => restore = NoneKept
  /\ phase' = NextPhase(a, v)
  /\ commandBase' = IF phase = "idle" /\ NextPhase(a, v) = "unlock1"
                    THEN PageBase[a] ELSE commandBase
  /\ contents' = DataAfter(a, v)
  /\ visible' = [c \in Cells |-> IF c = a THEN BitsOf[v]
                                 ELSE IF c \in Modified(a, v) THEN DataAfter(a, v)[c]
                                 ELSE visible[c]]
  /\ restore' = [restore EXCEPT ![a] = DataAfter(a, v)[a]]
  /\ RecordStore(a, v)
  /\ UNCHANGED ids

(* A store to the board-revision register is not the device's: both hooks  *)
(* return at once and the stored value stays.                              *)
BoardStore(a, v) ==
  /\ a \in Board
  /\ visible' = [visible EXCEPT ![a] = BitsOf[v]]
  /\ UNCHANGED <<phase, commandBase, ids, contents, restore, recent, previous, lastCell>>

(* _flash_read: restore, identify on the first autoselect read, show the   *)
(* identifier for this one access.                                         *)
Read(a) ==
  /\ a \notin Board
  /\ ids' = (ids \/ (phase = "autoselect" /\ Identifiable))
  /\ LET id == phase = "autoselect" /\ ids'
         word == IF a \in IdCells[commandBase] THEN IdBits ELSE contents[a]
     IN /\ visible' = IF id THEN [Flushed EXCEPT ![a] = word] ELSE Flushed
        /\ restore' = IF id THEN [NoneKept EXCEPT ![a] = contents[a]] ELSE NoneKept
  /\ UNCHANGED <<phase, commandBase, contents, recent, previous, lastCell>>

(* _trace at the next basic block, and the end of run().                   *)
Flush ==
  /\ restore # NoneKept
  /\ visible' = Flushed
  /\ restore' = NoneKept
  /\ UNCHANGED <<phase, commandBase, ids, contents, recent, previous, lastCell>>

NorNext ==
  \/ \E s \in GuestStores : FlashWrite(s[1], s[2]) \/ BoardStore(s[1], s[2])
  \/ \E a \in Cells : Read(a)
  \/ Flush

NorSpec == NorInit /\ [][NorNext]_norVars

-------------------------------------------------------------------------------
(* Properties.                                                             *)

(* Once the kept bytes are written back, the guest's memory is the flash:  *)
(* "Restore on the following read so same-basic-block RAM probes still see *)
(* real NOR" (comment in _flash_read).                                     *)
GuestSeesFlash == \A c \in Cells \ Board : Flushed[c] = contents[c]

(* A bit goes from 0 to 1 only when the last five stores spelled the erase *)
(* command and the store of this step (previous', lastCell') confirms it,  *)
(* and then only inside what that store selects: 30 the sector of its      *)
(* cell, 10 at an unlock offset the chip.                                  *)
OnlyEraseSetsBits ==
  [][\A c \in Cells :
       ~ contents'[c] \subseteq contents[c] =>
         /\ recent = EraseCommand
         /\ \/ previous' = "30" /\ c \in SectorOf[lastCell']
            \/ previous' = "10" /\ lastCell' \in First]_norVars

(* A bit goes from 1 to 0 only by the store right after A0, and only in    *)
(* the one cell that store addresses.                                      *)
OnlyProgramClearsBits ==
  [][\A c \in Cells :
       ~ contents[c] \subseteq contents'[c] => previous = "A0" /\ c = lastCell']_norVars

-------------------------------------------------------------------------------
(* The instance TLC checks: one page whose cells are the page start (data, *)
(* and also an identifier word), the two unlock offsets, and a             *)
(* board-revision register in a sector of its own; one bit per cell.       *)
Start       == CHOOSE c \in Cells : c \notin First \cup Second \cup Board
OnePage     == [c \in Cells |-> Start]
StartIsId   == [c \in Cells |-> {Start}]
BoardApart  == [c \in Cells |-> IF c \in Board THEN Board ELSE Cells \ Board]
MixedImage  == {[c \in Cells |-> IF c = Start THEN Bits ELSE {}]}
TopBit == [v \in {"AA", "55", "A0", "80", "20", "90", "F0", "10", "30", "00", "FF"} |->
             IF v \in {"AA", "A0", "80", "90", "F0", "FF"} THEN Bits ELSE {}]

(* Programs, also in unlock bypass, erases of the sector and of the chip,  *)
(* autoselect, and stores to the board-revision register; the datum 00,    *)
(* and the datum F0 that is also the reset.                                *)
AllStores == (First \X {"AA", "A0", "80", "10", "20", "90"}) \cup (Second \X {"55"})
             \cup ({Start} \X {"30", "00", "F0"}) \cup (Board \X {"00"})

(* An erase driver whose sector holds the unlock offsets.                  *)
OneEraseStores == (First \X {"AA", "80"}) \cup (Second \X {"55"}) \cup ({Start} \X {"30"})
===============================================================================
