------------------------------- MODULE BoardAdc --------------------------------
(***************************************************************************)
(* The board's converter: the guest's reader routine (soc/adc.py) and the  *)
(* second transport that soc/sbi.py observes and, for one exact sequence   *)
(* of accesses, answers.  A write hook runs before the write lands.        *)
(***************************************************************************)
EXTENDS Integers, Sequences

CONSTANTS Words,       \* words the guest writes to the second transport
          AdcValue,    \* config.board_adc_value
          Channels,    \* channels it reads
          MaxDc0       \* bound: accesses to the second transport

MaxWord == 65535

BoardAdcAssumption ==
  /\ Words \subseteq 0..MaxWord /\ AdcValue \in 0..255
  /\ Channels \subseteq Nat /\ MaxDc0 \in Nat

VARIABLE adc

None == -1

Control == 34942       \* DC0_BOARD_ADC_CONTROL
Request == 45568       \* DC0_BOARD_ADC_READ

TypeOK ==
  /\ adc.channel \in {None} \cup Channels    \* _board_adc_reader_channel
  /\ adc.data \in 0..MaxWord                   \* the word at SBI_DATA
  /\ adc.sequence \in 0..MaxDc0              \* _dc0_sequence
  /\ adc.control_at \in 0..MaxDc0            \* sequence of _dc0_last_control
  /\ adc.control_word \in 0..MaxWord           \* _dc0_last_control_word
  /\ adc.dc0 \in 0..MaxWord                    \* the word at DC0_DATA
  /\ adc.epoch.open \in BOOLEAN              \* _dc0_pending is not None
  /\ adc.epoch.answered \in BOOLEAN

NoEpoch == [open |-> FALSE, word |-> 0, starts |-> <<>>, answered |-> FALSE]

Init == adc = [channel |-> None, data |-> 0, sequence |-> 0, control_at |-> 0,
               control_word |-> 0, dc0 |-> 0, epoch |-> NoEpoch]

-------------------------------------------------------------------------------
(* _board_adc_reader_entry: the routine notes its channel; code that no    *)
(* longer is the detected one forgets it.                                  *)
ReaderEntry(channel, intact) ==
  adc' = [adc EXCEPT !.channel = IF intact THEN channel ELSE None]

(* _board_adc_reader_data_read, for the reader's own load in code that is  *)
(* unchanged; any other access is left alone.                              *)
DataRead ==
  adc' = [adc EXCEPT !.channel = None,
                     !.data = IF adc.channel = 2
                              THEN @ - (@ % 256) + AdcValue ELSE @]

(* The guest writes the data register itself.                              *)
DataWrite(word) == adc' = [adc EXCEPT !.data = word]

-------------------------------------------------------------------------------
(* The second transport, _dc0_observer_write and _dc0_observer_read.       *)

MayAccess == adc.sequence < MaxDc0

Dc0Control(word) ==
  /\ MayAccess
  /\ adc' = [adc EXCEPT !.sequence = @ + 1, !.control_at = adc.sequence + 1,
                        !.control_word = word]

(* Wrong: a new request keeps the mark of the one before.                  *)
Dc0Data_Keeps(word) ==
  /\ MayAccess
  /\ adc' = [adc EXCEPT !.sequence = @ + 1, !.dc0 = word,
                        !.epoch = [@ EXCEPT !.open = TRUE, !.word = word]]

Dc0Data(word) ==
  /\ MayAccess
  /\ adc' = [adc EXCEPT !.sequence = @ + 1, !.dc0 = word,
                        !.epoch = [NoEpoch EXCEPT !.open = TRUE, !.word = word]]

(* The tail of the start values; only four are kept.                       *)
Tail2(starts) == SubSeq(starts, Len(starts) - 1, Len(starts))

(* A start: the converter answers once to the control word, the read       *)
(* request and the two starts when nothing came between.                   *)
Dc0Start(value) ==
  /\ MayAccess
  /\ LET starts == IF Len(adc.epoch.starts) < 4 THEN Append(adc.epoch.starts, value)
                                                ELSE adc.epoch.starts
         answer == /\ adc.epoch.open
                   /\ Len(starts) >= 2 /\ Tail2(starts) = <<0, 1>>
                   /\ ~adc.epoch.answered
                   /\ adc.control_word = Control
                   /\ adc.control_at > 0 /\ adc.control_at = adc.sequence + 1 - 3
                   /\ adc.epoch.word = Request
         epoch == [adc.epoch EXCEPT !.starts = starts, !.answered = @ \/ answer]
     IN adc' = [adc EXCEPT
                  !.sequence = @ + 1,
                  !.epoch = IF @.open THEN epoch ELSE @,
                  !.dc0 = IF answer THEN Request + AdcValue ELSE @]

Dc0StatusRead == MayAccess /\ adc' = [adc EXCEPT !.sequence = @ + 1]

(* The read back closes the epoch.                                         *)
Dc0DataRead == MayAccess /\ adc' = [adc EXCEPT !.sequence = @ + 1, !.epoch = NoEpoch]

Next ==
  \/ \E channel \in Channels, intact \in BOOLEAN : ReaderEntry(channel, intact)
  \/ DataRead
  \/ \E word \in Words : DataWrite(word) \/ Dc0Control(word) \/ Dc0Data(word)
  \/ \E value \in {0, 1} : Dc0Start(value)
  \/ Dc0StatusRead
  \/ Dc0DataRead

Spec == Init /\ [][Next]_adc

-------------------------------------------------------------------------------
(* Properties.                                                             *)

(* What the guest reads back in an epoch is what the epoch says: the       *)
(* converter's answer when it was answered, the word that was written      *)
(* when it was not (_dc0_observer_write, _dc0_observer_read).              *)
ReadbackIsTheAnswer ==
  adc.epoch.open =>
    adc.dc0 = IF adc.epoch.answered THEN Request + AdcValue ELSE adc.epoch.word
===============================================================================
