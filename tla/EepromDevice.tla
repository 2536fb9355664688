----------------------------- MODULE EepromDevice ------------------------------
(***************************************************************************)
(* The serial EEPROM of devices/storage/eeprom.py: the guest's transport   *)
(* routines are replaced by _eeprom_read_fast and _eeprom_write_fast.  The *)
(* image is loaded at the first call, when the guest's own descriptor (or  *)
(* a static one) tells the capacity; a call that cannot be served is left  *)
(* to the guest's routine ("native").                                      *)
(***************************************************************************)
EXTENDS Integers, Sequences, SequencesExt

CONSTANTS Values,        \* values of a byte
          Blank,         \* the erased one, FF
          Descriptors,   \* descriptors the guest may have, and Unknown
          Unknown,       \* a descriptor that is not supported
          Capacity,      \* capacity a supported descriptor stands for
          StrictEnd,     \* the write routine excludes the last byte
          Files,         \* contents the state file may have, <<>> if absent
          MaxWrites      \* bound: entries of eeprom_operations

EepromAssumption ==
  /\ Blank \in Values /\ Unknown \in Descriptors
  /\ Capacity \in [Descriptors \ {Unknown} -> Nat \ {0}]
  /\ Files \subseteq Seq(Values)

VARIABLE eeprom

Results == {"none", "native", "ok", "error"}

TypeOK ==
  /\ eeprom.descriptor \in Descriptors
  /\ eeprom.file \in Files
  /\ eeprom.data \in Seq(Values)               \* <<>> until it is loaded
  /\ eeprom.loaded \in Seq(Values)
  /\ eeprom.log \in Seq([at : Nat, bytes : Seq(Values)])  \* eeprom_operations
  /\ eeprom.failed \in BOOLEAN                 \* eeprom_error is set
  /\ eeprom.result \in Results                 \* of the last call

Init ==
  \E file \in Files, descriptor \in Descriptors :
    eeprom = [descriptor |-> descriptor, file |-> file, data |-> <<>>,
              loaded |-> <<>>, log |-> <<>>, failed |-> FALSE, result |-> "none"]

(* The guest's memory changes under the descriptor.                        *)
Redescribe(descriptor) ==
  eeprom' = [eeprom EXCEPT !.descriptor = descriptor, !.result = "none"]

-------------------------------------------------------------------------------
(* _ensure_eeprom.                                                         *)

Known == eeprom.descriptor # Unknown

(* The state file can be used: it is absent or has the right size.         *)
FileFits == Len(eeprom.file) \in {0, Capacity[eeprom.descriptor]}

Ready ==
  /\ Known
  /\ IF eeprom.data # <<>> THEN Len(eeprom.data) = Capacity[eeprom.descriptor]
     ELSE FileFits

(* The EEPROM once it is ready: loaded if this is the first call.          *)
Ensured ==
  LET cap   == Capacity[eeprom.descriptor]
      fresh == IF eeprom.file = <<>> THEN [i \in 1..cap |-> Blank] ELSE eeprom.file
  IN IF eeprom.data # <<>> THEN [eeprom EXCEPT !.failed = FALSE]
     ELSE [eeprom EXCEPT !.data = fresh, !.loaded = fresh, !.failed = FALSE]

(* Every refusal leaves a message in eeprom_error.                         *)
Refused == [eeprom EXCEPT !.failed = TRUE, !.result = "native"]

-------------------------------------------------------------------------------
(* _eeprom_range_valid, with offsets counted from 0.                       *)
InRange(e, offset, length) ==
  LET capacity == Len(e.data)
  IN IF length = 0 THEN offset < capacity
     ELSE /\ length <= capacity
          /\ IF StrictEnd THEN offset + length < capacity
                          ELSE offset + length <= capacity

(* _eeprom_read_fast; hosted says that the destination is RAM.             *)
Read(offset, length, hosted) ==
  eeprom' =
    IF ~Ready THEN Refused
    ELSE IF length > 0 /\ ~hosted THEN [Ensured EXCEPT !.result = "native"]
    ELSE [Ensured EXCEPT !.result =
            IF InRange(Ensured, offset, length) THEN "ok" ELSE "error"]

Stored(e, offset, bytes) ==
  [i \in DOMAIN e |-> IF i - offset \in DOMAIN bytes THEN bytes[i - offset] ELSE e[i]]

(* Wrong: the write is not logged when it rewrites what is there.          *)
Write_SkipsSame(offset, bytes, hosted) ==
  /\ Len(eeprom.log) < MaxWrites
  /\ eeprom' =
       IF ~Ready THEN Refused
       ELSE IF bytes # <<>> /\ ~hosted THEN [Ensured EXCEPT !.result = "native"]
       ELSE IF ~InRange(Ensured, offset, Len(bytes)) THEN [Ensured EXCEPT !.result = "error"]
       ELSE IF bytes = <<>> THEN [Ensured EXCEPT !.result = "ok"]
       ELSE [Ensured EXCEPT !.result = "ok",
               !.data = Stored(Ensured.data, offset, bytes),
               !.log = IF Stored(Ensured.loaded, offset, bytes) = Ensured.loaded
                       THEN @ ELSE Append(@, [at |-> offset, bytes |-> bytes])]

(* _eeprom_write_fast; hosted says that the source may be read.            *)
Write(offset, bytes, hosted) ==
  /\ Len(eeprom.log) < MaxWrites
  /\ eeprom' =
       IF ~Ready THEN Refused
       ELSE IF bytes # <<>> /\ ~hosted THEN [Ensured EXCEPT !.result = "native"]
       ELSE IF ~InRange(Ensured, offset, Len(bytes)) THEN [Ensured EXCEPT !.result = "error"]
       ELSE IF bytes = <<>> THEN [Ensured EXCEPT !.result = "ok"]
       ELSE [Ensured EXCEPT !.result = "ok",
               !.data = Stored(Ensured.data, offset, bytes),
               !.log = Append(@, [at |-> offset, bytes |-> bytes])]

Payloads == {<<>>} \cup {<<v>> : v \in Values} \cup {<<v, w>> : v, w \in Values}
Offsets  == 0..5

Next ==
  \/ \E descriptor \in Descriptors : Redescribe(descriptor)
  \/ \E offset \in Offsets, hosted \in BOOLEAN :
       \/ \E length \in 0..2 : Read(offset, length, hosted)
       \/ \E bytes \in Payloads : Write(offset, bytes, hosted)

Spec == Init /\ [][Next]_eeprom

-------------------------------------------------------------------------------
(* Properties.                                                             *)

(* What _save_eeprom will write explains what the guest sees: the log      *)
(* replayed on the image this session loaded is its image, and the image   *)
(* keeps the size it was loaded with although the guest's descriptor may   *)
(* change, so that the save finds a file of its own capacity.              *)
LogIsImage ==
  /\ FoldLeft(LAMBDA latest, entry : Stored(latest, entry.at, entry.bytes),
              eeprom.loaded, eeprom.log) = eeprom.data
  /\ eeprom.data # <<>> => Len(eeprom.file) \in {0, Len(eeprom.data)}
===============================================================================
