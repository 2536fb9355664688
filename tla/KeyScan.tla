------------------------------- MODULE KeyScan --------------------------------
(***************************************************************************)
(* devices/input.py: what the guest sees of the keys.  set_key presses a   *)
(* key in one of three ways: as a cell of a detected matrix, as a bit of a *)
(* sideband producer, or as a bit of a configured key register; hooks      *)
(* answer the guest's reads of these registers, and observers follow the   *)
(* event through the firmware's queue.                                     *)
(*                                                                         *)
(* A register bit is TRUE when the key is asserted, whatever its polarity. *)
(* Scans are counted in the code; here scanned says whether one happened   *)
(* since the key was pressed.                                              *)
(***************************************************************************)
EXTENDS Integers, Sequences, FiniteSets

CONSTANTS Keys,       \* handset keys, numbers from 0
          Profiles,   \* what detection and configuration can come up with
          Fillers,    \* event codes that name no key
          MaxEvents   \* bound: events that reach the sink

None == -1
NoProfile == [kind |-> "none"]

(* kind, the event table of rows * columns cells, the number of column     *)
(* senses, the order in which the guest scans rows, the keys whose events  *)
(* are known (evidenced, or from provisional mappings), and the sideband   *)
(* producers, and the capacity of the firmware's ring, 0 where the queue   *)
(* is not known and its observers are not installed.                       *)
KeyScanAssumption ==
  /\ Keys = 0..(Cardinality(Keys) - 1)
  /\ \A p \in Profiles : p.kind = "matrix" =>
       /\ p.events \in Seq(Nat) /\ \A q \in p.producers : q.key \in Keys /\ q.event \in Nat
       /\ p.rows \in Nat \ {0} /\ p.columns \in Nat \ {0} /\ p.senses \in Nat
       /\ \A r \in 0..(p.rows - 1) : \E i \in DOMAIN p.order : p.order[i] = r

VARIABLE keys

Matrix == keys.profile.kind = "matrix"
QueueKnown == Matrix /\ keys.profile.capacity > 0

-------------------------------------------------------------------------------
(* Where a key is.                                                         *)

Least(a, b) == IF a < b THEN a ELSE b

(* Wrong: rows and columns are swapped.                                    *)
CellAt_Swapped(p, i) ==
  [event |-> p.events[i + 1], row |-> i \div p.columns, column |-> i % p.columns]

(* The cell of index i of the event table, which the scanner reads column  *)
(* by column.                                                              *)
CellAt(p, i) == [event |-> p.events[i + 1], row |-> i % p.rows, column |-> i \div p.rows]

Indexes(p) == 0..(Least(Least(Len(p.events), p.rows * p.columns), p.rows * p.senses) - 1)

(* The cells whose event occurs once and names a key.                      *)
UniqueCells(p) ==
  {i \in Indexes(p) : /\ p.events[i + 1] \notin Fillers
                      /\ \A j \in Indexes(p) : p.events[j + 1] = p.events[i + 1] => i = j}

Mapped(p, eventOf) ==
  UNION {{<<b, CellAt(p, i)>> : i \in {j \in UniqueCells(p) : p.events[j + 1] = eventOf[b]}} :
         b \in DOMAIN eventOf}

(* Known mappings win; without one the keys are dealt out in the order of  *)
(* the table.                                                              *)
InTableOrder(p) ==
  {<<Cardinality({j \in UniqueCells(p) : j < i}), CellAt(p, i)>> : i \in UniqueCells(p)}

Positions(p) ==
  IF DOMAIN p.provisional # {}
  THEN Mapped(p, p.provisional)
       \cup {e \in Mapped(p, p.evidenced) : ~ \E f \in Mapped(p, p.provisional) : f[1] = e[1]}
  ELSE IF Mapped(p, p.evidenced) # {} THEN Mapped(p, p.evidenced)
  ELSE {e \in InTableOrder(p) : e[1] \in Keys}

(* The cell of a key, or of an event a user mapped it to by hand.          *)
ManualCells(p, event) ==
  LET matches == {i \in DOMAIN p.events : p.events[i] = event}
  IN IF event \in Fillers \/ Cardinality(matches) # 1 THEN {}
     ELSE {c \in {CellAt(p, i - 1) : i \in matches} : c.row < p.rows /\ c.column < Least(p.columns, p.senses)}

CellsOf(p, bit, event) ==
  IF event = None THEN {e[2] : e \in {f \in Positions(p) : f[1] = bit}} ELSE ManualCells(p, event)

(* Producers that conflict are all left out.                               *)
Conflict(q, r) == q.key = r.key \/ q.event = r.event \/ q.mask = r.mask

Producers(p) == {q \in p.producers : ~ \E r \in p.producers : r # q /\ Conflict(q, r)}

Producer(p, bit, event) ==
  {q \in Producers(p) : IF event = None THEN q.key = bit ELSE q.event = event}

-------------------------------------------------------------------------------
NoScan == [rows |-> {}, found |-> {}, steady |-> FALSE]

TypeOK ==
  /\ keys.held \subseteq Keys /\ keys.side \subseteq Keys
  /\ \A b \in Keys : keys.level[b] \in BOOLEAN /\ keys.baseline[b] \in BOOLEAN
  /\ keys.scanned \subseteq keys.held

Init ==
  \E p \in Profiles :
    keys = [profile  |-> p,
            held     |-> {},      \* held_keys
            cell     |-> [b \in Keys |-> NoProfile],   \* direct_key_positions
            scanned  |-> {},      \* direct_matrix_scans > direct_key_scan_epochs
            side     |-> {},      \* direct_sideband_held_keys
            level    |-> [b \in Keys |-> FALSE],       \* register bits
            baseline |-> [b \in Keys |-> FALSE],
            marker   |-> None, pending |-> <<>>, dequeued |-> None,
            sinks |-> 0, enqueues |-> 0, dequeues |-> 0, tasks |-> 0,
            credits  |-> 0,       \* firmware_key_events
            scan     |-> NoScan,  \* history: the guest's scan of all rows
            answer   |-> [key |-> None, asserted |-> FALSE]]   \* history: the last read

-------------------------------------------------------------------------------
(* set_key.                                                                *)

PressSideband(bit, q) ==
  [keys EXCEPT !.side = @ \cup {bit}, !.baseline[bit] = keys.level[q.key], !.level[q.key] = TRUE]

ReleaseSideband(bit, q) ==
  [keys EXCEPT !.side = @ \ {bit}, !.level[q.key] = keys.baseline[bit], !.baseline[bit] = FALSE]

PressCell(bit, cell) ==
  [keys EXCEPT !.held = @ \cup {bit}, !.cell[bit] = cell, !.scan.steady = FALSE]

ReleaseCell(bit) ==
  [keys EXCEPT !.held = @ \ {bit}, !.cell[bit] = NoProfile, !.scanned = @ \ {bit},
               !.scan.steady = FALSE]

SetRegister(bit, pressed) ==
  IF pressed
  THEN [keys EXCEPT !.held = @ \cup {bit}, !.baseline[bit] = keys.level[bit], !.level[bit] = TRUE]
  ELSE [keys EXCEPT !.held = @ \ {bit}, !.level[bit] = keys.baseline[bit], !.baseline[bit] = FALSE]

(* What a press or a release makes of the keys; {} where it is refused.    *)
Outcomes(bit, pressed, event) ==
  LET p == keys.profile
      producers == IF Matrix THEN Producer(p, bit, event) ELSE {}
      sideband == Cardinality(producers) = 1
      held == IF sideband THEN bit \in keys.side ELSE bit \in keys.held
  IN IF pressed = held THEN {}
     ELSE IF Matrix /\ sideband
     THEN {IF pressed THEN PressSideband(bit, q) ELSE ReleaseSideband(bit, q) : q \in producers}
     ELSE IF Matrix /\ pressed
     THEN {PressCell(bit, c) : c \in IF keys.held = {} THEN CellsOf(p, bit, event) ELSE {}}
     ELSE IF Matrix THEN {ReleaseCell(bit)}
     ELSE IF p.kind = "register" THEN {SetRegister(bit, pressed)} ELSE {}

NoAnswer == [key |-> None, asserted |-> FALSE]

SetKey(bit, pressed, event) ==
  \E k \in Outcomes(bit, pressed, event) : keys' = [k EXCEPT !.answer = NoAnswer]

-------------------------------------------------------------------------------
(* The guest reads the matrix.                                             *)

(* The column whose sense a row answers with, {} for the no-key level.     *)
SenseOf(index) ==
  {keys.cell[b].column : b \in {h \in keys.held : keys.cell[h].row = keys.profile.order[index]}}

(* The firmware looks the event up by the column of the answer.            *)
Decoded(row, columns) ==
  {keys.profile.events[c * keys.profile.rows + row + 1] : c \in columns}

ScanRow(index) ==
  /\ Matrix /\ index \in DOMAIN keys.profile.order
  /\ LET begin == IF index = 1 THEN [NoScan EXCEPT !.steady = TRUE] ELSE keys.scan
     IN keys' = [keys EXCEPT
          !.scanned = keys.held, !.answer = NoAnswer,
          !.scan = [rows |-> begin.rows \cup {index}, steady |-> begin.steady,
                    found |-> begin.found \cup Decoded(keys.profile.order[index], SenseOf(index))]]

(* Wrong: what the guest wrote last is what it reads.                      *)
Reasserted_Native(q) == keys.level[q.key]

(* A key that is held is asserted again.                                   *)
Reasserted(q) == keys.level[q.key] \/ q.key \in keys.side

(* A read of a register with sideband producers.                           *)
ReadSideband(q) ==
  /\ Matrix /\ q \in Producers(keys.profile)
  /\ keys' = [keys EXCEPT !.level[q.key] = Reasserted(q),
                          !.answer = [key |-> q.key, asserted |-> Reasserted(q)]]

(* The key register is memory the guest only reads; no released poll is     *)
(* ever forced on it.                                                      *)
ReadRegister(bit) ==
  /\ keys.profile.kind = "register"
  /\ keys' = [keys EXCEPT !.answer = [key |-> bit, asserted |-> keys.level[bit]]]

GuestWrites(q, asserted) ==
  /\ Matrix /\ q \in Producers(keys.profile)
  /\ keys' = [keys EXCEPT !.level[q.key] = asserted, !.answer = NoAnswer]

-------------------------------------------------------------------------------
(* The observers of the firmware's event queue.                            *)

Credited(event) ==
  \/ \E b \in keys.held : keys.cell[b].event = event /\ b \in keys.scanned
  \/ \E b \in keys.side : \E q \in Producer(keys.profile, b, None) : q.event = event

(* The scanner, or another caller, enters the function that takes events.  *)
EventObserved(event, scanner) ==
  /\ Matrix
  /\ keys.sinks < MaxEvents
  /\ keys' = [keys EXCEPT !.marker = IF scanner THEN event ELSE None,
                          !.sinks = @ + IF scanner THEN 1 ELSE 0,
                          !.credits = @ + IF scanner /\ Credited(event) THEN 1 ELSE 0]

EnqueueObserved(event) ==
  /\ QueueKnown
  /\ keys' = IF event # keys.marker \/ Len(keys.pending) >= keys.profile.capacity
             THEN [keys EXCEPT !.marker = None]
             ELSE [keys EXCEPT !.marker = None, !.pending = Append(@, event), !.enqueues = @ + 1]

(* Wrong: an event a task never took is matched once more.                 *)
AfterStale_Kept == keys.pending

(* An event that was dequeued, but that no task took.                      *)
AfterStale == IF keys.dequeued # None THEN Tail(keys.pending) ELSE keys.pending

DequeueObserved(event) ==
  /\ QueueKnown
  /\ LET left == AfterStale
         matches == left # <<>> /\ Head(left) = event
     IN keys' = [keys EXCEPT !.pending = left, !.dequeued = IF matches THEN event ELSE None,
                             !.dequeues = @ + IF matches THEN 1 ELSE 0]

TaskObserved(event) ==
  /\ QueueKnown /\ keys.dequeued # None
  /\ keys' = [keys EXCEPT !.pending = Tail(@), !.dequeued = None,
                          !.tasks = @ + IF event = keys.dequeued THEN 1 ELSE 0]

Events == IF Matrix THEN {keys.profile.events[i] : i \in DOMAIN keys.profile.events}
                         \cup {q.event : q \in keys.profile.producers} ELSE {}

Next ==
  \/ \E b \in Keys, pressed \in BOOLEAN : SetKey(b, pressed, None)
  \/ \E b \in Keys : \E event \in Events : SetKey(b, TRUE, event)
  \/ \E index \in 1..Cardinality(Keys) : ScanRow(index)
  \/ Matrix /\ \E q \in keys.profile.producers : ReadSideband(q)
  \/ Matrix /\ \E q \in keys.profile.producers, asserted \in BOOLEAN : GuestWrites(q, asserted)
  \/ \E b \in Keys : ReadRegister(b)
  \/ \E event \in Events, scanner \in BOOLEAN : EventObserved(event, scanner)
  \/ \E event \in Events : \/ EnqueueObserved(event) \/ DequeueObserved(event)
                           \/ TaskObserved(event)

Spec == Init /\ [][Next]_keys

-------------------------------------------------------------------------------
(* Properties.                                                             *)

(* A scan of all rows during which nothing was pressed or released finds   *)
(* the event of the key that is held, and no other.                        *)
ScanFindsHeldKey ==
  Matrix /\ keys.scan.steady /\ keys.scan.rows = DOMAIN keys.profile.order =>
    keys.scan.found = {keys.cell[b].event : b \in keys.held}

(* A key that is held reads as pressed, across the guest's writes.         *)
HeldKeysAreRead ==
  keys.answer.key \in (IF Matrix THEN keys.side ELSE keys.held) => keys.answer.asserted

(* Each piece of evidence rests on the one before it: no event is taken    *)
(* twice from the queue.                                                   *)
EvidenceIsOrdered ==
  /\ keys.tasks <= keys.dequeues /\ keys.dequeues <= keys.enqueues /\ keys.enqueues <= keys.sinks
  /\ keys.dequeued # None => keys.pending # <<>> /\ Head(keys.pending) = keys.dequeued
===============================================================================
