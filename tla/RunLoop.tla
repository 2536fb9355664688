-------------------------------- MODULE RunLoop --------------------------------
(***************************************************************************)
(* GenericMSMEmulator.run of core/runtime.py and what it does between two  *)
(* chunks of guest instructions: the fast boot, the release of a hardware  *)
(* poll (core/memory_bus.py), and the ends by fault and by host error.     *)
(*                                                                         *)
(* The caller asks for steps in slices of its own; a chunk never passes    *)
(* the end of an observation window.  A poll is a load that a loop repeats *)
(* until a bit has a state; each instruction of a chunk spent in a poll    *)
(* counts as one of its reads.                                             *)
(***************************************************************************)
EXTENDS Integers, FiniteSets

CONSTANTS Window,      \* POLL_OBSERVATION_STEPS
          Hot,         \* reads that make a poll a stuck one, 100 in the code
          Slices,      \* numbers of steps the callers ask for
          Probes,      \* their fast_boot_probe
          Polls,       \* [bit, state]: what each poll waits for
          Inert,       \* polls that may not be released: protected or unknown
          HasLinker,   \* the primary image has the linker table of a fast boot
          MaxSteps     \* bound: instructions

RunLoopAssumption ==
  /\ Window \in Nat \ {0} /\ Hot \in Nat /\ MaxSteps \in Nat
  /\ Slices \subseteq Nat /\ Probes \subseteq Nat \ {0} /\ Probes # {}
  /\ \A p \in Polls : p.state \in BOOLEAN
  /\ Inert \subseteq Polls /\ HasLinker \in BOOLEAN

VARIABLE machine

Bits   == {p.bit : p \in Polls}
Faults == {"none", "guest", "host"}

TypeOK ==
  /\ machine.remaining \in Nat                 \* of this run, 0 between runs
  /\ machine.probe \in Probes
  /\ machine.window \in 1..Window              \* _poll_window_remaining
  /\ machine.instructions \in Nat
  /\ machine.reads \in [Polls -> Nat]          \* mmio_reads
  /\ machine.candidates \subseteq Polls        \* _poll_candidate_chunks is 1
  /\ machine.set \subseteq Bits /\ machine.clear \subseteq Bits  \* ready_bits
  /\ machine.fault \in Faults
  /\ machine.fast \in BOOLEAN                  \* fast_boot_used
  /\ machine.hle \in BOOLEAN                   \* hot_loop_hle_used
  /\ machine.decisions \in Nat
  /\ machine.stuck \in [Polls -> 0..2]  \* windows the poll was stuck in, 2 for more

Init ==
  machine = [remaining |-> 0, probe |-> CHOOSE p \in Probes : TRUE, window |-> Window,
             instructions |-> 0, reads |-> [p \in Polls |-> 0], candidates |-> {},
             set |-> {}, clear |-> {}, fault |-> "none", fast |-> FALSE,
             hle |-> FALSE, decisions |-> 0, stuck |-> [p \in Polls |-> 0]]

Idle == machine.remaining = 0

(* run is called.  After a host error it only raises it again; after a     *)
(* guest fault its first chunk ends the same way, and is left out.         *)
Run(steps, probe) ==
  /\ Idle /\ machine.fault = "none"
  /\ machine.instructions + steps <= MaxSteps
  /\ machine' = [machine EXCEPT !.remaining = steps, !.probe = probe]

Least(a, b) == IF a <= b THEN a ELSE b

(* Wrong: a chunk may go past the end of the window.                      *)
Chunk_Unwindowed == Least(machine.remaining, machine.probe)
Chunk == Least(machine.remaining, Least(machine.probe, machine.window))

-------------------------------------------------------------------------------
(* _release_hardware_poll.                                                 *)

(* The bit already reads as the poll wants it.                             *)
Supplied(m, p) == p.bit \in IF p.state THEN m.set ELSE m.clear

(* A poll that is read often enough, may be released and still waits.      *)
Stuck(m) == {p \in Polls \ Inert : m.reads[p] >= Hot /\ ~Supplied(m, p)}

(* Wrong: the opposite mask keeps the bit.                                 *)
Released_Both(m, p) ==
  [m EXCEPT !.candidates = @ \ {p},
            !.set = IF p.state THEN @ \cup {p.bit} ELSE @,
            !.clear = IF p.state THEN @ ELSE @ \cup {p.bit}]

Released(m, p) ==
  [m EXCEPT !.candidates = @ \ {p},
            !.set = IF p.state THEN @ \cup {p.bit} ELSE @ \ {p.bit},
            !.clear = IF p.state THEN @ \ {p.bit} ELSE @ \cup {p.bit}]

(* The polls are tried from the hottest on: those met for the first time   *)
(* are noted, and the first one noted in an earlier window is released.    *)
Hotter(m, p, q) == m.reads[p] > m.reads[q]

ReleasePoll(m) ==
  LET again == Stuck(m) \cap m.candidates
      noted(p) == {q \in Stuck(m) : Hotter(m, q, p)}
  IN IF again = {} THEN {[m EXCEPT !.candidates = @ \cup Stuck(m)]}
     ELSE {Released([m EXCEPT !.candidates = @ \cup noted(p)], p) :
             p \in {q \in again : ~ \E r \in again : Hotter(m, r, q)}}

-------------------------------------------------------------------------------
(* One turn of the loop of run.                                            *)

(* The window begins with cleared counts.                                  *)
Observed(m) == IF m.window = Window THEN [m EXCEPT !.reads = [p \in Polls |-> 0]] ELSE m

(* What the guest does in a chunk: it may poll, and enter the structural   *)
(* loops that hle/memory_ops.py replaces.                                  *)
Executed(m, poll, hle) ==
  [Observed(m) EXCEPT !.reads = [p \in Polls |-> @[p] + IF p = poll THEN Chunk ELSE 0],
                      !.hle = @ \/ hle]

(* The chunk is counted.                                                   *)
Counted(m) == [m EXCEPT !.instructions = @ + Chunk, !.window = @ - Chunk]

(* What the end of a window decides, and the next window.                  *)
Decided(m, repeated) ==
  LET seen == [m EXCEPT !.window = Window, !.decisions = @ + 1,
                        !.stuck = [p \in Polls |-> IF m.reads[p] >= Hot
                                                  THEN Least(2, @[p] + 1) ELSE @[p]]]
  IN IF HasLinker /\ ~m.fast /\ ~m.hle /\ repeated
     THEN {[seen EXCEPT !.fast = TRUE]}        \* _apply_linker
     ELSE ReleasePoll(seen)

(* What is left of this run.                                               *)
Continued(m) == [m EXCEPT !.remaining = @ - Chunk]

(* Wrong: every run begins a window.                                       *)
ChunkRuns_Anew(poll, hle, repeated) ==
  /\ ~Idle
  /\ LET m == Counted(Executed(machine, poll, hle))
     IN machine' \in {IF Continued(n).remaining = 0
                      THEN [Continued(n) EXCEPT !.window = Window] ELSE Continued(n) :
                      n \in IF m.window = 0 THEN Decided(m, repeated) ELSE {m}}

(* A chunk that runs to its end.                                           *)
ChunkRuns(poll, hle, repeated) ==
  /\ ~Idle
  /\ LET m == Counted(Executed(machine, poll, hle))
     IN machine' \in {Continued(n) : n \in IF m.window = 0 THEN Decided(m, repeated)
                                                          ELSE {m}}

(* A chunk that ends in a fault: a hook's or Unicorn's own error.  It is   *)
(* not counted, and this run is over.                                      *)
ChunkFaults(poll) ==
  /\ ~Idle
  /\ machine' = [Executed(machine, poll, FALSE) EXCEPT
                   !.fault = "guest", !.remaining = 0]

(* A host error: nothing after it runs the guest.                          *)
HostFails == ~Idle /\ machine' = [machine EXCEPT !.fault = "host", !.remaining = 0]

Next ==
  \/ \E steps \in Slices, probe \in Probes : Run(steps, probe)
  \/ \E poll \in Polls : \E hle, repeated \in BOOLEAN :
       ChunkRuns(poll, hle, repeated)
  \/ \E poll \in Polls : ChunkFaults(poll)
  \/ HostFails

Spec == Init /\ [][Next]_machine

-------------------------------------------------------------------------------
(* Properties.                                                             *)

(* "Hardware-poll release is guest-visible; keep the established           *)
(* observation cadence independent of GUI/public run() partitions"         *)
(* (core/constants.py): however the callers slice the steps, decisions are *)
(* made at the multiples of the window and nowhere else.                   *)
CadenceIgnoresSlices ==
  /\ machine.instructions = machine.decisions * Window + (Window - machine.window)
  /\ \A p \in Polls : machine.reads[p] > 0 /\ machine.fault = "none" =>
       machine.reads[p] <= Window

(* A bit is never forced both ways, and is forced only for a poll that was *)
(* stuck in two whole windows; a fast boot happens before any HLE work.    *)
ForcedBitsAreWaitedFor ==
  /\ machine.set \cap machine.clear = {}
  /\ \A b \in machine.set \cup machine.clear :
       \E p \in Polls \ Inert :
         p.bit = b /\ p.state = (b \in machine.set) /\ machine.stuck[p] >= 2
===============================================================================
