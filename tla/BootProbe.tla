------------------------------ MODULE BootProbe -------------------------------
(***************************************************************************)
(* probe/boot.py: a firmware is run to a list of checkpoints, in chunks;   *)
(* after each chunk an event goes on the timeline, at each checkpoint the  *)
(* phase of the boot is recorded.  Both are read off the same counters.    *)
(*                                                                         *)
(* The emulator is external: its counters only grow, and it shows another  *)
(* frame only when the firmware published one.  Frame_sequence also counts *)
(* the frame that is there before the firmware runs.                       *)
(***************************************************************************)
EXTENDS Integers, Sequences

CONSTANTS Frames, Black,   \* contents of the display, the one without a lit pixel
          Plans,           \* lists of checkpoints
          ChunkSizes,      \* --chunk-steps; 0 for none
          MaxPublished     \* bound: frames the firmware publishes

BootProbeAssumption ==
  /\ Black \in Frames /\ MaxPublished \in Nat /\ ChunkSizes \subseteq Nat
  /\ Plans \subseteq Seq(Nat)
  /\ \A p \in Plans : p # <<>> /\ p[1] > 0 /\ \A i \in 1..(Len(p) - 1) : p[i] < p[i + 1]

VARIABLE probe

Nothing == "none"
Machines ==
  [steps : Nat, seeded : BOOLEAN, published : 0..MaxPublished, frame : Frames,
   lcd : BOOLEAN, ticks : BOOLEAN, storage : BOOLEAN, sink : BOOLEAN, fault : BOOLEAN]

Stages == {"detect", "construct", "baseline", "run", "over", "raised"}

TypeOK ==
  /\ probe.stage \in Stages /\ probe.open \in BOOLEAN
  /\ probe.machine \in Machines /\ probe.left \in Nat
  /\ probe.saw \in BOOLEAN /\ probe.reported \in 0..MaxPublished

Fresh == [steps |-> 0, seeded |-> FALSE, published |-> 0, frame |-> Black, lcd |-> FALSE,
          ticks |-> FALSE, storage |-> FALSE, sink |-> FALSE, fault |-> FALSE]

Init ==
  \E plan \in Plans, size \in ChunkSizes, own \in BOOLEAN :
    probe = [stage |-> "detect", plan |-> plan, size |-> size, status |-> Nothing,
             directory |-> IF own THEN "own" ELSE "given",   \* of the state files
             open |-> FALSE, machine |-> Fresh, next |-> 1, left |-> 0,
             reset |-> Black, shown |-> Black, saw |-> FALSE, last |-> Fresh,
             event |-> Nothing, phase |-> Nothing, reported |-> 0,
             splashes |-> 0]    \* history: events "boot-splash"

-------------------------------------------------------------------------------
(* boot_phase and boot_event.                                              *)

Lit(m) == m.frame # Black
Visible(m) == m.published > 0 /\ Lit(m)
Framed(m) == m.seeded \/ m.published > 0

(* Wrong: any lit frame is one of the firmware's.                          *)
Phase_Seeded(m) ==
  CASE m.fault -> "fault"
    [] ~m.fault /\ Framed(m) /\ Lit(m) -> IF m.ticks THEN "runtime+display" ELSE "visible-frame"
    [] OTHER -> "early-boot"

Phase(m) ==
  CASE m.fault -> "fault"
    [] ~m.fault /\ Visible(m) /\ m.ticks ->
         IF m.storage THEN "runtime+display+storage" ELSE "runtime+display"
    [] ~m.fault /\ Visible(m) /\ ~m.ticks -> "visible-frame"
    [] ~m.fault /\ ~Visible(m) ->
         CASE m.sink /\ ~m.ticks -> "control-sink"
           [] ~(m.sink /\ ~m.ticks) /\ Framed(m) /\ Lit(m) -> "preseed-frame"
           [] ~(m.sink /\ ~m.ticks) /\ ~(Framed(m) /\ Lit(m)) /\ m.lcd -> "display-traffic"
           [] OTHER -> IF m.ticks THEN "scheduler-active" ELSE "early-boot"

(* Wrong: the splash is not remembered.                                    *)
Event_Forgets(m, reset, shown, saw) ==
  IF ~m.fault /\ Visible(m) /\ m.frame # reset THEN "boot-splash" ELSE "early-boot"

Event(m, reset, shown, saw) ==
  CASE m.fault -> "fault"
    [] ~m.fault /\ saw ->
         IF m.published > 0 /\ m.frame # shown THEN "post-splash-changing" ELSE "post-splash-stable"
    [] ~m.fault /\ ~saw /\ Visible(m) ->
         IF m.frame # reset THEN "boot-splash" ELSE "firmware-visible-unchanged"
    [] ~m.fault /\ ~saw /\ ~Visible(m) ->
         CASE m.sink /\ ~m.ticks -> "control-sink"
           [] ~(m.sink /\ ~m.ticks) /\ m.lcd -> "display-traffic"
           [] OTHER -> "early-boot"

-------------------------------------------------------------------------------
(* probe.                                                                  *)

(* What emulator.run(steps) may come back with.                            *)
After(m, steps) ==
  {n \in [steps : {m.steps + steps}, seeded : {m.seeded}, published : m.published..MaxPublished,
          frame : Frames, lcd : BOOLEAN, ticks : BOOLEAN, storage : BOOLEAN, sink : BOOLEAN,
          fault : BOOLEAN] :
     /\ n.frame # m.frame => n.published > m.published
     /\ n.published > m.published => n.lcd
     /\ \A counter \in {"lcd", "ticks", "storage"} : m[counter] => n[counter]}

(* The configuration is refused before anything is opened.                 *)
Detect ==
  /\ probe.stage = "detect"
  /\ \/ probe' = [probe EXCEPT !.stage = "over", !.status = "rejected", !.directory = Nothing]
     \/ probe' = [probe EXCEPT !.stage = "construct"]

(* The own directory goes with the block, the emulator before it.          *)
Abandoned == [probe EXCEPT !.stage = "raised", !.open = FALSE,
                           !.directory = IF @ = "own" THEN Nothing ELSE @]

Construct ==
  /\ probe.stage = "construct"
  /\ \/ probe' = Abandoned
     \/ \E seed \in Frames :
          probe' = [probe EXCEPT !.stage = "baseline", !.open = TRUE,
                      !.machine = [Fresh EXCEPT !.seeded = seed # Black, !.frame = seed]]

Baseline ==
  /\ probe.stage = "baseline"
  /\ probe' = [probe EXCEPT !.stage = "run", !.left = probe.plan[1],
                 !.reset = probe.machine.frame, !.shown = probe.machine.frame,
                 !.last = probe.machine]

Raise ==
  /\ probe.stage \in {"baseline", "run"} /\ (probe.stage = "run" => probe.left > 0)
  /\ probe' = Abandoned

(* Wrong: a chunk may run past its checkpoint.                             *)
ChunkOf_Whole(left, size) == IF size = 0 THEN left ELSE size
ChunkOf(left, size) == IF size = 0 \/ left < size THEN left ELSE size

(* Wrong: the counters of a chunk are compared with those of the start.    *)
LastState_Baseline(m) == probe.last
LastState(m) == m

(* A fault ends the chunks of the checkpoint.                              *)
Chunk ==
  /\ probe.stage = "run" /\ probe.left > 0
  /\ LET steps == ChunkOf(probe.left, probe.size) IN
     \E m \in After(probe.machine, steps) :
       LET event == Event(m, probe.reset, probe.shown, probe.saw) IN
       probe' = [probe EXCEPT
         !.machine = m, !.left = IF m.fault \/ @ <= steps THEN 0 ELSE @ - steps,
         !.event = event, !.saw = @ \/ event = "boot-splash",
         !.splashes = @ + (IF event = "boot-splash" THEN 1 ELSE 0),
         !.reported = @ + (m.published - probe.last.published),
         !.last = LastState(m), !.shown = m.frame]

(* The checkpoint is recorded, with a picture of what the firmware shows.  *)
Checkpoint ==
  /\ probe.stage = "run" /\ probe.left = 0 /\ probe.phase = Nothing
  /\ probe' = [probe EXCEPT !.phase = Phase(probe.machine)]

(* On to the next one, or out: close, the directory, the status.           *)
Advance ==
  /\ probe.stage = "run" /\ probe.phase # Nothing
  /\ IF probe.machine.fault \/ probe.next = Len(probe.plan)
     THEN probe' = [Abandoned EXCEPT !.stage = "over",
            !.status = IF probe.machine.fault THEN "fault" ELSE "budget-exhausted"]
     ELSE probe' = [probe EXCEPT !.next = @ + 1, !.phase = Nothing,
            !.left = probe.plan[probe.next + 1] - probe.plan[probe.next]]

Next == Detect \/ Construct \/ Baseline \/ Raise \/ Chunk \/ Checkpoint \/ Advance

Spec == Init /\ [][Next]_probe

-------------------------------------------------------------------------------
(* Properties.                                                             *)

Shows == {"boot-splash", "firmware-visible-unchanged", "post-splash-changing", "post-splash-stable"}
Displays == {"visible-frame", "runtime+display", "runtime+display+storage"}

(* The two classifiers read a checkpoint alike: what the phase calls a     *)
(* visible frame the timeline never takes for the frame that was there at  *)
(* reset, and until a splash is over the other way round                   *)
(* (test_preseed_frame_is_not_runtime_display).                            *)
ClassifiersAgree ==
  probe.phase # Nothing =>
    /\ (probe.phase = "fault") <=> (probe.event = "fault")
    /\ probe.phase \in Displays => probe.event \in Shows
    /\ probe.event \in {"boot-splash", "firmware-visible-unchanged"} => probe.phase \in Displays
    /\ probe.event = "control-sink" => probe.phase = "control-sink"

(* The timeline: one splash at most, and deltas that add up.               *)
TimelineAddsUp ==
  /\ probe.splashes <= 1 /\ (probe.saw <=> probe.splashes = 1)
  /\ probe.stage \in {"run", "over"} => probe.reported = probe.machine.published

(* A checkpoint is recorded at its own step count unless the guest faulted,*)
(* and nothing is left open behind the probe.                              *)
CheckpointsAreExact ==
  /\ probe.phase # Nothing /\ ~probe.machine.fault => probe.machine.steps = probe.plan[probe.next]
  /\ probe.stage \in {"over", "raised"} => ~probe.open /\ probe.directory # "own"
===============================================================================
