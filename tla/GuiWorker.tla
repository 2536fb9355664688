------------------------------- MODULE GuiWorker ------------------------------
(***************************************************************************)
(* The GUI thread and the worker threads that own emulators: Window and    *)
(* WorkerMixin (gui/app.py, gui/worker.py), and _refresh of                *)
(* DisplayViewMixin.                                                       *)
(*                                                                         *)
(* Every restart of the GUI is a new generation.  A generation's worker    *)
(* is started only when its predecessor's thread has ended; the GUI polls  *)
(* for that with timer callbacks.  A Tk callback runs to its end before    *)
(* the next one starts, but for the box with save errors that              *)
(* _start_when_stopped may open in front of the start: while it is open,   *)
(* timers go on and the window may be closed, though the user can reach no *)
(* other button.  Worker steps interleave with callbacks and with each     *)
(* other.  There is one stop event per generation, named by it.            *)
(***************************************************************************)
EXTENDS Naturals, TLAPS

CONSTANTS MaxGeneration     \* bound: generations of one session

ASSUME GuiWorkerAssumption == MaxGeneration \in Nat \ {0}

Generations == 1..MaxGeneration

VARIABLES generation, closing,   \* self.generation, self.closing
          window,                \* "open", "joining" in _close, "destroyed"
          worker,                \* whose thread self.worker is, 0: none
          stopOf,                \* whose stop event self.stop is
          stopped,               \* the stop events that are set
          callbacks,             \* generations with a pending _start_when_stopped
          prompt,                \* whose start waits for the box with save errors, 0: none
          emulator,              \* whose emulator self.emulator is, 0: None
          thread,                \* per generation, where its worker is
          profiles,              \* workers whose detected profile is in self.states
          overrides,             \* the generation self.overrides belongs to
          saveErrors,            \* workers with an entry in self.save_errors
          update                 \* "none", "ready", "launched"

vars == <<generation, closing, window, worker, stopOf, stopped, callbacks, prompt,
          emulator, thread, profiles, overrides, saveErrors, update>>

tk == <<generation, closing, window, worker, stopOf, stopped, callbacks, prompt,
        overrides, update>>     \* what only callbacks change

Threads == {"none", "detecting", "built", "assigning", "entering", "running",
            "closing", "ending", "dead"}

TypeOK ==
  /\ generation \in 0..MaxGeneration
  /\ closing \in BOOLEAN
  /\ window \in {"open", "joining", "destroyed"}
  /\ worker \in 0..MaxGeneration /\ stopOf \in 0..MaxGeneration
  /\ stopped \subseteq 0..MaxGeneration
  /\ callbacks \subseteq Generations
  /\ prompt \in 0..MaxGeneration
  /\ emulator \in 0..MaxGeneration
  /\ thread \in [Generations -> Threads]
  /\ profiles \subseteq Generations
  /\ overrides \in 0..MaxGeneration
  /\ saveErrors \subseteq Generations
  /\ update \in {"none", "ready", "launched"}

Alive(g) == g # 0 /\ thread[g] \notin {"none", "dead"}

(* Window.__init__ up to its _restart.                                     *)
Init ==
  /\ generation = 0 /\ closing = FALSE /\ window = "open"
  /\ worker = 0 /\ stopOf = 0 /\ stopped = {} /\ callbacks = {} /\ prompt = 0
  /\ emulator = 0 /\ thread = [g \in Generations |-> "none"]
  /\ profiles = {} /\ overrides = 0 /\ saveErrors = {} /\ update = "none"

-------------------------------------------------------------------------------
(* Tk callbacks.                                                           *)

(* The end of _start_when_stopped.                                         *)
StartThread(g) ==
  /\ stopOf' = g
  /\ worker' = g
  /\ thread' = [thread EXCEPT ![g] = "detecting"]

(* Wrong: save errors stay in the queue.                                   *)
Start_HidesErrors(g) == StartThread(g) /\ UNCHANGED <<saveErrors, prompt>>

(* _start_when_stopped, once no worker is alive: save errors are shown     *)
(* before the thread is started, in a box that waits for the user.         *)
Start(g) ==
  \/ saveErrors = {} /\ StartThread(g) /\ UNCHANGED <<saveErrors, prompt>>
  \/ /\ saveErrors # {}
     /\ saveErrors' = {}
     /\ prompt' = g
     /\ UNCHANGED <<stopOf, worker, thread>>

(* Wrong: the start goes on when the window was closed behind the box.     *)
BoxCloses_Regardless ==
  /\ window # "joining"
  /\ prompt # 0
  /\ StartThread(prompt)
  /\ prompt' = 0
  /\ UNCHANGED <<generation, closing, window, stopped, callbacks, emulator,
                 profiles, overrides, saveErrors, update>>

(* The user has read the errors: the thread is started, with no new look   *)
(* at the generation.  When the window goes, showerror raises instead.     *)
BoxCloses ==
  /\ window = "open"
  /\ prompt # 0
  /\ StartThread(prompt)
  /\ prompt' = 0
  /\ UNCHANGED <<generation, closing, window, stopped, callbacks, emulator,
                 profiles, overrides, saveErrors, update>>

(* _restart, called with new settings, and the _start_when_stopped it ends *)
(* with.                                                                   *)
Restart ==
  /\ window = "open" /\ prompt = 0        \* a button, out of reach behind the box
  /\ generation + 1 < MaxGeneration        \* the last one is _close's
  /\ generation' = generation + 1
  /\ overrides' = generation'
  /\ stopped' = stopped \cup {stopOf}
  /\ emulator' = 0
  /\ IF Alive(worker)
     THEN /\ callbacks' = callbacks \cup {generation'}
          /\ UNCHANGED <<saveErrors, stopOf, worker, thread, prompt>>
     ELSE Start(generation') /\ UNCHANGED callbacks
  /\ UNCHANGED <<closing, window, profiles, update>>

(* Wrong: the callback starts the worker at once, or gives up for good     *)
(* when it comes too early.                                                *)
StartWhenStopped_NoWait(g) ==
  /\ window = "open"
  /\ g \in callbacks
  /\ callbacks' = callbacks \ {g}
  /\ IF closing \/ g # generation
     THEN UNCHANGED <<saveErrors, stopOf, worker, thread, prompt>>
     ELSE Start(g)
  /\ UNCHANGED <<generation, closing, window, stopped, emulator, profiles,
                 overrides, update>>

StartWhenStopped_GivesUp(g) ==
  /\ window = "open"
  /\ g \in callbacks
  /\ callbacks' = callbacks \ {g}
  /\ IF closing \/ g # generation \/ Alive(worker)
     THEN UNCHANGED <<saveErrors, stopOf, worker, thread, prompt>>
     ELSE Start(g)
  /\ UNCHANGED <<generation, closing, window, stopped, emulator, profiles,
                 overrides, update>>

(* A pending _start_when_stopped: stale, too early, or time to start.      *)
StartWhenStopped(g) ==
  /\ window = "open"
  /\ g \in callbacks
  /\ g = generation => ~ Alive(worker)
  /\ callbacks' = callbacks \ {g}
  /\ IF closing \/ g # generation
     THEN UNCHANGED <<saveErrors, stopOf, worker, thread, prompt>>
     ELSE Start(g)
  /\ UNCHANGED <<generation, closing, window, stopped, emulator, profiles,
                 overrides, update>>

(* Wrong: the worker is not told to stop.                                  *)
BeginClose_ForgetsStop ==
  /\ closing' = TRUE
  /\ window' = "joining"
  /\ generation' = generation + 1
  /\ stopped' = stopped

(* _close, up to its join.                                                 *)
BeginClose ==
  /\ closing' = TRUE
  /\ window' = "joining"
  /\ generation' = generation + 1
  /\ stopped' = stopped \cup {stopOf}

Close ==
  /\ window = "open" /\ generation # 0
  /\ BeginClose
  /\ UNCHANGED <<worker, stopOf, callbacks, prompt, emulator, thread, profiles,
                 overrides, saveErrors, update>>

(* Wrong: the window does not wait for the worker.                         *)
Destroy_NoJoin ==
  /\ window = "joining"
  /\ window' = "destroyed"
  /\ saveErrors' = {}
  /\ update' = IF update = "ready" THEN "launched" ELSE update
  /\ UNCHANGED <<generation, closing, worker, stopOf, stopped, callbacks, prompt,
                 emulator, thread, profiles, overrides>>

(* The join is over: show the save errors, destroy the window, and start   *)
(* the updater when _launch_update called.                                 *)
Destroy ==
  /\ window = "joining"
  /\ ~ Alive(worker)
  /\ window' = "destroyed"
  /\ saveErrors' = {}
  /\ update' = IF update = "ready" THEN "launched" ELSE update
  /\ UNCHANGED <<generation, closing, worker, stopOf, stopped, callbacks, prompt,
                 emulator, thread, profiles, overrides>>

(* The download thread has put ("ready", ...) in update_results.           *)
UpdateReady ==
  /\ window = "open" /\ generation # 0
  /\ update = "none"
  /\ update' = "ready"
  /\ UNCHANGED <<generation, closing, window, worker, stopOf, stopped,
                 callbacks, prompt, emulator, thread, profiles, overrides, saveErrors>>

(* Wrong: a late answer of an overtaken worker counts.                     *)
Refresh_AnyGeneration ==
  /\ window = "open" /\ generation # 0
  /\ saveErrors # {} \/ profiles # {} \/ update = "ready"
  /\ saveErrors' = {}
  /\ IF update = "ready"
     THEN BeginClose /\ UNCHANGED <<profiles, overrides>>
     ELSE /\ profiles' = {}
          /\ overrides' = IF profiles # {} THEN CHOOSE g \in profiles : TRUE ELSE overrides
          /\ UNCHANGED <<closing, window, generation, stopped>>
  /\ UNCHANGED <<worker, stopOf, callbacks, prompt, emulator, thread, update>>

(* _refresh: save errors, a ready update, then every queued state, of      *)
(* which only those of the current generation count.                       *)
Refresh ==
  /\ window = "open" /\ generation # 0
  /\ saveErrors # {} \/ profiles # {} \/ update = "ready"
  /\ saveErrors' = {}
  /\ IF update = "ready"
     THEN BeginClose /\ UNCHANGED <<profiles, overrides>>
     ELSE /\ profiles' = {}
          /\ overrides' = IF generation \in profiles THEN generation ELSE overrides
          /\ UNCHANGED <<closing, window, generation, stopped>>
  /\ UNCHANGED <<worker, stopOf, callbacks, prompt, emulator, thread, update>>

-------------------------------------------------------------------------------
(* _run of generation g's worker.                                          *)

At(g, here) == thread[g] = here
Go(g, there) == thread' = [thread EXCEPT ![g] = there]

(* detect_profile and GenericMSMEmulator(config), which loads the state    *)
(* files; an exception before there is an emulator ends the thread.        *)
Build(g) ==
  /\ At(g, "detecting")
  /\ Go(g, "built") \/ Go(g, "dead")
  /\ UNCHANGED <<tk, emulator, profiles, saveErrors>>

(* if generation == self.generation:                                       *)
LookAtGeneration(g) ==
  /\ At(g, "built")
  /\ Go(g, IF g = generation THEN "assigning" ELSE "entering")
  /\ UNCHANGED <<tk, emulator, profiles, saveErrors>>

(*     self.emulator = emulator                                            *)
AssignEmulator(g) ==
  /\ At(g, "assigning")
  /\ emulator' = g
  /\ Go(g, "entering")
  /\ UNCHANGED <<tk, profiles, saveErrors>>

EnterLoop(g) ==
  /\ At(g, "entering")
  /\ profiles' = profiles \cup {g}
  /\ Go(g, "running")
  /\ UNCHANGED <<tk, emulator, saveErrors>>

(* The loop ends: the stop event, a guest fault, a host backend fault or   *)
(* an exception.                                                           *)
LeaveLoop(g) ==
  /\ At(g, "running")
  /\ Go(g, "closing")
  /\ UNCHANGED <<tk, emulator, profiles, saveErrors>>

SeeStop(g) == g \in stopped /\ LeaveLoop(g)
Faults(g)  == g \notin stopped /\ LeaveLoop(g)

(* emulator.close(): the state is saved, or the failure reported.          *)
CloseEmulator(g) ==
  /\ At(g, "closing")
  /\ saveErrors' = saveErrors \/ saveErrors' = saveErrors \cup {g}
  /\ Go(g, "ending")
  /\ UNCHANGED <<tk, emulator, profiles>>

End(g) ==
  /\ At(g, "ending")
  /\ Go(g, "dead")
  /\ UNCHANGED <<tk, emulator, profiles, saveErrors>>

Step(g) ==
  \/ Build(g) \/ LookAtGeneration(g) \/ AssignEmulator(g) \/ EnterLoop(g)
  \/ SeeStop(g) \/ CloseEmulator(g) \/ End(g)

Next ==
  \/ Restart \/ Close \/ Destroy \/ UpdateReady \/ Refresh \/ BoxCloses
  \/ \E g \in Generations : StartWhenStopped(g) \/ Step(g) \/ Faults(g)

Spec == Init /\ [][Next]_vars

(* Threads are scheduled, one run of 25,000 instructions ends, and Tk      *)
(* delivers timer callbacks and resumes after the join.                    *)
FairSpec ==
  /\ Spec
  /\ \A g \in Generations : WF_vars(Step(g)) /\ WF_vars(StartWhenStopped(g))
  /\ WF_vars(Destroy) /\ WF_vars(Refresh)

-------------------------------------------------------------------------------
(* Properties.                                                             *)

(* No two emulators at once: a worker builds its emulator, and so reads    *)
(* the state files, after its predecessor has saved and ended.             *)
OneWorker ==
  \A g, h \in Generations : Alive(g) /\ Alive(h) => g = h

(* A worker that is no longer wanted has been told: the stop event it      *)
(* watches is set, although self.stop is replaced at every start.          *)
StopReachesWorker ==
  \A g \in Generations : Alive(g) /\ (g # generation \/ closing) => g \in stopped

(* While the worker of the current generation runs the guest, the GUI      *)
(* talks to its emulator: the assignment an overtaken worker makes after   *)
(* its look at the generation never lasts into the next worker's run.      *)
EmulatorIsCurrent ==
  generation \in Generations /\ thread[generation] = "running" /\ ~ closing =>
    emulator = generation

(* The settings the GUI holds are those of the last restart, or what that  *)
(* restart's worker made of them, never an earlier worker's late answer.   *)
OverridesAreCurrent == overrides = generation \/ closing

(* An error of a save is on screen before a later worker starts, before    *)
(* the window is destroyed and before the updater runs.                    *)
SaveErrorsAreShown ==
  /\ \A g \in saveErrors : g = worker
  /\ window = "destroyed" => saveErrors = {}

(* When the window is gone, and then when the updater replaces the files,  *)
(* no worker is left that has state to save, and none starts again.        *)
NothingRunsAfterClose ==
  window = "destroyed" \/ update = "launched" =>
    \A g \in Generations : ~ Alive(g)

(* A restart gets its worker, or waits only for the user to read a save    *)
(* error, unless another restart or a close overtakes it.                  *)
RestartsComplete ==
  \A g \in Generations :
    generation = g /\ ~ closing ~>
      closing \/ generation # g \/ thread[g] # "none" \/ prompt = g

(* Closing the window ends: the join waits for no thread that waits on Tk. *)
CloseCompletes == closing ~> window = "destroyed"

-------------------------------------------------------------------------------
(***************************************************************************)
(* Proofs, for any number of generations: all the safety invariants follow *)
(* from one inductive invariant, which says that every live thread is the  *)
(* one in self.worker, and that self.stop is its event.                    *)
(***************************************************************************)

(* A live thread is the one the GUI polls and joins.                       *)
LiveIsWorker == \A g \in Generations : Alive(g) => g = worker

(* self.stop is the event of self.worker, and set when the worker has been *)
(* overtaken.                                                              *)
StopIsWorkers ==
  /\ stopOf = worker
  /\ worker # generation \/ closing => stopOf \in stopped

(* Threads are started for generations that have come, the GUI's own calls *)
(* stop with the window.                                                   *)
WindowInv ==
  /\ worker <= generation
  /\ \A g \in Generations : g > generation => thread[g] = "none"
  /\ closing <=> window # "open"
  /\ window = "open" => generation < MaxGeneration
  /\ window = "destroyed" => ~ Alive(worker)
  /\ update = "launched" => window = "destroyed"

(* A start that waits for the box is the last restart's, and nothing else  *)
(* can start its worker meanwhile.                                         *)
BoxInv ==
  /\ callbacks \subseteq 1..generation
  /\ window = "open" /\ prompt # 0 =>
       prompt = generation /\ generation \notin callbacks /\ ~ Alive(worker) /\ saveErrors = {}

(* From the assignment on, the current worker's emulator is the GUI's.     *)
AssignedInv ==
  \A g \in Generations :
    g = generation /\ ~ closing /\ thread[g] \in {"entering", "running"} =>
      emulator = g

IInv ==
  /\ TypeOK
  /\ LiveIsWorker /\ StopIsWorkers /\ WindowInv /\ BoxInv /\ AssignedInv
  /\ OverridesAreCurrent /\ SaveErrorsAreShown

USE GuiWorkerAssumption DEF GuiWorkerAssumption

(* Before the first restart there is nothing.                              *)
LEMMA InitIInv == Init => IInv
<1> SUFFICES ASSUME Init
             PROVE  IInv
  OBVIOUS
<1>1. TypeOK
  <2>1. 0 \in 0..MaxGeneration
    OBVIOUS
  <2>2. thread \in [Generations -> Threads]
    BY DEF Init, Threads
  <2>3. QED BY <2>1, <2>2 DEF Init, TypeOK
<1>2. \A g \in Generations : thread[g] = "none"
  BY DEF Init
<1>3. LiveIsWorker /\ AssignedInv
  BY <1>2 DEF LiveIsWorker, AssignedInv, Alive
<1>4. StopIsWorkers /\ OverridesAreCurrent /\ SaveErrorsAreShown
  BY DEF Init, StopIsWorkers, OverridesAreCurrent, SaveErrorsAreShown
<1>5. WindowInv /\ BoxInv
  BY <1>2 DEF Init, WindowInv, BoxInv
<1>6. QED BY <1>1, <1>3, <1>4, <1>5 DEF IInv

(* Callbacks that neither start a thread nor close the window.             *)
LEMMA TkStep ==
  ASSUME IInv, UpdateReady \/ Destroy
  PROVE  IInv'
<1>1. CASE UpdateReady
  BY <1>1 DEF UpdateReady, IInv, TypeOK, LiveIsWorker, StopIsWorkers, WindowInv, BoxInv,
     AssignedInv, OverridesAreCurrent, SaveErrorsAreShown, Alive, Generations
<1>2. CASE Destroy
  BY <1>2 DEF Destroy, IInv, TypeOK, LiveIsWorker, StopIsWorkers, WindowInv, BoxInv,
     AssignedInv, OverridesAreCurrent, SaveErrorsAreShown, Alive, Generations
<1>3. QED BY <1>1, <1>2

(* A new thread, of the current generation, in place of a dead one.        *)
LEMMA ThreadStarts ==
  ASSUME IInv, NEW g \in Generations, StartThread(g), g = generation',
         generation' \in {generation, generation + 1}, generation' < MaxGeneration,
         ~ Alive(worker), window = "open",
         UNCHANGED <<closing, window, profiles, update>>, prompt' = 0,
         saveErrors = {}, saveErrors' = {}, callbacks' \subseteq callbacks,
         stopped' \subseteq 0..MaxGeneration, overrides' = generation', emulator' \in {emulator, 0}
  PROVE  IInv'
<1>1. thread' = [thread EXCEPT ![g] = "detecting"] /\ worker' = g /\ stopOf' = g
  BY DEF StartThread
<1>2. ~ closing /\ callbacks' \subseteq 1..generation'
  BY DEF IInv, TypeOK, WindowInv, BoxInv
<1>3. TypeOK'
  BY <1>1 DEF IInv, TypeOK, Threads, Generations
<1>4. LiveIsWorker'
  BY <1>1 DEF IInv, TypeOK, LiveIsWorker, Alive, Generations
<1>5. WindowInv'
  BY <1>1, <1>2 DEF IInv, TypeOK, WindowInv, Alive, Generations
<1>6. StopIsWorkers' /\ SaveErrorsAreShown' /\ BoxInv'
  BY <1>1, <1>2 DEF StopIsWorkers, SaveErrorsAreShown, BoxInv
<1>7. AssignedInv'
  BY <1>1 DEF IInv, TypeOK, AssignedInv
<1>8. OverridesAreCurrent'
  BY DEF OverridesAreCurrent
<1>9. QED BY <1>3, <1>4, <1>5, <1>6, <1>7, <1>8 DEF IInv

(* _restart: the worker is still there, or can be replaced at once, or its *)
(* errors are shown first.                                                 *)
LEMMA RestartStep ==
  ASSUME IInv, Restart
  PROVE  IInv'
<1>1. /\ generation' \in Generations /\ generation' < MaxGeneration /\ generation' = generation + 1
      /\ overrides' = generation' /\ emulator' = 0 /\ prompt = 0 /\ window = "open"
      /\ stopped' = stopped \cup {stopOf} /\ stopped' \subseteq 0..MaxGeneration
      /\ UNCHANGED <<closing, window, profiles, update>>
  BY DEF Restart, IInv, TypeOK, Generations
<1>2. thread[generation'] = "none" /\ ~ closing
  BY <1>1 DEF IInv, TypeOK, WindowInv, Generations
<1>3. CASE ~ Alive(worker) /\ saveErrors = {}
  <2>1. StartThread(generation') /\ UNCHANGED <<callbacks, saveErrors, prompt>>
    BY <1>3 DEF Restart, Start
  <2>2. QED BY <1>1, <1>3, <2>1, ThreadStarts
<1>4. CASE Alive(worker) \/ saveErrors # {}
  <2>1. /\ UNCHANGED <<stopOf, worker, thread>> /\ saveErrors' \subseteq saveErrors
        /\ callbacks' \subseteq callbacks \cup {generation'}
        /\ \/ prompt' = 0
           \/ prompt' = generation' /\ callbacks' = callbacks /\ ~ Alive(worker) /\ saveErrors' = {}
    BY <1>1, <1>4 DEF Restart, Start
  <2>2. TypeOK'
    BY <1>1, <2>1 DEF IInv, TypeOK, Generations
  <2>3. LiveIsWorker' /\ WindowInv'
    BY <1>1, <2>1 DEF IInv, TypeOK, LiveIsWorker, WindowInv, Alive, Generations
  <2>4. StopIsWorkers' /\ SaveErrorsAreShown'
    BY <1>1, <2>1 DEF IInv, TypeOK, StopIsWorkers, SaveErrorsAreShown
  <2>5. BoxInv'
    BY <1>1, <2>1 DEF IInv, TypeOK, BoxInv, Alive
  <2>6. AssignedInv'
    BY <1>1, <1>2, <2>1 DEF AssignedInv
  <2>7. OverridesAreCurrent'
    BY <1>1 DEF OverridesAreCurrent
  <2>8. QED BY <2>2, <2>3, <2>4, <2>5, <2>6, <2>7 DEF IInv
<1>5. QED BY <1>3, <1>4

(* The timer callback that finds the old thread ended, or is stale.        *)
LEMMA StartStep ==
  ASSUME IInv, NEW g \in Generations, StartWhenStopped(g)
  PROVE  IInv'
<1>1. /\ window = "open" /\ g \in callbacks /\ callbacks' = callbacks \ {g}
      /\ UNCHANGED <<generation, closing, window, stopped, emulator, profiles, overrides, update>>
  BY DEF StartWhenStopped
<1>2. CASE closing \/ g # generation
  <2>1. UNCHANGED <<saveErrors, stopOf, worker, thread, prompt>>
    BY <1>2 DEF StartWhenStopped
  <2>2. QED
    BY <1>1, <2>1 DEF IInv, TypeOK, LiveIsWorker, StopIsWorkers, WindowInv, BoxInv,
       AssignedInv, OverridesAreCurrent, SaveErrorsAreShown, Alive, Generations
<1>3. CASE ~ closing /\ g = generation
  <2>1. Start(g) /\ ~ Alive(worker) /\ prompt = 0
    BY <1>1, <1>3 DEF StartWhenStopped, IInv, BoxInv
  <2>2. generation < MaxGeneration /\ overrides = generation /\ stopped \subseteq 0..MaxGeneration
    BY <1>1, <1>3 DEF IInv, TypeOK, WindowInv, OverridesAreCurrent
  <2>3. CASE saveErrors = {}
    <3>1. StartThread(g) /\ UNCHANGED <<saveErrors, prompt>>
      BY <2>1, <2>3 DEF Start
    <3>2. QED BY <1>1, <1>3, <2>1, <2>2, <2>3, <3>1, ThreadStarts
  <2>4. CASE saveErrors # {}
    <3>1. saveErrors' = {} /\ prompt' = g /\ UNCHANGED <<stopOf, worker, thread>>
      BY <2>1, <2>4 DEF Start
    <3>2. TypeOK' /\ BoxInv'
      BY <1>1, <1>3, <2>1, <3>1 DEF IInv, TypeOK, BoxInv, Alive, Generations
    <3>3. QED
      BY <1>1, <3>1, <3>2 DEF IInv, LiveIsWorker, StopIsWorkers, WindowInv,
         AssignedInv, OverridesAreCurrent, SaveErrorsAreShown, Alive
  <2>5. QED BY <2>3, <2>4
<1>4. QED BY <1>2, <1>3

(* The user closes the box with the errors of the worker before.           *)
LEMMA BoxStep ==
  ASSUME IInv, BoxCloses
  PROVE  IInv'
<1>1. /\ prompt = generation /\ ~ Alive(worker) /\ saveErrors = {} /\ window = "open"
      /\ StartThread(prompt) /\ prompt' = 0
      /\ UNCHANGED <<generation, closing, window, stopped, callbacks, emulator, profiles,
                     overrides, saveErrors, update>>
  BY DEF BoxCloses, IInv, BoxInv
<1>2. /\ prompt \in Generations /\ generation < MaxGeneration
      /\ overrides = generation /\ stopped \subseteq 0..MaxGeneration
  BY <1>1 DEF BoxCloses, IInv, TypeOK, WindowInv, OverridesAreCurrent, Generations
<1>3. QED BY <1>1, <1>2, ThreadStarts

(* _close, called by the window manager or for an update.                  *)
LEMMA CloseStep ==
  ASSUME IInv, Close \/ Refresh
  PROVE  IInv'
<1>1. UNCHANGED <<worker, stopOf, callbacks, prompt, emulator, thread, update>>
  BY DEF Close, Refresh
<1>2. CASE Close \/ (Refresh /\ update = "ready")
  <2>1. BeginClose /\ window = "open"
    BY <1>2 DEF Close, Refresh
  <2>2. generation' = generation + 1 /\ generation' \in 0..MaxGeneration
    BY <2>1 DEF BeginClose, IInv, TypeOK, WindowInv
  <2>3. saveErrors' \subseteq saveErrors /\ profiles' = profiles /\ overrides' = overrides
    BY <1>2 DEF Close, Refresh
  <2>4. TypeOK'
    BY <1>1, <2>1, <2>2, <2>3 DEF BeginClose, IInv, TypeOK
  <2>5. LiveIsWorker' /\ AssignedInv' /\ OverridesAreCurrent'
    BY <1>1, <2>1 DEF BeginClose, IInv, LiveIsWorker, AssignedInv, OverridesAreCurrent, Alive
  <2>6. StopIsWorkers' /\ SaveErrorsAreShown'
    BY <1>1, <2>1, <2>3 DEF BeginClose, IInv, StopIsWorkers, SaveErrorsAreShown
  <2>7. WindowInv' /\ BoxInv'
    BY <1>1, <2>1, <2>2 DEF BeginClose, IInv, TypeOK, WindowInv, BoxInv, Alive, Generations
  <2>8. QED BY <2>4, <2>5, <2>6, <2>7 DEF IInv
<1>3. CASE Refresh /\ update # "ready"
  <2>1. /\ UNCHANGED <<closing, window, generation, stopped>>
        /\ profiles' = {}
        /\ overrides' = IF generation \in profiles THEN generation ELSE overrides
        /\ saveErrors' = {}
    BY <1>3 DEF Refresh
  <2>3. TypeOK'
    BY <1>1, <2>1 DEF IInv, TypeOK
  <2>4. LiveIsWorker' /\ StopIsWorkers' /\ AssignedInv' /\ WindowInv' /\ BoxInv'
    BY <1>1, <2>1 DEF IInv, LiveIsWorker, StopIsWorkers, AssignedInv, WindowInv, BoxInv, Alive
  <2>5. OverridesAreCurrent' /\ SaveErrorsAreShown'
    BY <2>1 DEF IInv, OverridesAreCurrent, SaveErrorsAreShown
  <2>6. QED BY <2>3, <2>4, <2>5 DEF IInv
<1>4. QED BY <1>2, <1>3

(* A step of a thread: only a live thread steps, and it stays the one the  *)
(* GUI knows.                                                              *)
LEMMA ThreadStep ==
  ASSUME IInv, NEW g \in Generations, Step(g) \/ Faults(g)
  PROVE  IInv'
<1>1. Alive(g) /\ g = worker /\ window # "destroyed"
  BY DEF Step, Build, LookAtGeneration, AssignEmulator, EnterLoop, SeeStop, Faults,
     LeaveLoop, CloseEmulator, End, At, Alive, IInv, LiveIsWorker, WindowInv, Generations
<1>2. PICK there \in Threads \ {"none"} : thread' = [thread EXCEPT ![g] = there]
  BY DEF Step, Build, LookAtGeneration, AssignEmulator, EnterLoop, SeeStop, Faults,
     LeaveLoop, CloseEmulator, End, Go, Threads
<1>3. UNCHANGED tk
  BY DEF Step, Build, LookAtGeneration, AssignEmulator, EnterLoop, SeeStop, Faults,
     LeaveLoop, CloseEmulator, End
<1>4. /\ profiles' \subseteq profiles \cup {g}
      /\ saveErrors' \subseteq saveErrors \cup {g}
      /\ emulator' \in {emulator, g}
  BY DEF Step, Build, LookAtGeneration, AssignEmulator, EnterLoop, SeeStop, Faults,
     LeaveLoop, CloseEmulator, End
<1>5. TypeOK'
  BY <1>2, <1>3, <1>4 DEF tk, IInv, TypeOK, Generations
<1>6. LiveIsWorker'
  BY <1>1, <1>2, <1>3 DEF tk, IInv, TypeOK, LiveIsWorker, Alive
<1>7. StopIsWorkers' /\ OverridesAreCurrent'
  BY <1>3 DEF tk, IInv, StopIsWorkers, OverridesAreCurrent
<1>8. WindowInv'
  BY <1>1, <1>2, <1>3 DEF tk, IInv, TypeOK, WindowInv, Alive, Generations
<1>9. SaveErrorsAreShown'
  BY <1>1, <1>3, <1>4 DEF tk, IInv, SaveErrorsAreShown
<1>10. AssignedInv'
  <2> SUFFICES ASSUME NEW h \in Generations, h = generation, ~ closing,
                      thread'[h] \in {"entering", "running"}
               PROVE  emulator' = h
    BY <1>3 DEF tk, AssignedInv
  <2>1. Alive(h)' /\ h = worker
    BY <1>3, <1>6 DEF tk, LiveIsWorker, Alive, Generations
  <2>2. h = g
    BY <1>1, <2>1
  <2>3. CASE AssignEmulator(g)
    BY <2>2, <2>3 DEF AssignEmulator
  <2>4. CASE EnterLoop(g)
    BY <2>2, <2>4 DEF EnterLoop, At, IInv, AssignedInv
  <2>5. CASE LookAtGeneration(g)
    BY <2>2, <2>5 DEF LookAtGeneration, Go, IInv, TypeOK
  <2>6. CASE Build(g) \/ SeeStop(g) \/ Faults(g) \/ CloseEmulator(g) \/ End(g)
    BY <2>2, <2>6 DEF Build, SeeStop, Faults, LeaveLoop, CloseEmulator, End, Go,
       IInv, TypeOK
  <2>7. QED BY <2>3, <2>4, <2>5, <2>6 DEF Step
<1>11. BoxInv'
  BY <1>1, <1>3 DEF tk, IInv, BoxInv
<1>12. QED BY <1>5, <1>6, <1>7, <1>8, <1>9, <1>10, <1>11 DEF IInv

(* Every step keeps the invariant.                                         *)
LEMMA Invariance == Spec => []IInv
<1>1. IInv /\ [Next]_vars => IInv'
  <2> SUFFICES ASSUME IInv, [Next]_vars
               PROVE  IInv'
    OBVIOUS
  <2>1. CASE Restart
    BY <2>1, RestartStep
  <2>2. CASE Close \/ Refresh
    BY <2>2, CloseStep
  <2>3. CASE Destroy \/ UpdateReady
    BY <2>3, TkStep
  <2>4. CASE \E g \in Generations : StartWhenStopped(g)
    BY <2>4, StartStep
  <2>5. CASE \E g \in Generations : Step(g) \/ Faults(g)
    BY <2>5, ThreadStep
  <2>6. CASE BoxCloses
    BY <2>6, BoxStep
  <2>7. CASE UNCHANGED vars
    BY <2>7 DEF vars, IInv, TypeOK, LiveIsWorker, StopIsWorkers, WindowInv, BoxInv,
       AssignedInv, OverridesAreCurrent, SaveErrorsAreShown, Alive
  <2>8. QED BY <2>1, <2>2, <2>3, <2>4, <2>5, <2>6, <2>7 DEF Next
<1>2. QED BY <1>1, InitIInv, PTL DEF Spec

-------------------------------------------------------------------------------

(* Type correctness.                                                       *)
THEOREM TypeCorrect == Spec => []TypeOK
<1>1. IInv => TypeOK
  BY DEF IInv
<1>2. QED BY <1>1, Invariance, PTL

(* _start_when_stopped never lets two emulators run.                       *)
THEOREM AtMostOneWorker == Spec => []OneWorker
<1>1. IInv => OneWorker
  BY DEF IInv, LiveIsWorker, OneWorker
<1>2. QED BY <1>1, Invariance, PTL

(* A worker _restart or _close no longer wants has its stop event set.     *)
THEOREM StopArrives == Spec => []StopReachesWorker
<1>1. IInv => StopReachesWorker
  BY DEF IInv, LiveIsWorker, StopIsWorkers, StopReachesWorker
<1>2. QED BY <1>1, Invariance, PTL

(* The GUI talks to the emulator of the worker that runs, in spite of the  *)
(* unlocked check and assignment in _run.                                  *)
THEOREM RunningEmulatorIsCurrent == Spec => []EmulatorIsCurrent
<1>1. IInv => EmulatorIsCurrent
  BY DEF IInv, AssignedInv, EmulatorIsCurrent
<1>2. QED BY <1>1, Invariance, PTL

(* _refresh drops the settings of overtaken workers.                       *)
THEOREM OverridesStayCurrent == Spec => []OverridesAreCurrent
<1>1. IInv => OverridesAreCurrent
  BY DEF IInv
<1>2. QED BY <1>1, Invariance, PTL

(* No error of a save is swallowed by a restart, a close or an update.     *)
THEOREM SaveErrorsShown == Spec => []SaveErrorsAreShown
<1>1. IInv => SaveErrorsAreShown
  BY DEF IInv
<1>2. QED BY <1>1, Invariance, PTL

(* _close leaves nothing running behind the updater.                       *)
THEOREM ClosedMeansStopped == Spec => []NothingRunsAfterClose
<1>1. IInv => NothingRunsAfterClose
  BY DEF IInv, LiveIsWorker, WindowInv, NothingRunsAfterClose
<1>2. QED BY <1>1, Invariance, PTL
===============================================================================
