------------------------------ MODULE Flash_proofs ----------------------------
(***************************************************************************)
(* Proofs about what a flash keeps.  The shared state file: the locks      *)
(* exclude, a merge is fresh, a returned save survives a loss of power,    *)
(* and saves implement the abstract store.  The NOR command device: the    *)
(* guest sees the flash when no erase shares its basic block with earlier  *)
(* stores; only the erase command sets bits and only the program command   *)
(* clears them, always.  They share FlashImage and nothing else, so each   *)
(* has its own inductive invariant.                                        *)
(***************************************************************************)
EXTENDS StateSave, NorFlash, TLAPS


-------------------------------------------------------------------------------
(* Facts about images and effects (FlashImage).                            *)

LEMMA NoEffectType == NoEffect \in Effect
  BY DEF NoEffect, Effect, ByteEffect, Byte

LEMMA ApplyType ==
  ASSUME NEW e \in Effect, NEW i \in Image
  PROVE  Apply(e, i) \in Image
  BY DEF Apply, Effect, ByteEffect, Image, Byte

LEMMA ApplyNoEffect ==
  ASSUME NEW i \in Image
  PROVE  Apply(NoEffect, i) = i
  BY DEF Apply, NoEffect, Image, Byte

LEMMA ApplyOperationType ==
  ASSUME NEW op \in Operation, NEW i \in Image
  PROVE  ApplyOperation(op, i) \in Image
  BY DEF ApplyOperation, ApplyToByte, Operation, Image, Byte

LEMMA EffectOfType ==
  ASSUME NEW op \in Operation
  PROVE  EffectOf(op) \in Effect
  BY DEF EffectOf, ApplyToByte, Operation, Effect, ByteEffect, Byte

LEMMA ThenType ==
  ASSUME NEW e \in Effect, NEW f \in Effect
  PROVE  Then(e, f) \in Effect
  BY DEF Then, Effect, ByteEffect, Byte

(* A logged operation and its effect do the same to every image.           *)
LEMMA EffectOfOperation ==
  ASSUME NEW op \in Operation, NEW i \in Image
  PROVE  Apply(EffectOf(op), i) = ApplyOperation(op, i)
  BY DEF Apply, EffectOf, ApplyOperation, ApplyToByte, Operation, Image, Byte

(* Replaying one log after another is replaying the composed log.          *)
LEMMA ReplayComposes ==
  ASSUME NEW e \in Effect, NEW f \in Effect, NEW i \in Image
  PROVE  Apply(Then(e, f), i) = Apply(f, Apply(e, i))
  BY DEF Apply, Then, Effect, ByteEffect, Image, Byte

(* Replaying a log on an image that already has it changes nothing: a save *)
(* that failed after it had replaced the file may simply be tried again.   *)
THEOREM ReplayIdempotent ==
  ASSUME NEW e \in Effect, NEW i \in Image
  PROVE  Apply(e, Apply(e, i)) = Apply(e, i)
  BY DEF Apply, Effect, ByteEffect, Image, Byte

-------------------------------------------------------------------------------
(* The inductive invariant.                                                *)

(* Every version that may be left is at most the newest, and contains what *)
(* was acknowledged; a thread on its way to acknowledge has already synced.*)
VersionsOrdered ==
  /\ file \in possible
  /\ \A v \in possible : acked <= v.n /\ v.n <= file.n

Synced(t) == \/ pc[t] \in {"saved", "released"}
             \/ pc[t] \in {"unlocking", "closing"} /\ ok[t]

MadeIsSafe ==
  \A t \in Threads :
    /\ pc[t] \in {"wantThread", "wantFile", "locked", "merged"} => made[t] = 0
    /\ pc[t] = "replaced" => made[t] <= file.n
    /\ Synced(t) => \A v \in possible : made[t] <= v.n

OffIsClean == \A t \in Threads : pc[t] = "off" => pending[t] = NoEffect

IInv ==
  /\ TypeOK
  /\ LocksMatchControl
  /\ MergeIsFresh
  /\ VersionsOrdered
  /\ MadeIsSafe
  /\ OffIsClean
  /\ LogExplainsImage

LEMMA InitIInv == Init => IInv
  <1> SUFFICES ASSUME Init PROVE IInv
    OBVIOUS
  <1> USE StateSaveAssumption
  <1>1. TypeOK
    BY NoEffectType DEF Init, TypeOK, Version, PCs
  <1>2. LocksMatchControl
    BY DEF Init, LocksMatchControl, HoldsFile, HoldsThread
  <1>3. MergeIsFresh /\ OffIsClean /\ LogExplainsImage
    BY DEF Init, MergeIsFresh, OffIsClean, LogExplainsImage
  <1>4. VersionsOrdered /\ MadeIsSafe
    BY DEF Init, VersionsOrdered, MadeIsSafe, Synced
  <1> QED
    BY <1>1, <1>2, <1>3, <1>4 DEF IInv

LEMMA TypeStep == TypeOK /\ [Next]_vars => TypeOK'
  <1> SUFFICES ASSUME TypeOK, [Next]_vars PROVE TypeOK'
    OBVIOUS
  <1> USE StateSaveAssumption, NoEffectType DEF TypeOK, Version, PCs, Goto
  <1>1. ASSUME NEW t \in Threads, Load(t) PROVE TypeOK'
    BY <1>1 DEF Load
  <1>2. ASSUME NEW t \in Threads, NEW op \in GuestOps, Operate(t, op) PROVE TypeOK'
    <2>1. op \in Operation
      BY <1>2
    <2>2. ApplyOperation(op, data[t]) \in Image /\ Then(pending[t], EffectOf(op)) \in Effect
      BY <2>1, ApplyOperationType, EffectOfType, ThenType
    <2> QED
      BY <1>2, <2>2 DEF Operate
  <1>3. ASSUME NEW t \in Threads, Discard(t) PROVE TypeOK'
    BY <1>3 DEF Discard, Vanish
  <1>4. ASSUME NEW t \in Threads, BeginSave(t) PROVE TypeOK'
    BY <1>4 DEF BeginSave
  <1>5. ASSUME NEW t \in Threads, Locking(t) PROVE TypeOK'
    <2>1. ASSUME AcquireThread(t) PROVE TypeOK'
      BY <2>1 DEF AcquireThread
    <2>5. ASSUME ThreadTimeout(t) PROVE TypeOK'
      BY <2>5 DEF ThreadTimeout
    <2>2. ASSUME AcquireFile(t) \/ FileTimeout(t) PROVE TypeOK'
      BY <2>2 DEF AcquireFile, FileTimeout
    <2>3. ASSUME Unlock(t) PROVE TypeOK'
      BY <2>3 DEF Unlock
    <2>4. ASSUME ReleaseThread(t) PROVE TypeOK'
      BY <2>4 DEF ReleaseThread
    <2> QED
      BY <1>5, <2>1, <2>2, <2>3, <2>4, <2>5 DEF Locking
  <1>6. ASSUME NEW t \in Threads, Merge(t) PROVE TypeOK'
    <2>1. Apply(pending[t], file.image) \in Image
      BY ApplyType
    <2> QED
      BY <1>6, <2>1 DEF Merge, MergeInto
  <1>7. ASSUME NEW t \in Threads, Replace(t) PROVE TypeOK'
    <2>1. file' \in Version
      BY <1>7 DEF Replace
    <2> QED
      BY <1>7, <2>1 DEF Replace
  <1>8. ASSUME NEW t \in Threads,
               NothingToUnlink(t) \/ SyncDirectory(t) \/ SaveFails(t) PROVE TypeOK'
    BY <1>8 DEF NothingToUnlink, SyncDirectory, SaveFails
  <1>9. ASSUME NEW t \in Threads, Adopt(t) PROVE TypeOK'
    BY <1>9 DEF Adopt
  <1>10. ASSUME NEW p \in Procs, Crash(p) PROVE TypeOK'
    BY <1>10 DEF Crash, Vanish
  <1>11. ASSUME PowerLoss PROVE TypeOK'
    BY <1>11 DEF PowerLoss, Vanish
  <1>12. CASE UNCHANGED vars
    BY <1>12 DEF vars
  <1> QED
    BY <1>1, <1>2, <1>3, <1>4, <1>5, <1>6, <1>7, <1>8, <1>9, <1>10, <1>11, <1>12
       DEF Next, Guest, Saving

LEMMA LockStep ==
  TypeOK /\ LocksMatchControl /\ [Next]_vars => LocksMatchControl'
  <1> SUFFICES ASSUME TypeOK, LocksMatchControl, [Next]_vars
               PROVE  LocksMatchControl'
    OBVIOUS
  <1> USE StateSaveAssumption
      DEF TypeOK, PCs, Goto, LocksMatchControl, HoldsFile, HoldsThread
  <1>1. ASSUME NEW t \in Threads, Guest(t) PROVE LocksMatchControl'
    <2> DEFINE Outside ==
                 /\ UNCHANGED <<fileLock, threadLock>>
                 /\ \A u \in Threads \ {t} : pc'[u] = pc[u]
                 /\ pc[t] \in {"off", "running"}
                 /\ pc'[t] \in {"off", "running", "wantThread"}
    <2>1. Load(t) \/ BeginSave(t) => Outside
      BY DEF Load, BeginSave
    <2>2. Discard(t) => Outside
      BY DEF Discard, Vanish
    <2>3. ASSUME NEW op \in GuestOps, Operate(t, op) PROVE Outside
      BY <2>3 DEF Operate
    <2>4. Outside
      BY <1>1, <2>1, <2>2, <2>3 DEF Guest
    <2> QED
      BY <2>4
  <1>2. ASSUME NEW t \in Threads, AcquireThread(t) PROVE LocksMatchControl'
    BY <1>2 DEF AcquireThread
  <1>21. ASSUME NEW t \in Threads, ThreadTimeout(t) PROVE LocksMatchControl'
    BY <1>21 DEF ThreadTimeout
  <1>3. ASSUME NEW t \in Threads, AcquireFile(t) \/ FileTimeout(t)
        PROVE  LocksMatchControl'
    BY <1>3 DEF AcquireFile, FileTimeout
  <1>4. ASSUME NEW t \in Threads, Unlock(t) PROVE LocksMatchControl'
    BY <1>4 DEF Unlock
  <1>5. ASSUME NEW t \in Threads, ReleaseThread(t) PROVE LocksMatchControl'
    BY <1>5 DEF ReleaseThread
  <1>6. ASSUME NEW t \in Threads, Saving(t) PROVE LocksMatchControl'
    BY <1>6 DEF Saving, Merge, MergeInto, Replace, NothingToUnlink, SyncDirectory, SaveFails,
                Adopt
  <1>7. ASSUME NEW p \in Procs, Crash(p) PROVE LocksMatchControl'
    BY <1>7 DEF Crash, Vanish
  <1>8. ASSUME PowerLoss PROVE LocksMatchControl'
    BY <1>8 DEF PowerLoss, Vanish
  <1>9. CASE UNCHANGED vars
    BY <1>9 DEF vars
  <1> QED
    BY <1>1, <1>2, <1>21, <1>3, <1>4, <1>5, <1>6, <1>7, <1>8, <1>9 DEF Next, Locking

LEMMA MergeStep ==
  TypeOK /\ LocksMatchControl /\ MergeIsFresh /\ [Next]_vars => MergeIsFresh'
  <1> SUFFICES ASSUME TypeOK, LocksMatchControl, MergeIsFresh, [Next]_vars
               PROVE  MergeIsFresh'
    OBVIOUS
  <1> USE DEF TypeOK, Goto, MergeIsFresh
  <1>1. ASSUME NEW t \in Threads, Guest(t) PROVE MergeIsFresh'
    BY <1>1 DEF Guest, Load, Operate, Discard, Vanish, BeginSave
  <1>2. ASSUME NEW t \in Threads, Locking(t) PROVE MergeIsFresh'
    BY <1>2 DEF Locking, AcquireThread, ThreadTimeout, AcquireFile, FileTimeout,
                Unlock, ReleaseThread
  <1>3. ASSUME NEW t \in Threads, Merge(t) PROVE MergeIsFresh'
    BY <1>3 DEF Merge, MergeInto
  <1>4. ASSUME NEW t \in Threads, Replace(t) PROVE MergeIsFresh'
    (* Nobody else is in the critical section, so nobody else has merged.  *)
    <2>1. \A u \in Threads : pc'[u] # "merged"
      BY <1>4 DEF Replace, LocksMatchControl, HoldsFile
    <2> QED
      BY <2>1
  <1>5. ASSUME NEW t \in Threads,
               NothingToUnlink(t) \/ SyncDirectory(t) \/ SaveFails(t) \/ Adopt(t)
        PROVE  MergeIsFresh'
    BY <1>5 DEF NothingToUnlink, SyncDirectory, SaveFails, Adopt
  <1>6. ASSUME NEW p \in Procs, Crash(p) PROVE MergeIsFresh'
    BY <1>6 DEF Crash, Vanish
  <1>7. ASSUME PowerLoss PROVE MergeIsFresh'
    BY <1>7 DEF PowerLoss, Vanish
  <1>8. CASE UNCHANGED vars
    BY <1>8 DEF vars
  <1> QED
    BY <1>1, <1>2, <1>3, <1>4, <1>5, <1>6, <1>7, <1>8 DEF Next, Saving

LEMMA VersionStep ==
  /\ TypeOK /\ LocksMatchControl /\ VersionsOrdered /\ MadeIsSafe
  /\ [Next]_vars
  => VersionsOrdered' /\ MadeIsSafe'
  <1> SUFFICES ASSUME TypeOK, LocksMatchControl, VersionsOrdered, MadeIsSafe,
                      [Next]_vars
               PROVE  VersionsOrdered' /\ MadeIsSafe'
    OBVIOUS
  <1> USE DEF TypeOK, Version, Goto, VersionsOrdered, MadeIsSafe, Synced
  <1>1. ASSUME NEW t \in Threads, Guest(t) PROVE VersionsOrdered' /\ MadeIsSafe'
    <2>1. /\ UNCHANGED <<file, possible, acked>>
          /\ \A u \in Threads \ {t} : pc'[u] = pc[u] /\ made'[u] = made[u] /\ ok'[u] = ok[u]
          /\ pc'[t] \in {"off", "running", "wantThread"}
          /\ pc'[t] = "wantThread" => made'[t] = 0
      BY <1>1 DEF Guest, Load, Operate, Discard, Vanish, BeginSave
    <2> QED
      BY <2>1
  <1>2. ASSUME NEW t \in Threads, Locking(t) PROVE VersionsOrdered' /\ MadeIsSafe'
    <2>1. UNCHANGED <<file, possible, acked, made>>
      BY <1>2 DEF Locking, AcquireThread, ThreadTimeout, AcquireFile, FileTimeout,
                  Unlock, ReleaseThread
    <2>2. \A u \in Threads \ {t} : pc'[u] = pc[u] /\ ok'[u] = ok[u]
      BY <1>2 DEF Locking, AcquireThread, ThreadTimeout, AcquireFile, FileTimeout,
                  Unlock, ReleaseThread
    <2>3. /\ pc'[t] \in {"wantThread", "wantFile", "locked", "merged"} => made[t] = 0
          /\ pc'[t] # "replaced"
          /\ Synced(t)' => Synced(t)
      BY <1>2 DEF Locking, AcquireThread, ThreadTimeout, AcquireFile, FileTimeout,
                  Unlock, ReleaseThread
    <2> QED
      BY <2>1, <2>2, <2>3
  <1>3. ASSUME NEW t \in Threads, Merge(t) PROVE VersionsOrdered' /\ MadeIsSafe'
    BY <1>3 DEF Merge, MergeInto
  <1>4. ASSUME NEW t \in Threads, Replace(t) PROVE VersionsOrdered' /\ MadeIsSafe'
    <2>1. VersionsOrdered'
      BY <1>4 DEF Replace
    <2>2. \A u \in Threads : pc'[u] = "replaced" => u = t
      BY <1>4 DEF Replace, LocksMatchControl, HoldsFile
    <2>3. MadeIsSafe'
      BY <1>4, <2>2 DEF Replace
    <2> QED
      BY <2>1, <2>3
  <1>5. ASSUME NEW t \in Threads, NothingToUnlink(t) \/ SaveFails(t)
        PROVE  VersionsOrdered' /\ MadeIsSafe'
    BY <1>5 DEF NothingToUnlink, SaveFails
  <1>6. ASSUME NEW t \in Threads, SyncDirectory(t)
        PROVE  VersionsOrdered' /\ MadeIsSafe'
    BY <1>6 DEF SyncDirectory
  <1>7. ASSUME NEW t \in Threads, Adopt(t) PROVE VersionsOrdered' /\ MadeIsSafe'
    BY <1>7 DEF Adopt
  <1>8. ASSUME NEW p \in Procs, Crash(p) PROVE VersionsOrdered' /\ MadeIsSafe'
    BY <1>8 DEF Crash, Vanish
  <1>9. ASSUME PowerLoss PROVE VersionsOrdered' /\ MadeIsSafe'
    BY <1>9 DEF PowerLoss, Vanish
  <1>10. CASE UNCHANGED vars
    BY <1>10 DEF vars
  <1> QED
    BY <1>1, <1>2, <1>3, <1>4, <1>5, <1>6, <1>7, <1>8, <1>9, <1>10 DEF Next, Saving

LEMMA LogStep ==
  TypeOK /\ OffIsClean /\ LogExplainsImage /\ [Next]_vars
  => OffIsClean' /\ LogExplainsImage'
  <1> SUFFICES ASSUME TypeOK, OffIsClean, LogExplainsImage, [Next]_vars
               PROVE  OffIsClean' /\ LogExplainsImage'
    OBVIOUS
  <1> USE StateSaveAssumption DEF TypeOK, Version, Goto, OffIsClean, LogExplainsImage
  <1>1. ASSUME NEW t \in Threads, Load(t) PROVE OffIsClean' /\ LogExplainsImage'
    <2>1. pending[t] = NoEffect /\ Apply(NoEffect, file.image) = file.image
      BY <1>1, ApplyNoEffect DEF Load
    <2> QED
      BY <1>1, <2>1 DEF Load
  <1>2. ASSUME NEW t \in Threads, NEW op \in GuestOps, Operate(t, op)
        PROVE  OffIsClean' /\ LogExplainsImage'
    <2>1. op \in Operation /\ EffectOf(op) \in Effect
      BY <1>2, EffectOfType
    <2>2. Apply(Then(pending[t], EffectOf(op)), baseline[t])
            = Apply(EffectOf(op), Apply(pending[t], baseline[t]))
      BY <2>1, ReplayComposes
    <2>3. Apply(EffectOf(op), data[t]) = ApplyOperation(op, data[t])
      BY <2>1, EffectOfOperation
    <2>4. data[t] = Apply(pending[t], baseline[t])
      BY <1>2 DEF Operate
    <2> QED
      BY <1>2, <2>2, <2>3, <2>4 DEF Operate
  <1>3. ASSUME NEW t \in Threads, Discard(t) PROVE OffIsClean' /\ LogExplainsImage'
    BY <1>3 DEF Discard, Vanish
  <1>4. ASSUME NEW t \in Threads, BeginSave(t) PROVE OffIsClean' /\ LogExplainsImage'
    BY <1>4 DEF BeginSave
  <1>5. ASSUME NEW t \in Threads,
               Locking(t) \/ Merge(t) \/ Replace(t) \/ NothingToUnlink(t)
               \/ SyncDirectory(t) \/ SaveFails(t)
        PROVE  OffIsClean' /\ LogExplainsImage'
    <2>1. /\ UNCHANGED <<pending, data, baseline>>
          /\ \A u \in Threads \ {t} : pc'[u] = pc[u]
          /\ pc[t] # "off"
          /\ pc'[t] # "off"
      BY <1>5 DEF Locking, AcquireThread, ThreadTimeout, AcquireFile, FileTimeout,
                  Unlock, ReleaseThread, Merge, MergeInto, Replace, NothingToUnlink,
                  SyncDirectory, SaveFails
    <2> QED
      BY <2>1
  <1>6. ASSUME NEW t \in Threads, Adopt(t) PROVE OffIsClean' /\ LogExplainsImage'
    <2>1. Apply(NoEffect, latest[t]) = latest[t]
      BY ApplyNoEffect
    <2> QED
      BY <1>6, <2>1 DEF Adopt
  <1>7. ASSUME NEW p \in Procs, Crash(p) PROVE OffIsClean' /\ LogExplainsImage'
    BY <1>7 DEF Crash, Vanish
  <1>8. ASSUME PowerLoss PROVE OffIsClean' /\ LogExplainsImage'
    BY <1>8 DEF PowerLoss, Vanish
  <1>9. CASE UNCHANGED vars
    BY <1>9 DEF vars
  <1> QED
    BY <1>1, <1>2, <1>3, <1>4, <1>5, <1>6, <1>7, <1>8, <1>9 DEF Next, Guest, Saving

LEMMA Invariance == Spec => []IInv
  <1>1. IInv /\ [Next]_vars => IInv'
    BY TypeStep, LockStep, MergeStep, VersionStep, LogStep DEF IInv
  <1> QED
    BY InitIInv, <1>1, PTL DEF Spec

-------------------------------------------------------------------------------
(* The results.                                                            *)

(* The variables keep their types: whatever guests log and in whatever     *)
(* order saves interleave, the file always holds a whole image.            *)
THEOREM TypeCorrect == Spec => []TypeOK
  BY Invariance, PTL DEF IInv

(* At most the thread whose control point says so holds each lock, for any *)
(* number of threads and processes: exclusive_path_lock excludes.          *)
THEOREM LocksExclude == Spec => []LocksMatchControl
  BY Invariance, PTL DEF IInv

(* A save writes its log replayed on the file's contents of that moment.   *)
THEOREM MergeFresh == Spec => []MergeIsFresh
  BY Invariance, PTL DEF IInv

(* A running emulator's image is its baseline with its log replayed.       *)
THEOREM LogIsComplete == Spec => []LogExplainsImage
  BY Invariance, PTL DEF IInv

(* What a returned save wrote is in every version loss of power can leave. *)
THEOREM SavedSurvives == Spec => []AckedSurvives
  <1>1. IInv => AckedSurvives
    BY DEF IInv, VersionsOrdered, AckedSurvives
  <1> QED
    BY Invariance, <1>1, PTL

(* The store's copies of the FlashImage operators are the same operators.  *)
LEMMA StoreOperators ==
  /\ Store!Image = Image /\ Store!Effect = Effect /\ Store!NoEffect = NoEffect
  /\ \A e, i : Store!Apply(e, i) = Apply(e, i)
  BY DEF Store!Image, Image, Store!Byte, Byte, Store!Effect, Effect,
         Store!ByteEffect, ByteEffect, Store!NoEffect, NoEffect, Store!Apply, Apply

(* Every step of the locking, merging, replacing and syncing implementation*)
(* is a step of the abstract store, or changes nothing the store sees.     *)
THEOREM SavesImplementStore == Spec => StoreSpec
  <1>1. Init => Store!StoreInit
    BY StoreOperators DEF Init, Store!StoreInit
  <1>2. IInv /\ [Next]_vars => [Store!StoreNext]_Store!storeVars
    <2> SUFFICES ASSUME IInv, [Next]_vars
                 PROVE  Store!StoreNext \/ UNCHANGED Store!storeVars
      OBVIOUS
    <2> USE DEF Store!storeVars, Store!StoreNext
    <2>1. ASSUME NEW t \in Threads,
                 Load(t) \/ BeginSave(t) \/ Locking(t) \/ Merge(t)
                 \/ NothingToUnlink(t) \/ SaveFails(t)
          PROVE  UNCHANGED Store!storeVars
      BY <2>1 DEF Load, BeginSave, Locking, AcquireThread, ThreadTimeout,
                  AcquireFile, FileTimeout, Unlock, ReleaseThread, Merge, MergeInto,
                  NothingToUnlink, SaveFails, Goto
    <2>2. ASSUME NEW t \in Threads, NEW op \in GuestOps, Operate(t, op)
          PROVE  Store!Change(t)
      <3>1. op \in Operation
        BY StateSaveAssumption
      <3>2. Then(pending[t], EffectOf(op)) \in Effect
        BY <3>1, EffectOfType, ThenType DEF IInv, TypeOK
      <3> QED
        BY <2>2, <3>2, StoreOperators DEF IInv, TypeOK, Operate, Store!Change
    <2>3. ASSUME NEW t \in Threads, Discard(t) \/ Adopt(t)
          PROVE  Store!Forget({t})
      BY <2>3, StoreOperators
         DEF IInv, TypeOK, Discard, Vanish, Adopt, Goto, Store!Forget
    <2>4. ASSUME NEW t \in Threads, Replace(t) PROVE Store!Commit(t)
      BY <2>4, StoreOperators
         DEF Replace, MergeIsFresh, Goto, IInv, TypeOK, Store!Commit
    <2>5. ASSUME NEW t \in Threads, SyncDirectory(t) PROVE Store!MakeDurable
      BY <2>5 DEF SyncDirectory, Goto, Store!MakeDurable
    <2>6. ASSUME NEW p \in Procs, Crash(p)
          PROVE  \E S \in SUBSET Threads : Store!Forget(S)
      <3> DEFINE dead == {t \in Threads : ProcOf[t] = p}
      <3>1. Store!Forget(dead)
        BY <2>6, StoreOperators DEF Crash, Vanish, Store!Forget
      <3> QED
        BY <3>1
    <2>7. ASSUME PowerLoss PROVE Store!LosePower
      BY <2>7, StoreOperators DEF PowerLoss, Vanish, Store!LosePower
    <2>8. CASE UNCHANGED vars
      BY <2>8 DEF vars
    <2> QED
      BY <2>1, <2>2, <2>3, <2>4, <2>5, <2>6, <2>7, <2>8 DEF Next, Guest, Saving
  <1> QED
    BY <1>1, <1>2, Invariance, PTL DEF Spec, StoreSpec, Store!StoreSpec

-------------------------------------------------------------------------------
(* The NOR command device.                                                 *)


(* The next phase is a phase.                                              *)
LEMMA NextPhaseType ==
  ASSUME phase \in Phases, NEW a, NEW v
  PROVE  NextPhase(a, v) \in Phases
<1>1. \A t \in Transitions : t[4] \in Phases
  BY DEF Transitions, Phases
<1>2. ASSUME \E t \in Transitions : Applies(t, a, v)
      PROVE  (CHOOSE t \in Transitions : Applies(t, a, v))[4] \in Phases
  <2>1. (CHOOSE t \in Transitions : Applies(t, a, v)) \in Transitions
    BY <1>2
  <2>2. QED BY <1>1, <2>1
<1>3. QED BY <1>2 DEF NextPhase, Phases, DataPhases

(* Where a store leads, read off the transition table.                     *)
LEMMA NextPhaseOrigin ==
  ASSUME NEW a, NEW v
  PROVE  /\ NextPhase(a, v) \in DataPhases =>
              v = "A0" /\ phase \notin DataPhases
         /\ NextPhase(a, v) = "unlock1" => v = "AA" /\ a \in First
         /\ NextPhase(a, v) = "unlock2" => phase = "unlock1" /\ v = "55" /\ a \in Second
         /\ NextPhase(a, v) = "erase1" => phase = "unlock2" /\ v = "80" /\ a \in First
         /\ NextPhase(a, v) = "erase2" => phase = "erase1" /\ v = "AA" /\ a \in First
         /\ NextPhase(a, v) = "erase3" => phase = "erase2" /\ v = "55" /\ a \in Second
<1>1. CASE \E t \in Transitions : Applies(t, a, v)
  <2> DEFINE u == CHOOSE t \in Transitions : Applies(t, a, v)
  <2>1. u \in Transitions /\ Applies(u, a, v)
    BY <1>1
  <2>2. phase = u[1] /\ v = u[2] /\ a \in u[3]
    BY <2>1 DEF Applies
  <2>3. NextPhase(a, v) \in {u[4], "idle", "bypass"}
    BY <1>1 DEF NextPhase
  <2>4. /\ u[4] \in DataPhases => u[2] = "A0" /\ u[1] \notin DataPhases
        /\ u[4] = "unlock1" => u[2] = "AA" /\ u[3] = First
        /\ u[4] = "unlock2" => u[1] = "unlock1" /\ u[2] = "55" /\ u[3] = Second
        /\ u[4] = "erase1" => u[1] = "unlock2" /\ u[2] = "80" /\ u[3] = First
        /\ u[4] = "erase2" => u[1] = "erase1" /\ u[2] = "AA" /\ u[3] = First
        /\ u[4] = "erase3" => u[1] = "erase2" /\ u[2] = "55" /\ u[3] = Second
    <3> HIDE DEF u
    <3>1. QED BY <2>1 DEF Transitions, DataPhases
  <2> HIDE DEF u
  <2>5. QED BY <2>2, <2>3, <2>4 DEF DataPhases
<1>2. CASE ~ \E t \in Transitions : Applies(t, a, v)
  <2>1. NextPhase(a, v) \in {"idle", "bypass"}
    BY <1>2 DEF NextPhase
  <2>2. QED BY <2>1 DEF DataPhases
<1>3. QED BY <1>1, <1>2

(* The contents after a store are an image.                                *)
LEMMA DataAfterType ==
  ASSUME NorFlashAssumption, contents \in Image, NEW a, NEW v \in Values
  PROVE  DataAfter(a, v) \in Image
BY DEF NorFlashAssumption, DataAfter, Image, Byte

(* Every value kept and shown is an image.                                 *)
LEMMA FlushedType ==
  ASSUME NorTypeOK
  PROVE  Flushed \in Image
BY DEF NorTypeOK, Flushed, Image

-------------------------------------------------------------------------------

(* The types.                                                              *)
LEMMA NorTypeStep ==
  ASSUME NorFlashAssumption, NorTypeOK, [NorNext]_norVars
  PROVE  NorTypeOK'
<1>1. ASSUME NEW a \in Cells, NEW v \in Values, FlashWrite(a, v)
      PROVE  NorTypeOK'
  <2>1. DataAfter(a, v) \in Image
    BY DataAfterType DEF NorTypeOK
  <2>2. NextPhase(a, v) \in Phases
    BY NextPhaseType DEF NorTypeOK
  <2>3. commandBase' \in Cells
    BY <1>1 DEF FlashWrite, NorTypeOK, NorFlashAssumption
  <2>4. visible' \in Image
    BY <1>1, <2>1 DEF FlashWrite, NorTypeOK, NorFlashAssumption, Image
  <2>5. restore' \in [Cells -> {Nothing} \cup Byte]
    BY <1>1, <2>1 DEF FlashWrite, NorTypeOK, Image
  <2>6. recent' \in [1..5 -> {"AA", "55", "80", "-"}]
    BY <1>1 DEF FlashWrite, RecordStore, Cycle, NorTypeOK
  <2>7. previous' \in {"A0", "10", "30", "other"} /\ lastCell' \in Cells
    BY <1>1 DEF FlashWrite, RecordStore
  <2>8. QED BY <1>1, <2>1, <2>2, <2>3, <2>4, <2>5, <2>6, <2>7 DEF FlashWrite, NorTypeOK
<1>2. ASSUME NEW a \in Cells, NEW v \in Values, BoardStore(a, v)
      PROVE  NorTypeOK'
  <2>1. visible' \in Image
    BY <1>2 DEF BoardStore, NorTypeOK, NorFlashAssumption, Image
  <2>2. QED BY <1>2, <2>1 DEF BoardStore, NorTypeOK
<1>3. ASSUME NEW a \in Cells, Read(a)
      PROVE  NorTypeOK'
  <2>1. Flushed \in Image
    BY FlushedType
  <2>2. ids' \in BOOLEAN
    BY <1>3 DEF Read, NorTypeOK, NorFlashAssumption
  <2>3. visible' \in Image
    BY <1>3, <2>1 DEF Read, NorTypeOK, NorFlashAssumption, Image
  <2>4. restore' \in [Cells -> {Nothing} \cup Byte]
    BY <1>3 DEF Read, NoneKept, NorTypeOK, Image
  <2>5. QED BY <1>3, <2>2, <2>3, <2>4 DEF Read, NorTypeOK
<1>4. CASE Flush
  <2>1. Flushed \in Image
    BY FlushedType
  <2>2. QED BY <1>4, <2>1 DEF Flush, NoneKept, NorTypeOK
<1>5. CASE UNCHANGED norVars
  BY <1>5 DEF norVars, NorTypeOK
<1>6. \A s \in GuestStores : s[1] \in Cells /\ s[2] \in Values
  BY DEF NorFlashAssumption
<1>7. QED BY <1>1, <1>2, <1>3, <1>4, <1>5, <1>6 DEF NorNext

(* Bytes kept back and bytes shown add up to the flash.                    *)
LEMMA GuestStep ==
  ASSUME NorFlashAssumption, EraseOwnBlock, NorTypeOK, GuestSeesFlash, [NorNext]_norVars
  PROVE  GuestSeesFlash'
<1> SUFFICES ASSUME NEW c \in Cells \ Board
             PROVE  Flushed'[c] = contents'[c]
  BY DEF GuestSeesFlash, Flushed
<1>1. Flushed[c] = contents[c]
  BY DEF GuestSeesFlash
<1>2. contents[c] # Nothing /\ contents[c] \in Byte
  BY DEF NorTypeOK, Image, NorFlashAssumption
<1>3. ASSUME NEW a \in Cells, NEW v \in Values, FlashWrite(a, v)
      PROVE  Flushed'[c] = contents'[c]
  <2>1. DataAfter(a, v) \in Image
    BY DataAfterType DEF NorTypeOK
  <2>2. CASE c = a
    <3>1. restore'[c] = contents'[c]
      BY <1>3, <2>2 DEF FlashWrite, NorTypeOK
    <3>2. contents'[c] # Nothing
      BY <1>3, <2>1 DEF FlashWrite, Image, NorFlashAssumption
    <3>3. QED BY <3>1, <3>2 DEF Flushed
  <2>3. CASE c # a /\ c \in Modified(a, v)
    <3>1. phase = "erase3"
      BY <2>3 DEF Modified, Erased
    <3>2. restore[c] = Nothing
      BY <1>3, <3>1 DEF FlashWrite, NoneKept
    <3>3. restore'[c] = Nothing
      BY <1>3, <2>3, <3>2 DEF FlashWrite, NorTypeOK
    <3>4. visible'[c] = contents'[c]
      BY <1>3, <2>3 DEF FlashWrite
    <3>5. QED BY <3>3, <3>4 DEF Flushed
  <2>4. CASE c # a /\ c \notin Modified(a, v)
    <3>1. c \notin Erased(a, v)
      BY <2>4 DEF Modified, Erased, DataPhases
    <3>2. contents'[c] = contents[c]
      BY <1>3, <2>4, <3>1 DEF FlashWrite, DataAfter
    <3>3. visible'[c] = visible[c] /\ restore'[c] = restore[c]
      BY <1>3, <2>4 DEF FlashWrite, NorTypeOK
    <3>4. QED BY <1>1, <3>2, <3>3 DEF Flushed
  <2>5. QED BY <2>2, <2>3, <2>4
<1>4. ASSUME NEW a \in Cells, NEW v \in Values, BoardStore(a, v)
      PROVE  Flushed'[c] = contents'[c]
  <2>1. visible'[c] = visible[c] /\ restore'[c] = restore[c] /\ contents'[c] = contents[c]
    BY <1>4 DEF BoardStore, NorTypeOK, Image
  <2>2. QED BY <1>1, <2>1 DEF Flushed
<1>5. ASSUME NEW a \in Cells, Read(a)
      PROVE  Flushed'[c] = contents'[c]
  <2>1. contents'[c] = contents[c]
    BY <1>5 DEF Read
  <2>2. CASE phase = "autoselect" /\ ids' /\ c = a
    <3>1. restore'[c] = contents[c]
      BY <1>5, <2>2 DEF Read, NoneKept
    <3>2. QED BY <1>2, <2>1, <3>1 DEF Flushed
  <2>3. CASE ~ (phase = "autoselect" /\ ids' /\ c = a)
    <3>1. restore'[c] = Nothing
      BY <1>5, <2>3 DEF Read, NoneKept
    <3>2. visible'[c] = Flushed[c]
      BY <1>5, <2>3 DEF Read, Flushed
    <3>3. QED BY <1>1, <2>1, <3>1, <3>2 DEF Flushed
  <2>4. QED BY <2>2, <2>3
<1>6. CASE Flush
  <2>1. restore'[c] = Nothing /\ visible'[c] = Flushed[c] /\ contents'[c] = contents[c]
    BY <1>6 DEF Flush, NoneKept
  <2>2. QED BY <1>1, <2>1 DEF Flushed
<1>7. CASE UNCHANGED norVars
  BY <1>1, <1>7 DEF norVars, Flushed
<1>8. \A s \in GuestStores : s[1] \in Cells /\ s[2] \in Values
  BY DEF NorFlashAssumption
<1>9. QED BY <1>3, <1>4, <1>5, <1>6, <1>7, <1>8 DEF NorNext

-------------------------------------------------------------------------------
(* What the phase says about the last stores.                              *)

PhaseExplained ==
  /\ phase \in DataPhases => previous = "A0"
  /\ phase = "unlock1" => recent[5] = "AA"
  /\ phase = "unlock2" => recent[4] = "AA" /\ recent[5] = "55"
  /\ phase = "erase1" => recent[3] = "AA" /\ recent[4] = "55" /\ recent[5] = "80"
  /\ phase = "erase2" => /\ recent[2] = "AA" /\ recent[3] = "55"
                         /\ recent[4] = "80" /\ recent[5] = "AA"
  /\ phase = "erase3" => recent = EraseCommand

(* Every store that moves the machine on is recorded as the cycle it is.   *)
LEMMA PhaseStep ==
  ASSUME NorFlashAssumption, NorTypeOK, PhaseExplained, [NorNext]_norVars
  PROVE  PhaseExplained'
<1>1. ASSUME NEW a \in Cells, NEW v \in Values, FlashWrite(a, v)
      PROVE  PhaseExplained'
  <2>1. /\ recent'[1] = recent[2] /\ recent'[2] = recent[3]
        /\ recent'[3] = recent[4] /\ recent'[4] = recent[5]
        /\ recent'[5] = Cycle(a, v)
        /\ recent' \in [1..5 -> {"AA", "55", "80", "-"}]
    BY <1>1 DEF FlashWrite, RecordStore, Cycle, NorTypeOK
  <2>2. /\ v \in {"AA", "80"} /\ a \in First => Cycle(a, v) = v
        /\ v = "55" /\ a \in Second => Cycle(a, v) = v
    BY DEF Cycle
  <2>3. phase' = NextPhase(a, v)
    BY <1>1 DEF FlashWrite
  <2>4. phase' \in DataPhases => previous' = "A0"
    BY <1>1, <2>3, NextPhaseOrigin DEF FlashWrite, RecordStore
  <2>5. phase' = "unlock1" => recent'[5] = "AA"
    BY <2>1, <2>2, <2>3, NextPhaseOrigin
  <2>6. phase' = "unlock2" => recent'[4] = "AA" /\ recent'[5] = "55"
    BY <2>1, <2>2, <2>3, NextPhaseOrigin DEF PhaseExplained
  <2>7. phase' = "erase1" =>
          recent'[3] = "AA" /\ recent'[4] = "55" /\ recent'[5] = "80"
    BY <2>1, <2>2, <2>3, NextPhaseOrigin DEF PhaseExplained
  <2>8. phase' = "erase2" => /\ recent'[2] = "AA" /\ recent'[3] = "55"
                             /\ recent'[4] = "80" /\ recent'[5] = "AA"
    BY <2>1, <2>2, <2>3, NextPhaseOrigin DEF PhaseExplained
  <2>9. phase' = "erase3" => recent' = EraseCommand
    <3>1. SUFFICES ASSUME phase' = "erase3"
                   PROVE  recent' = EraseCommand
      OBVIOUS
    <3>2. /\ recent'[1] = "AA" /\ recent'[2] = "55" /\ recent'[3] = "80"
          /\ recent'[4] = "AA" /\ recent'[5] = "55"
      BY <3>1, <2>1, <2>2, <2>3, NextPhaseOrigin DEF PhaseExplained
    <3>3. QED BY <3>2, <2>1 DEF EraseCommand
  <2>10. QED BY <2>4, <2>5, <2>6, <2>7, <2>8, <2>9 DEF PhaseExplained
<1>2. CASE UNCHANGED <<phase, recent, previous, lastCell>>
  BY <1>2 DEF PhaseExplained
<1>3. \A s \in GuestStores : s[1] \in Cells /\ s[2] \in Values
  BY DEF NorFlashAssumption
<1>4. QED BY <1>1, <1>2, <1>3 DEF NorNext, BoardStore, Read, Flush, norVars

(* A store changes a cell's bits the way the phase allows.                 *)
LEMMA StoreEffect ==
  ASSUME NorFlashAssumption, NorTypeOK, PhaseExplained,
         NEW a \in Cells, NEW v \in Values, FlashWrite(a, v), NEW c \in Cells
  PROVE  /\ ~ contents'[c] \subseteq contents[c] =>
              /\ recent = EraseCommand
              /\ \/ previous' = "30" /\ c \in SectorOf[lastCell']
                 \/ previous' = "10" /\ lastCell' \in First
         /\ ~ contents[c] \subseteq contents'[c] => previous = "A0" /\ c = lastCell'
<1>1. contents' = DataAfter(a, v)
  BY DEF FlashWrite
<1>2. /\ previous' = IF v \in {"A0", "10", "30"} THEN v ELSE "other"
      /\ lastCell' = a
  BY DEF FlashWrite, RecordStore
<1>3. contents[c] \subseteq Bits
  BY DEF NorTypeOK, Image, Byte
<1>4. CASE phase \in DataPhases
  <2>1. \A d \in Cells : d # a => contents'[d] = contents[d]
    BY <1>1, <1>4 DEF DataAfter, Erased, DataPhases
  <2>2. contents'[a] = contents[a] \cap BitsOf[v]
    BY <1>1, <1>4 DEF DataAfter
  <2>3. QED BY <1>2, <1>4, <2>1, <2>2 DEF PhaseExplained
<1>5. CASE phase \notin DataPhases
  <2>1. contents'[c] = IF c \in Erased(a, v) THEN Bits ELSE contents[c]
    BY <1>1, <1>5 DEF DataAfter
  <2>2. c \in Erased(a, v) =>
          /\ phase = "erase3"
          /\ (v = "30" /\ c \in SectorOf[a]) \/ (v = "10" /\ a \in First)
    BY DEF Erased
  <2>3. QED BY <1>2, <1>3, <2>1, <2>2 DEF PhaseExplained
<1>6. QED BY <1>4, <1>5

-------------------------------------------------------------------------------

(* The inductive invariant.                                                *)
NorIInv == NorTypeOK /\ PhaseExplained /\ (EraseOwnBlock => GuestSeesFlash)

LEMMA NorInvariance == NorSpec => []NorIInv
<1>1. NorInit => NorIInv
  <2> SUFFICES ASSUME NorInit
               PROVE  NorIInv
    OBVIOUS
  <2> USE NorFlashAssumption
  <2>1. contents \in Image /\ visible \in Image
    BY DEF NorInit, NorFlashAssumption
  <2>2. NorTypeOK
    BY <2>1 DEF NorInit, NorTypeOK, Phases
  <2>3. PhaseExplained
    BY DEF NorInit, PhaseExplained, DataPhases
  <2>4. GuestSeesFlash
    BY <2>1 DEF NorInit, GuestSeesFlash, Flushed
  <2>5. QED BY <2>2, <2>3, <2>4 DEF NorIInv
<1>2. NorIInv /\ [NorNext]_norVars => NorIInv'
  <2> SUFFICES ASSUME NorIInv, [NorNext]_norVars
               PROVE  NorIInv'
    OBVIOUS
  <2>1. NorTypeOK'
    BY NorFlashAssumption, NorTypeStep DEF NorIInv
  <2>2. PhaseExplained'
    BY NorFlashAssumption, PhaseStep DEF NorIInv
  <2>3. EraseOwnBlock => GuestSeesFlash'
    BY NorFlashAssumption, GuestStep DEF NorIInv
  <2>4. QED BY <2>1, <2>2, <2>3 DEF NorIInv
<1>3. QED BY <1>1, <1>2, PTL DEF NorSpec

(* Type correctness of the device and of the guest memory over it.         *)
THEOREM NorTypeCorrect == NorSpec => []NorTypeOK
<1>1. NorIInv => NorTypeOK
  BY DEF NorIInv
<1>2. QED BY <1>1, NorInvariance, PTL

(* The guest reads what the flash holds (_flash_write, _flash_read and     *)
(* _restore_flash_once together), if no erase is confirmed in the basic    *)
(* block of an earlier store.                                              *)
THEOREM GuestReadsFlash == EraseOwnBlock /\ NorSpec => []GuestSeesFlash
<1>1. EraseOwnBlock /\ NorIInv => GuestSeesFlash
  BY DEF NorIInv
<1>2. CASE EraseOwnBlock
  <2>1. NorIInv => GuestSeesFlash
    BY <1>1, <1>2
  <2>2. QED BY <2>1, NorInvariance, PTL
<1>3. CASE ~ EraseOwnBlock
  BY <1>3
<1>4. QED BY <1>2, <1>3

(* Bits are set by complete erase commands only, inside what the confirming*)
(* store selects (NORFlash.write, _erase).                                 *)
THEOREM EraseSetsBits == NorSpec => OnlyEraseSetsBits
<1> DEFINE A == \A c \in Cells :
                  ~ contents'[c] \subseteq contents[c] =>
                    /\ recent = EraseCommand
                    /\ \/ previous' = "30" /\ c \in SectorOf[lastCell']
                       \/ previous' = "10" /\ lastCell' \in First
<1>1. NorIInv /\ [NorNext]_norVars => [A]_norVars
  <2> SUFFICES ASSUME NorIInv, [NorNext]_norVars, NEW c \in Cells, ~ contents'[c] \subseteq contents[c]
               PROVE  /\ recent = EraseCommand
                      /\ \/ previous' = "30" /\ c \in SectorOf[lastCell']
                         \/ previous' = "10" /\ lastCell' \in First
    OBVIOUS
  <2>1. PICK s \in GuestStores : FlashWrite(s[1], s[2])
    BY DEF NorNext, BoardStore, Read, Flush, norVars
  <2>2. s[1] \in Cells /\ s[2] \in Values
    BY <2>1, NorFlashAssumption DEF NorFlashAssumption
  <2>3. QED BY <2>1, <2>2, NorFlashAssumption, StoreEffect DEF NorIInv
<1>2. QED BY <1>1, NorInvariance, PTL DEF NorSpec, OnlyEraseSetsBits

(* Bits are cleared by the store after A0 only, in its cell only.          *)
THEOREM ProgramClearsBits == NorSpec => OnlyProgramClearsBits
<1> DEFINE A == \A c \in Cells :
                  ~ contents[c] \subseteq contents'[c] =>
                    previous = "A0" /\ c = lastCell'
<1>1. NorIInv /\ [NorNext]_norVars => [A]_norVars
  <2> SUFFICES ASSUME NorIInv, [NorNext]_norVars, NEW c \in Cells, ~ contents[c] \subseteq contents'[c]
               PROVE  previous = "A0" /\ c = lastCell'
    OBVIOUS
  <2>1. PICK s \in GuestStores : FlashWrite(s[1], s[2])
    BY DEF NorNext, BoardStore, Read, Flush, norVars
  <2>2. s[1] \in Cells /\ s[2] \in Values
    BY <2>1, NorFlashAssumption DEF NorFlashAssumption
  <2>3. QED BY <2>1, <2>2, NorFlashAssumption, StoreEffect DEF NorIInv
<1>2. QED BY <1>1, NorInvariance, PTL DEF NorSpec, OnlyProgramClearsBits
===============================================================================
