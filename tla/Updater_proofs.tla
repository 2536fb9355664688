----------------------------- MODULE Updater_proofs ----------------------------
(***************************************************************************)
(* Proofs about the in-place updater.                                      *)
(***************************************************************************)
EXTENDS Updater, Integers, Sequences, SequenceTheorems, FiniteSetTheorems, TLAPS

(***************************************************************************)
(* The updater: an update that gets through is complete, a rollback        *)
(* restores what the helper found, and local edits go only by the hand of  *)
(* a helper that may.  The lock makes the holder the only one who touches  *)
(* the installation and the backups; each result then is an invariant      *)
(* about the holder's phase.                                               *)
(***************************************************************************)

Holding  == Body \cup {"rollback"}
Holds(h) == pc[h] \in Holding

(* The lock is held from Begin to the end of the run, and only then are    *)
(* there names left to do.                                                 *)
LockIsHeld ==
  \A h \in Helpers :
    /\ lock = h <=> Holds(h)
    /\ todo[h] \subseteq (IF Holds(h) THEN Touched(h) ELSE {})

IInv == TypeOK /\ LockIsHeld

LEMMA InitIInv == Init => IInv
  BY UpdaterAssumption
  DEF Init, IInv, TypeOK, LockIsHeld, Fresh, Content, Paths, Holds, Holding, Body, Resting

LEMMA ContentFacts ==
  /\ Releases \subseteq Content /\ {Absent, Edited, Torn} \subseteq Content
  /\ Files \subseteq Paths /\ {Manifest, Revision} \subseteq Paths
  /\ \A h \in Helpers : RevisionOf[h] \in Releases /\ NewFiles(h) \subseteq Files
  BY UpdaterAssumption DEF Content, Paths, NewFiles

LEMMA TouchedType ==
  ASSUME TypeOK, NEW h \in Helpers
  PROVE  Touched(h) \subseteq Paths /\ Saved(h) \in [Paths -> Content]
  BY ContentFacts DEF TypeOK, Touched, Saved

(* What a step may leave behind when it is stopped half-way.               *)
LEMMA CutShortType ==
  ASSUME TypeOK, NEW h \in Helpers, NEW p \in Paths, CutShort(h, p)
  PROVE  target' \in [Paths -> Content] /\ backup' \in [Releases -> [Paths -> Content]]
  <1> USE ContentFacts, TouchedType DEF TypeOK
  <1>1. TargetAfter(h, p) \in [Paths -> Content]
    BY DEF TargetAfter
  <1>2. CASE UNCHANGED <<target, backup>>
    BY <1>2
  <1>3. CASE UNCHANGED target /\ backup' = [backup EXCEPT ![RevisionOf[h]][p] = Torn]
    BY <1>3
  <1>4. CASE UNCHANGED backup /\ target' \in {TargetAfter(h, p), [target EXCEPT ![p] = Torn]}
    BY <1>1, <1>4
  <1> QED
    BY <1>2, <1>3, <1>4 DEF CutShort

LEMMA RestType ==
  ASSUME TypeOK, NEW h \in Helpers, NEW outcome \in Resting, Rest(h, outcome),
         target' \in [Paths -> Content], backup' \in [Releases -> [Paths -> Content]]
  PROVE  TypeOK'
  <1>1. Fresh \in [Paths -> Content]
    BY UpdaterAssumption DEF Fresh, Content
  <1> QED
    BY <1>1 DEF TypeOK, Rest, Goto

LEMMA TypeStep == IInv /\ [Next]_vars => TypeOK'
  <1> SUFFICES ASSUME IInv, [Next]_vars PROVE TypeOK'
    OBVIOUS
  <1> USE ContentFacts, TouchedType DEF IInv
  <1>t. ASSUME NEW h \in Helpers PROVE todo[h] \subseteq Paths
    BY DEF TypeOK
  <1>1. ASSUME NEW f \in Files, Edit(f) PROVE TypeOK'
    BY <1>1 DEF Edit, TypeOK
  <1>2. ASSUME NEW h \in Helpers, NEW answer \in BOOLEAN, Check(h, answer) PROVE TypeOK'
    <2>1. ManifestFiles \subseteq Files
      BY UpdaterAssumption DEF ManifestFiles
    <2> QED
      BY <1>2, <2>1 DEF Check, Goto, TypeOK
  <1>3. ASSUME NEW h \in Helpers, Begin(h) PROVE TypeOK'
    BY <1>3 DEF Begin, Goto, TypeOK, Body
  <1>4. ASSUME NEW h \in Helpers, Iterate(h) PROVE TypeOK'
    <2>1. PICK p \in todo[h] : /\ target' = TargetAfter(h, p)
                               /\ backup' = BackupAfter(h, p)
                               /\ Goto(h, pc[h], todo[h] \ {p})
                               /\ UNCHANGED <<lock, oldFiles, discard, start, met>>
      BY <1>4 DEF Iterate
    <2>2. p \in Paths
      BY <1>t
    <2>3. target' \in [Paths -> Content] /\ backup' \in [Releases -> [Paths -> Content]]
      BY <2>1, <2>2 DEF TargetAfter, BackupAfter, TypeOK
    <2> QED
      BY <2>1, <2>3 DEF TypeOK, Goto
  <1>5. ASSUME NEW h \in Helpers, Advance(h) PROVE TypeOK'
    <2>1. FollowingPhase(h)[1] \in Body /\ FollowingPhase(h)[2] \subseteq Paths
      BY DEF FollowingPhase, Body, TypeOK
    <2> QED
      BY <1>5, <2>1 DEF Advance, Goto, TypeOK
  <1>6. ASSUME NEW h \in Helpers, Return(h) PROVE TypeOK'
    <2>1. (IF pc[h] = "revision" THEN "done" ELSE "rolledback") \in Resting
      BY DEF Resting
    <2> QED
      BY <1>6, <2>1, RestType DEF Return, TypeOK
  <1>7. ASSUME NEW h \in Helpers, Fail(h) PROVE TypeOK'
    <2>1. target' \in [Paths -> Content] /\ backup' \in [Releases -> [Paths -> Content]]
      BY <1>7, <1>t, CutShortType DEF Fail
    <2> QED
      BY <1>7, <2>1 DEF Fail, Goto, TypeOK
  <1>8. ASSUME NEW h \in Helpers, RollbackFails(h) PROVE TypeOK'
    <2>1. target' \in [Paths -> Content] /\ backup' \in [Releases -> [Paths -> Content]]
      BY <1>8, <1>t, CutShortType DEF RollbackFails
    <2> QED
      BY <1>8, <2>1, RestType DEF RollbackFails, Resting
  <1>9. ASSUME NEW h \in Helpers, Kill(h) PROVE TypeOK'
    <2>1. target' \in [Paths -> Content] /\ backup' \in [Releases -> [Paths -> Content]]
      BY <1>9, <1>t, CutShortType DEF Kill, TypeOK
    <2> QED
      BY <1>9, <2>1, RestType DEF Kill, Resting
  <1>10. CASE UNCHANGED vars
    BY <1>10 DEF vars, TypeOK
  <1> QED
    BY <1>1, <1>2, <1>3, <1>4, <1>5, <1>6, <1>7, <1>8, <1>9, <1>10 DEF Next

LEMMA LockStep == IInv /\ [Next]_vars => LockIsHeld'
  <1> SUFFICES ASSUME IInv, [Next]_vars PROVE LockIsHeld'
    OBVIOUS
  <1> USE UpdaterAssumption DEF IInv, TypeOK, Holds, Holding, Body, Resting
  <1>r. ASSUME NEW h \in Helpers, NEW outcome \in Resting, pc[h] \notin Resting, Rest(h, outcome)
        PROVE  LockIsHeld'
    BY <1>r DEF LockIsHeld, Rest, Goto, Touched, NewFiles
  <1>1. ASSUME NEW f \in Files, Edit(f) PROVE LockIsHeld'
    BY <1>1 DEF Edit, LockIsHeld, Touched, NewFiles
  <1>2. ASSUME NEW h \in Helpers, NEW answer \in BOOLEAN, Check(h, answer) PROVE LockIsHeld'
    BY <1>2 DEF Check, Goto, LockIsHeld, Touched, NewFiles
  <1>3. ASSUME NEW h \in Helpers, Begin(h) PROVE LockIsHeld'
    BY <1>3 DEF Begin, Goto, LockIsHeld, Touched, NewFiles
  <1>4. ASSUME NEW h \in Helpers, Iterate(h) PROVE LockIsHeld'
    BY <1>4 DEF Iterate, Goto, LockIsHeld, Touched, NewFiles
  <1>5. ASSUME NEW h \in Helpers, Advance(h) PROVE LockIsHeld'
    BY <1>5 DEF Advance, Goto, FollowingPhase, LockIsHeld, Touched, NewFiles
  <1>6. ASSUME NEW h \in Helpers, Return(h) PROVE LockIsHeld'
    BY <1>6, <1>r DEF Return
  <1>7. ASSUME NEW h \in Helpers, Fail(h) PROVE LockIsHeld'
    BY <1>7 DEF Fail, Goto, LockIsHeld, Touched, NewFiles
  <1>8. ASSUME NEW h \in Helpers, RollbackFails(h) PROVE LockIsHeld'
    BY <1>8, <1>r DEF RollbackFails
  <1>9. ASSUME NEW h \in Helpers, Kill(h) PROVE LockIsHeld'
    BY <1>9, <1>r DEF Kill
  <1>10. CASE UNCHANGED vars
    BY <1>10 DEF vars, LockIsHeld, Touched, NewFiles
  <1> QED
    BY <1>1, <1>2, <1>3, <1>4, <1>5, <1>6, <1>7, <1>8, <1>9, <1>10 DEF Next

(* TypeOK is an invariant of the updater (update.py).                      *)
THEOREM TypeCorrect == Spec => []TypeOK
  BY InitIInv, TypeStep, LockStep, PTL DEF Spec, IInv

-------------------------------------------------------------------------------
(* One helper at a time has its hands on the installation and the backups; *)
(* what it leaves alone in a step stays.                                   *)

(* A step of another helper changes nothing the holder looks at.           *)
Untouched(h) ==
  UNCHANGED <<target, backup, pc[h], todo[h], oldFiles[h], discard[h], start[h]>>

(* The holder goes on to the next name or the next phase, or gives up.     *)
Continues(h) == Iterate(h) \/ Advance(h) \/ Fail(h)

LEMMA HolderSteps ==
  ASSUME IInv, [Next]_vars, NEW h \in Helpers, Holds(h)'
  PROVE  Begin(h) \/ Continues(h) \/ Untouched(h)
  <1> USE UpdaterAssumption DEF IInv, TypeOK, LockIsHeld, Holds, Holding, Body, Resting
  <1>1. ASSUME NEW f \in Files, Edit(f) PROVE FALSE
    BY <1>1 DEF Edit
  <1>2. ASSUME NEW g \in Helpers, NEW answer \in BOOLEAN, Check(g, answer) PROVE Untouched(h)
    BY <1>2 DEF Check, Goto, Untouched
  <1>3. ASSUME NEW g \in Helpers, Begin(g) PROVE g = h
    BY <1>3, LockStep DEF Begin
  <1>4. ASSUME NEW g \in Helpers, g # h, Iterate(g) \/ Advance(g) \/ Fail(g) PROVE FALSE
    <2>1. Holds(g) /\ lock' = lock
      BY <1>4 DEF Iterate, Advance, Fail
    <2> QED
      BY <1>4, <2>1, LockStep
  <1>5. ASSUME NEW g \in Helpers, NEW outcome \in Resting, Rest(g, outcome) PROVE g # h
    BY <1>5 DEF Rest, Goto
  <1>6. ASSUME NEW g \in Helpers, Return(g) \/ RollbackFails(g) PROVE FALSE
    <2>1. Holds(g)
      BY <1>6 DEF Return, RollbackFails
    <2>2. PICK outcome \in Resting : Rest(g, outcome)
      BY <1>6 DEF Return, RollbackFails
    <2> QED
      BY <2>1, <2>2, LockStep DEF Rest
  <1>7. ASSUME NEW g \in Helpers, Kill(g) PROVE Untouched(h)
    <2>1. Rest(g, "idle")
      BY <1>7 DEF Kill
    <2>2. g # h /\ ~Holds(g)
      BY <2>1, <1>5, LockStep DEF Rest
    <2>3. todo[g] = {}
      BY <2>2
    <2> QED
      BY <1>7, <2>1, <2>2, <2>3 DEF Kill, Rest, Goto, Untouched
  <1>8. CASE UNCHANGED vars
    BY <1>8 DEF vars, Untouched
  <1> QED
    BY <1>1, <1>2, <1>3, <1>4, <1>6, <1>7, <1>8 DEF Next, Continues

-------------------------------------------------------------------------------
(* An update that gets through.                                            *)

InPlace(h, names) == \A p \in names : target[p] = RevisionOf[h]
OldOnly(h)        == oldFiles[h] \ NewFiles(h)
Gone(h, names)    == \A f \in names : target[f] = Absent

(* What each loop has done already, and those before it.                   *)
Progress(h) ==
  /\ pc[h] = "install"  => /\ todo[h] \subseteq NewFiles(h)
                           /\ InPlace(h, NewFiles(h) \ todo[h])
  /\ pc[h] = "remove"   => /\ todo[h] \subseteq OldOnly(h)
                           /\ InPlace(h, NewFiles(h)) /\ Gone(h, OldOnly(h) \ todo[h])
  /\ pc[h] = "manifest" => /\ todo[h] \subseteq {Manifest}
                           /\ InPlace(h, NewFiles(h) \cup ({Manifest} \ todo[h]))
                           /\ Gone(h, OldOnly(h))
  /\ pc[h] = "revision" => /\ todo[h] \subseteq {Revision}
                           /\ InPlace(h, NewFiles(h) \cup {Manifest} \cup ({Revision} \ todo[h]))
                           /\ Gone(h, OldOnly(h))

Progresses == \A h \in Helpers : Progress(h)

LEMMA ProgressInit == Init => Progresses
  BY DEF Init, Progresses, Progress

LEMMA ProgressStep == IInv /\ Progresses /\ [Next]_vars => Progresses'
  <1> SUFFICES ASSUME IInv, Progresses, [Next]_vars, NEW h \in Helpers PROVE Progress(h)'
    BY DEF Progresses
  <1> USE UpdaterAssumption DEF IInv, TypeOK, NewFiles, OldOnly
  <1>p. Progress(h)
    BY DEF Progresses
  <1>0. CASE ~Holds(h)'
    BY <1>0 DEF Holds, Holding, Body, Progress
  <1>1. ASSUME Begin(h) PROVE Progress(h)'
    BY <1>1 DEF Begin, Goto, Progress
  <1>2. ASSUME Iterate(h) PROVE Progress(h)'
    <2>1. PICK p \in todo[h] : /\ target' = TargetAfter(h, p)
                               /\ Goto(h, pc[h], todo[h] \ {p})
                               /\ UNCHANGED oldFiles
      BY <1>2 DEF Iterate
    <2>2. p \in Paths /\ pc' = pc /\ todo'[h] = todo[h] \ {p}
      BY <2>1 DEF Goto
    <2>3. CASE pc[h] = "install"
      BY <1>p, <2>1, <2>2, <2>3 DEF TargetAfter, Progress, InPlace
    <2>4. CASE pc[h] = "remove"
      BY <1>p, <2>1, <2>2, <2>4 DEF TargetAfter, Progress, InPlace, Gone
    <2>5. CASE pc[h] = "manifest"
      BY <1>p, <2>1, <2>2, <2>5 DEF TargetAfter, Progress, InPlace, Gone
    <2>6. CASE pc[h] = "revision"
      BY <1>p, <2>1, <2>2, <2>6 DEF TargetAfter, Progress, InPlace, Gone
    <2> QED
      BY <2>2, <2>3, <2>4, <2>5, <2>6 DEF Progress
  <1>3. ASSUME Advance(h) PROVE Progress(h)'
    BY <1>p, <1>3 DEF Advance, Goto, FollowingPhase, Progress, InPlace, Gone, Body
  <1>4. ASSUME Fail(h) PROVE Progress(h)'
    BY <1>4 DEF Fail, Goto, Progress
  <1>5. ASSUME Untouched(h) PROVE Progress(h)'
    BY <1>p, <1>5 DEF Untouched, Progress, InPlace, Gone
  <1> QED
    BY <1>0, <1>1, <1>2, <1>3, <1>4, <1>5, HolderSteps DEF Continues

(* The revision marker is the last thing to be written: whoever finds it   *)
(* written finds every file of the release, its manifest, and no file      *)
(* which only the old release had (_apply_update).                         *)
THEOREM MarkerMeansComplete == Spec => []UpdateComplete
  <1>1. Progresses => UpdateComplete
    BY DEF Progresses, Progress, UpdateComplete, InPlace, Gone, OldOnly
  <1> QED
    BY <1>1, InitIInv, TypeStep, LockStep, ProgressInit, ProgressStep, PTL DEF Spec, IInv

-------------------------------------------------------------------------------
(* A rollback that gets through.                                           *)

(* Until the first file is installed nothing has changed; from then on the *)
(* backup has what every touched path held.                                *)
Restorable(h) ==
  /\ Holds(h) => \A p \in Paths \ Touched(h) : target[p] = start[h][p]
  /\ pc[h] = "backup" => /\ target = start[h]
                         /\ \A p \in Touched(h) \ todo[h] : Saved(h)[p] = start[h][p]
  /\ pc[h] \in Holding \ {"backup"} => \A p \in Touched(h) : Saved(h)[p] = start[h][p]
  /\ pc[h] = "rollback" => \A p \in Touched(h) \ todo[h] : target[p] = start[h][p]

AllRestorable == \A h \in Helpers : Restorable(h)

LEMMA RestorableInit == Init => AllRestorable
  BY DEF Init, AllRestorable, Restorable, Holds, Holding, Body

LEMMA RestorableStep ==
  ASSUME ~BackupMayFail
  PROVE  IInv /\ AllRestorable /\ [Next]_vars => AllRestorable'
  <1> SUFFICES ASSUME IInv, AllRestorable, [Next]_vars, NEW h \in Helpers PROVE Restorable(h)'
    BY DEF AllRestorable
  <1> USE UpdaterAssumption DEF IInv, TypeOK
  <1>p. Restorable(h)
    BY DEF AllRestorable
  <1>t. Touched(h) \subseteq Paths /\ RevisionOf[h] \in Releases
    BY TouchedType
  <1>l. /\ todo[h] \subseteq Touched(h)
        /\ Holds(h) => lock = h
    BY DEF LockIsHeld
  <1>0. CASE ~Holds(h)'
    BY <1>0 DEF Holds, Holding, Body, Restorable
  <1>1. ASSUME Begin(h) PROVE Restorable(h)'
    BY <1>1, <1>t DEF Begin, Goto, Restorable, Holds, Holding, Body, Saved, Touched, NewFiles
  <1>2. ASSUME Iterate(h) PROVE Restorable(h)'
    <2>1. PICK p \in todo[h] : /\ target' = TargetAfter(h, p)
                               /\ backup' = BackupAfter(h, p)
                               /\ Goto(h, pc[h], todo[h] \ {p})
                               /\ UNCHANGED <<oldFiles, start>>
      BY <1>2 DEF Iterate
    <2>2. p \in Touched(h) /\ Touched(h)' = Touched(h) /\ pc' = pc /\ todo'[h] = todo[h] \ {p}
      BY <2>1, <1>l DEF Goto, Touched, NewFiles
    <2>3. CASE pc[h] = "backup"
      BY <1>p, <1>t, <2>1, <2>2, <2>3
      DEF TargetAfter, BackupAfter, Restorable, Saved, Holds, Holding, Body
    <2>4. CASE pc[h] = "rollback"
      BY <1>p, <1>t, <2>1, <2>2, <2>4
      DEF TargetAfter, BackupAfter, Restorable, Saved, Holds, Holding, Body
    <2>5. CASE pc[h] \in Body \ {"backup"}
      BY <1>p, <1>t, <2>1, <2>2, <2>5
      DEF TargetAfter, BackupAfter, Restorable, Saved, Holds, Holding, Body
    <2>6. CASE ~Holds(h)
      BY <2>2, <2>6 DEF Restorable, Holds, Holding, Body
    <2> QED
      BY <2>3, <2>4, <2>5, <2>6 DEF Holds, Holding
  <1>3. ASSUME Advance(h) PROVE Restorable(h)'
    BY <1>p, <1>t, <1>3
    DEF Advance, Goto, FollowingPhase, Restorable, Saved, Holds, Holding, Body, Touched, NewFiles
  <1>4. ASSUME Fail(h) PROVE Restorable(h)'
    <2>1. PICK p \in todo[h] : CutShort(h, p)
      BY <1>4 DEF Fail
    <2>2. /\ pc[h] \in Body \ {"backup"} /\ pc'[h] = "rollback" /\ todo'[h] = Touched(h)
          /\ UNCHANGED <<oldFiles, start>> /\ Touched(h)' = Touched(h)
      BY <1>4, <1>t DEF Fail, Goto, Touched, NewFiles
    <2>3. p \in Touched(h)
      BY <1>l
    <2>4. backup' = backup /\ \A q \in Paths \ {p} : target'[q] = target[q]
      BY <2>1, <2>2 DEF CutShort, TargetAfter
    <2> QED
      BY <1>p, <1>t, <2>2, <2>3, <2>4 DEF Restorable, Saved, Holds, Holding, Body
  <1>5. ASSUME Untouched(h) PROVE Restorable(h)'
    BY <1>p, <1>5 DEF Untouched, Restorable, Saved, Holds, Touched, NewFiles
  <1> QED
    BY <1>0, <1>1, <1>2, <1>3, <1>4, <1>5, HolderSteps DEF Continues

(* Unless it was the copying to the backup that failed, a rollback that    *)
(* gets through leaves the installation as the helper found it, whatever   *)
(* earlier helpers had left there (_rollback).                             *)
THEOREM RollbackRestores ==
  ASSUME ~BackupMayFail
  PROVE  Spec => []RolledBack
  <1>1. TypeOK /\ AllRestorable => RolledBack
    BY DEF TypeOK, AllRestorable, Restorable, RolledBack, Holds, Holding, Body
  <1> QED
    BY <1>1, InitIInv, TypeStep, LockStep, RestorableInit, RestorableStep, PTL DEF Spec, IInv

-------------------------------------------------------------------------------
(* Local edits.                                                            *)

Working(h) == pc[h] \notin Resting

(* A helper that has met nobody is the only one at work.                   *)
Alone(h) == Working(h) /\ h \notin met => \A g \in Helpers \ {h} : ~Working(g)

(* One whose user was not asked found its old files unedited, and has kept *)
(* them so: neither the installation nor its backup has an edit of them.   *)
Unasked(h) == Working(h) /\ ~discard[h] /\ h \notin met

Unedited(h) ==
  Unasked(h) => \A f \in oldFiles[h] :
                  /\ target[f] # Edited
                  /\ Holds(h) => Saved(h)[f] # Edited

AllUnedited == \A h \in Helpers : Alone(h) /\ Unedited(h)

LEMMA UneditedInit == Init => AllUnedited
  BY DEF Init, AllUnedited, Alone, Unedited, Unasked, Working, Resting

(* A step of a helper at work concerns nobody else's phase.                *)
LEMMA ActorWorks ==
  ASSUME IInv, NEW g \in Helpers,
         \/ Begin(g) \/ Iterate(g) \/ Advance(g) \/ Fail(g)
         \/ Return(g) \/ RollbackFails(g) \/ Kill(g)
  PROVE  /\ Working(g)
         /\ \A k \in Helpers \ {g} : pc'[k] = pc[k]
         /\ met' = met \/ (met' = met \ {g} /\ ~Working(g)')
  <1> USE DEF IInv, TypeOK, Working, Resting, Body, Goto
  <1>1. CASE Begin(g) \/ Advance(g)
    BY <1>1 DEF Begin, Advance
  <1>2. CASE Iterate(g)
    BY <1>2 DEF Iterate, LockIsHeld, Holds, Holding
  <1>3. CASE Fail(g)
    <2>1. Goto(g, "rollback", Touched(g)) /\ UNCHANGED met /\ pc[g] \in Body
      BY <1>3 DEF Fail
    <2> QED
      BY <2>1
  <1>4. CASE Return(g)
    BY <1>4 DEF Return, Rest
  <1>5. CASE RollbackFails(g)
    <2>1. Rest(g, "failed") /\ pc[g] = "rollback"
      BY <1>5 DEF RollbackFails
    <2> QED
      BY <2>1 DEF Rest
  <1>6. CASE Kill(g)
    <2>1. Rest(g, "idle") /\ pc[g] \notin Resting
      BY <1>6 DEF Kill
    <2> QED
      BY <2>1 DEF Rest
  <1> QED
    BY <1>1, <1>2, <1>3, <1>4, <1>5, <1>6

LEMMA AloneStep ==
  ASSUME IInv, AllUnedited, [Next]_vars, NEW h \in Helpers
  PROVE  Alone(h)'
  <1> USE DEF IInv, TypeOK, AllUnedited, Alone, Working, Resting
  <1>1. ASSUME NEW f \in Files, Edit(f) PROVE Alone(h)'
    BY <1>1 DEF Edit
  <1>2. ASSUME NEW g \in Helpers, NEW answer \in BOOLEAN, Check(g, answer) PROVE Alone(h)'
    BY <1>2 DEF Check, Goto
  <1>3. ASSUME NEW g \in Helpers,
               \/ Begin(g) \/ Iterate(g) \/ Advance(g) \/ Fail(g)
               \/ Return(g) \/ RollbackFails(g) \/ Kill(g)
        PROVE  Alone(h)'
    BY <1>3, ActorWorks
  <1>4. CASE UNCHANGED vars
    BY <1>4 DEF vars
  <1> QED
    BY <1>1, <1>2, <1>3, <1>4 DEF Next

(* One iteration writes no edit but what the backup holds, and saves none  *)
(* but what is installed.                                                  *)
LEMMA WritesNoEdit ==
  ASSUME IInv, NEW h \in Helpers, NEW p \in Paths,
         NEW f \in oldFiles[h], target[f] # Edited, Saved(h)[f] # Edited,
         \/ target' = TargetAfter(h, p) /\ backup' = BackupAfter(h, p)
         \/ CutShort(h, p)
         \/ UNCHANGED <<target, backup>>
  PROVE  target'[f] # Edited /\ Saved(h)'[f] # Edited
  <1> USE UpdaterAssumption DEF IInv, TypeOK
  <1>1. f \in Paths /\ RevisionOf[h] \in Releases /\ RevisionOf[h] # Edited
    BY DEF Paths
  <1>2. CASE UNCHANGED <<target, backup>>
    BY <1>2 DEF Saved
  <1>3. CASE target' = TargetAfter(h, p) /\ backup' = BackupAfter(h, p)
    BY <1>1, <1>3 DEF Saved, TargetAfter, BackupAfter
  <1>4. CASE CutShort(h, p)
    <2>1. CASE UNCHANGED target /\ backup' = [backup EXCEPT ![RevisionOf[h]][p] = Torn]
      BY <1>1, <2>1 DEF Saved
    <2>2. CASE UNCHANGED backup /\ target' = [target EXCEPT ![p] = Torn]
      BY <1>1, <2>2 DEF Saved
    <2>3. CASE UNCHANGED backup /\ target' = TargetAfter(h, p)
      BY <1>1, <2>3 DEF Saved, TargetAfter
    <2> QED
      BY <1>2, <1>4, <2>1, <2>2, <2>3 DEF CutShort
  <1> QED
    BY <1>2, <1>3, <1>4

(* A helper begins to look at the files it was not asked about.            *)
LEMMA CheckedUnedited ==
  ASSUME IInv, AllUnedited, NEW h \in Helpers, NEW answer \in BOOLEAN, Check(h, answer)
  PROVE  Unedited(h)'
  <1> USE UpdaterAssumption DEF IInv, TypeOK
  <1>1. ~answer => \A f \in ManifestFiles : target[f] # Edited
    BY DEF Check, Clean, ManifestFiles
  <1>2. ~Holds(h)' /\ oldFiles'[h] = ManifestFiles /\ discard'[h] = answer /\ target' = target
    BY DEF Check, Goto, Holds, Holding, Body
  <1> QED
    BY <1>1, <1>2 DEF Unedited, Unasked

LEMMA UneditedStep == IInv /\ AllUnedited /\ [Next]_vars => AllUnedited'
  <1> SUFFICES ASSUME IInv, AllUnedited, [Next]_vars, NEW h \in Helpers PROVE Unedited(h)'
    BY AloneStep DEF AllUnedited
  <1> USE UpdaterAssumption DEF IInv, TypeOK
  <1>p. Alone(h) /\ Unedited(h)
    BY DEF AllUnedited
  <1>l. /\ LockIsHeld /\ LockIsHeld'
        /\ Holds(h) => lock = h
        /\ todo[h] \subseteq Touched(h) /\ Touched(h) \subseteq Paths
    BY LockStep, TouchedType DEF LockIsHeld
  <1>0. CASE ~Unasked(h)'
    BY <1>0 DEF Unedited
  <1>1. ASSUME NEW f \in Files, Edit(f) PROVE Unedited(h)'
    BY <1>1 DEF Edit, Unedited, Unasked, Working
  <1>2. ASSUME NEW g \in Helpers, NEW answer \in BOOLEAN, Check(g, answer) PROVE Unedited(h)'
    <2>1. CASE g = h
      BY <1>2, <2>1, CheckedUnedited
    <2>2. CASE g # h
      BY <1>2, <1>p, <2>2 DEF Check, Goto, Unedited, Unasked, Working, Saved, Holds
    <2> QED
      BY <2>1, <2>2
  <1>3. ASSUME Begin(h) PROVE Unedited(h)'
    BY <1>3, <1>p
       DEF Begin, Goto, Unedited, Unasked, Working, Resting, Saved, Holds, Holding, Body, Paths
  <1>4. ASSUME Iterate(h) PROVE Unedited(h)'
    <2>1. PICK p \in todo[h] : /\ target' = TargetAfter(h, p)
                               /\ backup' = BackupAfter(h, p)
                               /\ Goto(h, pc[h], todo[h] \ {p})
                               /\ UNCHANGED <<oldFiles, discard, met>>
      BY <1>4 DEF Iterate
    <2>2. Holds(h) /\ pc' = pc
      BY <2>1 DEF LockIsHeld, Goto
    <2> QED
      BY <1>p, <1>l, <2>1, <2>2, WritesNoEdit DEF Unedited, Unasked, Working
  <1>5. ASSUME Advance(h) PROVE Unedited(h)'
    BY <1>5, <1>p
       DEF Advance, Goto, Unedited, Unasked, Working, Resting, Saved, Holds, Holding, Body
  <1>6. ASSUME Fail(h) PROVE Unedited(h)'
    <2>1. PICK p \in todo[h] : CutShort(h, p)
      BY <1>6 DEF Fail
    <2>2. Holds(h) /\ UNCHANGED <<oldFiles, discard, met>>
      BY <1>6 DEF Fail, Holds, Holding
    <2> QED
      BY <1>p, <1>l, <2>1, <2>2, WritesNoEdit
      DEF Unedited, Unasked, Working, Resting, Holds, Holding, Body
  <1>7. ASSUME NEW g \in Helpers, g # h,
               \/ Begin(g) \/ Iterate(g) \/ Advance(g) \/ Fail(g)
               \/ Return(g) \/ RollbackFails(g) \/ Kill(g)
        PROVE  ~Unasked(h)'
    BY <1>7, <1>p, ActorWorks DEF Alone, Unasked, Working
  <1>8. ASSUME Return(h) \/ RollbackFails(h) \/ Kill(h) PROVE ~Unasked(h)'
    BY <1>8 DEF Return, RollbackFails, Kill, Rest, Goto, Working, Unasked, Resting
  <1>9. CASE UNCHANGED vars
    BY <1>9, <1>p DEF vars, Unedited, Unasked, Working, Saved, Holds
  <1> QED
    BY <1>0, <1>1, <1>2, <1>3, <1>4, <1>5, <1>6, <1>7, <1>8, <1>9 DEF Next

(* A local edit of a file the manifest lists goes away only by the hand of *)
(* a helper that holds the lock and whose user agreed, or which has met    *)
(* another helper since it looked (apply_prepared_update).                 *)
THEOREM EditsGoByConsent == Spec => EditsNeedConsent
  <1> DEFINE Consented ==
        \A f \in Files :
          target[f] = Edited /\ target'[f] # Edited =>
            \E h \in Helpers : lock = h /\ (discard[h] \/ f \notin oldFiles[h] \/ h \in met)
  <1>1. IInv /\ AllUnedited /\ [Next]_vars => [Consented]_vars
    <2> SUFFICES ASSUME IInv, AllUnedited, [Next]_vars,
                        NEW f \in Files, target[f] = Edited, target'[f] # Edited
                 PROVE  \E h \in Helpers : lock = h /\ (discard[h] \/ f \notin oldFiles[h] \/ h \in met)
      OBVIOUS
    <2> USE DEF IInv, TypeOK
    <2>1. ASSUME NEW h \in Helpers, Holds(h)
          PROVE  lock = h /\ (discard[h] \/ f \notin oldFiles[h] \/ h \in met)
      BY <2>1 DEF LockIsHeld, AllUnedited, Unedited, Unasked, Working, Holds, Holding, Body, Resting
    <2>2. ASSUME NEW g \in Files, Edit(g) PROVE FALSE
      BY <2>2, ContentFacts DEF Edit
    <2>3. ASSUME NEW h \in Helpers, Iterate(h) PROVE Holds(h)
      BY <2>3 DEF Iterate, LockIsHeld
    <2>4. ASSUME NEW h \in Helpers, Fail(h) \/ RollbackFails(h) PROVE Holds(h)
      BY <2>4 DEF Fail, RollbackFails, Holds, Holding
    <2>5. ASSUME NEW h \in Helpers, Kill(h) PROVE Holds(h)
      BY <2>5 DEF Kill, LockIsHeld
    <2>6. ASSUME NEW h \in Helpers, NEW answer \in BOOLEAN,
                 Check(h, answer) \/ Begin(h) \/ Advance(h) \/ Return(h)
          PROVE  FALSE
      BY <2>6 DEF Check, Begin, Advance, Return
    <2> QED
      BY <2>1, <2>2, <2>3, <2>4, <2>5, <2>6 DEF Next, vars
  <1>2. Spec => [][Consented]_vars
    BY <1>1, InitIInv, TypeStep, LockStep, UneditedInit, UneditedStep, PTL DEF Spec, IInv
  <1> QED
    BY <1>2 DEF EditsNeedConsent
===============================================================================
