------------------------------- MODULE Updater --------------------------------
(***************************************************************************)
(* The in-place updater: update.apply_prepared_update, run by the helper   *)
(* process the GUI starts when it closes.                                  *)
(*                                                                         *)
(* A helper copies every file it will touch to a backup directory, puts    *)
(* the release's files in place one by one, removes those the release no   *)
(* longer has, and writes the manifest and last the revision marker.  An   *)
(* OSError on the way starts a rollback from the backup.  Helpers of two   *)
(* GUI windows exclude each other by the lock on the manifest, but look at *)
(* the installation before they have it.  Loops over sorted names take     *)
(* their elements in any order here.                                       *)
(***************************************************************************)
EXTENDS FiniteSets, Naturals

LOCAL INSTANCE TLC

CONSTANTS Helpers,
          Files,           \* files that some release distributes
          Releases,
          FilesOf,         \* the files in a release's manifest
          Installed,       \* the release installed first
          RevisionOf,      \* the release a helper installs
          Manifest, Revision,     \* the two marker files
          Absent, Edited, Torn,   \* other contents a path can have
          None,
          BackupMayFail    \* FALSE: copying to the backup never fails

ASSUME UpdaterAssumption ==
  /\ FilesOf \in [Releases -> SUBSET Files]
  /\ Installed \in Releases
  /\ RevisionOf \in [Helpers -> Releases]
  /\ {Manifest, Revision} \cap Files = {}
  /\ {Absent, Edited, Torn} \cap Releases = {}
  /\ Absent # Edited /\ Edited # Torn /\ Torn # Absent
  /\ None \notin Helpers
  /\ BackupMayFail \in BOOLEAN

Paths == Files \cup {Manifest, Revision}

(* A file has the content some release gives it, or none of these.         *)
Content == Releases \cup {Absent, Edited, Torn}

VARIABLES target,     \* the installation
          backup,     \* updates/backups/<revision>
          lock,       \* exclusive_path_lock(target / MANIFEST_FILE)
          pc, todo,   \* a helper's phase and the names left in its loop
          oldFiles,   \* the manifest read before the lock
          discard,    \* the user's answer about local changes
          start,      \* history: the installation when the lock was taken
          met         \* history: helpers that were at work beside another one

vars == <<target, backup, lock, pc, todo, oldFiles, discard, start, met>>

Resting == {"idle", "done", "rolledback", "failed"}
Body    == {"backup", "install", "remove", "manifest", "revision"}

TypeOK ==
  /\ target \in [Paths -> Content]
  /\ backup \in [Releases -> [Paths -> Content]]
  /\ lock \in Helpers \cup {None}
  /\ pc \in [Helpers -> Resting \cup Body \cup {"checked", "rollback"}]
  /\ todo \in [Helpers -> SUBSET Paths]
  /\ oldFiles \in [Helpers -> SUBSET Files]
  /\ discard \in [Helpers -> BOOLEAN]
  /\ start \in [Helpers -> [Paths -> Content]]
  /\ met \subseteq Helpers

(* A distribution as downloaded: no revision marker yet.                   *)
Fresh == [p \in Paths |->
            IF p = Manifest \/ p \in FilesOf[Installed] THEN Installed ELSE Absent]

Init ==
  /\ target = Fresh
  /\ backup = [r \in Releases |-> [p \in Paths |-> Absent]]
  /\ lock = None
  /\ pc = [h \in Helpers |-> "idle"]
  /\ todo = [h \in Helpers |-> {}]
  /\ oldFiles = [h \in Helpers |-> {}]
  /\ discard = [h \in Helpers |-> FALSE]
  /\ start = [h \in Helpers |-> Fresh]
  /\ met = {}

-------------------------------------------------------------------------------

(* _manifest: a missing or unreadable manifest owns nothing.               *)
ManifestFiles == IF target[Manifest] \in Releases THEN FilesOf[target[Manifest]] ELSE {}

(* Wrong: a readable manifest is enough.                                   *)
Clean_ManifestOnly == target[Manifest] \in Releases

(* installation_status(target).clean                                       *)
Clean ==
  /\ target[Manifest] \in Releases
  /\ \A f \in ManifestFiles : target[f] = target[Manifest]

NewFiles(h) == FilesOf[RevisionOf[h]]
(* Wrong: files that only the old release has are not backed up.           *)
Touched_NewOnly(h) == NewFiles(h) \cup {Manifest, Revision}

Touched(h)  == oldFiles[h] \cup NewFiles(h) \cup {Manifest, Revision}
Saved(h)    == backup[RevisionOf[h]]

Goto(h, phase, names) ==
  /\ pc' = [pc EXCEPT ![h] = phase]
  /\ todo' = [todo EXCEPT ![h] = names]

(* The helper ends; its lock and its local variables go.                   *)
Rest(h, outcome) ==
  /\ Goto(h, outcome, {})
  /\ lock' = IF lock = h THEN None ELSE lock
  /\ oldFiles' = [oldFiles EXCEPT ![h] = {}]
  /\ discard' = [discard EXCEPT ![h] = FALSE]
  /\ start' = [start EXCEPT ![h] = Fresh]
  /\ met' = met \ {h}

(* Between two runs of the helper the user changes a distributed file.     *)
Edit(f) ==
  /\ \A h \in Helpers : pc[h] \in Resting
  /\ target[f] # Absent
  /\ target' = [target EXCEPT ![f] = Edited]
  /\ UNCHANGED <<backup, lock, pc, todo, oldFiles, discard, start, met>>

(* The checks before the lock.                                             *)
Check(h, answer) ==
  /\ pc[h] \in Resting
  /\ Clean \/ answer
  /\ Goto(h, "checked", {})
  /\ oldFiles' = [oldFiles EXCEPT ![h] = ManifestFiles]
  /\ discard' = [discard EXCEPT ![h] = answer]
  /\ LET others == {other \in Helpers \ {h} : pc[other] \notin Resting}
     IN met' = IF others = {} THEN met ELSE met \cup others \cup {h}
  /\ UNCHANGED <<target, backup, lock, start>>

(* Wrong: the helper does not wait for the lock.                           *)
Begin_NoWait(h) ==
  /\ pc[h] = "checked"
  /\ lock' = h
  /\ backup' = [backup EXCEPT ![RevisionOf[h]] = [p \in Paths |-> Absent]]
  /\ start' = [start EXCEPT ![h] = target]
  /\ Goto(h, "backup", {p \in Touched(h) : target[p] # Absent})
  /\ UNCHANGED <<target, oldFiles, discard, met>>

(* The lock; an older backup of this revision goes.                        *)
Begin(h) ==
  /\ pc[h] = "checked"
  /\ lock = None
  /\ lock' = h
  /\ backup' = [backup EXCEPT ![RevisionOf[h]] = [p \in Paths |-> Absent]]
  /\ start' = [start EXCEPT ![h] = target]
  /\ Goto(h, "backup", {p \in Touched(h) : target[p] # Absent})
  /\ UNCHANGED <<target, oldFiles, discard, met>>

(* One iteration of the loop helper h is in.                               *)
TargetAfter(h, p) ==
  [target EXCEPT ![p] =
     IF pc[h] = "backup" THEN target[p]
     ELSE IF pc[h] = "remove" THEN Absent
     ELSE IF pc[h] = "rollback" THEN Saved(h)[p] ELSE RevisionOf[h]]

BackupAfter(h, p) ==
  IF pc[h] = "backup" THEN [backup EXCEPT ![RevisionOf[h]][p] = target[p]] ELSE backup

Iterate(h) ==
  \E p \in todo[h] :
    /\ target' = TargetAfter(h, p)
    /\ backup' = BackupAfter(h, p)
    /\ Goto(h, pc[h], todo[h] \ {p})
    /\ UNCHANGED <<lock, oldFiles, discard, start, met>>

(* Wrong: files the release no longer has are left.                        *)
FollowingPhase_KeepsOld(h) ==
  IF pc[h] = "backup" THEN <<"install", NewFiles(h)>>
  ELSE IF pc[h] = "install" THEN <<"remove", {}>>
  ELSE IF pc[h] = "remove" THEN <<"manifest", {Manifest}>>
  ELSE <<"revision", {Revision}>>

(* The loop is over.                                                       *)
FollowingPhase(h) ==
  IF pc[h] = "backup" THEN <<"install", NewFiles(h)>>
  ELSE IF pc[h] = "install" THEN <<"remove", oldFiles[h] \ NewFiles(h)>>
  ELSE IF pc[h] = "remove" THEN <<"manifest", {Manifest}>>
  ELSE <<"revision", {Revision}>>

Advance(h) ==
  /\ pc[h] \in Body \ {"revision"}
  /\ todo[h] = {}
  /\ Goto(h, FollowingPhase(h)[1], FollowingPhase(h)[2])
  /\ UNCHANGED <<target, backup, lock, oldFiles, discard, start, met>>

Return(h) ==
  /\ pc[h] \in {"revision", "rollback"}
  /\ todo[h] = {}
  /\ Rest(h, IF pc[h] = "revision" THEN "done" ELSE "rolledback")
  /\ UNCHANGED <<target, backup>>

(* An iteration stopped half-way.  shutil.copy2 onto the backup, the       *)
(* manifest or a rolled back file leaves it as it was or cut short; files  *)
(* are installed, and the marker written, by an atomic os.replace.         *)
CutShort(h, p) ==
  \/ UNCHANGED <<target, backup>>
  \/ /\ pc[h] = "backup"
     /\ backup' = [backup EXCEPT ![RevisionOf[h]][p] = Torn]
     /\ UNCHANGED target
  \/ /\ pc[h] = "manifest" \/ (pc[h] = "rollback" /\ Saved(h)[p] # Absent)
     /\ target' = [target EXCEPT ![p] = Torn]
     /\ UNCHANGED backup
  \/ /\ pc[h] = "revision"     \* replaced, but its directory not synced
     /\ target' = TargetAfter(h, p)
     /\ UNCHANGED backup

(* OSError in the body of the try statement.                               *)
Fail(h) ==
  /\ pc[h] \in Body
  /\ pc[h] = "backup" => BackupMayFail
  /\ \E p \in todo[h] : CutShort(h, p)
  /\ Goto(h, "rollback", Touched(h))
  /\ UNCHANGED <<lock, oldFiles, discard, start, met>>

(* OSError in the rollback itself leaves apply_prepared_update.            *)
RollbackFails(h) ==
  /\ pc[h] = "rollback"
  /\ \E p \in todo[h] : CutShort(h, p)
  /\ Rest(h, "failed")

(* The helper process is killed.                                           *)
Kill(h) ==
  /\ pc[h] \notin Resting
  /\ UNCHANGED <<target, backup>> \/ \E p \in todo[h] : CutShort(h, p)
  /\ Rest(h, "idle")

Next ==
  \/ \E f \in Files : Edit(f)
  \/ \E h \in Helpers :
       \/ \E answer \in BOOLEAN : Check(h, answer)
       \/ Begin(h) \/ Iterate(h) \/ Advance(h) \/ Return(h)
       \/ Fail(h) \/ RollbackFails(h) \/ Kill(h)

Spec == Init /\ [][Next]_vars

-------------------------------------------------------------------------------
(* Properties.                                                             *)

(* "update failed and was rolled back": when a rollback is through, the    *)
(* installation is what it was when the helper took the lock, whatever     *)
(* earlier helpers, killed or failed, had left there.                      *)
RolledBack ==
  \A h \in Helpers :
    pc[h] = "rollback" /\ todo[h] = {} => target = start[h]

(* The revision marker is written when every file of the release is in     *)
(* place, its manifest too, and no file of the manifest the helper read is *)
(* left that the release does not have.                                    *)
UpdateComplete ==
  \A h \in Helpers :
    pc[h] = "revision" /\ todo[h] = {} =>
      /\ \A p \in NewFiles(h) \cup {Manifest, Revision} : target[p] = RevisionOf[h]
      /\ \A f \in oldFiles[h] \ NewFiles(h) : target[f] = Absent

(* A local edit of a file the manifest lists goes away only by the hand of *)
(* a helper whose user agreed, also after helpers were killed half-way or  *)
(* failed to roll back; only of helpers that were at work beside each      *)
(* other this is not claimed, since the check comes before the lock.       *)
EditsNeedConsent ==
  [][\A f \in Files :
       target[f] = Edited /\ target'[f] # Edited =>
         \E h \in Helpers :
           lock = h /\ (discard[h] \/ f \notin oldFiles[h] \/ h \in met)]_vars

-------------------------------------------------------------------------------
(* The instance TLC checks: an update that no longer has one of the files  *)
(* of the installation.                                                    *)
OneFileLess == [r \in Releases |->
                  IF r = Installed THEN Files ELSE Files \ {CHOOSE f \in Files : TRUE}]
ToTheOther  == [h \in Helpers |-> CHOOSE r \in Releases \ {Installed} : TRUE]

HelperSymmetry == Permutations(Helpers)
===============================================================================
