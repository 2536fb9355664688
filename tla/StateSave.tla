------------------------------ MODULE StateSave -------------------------------
(***************************************************************************)
(* How emulators share one persistent state file: NORFlash._load / save    *)
(* and EepromMixin._ensure_eeprom / _save_eeprom on top of                 *)
(* state_io.exclusive_path_lock, atomic_write_bytes and durable_unlink.    *)
(*                                                                         *)
(* A thread owns one emulator; threads of one process share the process's  *)
(* threading.Lock for the path and all of them the operating system's file *)
(* lock.  A save merges: it replays what this emulator logged onto the     *)
(* file's latest contents, under the lock, and replaces the file.          *)
(*                                                                         *)
(* file is what a reader finds, possible every version a loss of power may *)
(* leave (rename and unlink are durable only after the directory's fsync). *)
(* A version carries the number n of replacements that led to it.          *)
(***************************************************************************)
EXTENDS FlashImage, Naturals

LOCAL INSTANCE TLC

CONSTANTS Threads, Procs,
          ProcOf,        \* the process of a thread
          None,          \* no lock holder
          Medium,        \* "nor" or "eeprom"
          Original,      \* the contents that need no state file
          GuestOps,      \* the operations guests perform
          MaxVersions    \* bound: replacements of the file

ASSUME StateSaveAssumption ==
  /\ ProcOf \in [Threads -> Procs]
  /\ None \notin Threads
  /\ Medium \in {"nor", "eeprom"}
  /\ Original \in Image
  /\ GuestOps \subseteq Operation
  /\ MaxVersions \in Nat

VARIABLES file,        \* the file's version (absent iff its image is Original)
          possible,    \* versions a loss of power may leave
          fileLock,    \* thread holding flock on the lock file
          threadLock,  \* per process, thread holding _LOCKS[lockfile]
          pc,          \* where each thread is
          data,        \* the emulator's image
          baseline,    \* the image at its last load or save
          pending,     \* the effect of _operations
          latest,      \* the merged image inside save
          made,        \* the version number this save produced, 0 for none
          ok,          \* FALSE once the save has failed
          acked        \* the newest version a returned save made

vars == <<file, possible, fileLock, threadLock, pc, data, baseline, pending,
          latest, made, ok, acked>>

Version == [image : Image, n : Nat]

PCs == {"off", "running", "wantThread", "wantFile", "locked", "merged",
        "replaced", "saved", "unlocking", "closing", "released"}

TypeOK ==
  /\ file \in Version
  /\ possible \subseteq Version
  /\ fileLock \in Threads \cup {None}
  /\ threadLock \in [Procs -> Threads \cup {None}]
  /\ pc \in [Threads -> PCs]
  /\ data \in [Threads -> Image]
  /\ baseline \in [Threads -> Image]
  /\ pending \in [Threads -> Effect]
  /\ latest \in [Threads -> Image]
  /\ made \in [Threads -> Nat]
  /\ ok \in [Threads -> BOOLEAN]
  /\ acked \in Nat

Init ==
  /\ file \in [image : Image, n : {0}]
  /\ possible = {file}
  /\ fileLock = None
  /\ threadLock = [p \in Procs |-> None]
  /\ pc = [t \in Threads |-> "off"]
  /\ data = [t \in Threads |-> Original]
  /\ baseline = [t \in Threads |-> Original]
  /\ pending = [t \in Threads |-> NoEffect]
  /\ latest = [t \in Threads |-> Original]
  /\ made = [t \in Threads |-> 0]
  /\ ok = [t \in Threads |-> TRUE]
  /\ acked = 0

Goto(t, label) == pc' = [pc EXCEPT ![t] = label]

FileAbsent == file.image = Original

-------------------------------------------------------------------------------
(* The emulator's life outside save.                                       *)

(* NORFlash.__init__ -> _load -> _read_state: no lock, the file is always  *)
(* a whole version because it is only ever replaced.                       *)
Load(t) ==
  /\ pc[t] = "off"
  /\ Goto(t, "running")
  /\ data' = [data EXCEPT ![t] = file.image]
  /\ baseline' = [baseline EXCEPT ![t] = file.image]
  /\ UNCHANGED <<file, possible, fileLock, threadLock, pending, latest, made,
                 ok, acked>>

(* NORFlash.program / _erase and the EEPROM write: change the image and    *)
(* append to the log of operations.                                        *)
Operate(t, op) ==
  /\ pc[t] = "running"
  /\ data' = [data EXCEPT ![t] = ApplyOperation(op, data[t])]
  /\ pending' = [pending EXCEPT ![t] = Then(pending[t], EffectOf(op))]
  /\ UNCHANGED <<file, possible, fileLock, threadLock, pc, baseline, latest,
                 made, ok, acked>>

(* The emulators of the threads in S are gone, with all they had in memory.*)
Vanish(S) ==
  LET Reset(f, v) == [t \in Threads |-> IF t \in S THEN v ELSE f[t]]
  IN /\ pc' = Reset(pc, "off")
     /\ data' = Reset(data, Original)
     /\ baseline' = Reset(baseline, Original)
     /\ pending' = Reset(pending, NoEffect)
     /\ latest' = Reset(latest, Original)
     /\ made' = Reset(made, 0)
     /\ ok' = Reset(ok, TRUE)

(* The emulator is dropped: after its save, or without one (a host backend *)
(* fault, or after a failed save), and then its log goes with it.          *)
Discard(t) ==
  /\ pc[t] = "running"
  /\ Vanish({t})
  /\ UNCHANGED <<file, possible, fileLock, threadLock, acked>>

-------------------------------------------------------------------------------
(* exclusive_path_lock.                                                    *)

(* _save_eeprom returns at once when nothing was logged; NORFlash.save     *)
(* merges even then.                                                       *)
BeginSave(t) ==
  /\ pc[t] = "running"
  /\ Medium = "eeprom" => pending[t] # NoEffect
  /\ Goto(t, "wantThread")
  /\ made' = [made EXCEPT ![t] = 0]
  /\ ok' = [ok EXCEPT ![t] = TRUE]
  /\ UNCHANGED <<file, possible, fileLock, threadLock, data, baseline, pending,
                 latest, acked>>

AcquireThread(t) ==
  /\ pc[t] = "wantThread"
  /\ threadLock[ProcOf[t]] = None
  /\ threadLock' = [threadLock EXCEPT ![ProcOf[t]] = t]
  /\ Goto(t, "wantFile")
  /\ UNCHANGED <<file, possible, fileLock, data, baseline, pending, latest,
                 made, ok, acked>>

(* TimeoutError before anything is held: the save fails at once.           *)
ThreadTimeout(t) ==
  /\ pc[t] = "wantThread"
  /\ threadLock[ProcOf[t]] # None
  /\ Goto(t, "running")
  /\ ok' = [ok EXCEPT ![t] = FALSE]
  /\ UNCHANGED <<file, possible, fileLock, threadLock, data, baseline, pending,
                 latest, made, acked>>

AcquireFile(t) ==
  /\ pc[t] = "wantFile"
  /\ fileLock = None
  /\ fileLock' = t
  /\ Goto(t, "locked")
  /\ UNCHANGED <<file, possible, threadLock, data, baseline, pending, latest,
                 made, ok, acked>>

(* Wrong: the thread lock is not given back after a timeout.               *)
FileTimeout_KeepsThreadLock(t) ==
  /\ pc[t] = "wantFile"
  /\ Goto(t, "running")
  /\ ok' = [ok EXCEPT ![t] = FALSE]
  /\ UNCHANGED <<file, possible, fileLock, threadLock, data, baseline, pending,
                 latest, made, acked>>

(* The deadline of the polling loop passes, or the lock file cannot be     *)
(* opened: the handle is closed and the thread lock released.              *)
FileTimeout(t) ==
  /\ pc[t] = "wantFile"
  /\ Goto(t, "closing")
  /\ ok' = [ok EXCEPT ![t] = FALSE]
  /\ UNCHANGED <<file, possible, fileLock, threadLock, data, baseline, pending,
                 latest, made, acked>>

Unlock(t) ==
  /\ pc[t] \in {"saved", "unlocking"}
  /\ pc[t] = "saved" => Medium = "nor"
  /\ fileLock' = None
  /\ Goto(t, "closing")
  /\ UNCHANGED <<file, possible, threadLock, data, baseline, pending, latest,
                 made, ok, acked>>

ReleaseThread(t) ==
  /\ pc[t] = "closing"
  /\ threadLock' = [threadLock EXCEPT ![ProcOf[t]] = None]
  /\ Goto(t, IF ok[t] /\ Medium = "nor" THEN "released" ELSE "running")
  /\ UNCHANGED <<file, possible, fileLock, data, baseline, pending, latest,
                 made, ok, acked>>

-------------------------------------------------------------------------------
(* The body of save.                                                       *)

MergeInto(t, image) ==
  /\ pc[t] = "locked"
  /\ latest' = [latest EXCEPT ![t] = image]
  /\ Goto(t, "merged")
  /\ UNCHANGED <<file, possible, fileLock, threadLock, data, baseline, pending,
                 made, ok, acked>>

(* Wrong: the emulator's own image is saved.                               *)
Merge_OwnImage(t) == MergeInto(t, data[t])

(* _read_state, then the replay of this emulator's operations onto it.     *)
Merge(t) == MergeInto(t, Apply(pending[t], file.image))

(* os.replace of the temporary file, or the unlink of a file that is there.*)
Replace(t) ==
  /\ pc[t] = "merged"
  /\ ~(latest[t] = Original /\ FileAbsent)
  /\ file.n < MaxVersions
  /\ file' = [image |-> latest[t], n |-> file.n + 1]
  /\ possible' = possible \cup {file'}
  /\ made' = [made EXCEPT ![t] = file.n + 1]
  /\ Goto(t, "replaced")
  /\ UNCHANGED <<fileLock, threadLock, data, baseline, pending, latest, ok,
                 acked>>

(* durable_unlink of a file that is not there returns without a sync.      *)
NothingToUnlink(t) ==
  /\ pc[t] = "merged"
  /\ latest[t] = Original /\ FileAbsent
  /\ Goto(t, "saved")
  /\ UNCHANGED <<file, possible, fileLock, threadLock, data, baseline, pending,
                 latest, made, ok, acked>>

(* Wrong: the directory is not synced.                                     *)
SyncDirectory_Skipped(t) ==
  /\ pc[t] = "replaced"
  /\ Goto(t, "saved")
  /\ UNCHANGED <<file, possible, fileLock, threadLock, data, baseline, pending,
                 latest, made, ok, acked>>

SyncDirectory(t) ==
  /\ pc[t] = "replaced"
  /\ possible' = {file}
  /\ Goto(t, "saved")
  /\ UNCHANGED <<file, fileLock, threadLock, data, baseline, pending, latest,
                 made, ok, acked>>

(* An OSError of the read, the write or the sync; the temporary file is    *)
(* removed, a replacement already made stays.                              *)
SaveFails(t) ==
  /\ pc[t] \in {"locked", "merged", "replaced"}
  /\ Goto(t, "unlocking")
  /\ ok' = [ok EXCEPT ![t] = FALSE]
  /\ UNCHANGED <<file, possible, fileLock, threadLock, data, baseline, pending,
                 latest, made, acked>>

(* Wrong: the log is cleared, but compared with the old image.             *)
Adopt_KeepsBaseline(t) ==
  /\ pc[t] = IF Medium = "nor" THEN "released" ELSE "saved"
  /\ data' = [data EXCEPT ![t] = latest[t]]
  /\ pending' = [pending EXCEPT ![t] = NoEffect]
  /\ acked' = IF made[t] > acked THEN made[t] ELSE acked
  /\ Goto(t, IF Medium = "nor" THEN "running" ELSE "unlocking")
  /\ UNCHANGED <<file, possible, fileLock, threadLock, baseline, latest, made, ok>>

(* The emulator adopts the merged image and clears its log: NORFlash.save  *)
(* after the lock is released, _save_eeprom before.                        *)
Adopt(t) ==
  /\ pc[t] = IF Medium = "nor" THEN "released" ELSE "saved"
  /\ data' = [data EXCEPT ![t] = latest[t]]
  /\ baseline' = [baseline EXCEPT ![t] = latest[t]]
  /\ pending' = [pending EXCEPT ![t] = NoEffect]
  /\ acked' = IF made[t] > acked THEN made[t] ELSE acked
  /\ Goto(t, IF Medium = "nor" THEN "running" ELSE "unlocking")
  /\ UNCHANGED <<file, possible, fileLock, threadLock, latest, made, ok>>

-------------------------------------------------------------------------------
(* Failures of the environment.                                            *)

(* A process dies: the operating system drops its file lock.               *)
Crash(p) ==
  LET dead == {t \in Threads : ProcOf[t] = p}
  IN /\ \E t \in dead : pc[t] # "off"
     /\ Vanish(dead)
     /\ fileLock' = IF fileLock \in dead THEN None ELSE fileLock
     /\ threadLock' = [threadLock EXCEPT ![p] = None]
     /\ UNCHANGED <<file, possible, acked>>

PowerLoss ==
  /\ file' \in possible
  /\ possible' = {file'}
  /\ Vanish(Threads)
  /\ fileLock' = None
  /\ threadLock' = [p \in Procs |-> None]
  /\ UNCHANGED acked

Guest(t) == Load(t) \/ Discard(t) \/ BeginSave(t) \/ \E op \in GuestOps : Operate(t, op)

Locking(t) ==
  \/ AcquireThread(t) \/ ThreadTimeout(t) \/ AcquireFile(t) \/ FileTimeout(t)
  \/ Unlock(t) \/ ReleaseThread(t)

Saving(t) ==
  \/ Merge(t) \/ Replace(t) \/ NothingToUnlink(t) \/ SyncDirectory(t)
  \/ SaveFails(t) \/ Adopt(t)

Next ==
  \/ \E t \in Threads : Guest(t) \/ Locking(t) \/ Saving(t)
  \/ \E p \in Procs : Crash(p)
  \/ PowerLoss

Spec == Init /\ [][Next]_vars

-------------------------------------------------------------------------------
(* Properties.                                                             *)

(* pc values from which the code holds the thread lock, and the file lock. *)
HoldsFile   == {"locked", "merged", "replaced", "saved", "unlocking"}
HoldsThread == HoldsFile \cup {"wantFile", "closing"}

(* The locks are held exactly by the threads whose control point says so:  *)
(* no two saves of one file are inside the critical section, whether they  *)
(* run in one process or in two, no failure path returns to the caller     *)
(* with a lock still held, and none releases a lock it does not hold.      *)
LocksMatchControl ==
  \A t \in Threads :
    /\ fileLock = t <=> pc[t] \in HoldsFile
    /\ threadLock[ProcOf[t]] = t <=> pc[t] \in HoldsThread

(* What is about to be written is this emulator's log replayed on what the *)
(* file holds now, so that nothing saved by another emulator since this    *)
(* one loaded is lost (the merge of NORFlash.save and _save_eeprom).       *)
MergeIsFresh ==
  \A t \in Threads :
    pc[t] = "merged" => latest[t] = Apply(pending[t], file.image)

(* A running emulator's image is its last loaded or saved image with its   *)
(* log replayed: the comparison _unlogged_operations makes finds nothing,  *)
(* also after a save that failed half-way and may be tried again.          *)
LogExplainsImage ==
  \A t \in Threads :
    pc[t] # "off" => data[t] = Apply(pending[t], baseline[t])

(* Once save has returned to its caller, the version it made is contained  *)
(* in everything a loss of power can leave: fsync comes before the return. *)
AckedSurvives == \A v \in possible : acked <= v.n

(* Saves implement the abstract store: the file changes only when a whole  *)
(* log is applied to its latest contents, and a log is forgotten only when *)
(* the save returned or the process ended.                                 *)
Store == INSTANCE StateStore WITH current <- file
StoreSpec == Store!StoreSpec

-------------------------------------------------------------------------------
(* The instance TLC checks: emulators in two processes, one of them with a *)
(* process of its own, sharing a medium that is erased at first; those of  *)
(* one process are interchangeable.                                        *)
Alone == CHOOSE t \in Threads : TRUE
OneApart ==
  LET home == CHOOSE p \in Procs : TRUE
  IN [t \in Threads |-> IF t = Alone THEN home ELSE CHOOSE p \in Procs \ {home} : TRUE]

ProcSymmetry == Permutations(Threads \ {Alone})

(* Bound: emulators at a time.                                             *)
NotAllAtOnce == \E t \in Threads : pc[t] = "off"

(* NOR programs single bytes and erases the whole sector.                  *)
NorOps == {[kind |-> "program", at |-> {c}, byte |-> {}] : c \in Cells}
          \cup {[kind |-> "erase", at |-> Cells, byte |-> Bits]}
===============================================================================
