------------------------------- MODULE NandSave -------------------------------
(***************************************************************************)
(* LifecycleMixin.close: one session saves its NOR flash, its EEPROM and   *)
(* its NAND, in this order.  The NAND state is two files, the image        *)
(* (.nand.bin) and the JSON that names the seed image it grew from         *)
(* (.nand.json); they are written one after the other.                     *)
(*                                                                         *)
(* NOR and EEPROM saves are single steps here: StateSave shows that they   *)
(* merge the log into the file durably, or fail.  files is what a reader   *)
(* finds, disk every value of it a loss of power may leave.  files.from    *)
(* and files.by are history: the seeds of the sessions that contributed to *)
(* the image, and the sessions whose log is in it.                         *)
(***************************************************************************)
EXTENDS FlashImage

CONSTANTS Sessions,    \* emulators sharing one flash_state path
          Seeds,       \* configured NAND images
          SeedImage,   \* nand_original of a seed
          GuestOps,    \* what guests do to the NAND
          Absent,      \* a file that is not there
          Nobody        \* no lock holder, no seed

NandSaveAssumption ==
  /\ SeedImage \in [Seeds -> Image]
  /\ GuestOps \subseteq Operation
  /\ Absent \notin Image /\ Absent \notin Seeds
  /\ Nobody \notin Sessions /\ Nobody \notin Seeds

VARIABLES files,     \* [bin, json, from, by]
          disk,      \* values of files a loss of power may leave
          lock,      \* holder of exclusive_path_lock(flash_state)
          nor,       \* sessions whose log is in the NOR state
          eeprom,    \* sessions whose log is in the EEPROM state
          pc,        \* where each session is
          seed,      \* the seed a session was started with
          image,     \* nand_image
          log,       \* the effect of nand_operations
          rewrite,   \* nand_needs_rewrite
          torn       \* history: a save ended between its two files

media == <<files, disk, nor, eeprom>>
session == <<seed, image, log, rewrite>>
vars == <<media, lock, pc, session, torn>>

Files == [bin : Image \cup {Absent}, json : Seeds \cup {Absent},
          from : SUBSET Seeds, by : SUBSET Sessions]

(* Between the first and the last change of the two files.                 *)
MidSave == {"binReplaced", "binWritten", "jsonReplaced",
            "binUnlinked", "binGone", "jsonUnlinked"}

PCs == {"off", "running", "closing", "norSaved", "eepromSaved", "locked",
        "merged", "written", "closed", "failed", "skipped"} \cup MidSave

TypeOK ==
  /\ files \in Files /\ disk \subseteq Files
  /\ lock \in Sessions \cup {Nobody}
  /\ nor \subseteq Sessions /\ eeprom \subseteq Sessions
  /\ pc \in [Sessions -> PCs]
  /\ seed \in [Sessions -> Seeds \cup {Nobody}]
  /\ image \in [Sessions -> Image]
  /\ log \in [Sessions -> Effect]
  /\ rewrite \in [Sessions -> BOOLEAN]
  /\ torn \in BOOLEAN

Init ==
  /\ files = [bin |-> Absent, json |-> Absent, from |-> {}, by |-> {}]
  /\ disk = {files}
  /\ lock = Nobody /\ nor = {} /\ eeprom = {}
  /\ pc = [s \in Sessions |-> "off"]
  /\ seed = [s \in Sessions |-> Nobody]
  /\ image = [s \in Sessions |-> Blank]
  /\ log = [s \in Sessions |-> NoEffect]
  /\ rewrite = [s \in Sessions |-> FALSE]
  /\ torn = FALSE

Goto(s, label) == pc' = [pc EXCEPT ![s] = label]

(* _validate_nand_metadata: a missing JSON is taken for a legacy save.     *)
MetadataFits(s) == files.json \in {Absent, seed[s]}

-------------------------------------------------------------------------------
(* _init_nand_state with the seed the user configured, under the lock.  A  *)
(* state of another seed raises ValueError and the session does not start. *)
Start(s, configured) ==
  /\ pc[s] = "off"
  /\ lock = Nobody
  /\ files.bin # Absent => files.json \in {Absent, configured}
  /\ Goto(s, "running")
  /\ seed' = [seed EXCEPT ![s] = configured]
  /\ image' = [image EXCEPT ![s] = IF files.bin = Absent THEN SeedImage[configured]
                                   ELSE files.bin]
  /\ rewrite' = [rewrite EXCEPT ![s] = files.bin # Absent /\ files.json = Absent]
  /\ UNCHANGED <<media, lock, log, torn>>

(* _nand_program_bytes and _nand_erase_bytes.                              *)
Operate(s, op) ==
  /\ pc[s] = "running"
  /\ image' = [image EXCEPT ![s] = ApplyOperation(op, image[s])]
  /\ log' = [log EXCEPT ![s] = Then(log[s], EffectOf(op))]
  /\ UNCHANGED <<media, lock, pc, seed, rewrite, torn>>

(* close: nothing is saved after a fault of the host's backend.            *)
Close(s) ==
  /\ pc[s] = "running"
  /\ \E fault \in BOOLEAN : Goto(s, IF fault THEN "skipped" ELSE "closing")
  /\ UNCHANGED <<media, lock, session, torn>>

(* Wrong: the NAND is saved whatever happened to the media before it.      *)
SaveNor_GoesOn(s) ==
  /\ pc[s] = "closing"
  /\ \/ nor' = nor \cup {s} /\ Goto(s, "norSaved")
     \/ nor' \in {nor, nor \cup {s}} /\ Goto(s, "norSaved")
  /\ UNCHANGED <<files, disk, eeprom, lock, session, torn>>

(* save_flash merges, or raises before or after the file was replaced; an  *)
(* exception leaves close.                                                 *)
SaveNor(s) ==
  /\ pc[s] = "closing"
  /\ \/ nor' = nor \cup {s} /\ Goto(s, "norSaved")
     \/ nor' \in {nor, nor \cup {s}} /\ Goto(s, "failed")
  /\ UNCHANGED <<files, disk, eeprom, lock, session, torn>>

SaveEeprom(s) ==
  /\ pc[s] = "norSaved"
  /\ \/ eeprom' = eeprom \cup {s} /\ Goto(s, "eepromSaved")
     \/ eeprom' \in {eeprom, eeprom \cup {s}} /\ Goto(s, "failed")
  /\ UNCHANGED <<files, disk, nor, lock, session, torn>>

-------------------------------------------------------------------------------
(* _save_nand.                                                             *)

NothingToSave(s) ==
  /\ pc[s] = "eepromSaved"
  /\ log[s] = NoEffect /\ ~rewrite[s]
  /\ Goto(s, "closed")
  /\ UNCHANGED <<media, lock, session, torn>>

(* The lock is taken, or its timeout raises.                               *)
Lock(s) ==
  /\ pc[s] = "eepromSaved"
  /\ log[s] # NoEffect \/ rewrite[s]
  /\ \/ lock = Nobody /\ lock' = s /\ Goto(s, "locked")
     \/ lock # Nobody /\ lock' = lock /\ Goto(s, "failed")
  /\ UNCHANGED <<media, session, torn>>

(* Wrong: the metadata of an existing state is not validated again.        *)
Merge_Unchecked(s) ==
  /\ pc[s] = "locked"
  /\ image' = [image EXCEPT ![s] = Apply(log[s], IF files.bin = Absent
                                                 THEN SeedImage[seed[s]] ELSE files.bin)]
  /\ Goto(s, "merged")
  /\ UNCHANGED <<media, lock, seed, log, rewrite, torn>>

(* The log is replayed onto the latest image; image[s] stands for latest,  *)
(* which the session adopts when the save succeeds and which nobody looks  *)
(* at when it fails.                                                       *)
Merge(s) ==
  /\ pc[s] = "locked"
  /\ files.bin # Absent => MetadataFits(s)
  /\ image' = [image EXCEPT ![s] = Apply(log[s], IF files.bin = Absent
                                                 THEN SeedImage[seed[s]] ELSE files.bin)]
  /\ Goto(s, "merged")
  /\ UNCHANGED <<media, lock, seed, log, rewrite, torn>>

Store(new) ==
  /\ files' = new
  /\ disk' = disk \cup {new}

IsSeed(s) == image[s] = SeedImage[seed[s]]

(* The history a replaced or removed image gets: it stands on the file's   *)
(* former contents when there were some.                                   *)
Grown(s, bin) ==
  [files EXCEPT !.bin = bin,
     !.from = (IF files.bin = Absent THEN {} ELSE files.from) \cup {seed[s]},
     !.by = files.by \cup {s}]

ReplaceBin(s) ==
  /\ pc[s] = "merged" /\ ~IsSeed(s)
  /\ Store(Grown(s, image[s]))
  /\ Goto(s, "binReplaced")
  /\ UNCHANGED <<nor, eeprom, lock, session, torn>>

ReplaceJson(s) ==
  /\ pc[s] = "binWritten"
  /\ Store([files EXCEPT !.json = seed[s]])
  /\ Goto(s, "jsonReplaced")
  /\ UNCHANGED <<nor, eeprom, lock, session, torn>>

(* An image equal to the seed needs no state: both files are unlinked, the *)
(* image first.                                                            *)
UnlinkBin(s) ==
  /\ pc[s] = "merged" /\ IsSeed(s)
  /\ files.bin # Absent
  /\ Store(Grown(s, Absent))
  /\ Goto(s, "binUnlinked")
  /\ UNCHANGED <<nor, eeprom, lock, session, torn>>

UnlinkJson(s) ==
  /\ pc[s] = "binGone"
  /\ files.json # Absent
  /\ Store([files EXCEPT !.json = Absent])
  /\ Goto(s, "jsonUnlinked")
  /\ UNCHANGED <<nor, eeprom, lock, session, torn>>

(* durable_unlink of a file that is not there returns without an fsync.    *)
NothingToUnlink(s) ==
  /\ \/ pc[s] = "merged" /\ IsSeed(s) /\ files.bin = Absent /\ Goto(s, "binGone")
     \/ pc[s] = "binGone" /\ files.json = Absent /\ Goto(s, "written")
  /\ UNCHANGED <<media, lock, session, torn>>

(* atomic_write_bytes and durable_unlink end with the directory's fsync.   *)
SyncDirectory(s) ==
  /\ pc[s] \in {"binReplaced", "jsonReplaced", "binUnlinked", "jsonUnlinked"}
  /\ disk' = {files}
  /\ Goto(s, CASE pc[s] = "binReplaced" -> "binWritten"
               [] pc[s] = "binUnlinked" -> "binGone"
               [] OTHER -> "written")
  /\ UNCHANGED <<files, nor, eeprom, lock, session, torn>>

(* The session adopts the merged image, forgets its log and unlocks.       *)
Adopt(s) ==
  /\ pc[s] = "written"
  /\ log' = [log EXCEPT ![s] = NoEffect]
  /\ rewrite' = [rewrite EXCEPT ![s] = FALSE]
  /\ lock' = Nobody
  /\ Goto(s, "closed")
  /\ UNCHANGED <<media, seed, image, torn>>

(* ValueError of the metadata, or an OSError on the way: the lock is given *)
(* back and close raises.                                                  *)
NandFails(s) ==
  /\ pc[s] \in {"locked", "merged"} \cup MidSave
  /\ lock' = Nobody
  /\ Goto(s, "failed")
  /\ torn' = (torn \/ pc[s] \in MidSave)
  /\ UNCHANGED <<media, session>>

-------------------------------------------------------------------------------
Crash(s) ==
  /\ pc[s] \notin {"off", "closed", "failed", "skipped"}
  /\ Goto(s, "failed")
  /\ lock' = IF lock = s THEN Nobody ELSE lock
  /\ torn' = (torn \/ pc[s] \in MidSave)
  /\ UNCHANGED <<media, session>>

PowerLoss ==
  /\ files' \in disk
  /\ disk' = {files'}
  /\ pc' = [s \in Sessions |-> IF pc[s] \in {"off", "closed", "skipped"}
                               THEN pc[s] ELSE "failed"]
  /\ lock' = Nobody
  /\ torn' = (torn \/ \E s \in Sessions : pc[s] \in MidSave)
  /\ UNCHANGED <<nor, eeprom, session>>

Save(s) ==
  \/ SaveNor(s) \/ SaveEeprom(s) \/ NothingToSave(s) \/ Lock(s) \/ Merge(s)
  \/ ReplaceBin(s) \/ ReplaceJson(s) \/ UnlinkBin(s) \/ UnlinkJson(s)
  \/ NothingToUnlink(s)
  \/ SyncDirectory(s) \/ Adopt(s) \/ NandFails(s)

Next ==
  \/ \E s \in Sessions :
       \/ \E configured \in Seeds : Start(s, configured)
       \/ \E op \in GuestOps : Operate(s, op)
       \/ Close(s) \/ Save(s) \/ Crash(s)
  \/ PowerLoss

Spec == Init /\ [][Next]_vars

-------------------------------------------------------------------------------
(* Properties.                                                             *)

(* An image and a JSON that lie side by side belong together: every        *)
(* session that contributed to the image had the seed the JSON names, and  *)
(* no JSON is left without its image.  Only a save that ended between its  *)
(* two files can break it: a later session then takes an image without a   *)
(* JSON for a legacy save, and a JSON without an image for nothing.        *)
PairBelongs ==
  ~torn /\ lock = Nobody =>
    IF files.bin = Absent THEN files.json = Absent
    ELSE files.json # Absent /\ files.from = {files.json}

(* What close promises.  Its saves are a prefix: a session's log is in the *)
(* NAND only if it is in the EEPROM, and there only if it is in the NOR.   *)
(* Nothing is saved after a backend fault.  Once close has returned,       *)
(* everything survives a loss of power; a session with a log that is not   *)
(* everywhere ended with an exception.                                     *)
ClosePrefix ==
  \A s \in Sessions :
    /\ s \in files.by => s \in eeprom
    /\ s \in eeprom => s \in nor
    /\ pc[s] = "skipped" => s \notin nor
    /\ pc[s] = "closed" =>
         /\ s \in eeprom
         /\ log[s] = NoEffect
    /\ pc[s] = "closed" /\ s \in files.by => \A d \in disk : s \in d.by
===============================================================================
