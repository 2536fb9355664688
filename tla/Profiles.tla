------------------------------- MODULE Profiles -------------------------------
(***************************************************************************)
(* last_config.json: the settings of each firmware and the keys mapped by  *)
(* hand, read and written by every window (gui/controls.py), and the       *)
(* overrides a window and its workers hold of them.                        *)
(*                                                                         *)
(* The settings are numbered by the edit they come from and carry the      *)
(* firmware they were made for.  A callback of Tk is several steps here,   *)
(* since other windows go on; in its own window only workers do.  That the *)
(* file can be read is assumed.                                            *)
(***************************************************************************)
EXTENDS Naturals

CONSTANTS Windows, Nobody, Firmwares,
          MaxEdits,        \* bound: edits of the user
          MaxGeneration    \* bound: restarts of a window

ProfilesAssumption ==
  Nobody \notin Windows /\ {MaxEdits, MaxGeneration} \subseteq Nat

VARIABLE settings

Made(f, edit) == [of |-> f, edit |-> edit]
Profile == [of : Firmwares, edit : 0..MaxEdits]
File == [profiles : [Firmwares -> Profile], keymaps : [Firmwares -> 0..MaxEdits]]
Clean == [profiles |-> [f \in Firmwares |-> Made(f, 0)], keymaps |-> [f \in Firmwares |-> 0]]

TypeOK ==
  /\ settings.file \in File /\ settings.lock \in Windows \cup {Nobody}
  /\ \A w \in Windows : LET x == settings.win[w] IN
       /\ x.firmware \in Firmwares /\ x.overrides \in Profile /\ x.read \in File
       /\ x.phase \in {"idle", "apply", "save", "map", "write map", "killed"}
       /\ x.generation \in 0..MaxGeneration /\ x.restarts \in BOOLEAN
       /\ x.detecting \cup x.states \subseteq [generation : 0..MaxGeneration, overrides : Profile]

(* Every window starts with the settings of its firmware, and a worker.    *)
Opened(f) ==
  [firmware |-> f, overrides |-> Made(f, 0), phase |-> "idle", generation |-> 0,
   old |-> [firmware |-> f, overrides |-> Made(f, 0)], restarts |-> FALSE, read |-> Clean,
   detecting |-> {[generation |-> 0, overrides |-> Made(f, 0)]},
   states |-> {}]      \* self.states: what workers found

Init ==
  \E firmware \in [Windows -> Firmwares] :
    settings = [file |-> Clean, lock |-> Nobody, edits |-> 0,
                win |-> [w \in Windows |-> Opened(firmware[w])],
                last |-> Clean]     \* history: what was saved last

Win(w) == settings.win[w]
Idle(w) == Win(w).phase = "idle"

-------------------------------------------------------------------------------
(* The settings dialog: apply.                                             *)

(* Nothing edited: another firmware comes with its own settings, the same  *)
(* one keeps them (only the language was set).  Fields edited: they join   *)
(* the settings of the same firmware, those of another start clean.        *)
(* A restart follows, or not: a language, a live framebuffer format.       *)
Chosen(w, f, edits) ==
  CASE edits -> Made(f, settings.edits + 1)
    [] ~edits /\ f # Win(w).firmware -> settings.file.profiles[f]
    [] OTHER -> Win(w).overrides

Apply(w, f, edits, restarts) ==
  /\ Idle(w) /\ Win(w).generation < MaxGeneration
  /\ edits => settings.edits < MaxEdits
  /\ f # Win(w).firmware => restarts
  /\ ~edits /\ f = Win(w).firmware => ~restarts
  /\ settings' = [settings EXCEPT
       !.edits = IF edits THEN @ + 1 ELSE @,
       !.win[w] = [@ EXCEPT !.phase = "apply", !.firmware = f, !.restarts = restarts,
                     !.overrides = Chosen(w, f, edits),
                     !.old = [firmware |-> Win(w).firmware, overrides |-> Win(w).overrides]]]

(* Wrong: nobody waits for the lock.                                       *)
MayLock_Always == TRUE

MayLock == settings.lock = Nobody

(* _save_config, _save_manual_key_event: lock, then read the whole file.   *)
LockAndRead(w) ==
  /\ Win(w).phase \in {"apply", "map"} /\ MayLock
  /\ settings' = [settings EXCEPT !.lock = w,
       !.win[w] = [@ EXCEPT !.phase = IF Win(w).phase = "apply" THEN "save" ELSE "write map",
                            !.read = settings.file]]

Restarted(x) ==
  IF ~x.restarts THEN x
  ELSE [x EXCEPT !.generation = @ + 1,
                 !.detecting = @ \cup {[generation |-> x.generation + 1, overrides |-> x.overrides]}]

Free(w) == IF settings.lock = w THEN Nobody ELSE settings.lock

WriteProfile(w) ==
  /\ Win(w).phase = "save"
  /\ LET f == Win(w).firmware IN
     settings' = [settings EXCEPT !.lock = Free(w),
       !.file = [Win(w).read EXCEPT !.profiles[f] = Win(w).overrides],
       !.last.profiles[f] = Win(w).overrides,
       !.win[w] = [Restarted(@) EXCEPT !.phase = "idle", !.read = Clean]]

(* Wrong: the old overrides come back, the firmware does not.              *)
Restored_Overrides(x) == [x EXCEPT !.overrides = x.old.overrides]

Restored(x) == [x EXCEPT !.overrides = x.old.overrides, !.firmware = x.old.firmware]

(* The lock times out, or the file cannot be written.                      *)
SaveFails(w) ==
  /\ Win(w).phase \in {"apply", "save", "map", "write map"}
  /\ settings' = [settings EXCEPT !.lock = Free(w),
       !.win[w] = [(IF @.phase \in {"apply", "save"} THEN Restored(@) ELSE @)
                     EXCEPT !.phase = "idle", !.read = Clean]]

-------------------------------------------------------------------------------
(* _edit_key_mapping, once there is an emulator.                           *)

Detected(w) == \A x \in Win(w).detecting : x.generation # Win(w).generation

EditKey(w) ==
  /\ Idle(w) /\ Detected(w) /\ settings.edits < MaxEdits
  /\ settings' = [settings EXCEPT !.edits = @ + 1, !.win[w].phase = "map"]

WriteKey(w) ==
  /\ Win(w).phase = "write map"
  /\ LET f == Win(w).firmware IN
     settings' = [settings EXCEPT !.lock = Free(w),
       !.file = [Win(w).read EXCEPT !.keymaps[f] = settings.edits],
       !.last.keymaps[f] = settings.edits,
       !.win[w] = [@ EXCEPT !.phase = "idle", !.read = Clean]]

-------------------------------------------------------------------------------
(* A worker reports the settings it detected with; _refresh takes those of *)
(* the current generation.                                                 *)

Detect(w) ==
  \E x \in Win(w).detecting :
    settings' = [settings EXCEPT !.win[w].detecting = @ \ {x}, !.win[w].states = @ \cup {x}]

(* Wrong: every report counts.                                             *)
Counts_All(w, x) == TRUE

Counts(w, x) == x.generation = Win(w).generation

Refresh(w) ==
  /\ Idle(w) /\ Win(w).states # {}
  /\ LET found == {x.overrides : x \in {y \in Win(w).states : Counts(w, y)}} IN
     settings' = [settings EXCEPT !.win[w].states = {},
       !.win[w].overrides = IF found = {} THEN @ ELSE CHOOSE o \in found : TRUE]

(* The operating system frees the lock of a window that is killed.         *)
Kill(w) ==
  /\ Win(w).phase # "killed"
  /\ settings' = [settings EXCEPT !.lock = Free(w),
       !.win[w] = [Opened(Win(w).firmware) EXCEPT !.phase = "killed", !.detecting = {}]]

Next ==
  \E w \in Windows :
    \/ \E f \in Firmwares, edits, restarts \in BOOLEAN : Apply(w, f, edits, restarts)
    \/ LockAndRead(w) \/ WriteProfile(w) \/ SaveFails(w)
    \/ EditKey(w) \/ WriteKey(w)
    \/ Detect(w) \/ Refresh(w) \/ Kill(w)

Spec == Init /\ [][Next]_settings

-------------------------------------------------------------------------------
(* Properties.                                                             *)

(* What a window saved stays until a window of the same firmware saves     *)
(* again, whatever other windows save at the same time                     *)
(* (test_manual_keymap_save_preserves_regular_preferences).                *)
SavedStays == settings.file = settings.last

(* Settings made for one firmware are never used or saved for another:     *)
(* not by a failed change of firmware, not by a late worker.               *)
ProfilesBelong ==
  /\ \A w \in Windows : Win(w).overrides.of = Win(w).firmware
  /\ \A f \in Firmwares : settings.file.profiles[f].of = f
===============================================================================
