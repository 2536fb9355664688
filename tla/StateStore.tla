------------------------------ MODULE StateStore ------------------------------
(***************************************************************************)
(* What the state file of one medium promises its users, with no locks, no *)
(* temporary files and no intermediate states.                             *)
(*                                                                         *)
(* Every emulator keeps a private effect: what its guest did to the medium *)
(* since the last save.  The shared contents change only when one whole    *)
(* private effect is applied to the contents of that very moment: nothing  *)
(* another emulator saved is ever lost.  A version stays "possible" until  *)
(* it is known durable; loss of power leaves one of the possible versions. *)
(***************************************************************************)
EXTENDS FlashImage, Naturals

CONSTANTS Threads

VARIABLES current,     \* the version a reader finds now
          possible,    \* the versions a loss of power may leave
          pending      \* each emulator's unsaved effect

storeVars == <<current, possible, pending>>

Version == [image : Image, n : Nat]

StoreInit ==
  /\ current \in [image : Image, n : {0}]
  /\ possible = {current}
  /\ pending = [t \in Threads |-> NoEffect]

(* The guest of t changes its private copy.                                *)
Change(t) ==
  /\ pending' \in [Threads -> Effect]
  /\ \A u \in Threads \ {t} : pending'[u] = pending[u]
  /\ UNCHANGED <<current, possible>>

(* t's whole effect is applied to the contents of this moment.             *)
Commit(t) ==
  /\ current'  = [image |-> Apply(pending[t], current.image),
                  n     |-> current.n + 1]
  /\ possible' = possible \cup {current'}
  /\ UNCHANGED pending

MakeDurable ==
  /\ possible' = {current}
  /\ UNCHANGED <<current, pending>>

(* Emulators forget their effects: a save returned, or a process ended.    *)
Forget(S) ==
  /\ pending' = [t \in Threads |-> IF t \in S THEN NoEffect ELSE pending[t]]
  /\ UNCHANGED <<current, possible>>

LosePower ==
  /\ current' \in possible
  /\ possible' = {current'}
  /\ pending' = [t \in Threads |-> NoEffect]

StoreNext ==
  \/ \E t \in Threads : Change(t) \/ Commit(t)
  \/ MakeDurable
  \/ \E S \in SUBSET Threads : Forget(S)
  \/ LosePower

StoreSpec == StoreInit /\ [][StoreNext]_storeVars
===============================================================================
