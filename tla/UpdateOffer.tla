----------------------------- MODULE UpdateOffer ------------------------------
(***************************************************************************)
(* The way of an update to the helper: gui/app.py asks GitHub once in each *)
(* window, puts the commit before the user and has a thread download it;   *)
(* update.prepare_update leaves the release in updates/<revision>, where   *)
(* the helper (Updater) finds it.  Windows share the state directory.      *)
(*                                                                         *)
(* A release is its files and the marker that was added to them.  Loss of  *)
(* power is left out: nothing here is synced.                              *)
(***************************************************************************)
EXTENDS Naturals

CONSTANTS Windows, MaxCommits, Nobody

Commits == 1..MaxCommits
Release == {"files", "marker"}

UpdateOfferAssumption ==
  MaxCommits \in Nat \ {0} /\ Nobody \notin Windows

VARIABLE offer

Phases ==
  {"open", "fetched", "available", "prompt", "download", "locked", "remove", "extract",
   "prepared", "failed", "quiet", "closed", "helper", "gone"}

TypeOK ==
  /\ offer.phase \in [Windows -> Phases] /\ offer.of \in [Windows -> 0..MaxCommits]
  /\ offer.main \in Commits /\ {offer.installed, offer.seen} \subseteq 0..MaxCommits
  /\ offer.prepared \in [Commits -> SUBSET Release]
  /\ offer.work \in [Windows -> SUBSET Release]
  /\ offer.lock \in [Commits -> Windows \cup {Nobody}]

(* A directory of a release may be there without its marker.               *)
Init ==
  \E left \in {{}, {"files"}} :
    offer = [main |-> 1,          \* the commit GitHub reports
             installed |-> 0,     \* local_revision of the installation
             seen |-> 0,          \* update.json
             prepared |-> [c \in Commits |-> IF c = 1 THEN left ELSE {}],
             lock |-> [c \in Commits |-> Nobody],
             phase |-> [w \in Windows |-> "open"], of |-> [w \in Windows |-> 0],
             work |-> [w \in Windows |-> {}]]

At(w, phase) == offer.phase[w] = phase

Commit == offer.main < MaxCommits /\ offer' = [offer EXCEPT !.main = @ + 1]

-------------------------------------------------------------------------------
(* _check_for_update, _offer_update.                                       *)

Fetch(w) ==
  /\ At(w, "open")
  /\ \/ offer' = [offer EXCEPT !.phase[w] = "quiet"]
     \/ offer' = [offer EXCEPT !.phase[w] = "fetched", !.of[w] = offer.main]

Compare(w) ==
  /\ At(w, "fetched")
  /\ offer' = [offer EXCEPT !.phase[w] =
       IF offer.of[w] \in {offer.installed, offer.seen} THEN "quiet" ELSE "available"]

(* remember_update is written before the user is asked, and may fail.      *)
Remember(w) ==
  /\ At(w, "available")
  /\ \E seen \in {offer.seen, offer.of[w]} :
       offer' = [offer EXCEPT !.phase[w] = "prompt", !.seen = seen]

Answer(w) ==
  /\ At(w, "prompt")
  /\ \E next \in {"download", "quiet"} : offer' = [offer EXCEPT !.phase[w] = next]

-------------------------------------------------------------------------------
(* prepare_update, in the thread.                                          *)

(* Wrong: the thread does not wait for the lock.                           *)
MayEnter_Always(c) == TRUE

MayEnter(c) == offer.lock[c] = Nobody

(* The lock, or its timeout or an error.                                   *)
Lock(w) ==
  /\ At(w, "download")
  /\ \/ /\ MayEnter(offer.of[w])
        /\ offer' = [offer EXCEPT !.phase[w] = "locked", !.lock[offer.of[w]] = w]
     \/ offer' = [offer EXCEPT !.phase[w] = "failed"]

(* Wrong: any directory of the release's name will do.                     *)
Reusable_Exists(prepared) == prepared # {}

Reusable(prepared) == "marker" \in prepared

Unlocked(o, w) ==
  [o EXCEPT !.lock = [c \in Commits |-> IF @[c] = w THEN Nobody ELSE @[c]], !.work[w] = {}]

Look(w) ==
  /\ At(w, "locked")
  /\ offer' = LET prepared == offer.prepared[offer.of[w]] IN
              CASE Reusable(prepared) -> [Unlocked(offer, w) EXCEPT !.phase[w] = "prepared"]
                [] ~Reusable(prepared) /\ prepared # {} -> [offer EXCEPT !.phase[w] = "remove"]
                [] OTHER -> [offer EXCEPT !.phase[w] = "extract"]

(* shutil.rmtree, in no particular order.                                  *)
Remove(w) ==
  /\ At(w, "remove")
  /\ LET c == offer.of[w] IN
     IF offer.prepared[c] = {} THEN offer' = [offer EXCEPT !.phase[w] = "extract"]
     ELSE \E part \in offer.prepared[c] : offer' = [offer EXCEPT !.prepared[c] = @ \ {part}]

(* The archive's files are verified, then the marker joins them; the       *)
(* release moves into place in one step.                                   *)
Extract(w) ==
  /\ At(w, "extract") /\ offer.work[w] # Release
  /\ offer' = [offer EXCEPT !.work[w] = IF @ = {} THEN {"files"} ELSE Release]

Publish(w) ==
  /\ At(w, "extract") /\ offer.work[w] = Release
  /\ offer' = [Unlocked(offer, w) EXCEPT !.prepared[offer.of[w]] = offer.work[w],
                                         !.phase[w] = "prepared"]

(* An error of the network, the archive or the disk.                       *)
Abort(w) ==
  /\ offer.phase[w] \in {"remove", "extract"}
  /\ offer' = [Unlocked(offer, w) EXCEPT !.phase[w] = "failed"]

-------------------------------------------------------------------------------
(* _refresh takes the result: _launch_update closes the window and starts  *)
(* the helper.                                                             *)

Launch(w) ==
  /\ At(w, "prepared")
  /\ \E next \in {"helper", "closed"} : offer' = [offer EXCEPT !.phase[w] = next]

HelperEnds(w) ==
  /\ At(w, "helper")
  /\ \E installed \in {offer.installed, offer.of[w]} :
       offer' = [offer EXCEPT !.phase[w] = "gone", !.installed = installed]

(* The window is closed or killed, the operating system frees its lock; a  *)
(* work directory stays and is never looked at.                            *)
Close(w) ==
  /\ offer.phase[w] \notin {"helper", "closed", "gone"}
  /\ offer' = [Unlocked(offer, w) EXCEPT !.phase[w] = "closed"]

Next ==
  \/ Commit
  \/ \E w \in Windows :
       \/ Fetch(w) \/ Compare(w) \/ Remember(w) \/ Answer(w)
       \/ Lock(w) \/ Look(w) \/ Remove(w) \/ Extract(w) \/ Publish(w) \/ Abort(w)
       \/ Launch(w) \/ HelperEnds(w) \/ Close(w)

Spec == Init /\ [][Next]_offer

-------------------------------------------------------------------------------
(* Properties.                                                             *)

(* A release with its marker is whole, and from the moment a window has it *)
(* prepared until its helper has read it no other window takes it away     *)
(* (prepare_update, _launch_update).                                       *)
PreparedStays ==
  /\ \A c \in Commits : "marker" \in offer.prepared[c] => offer.prepared[c] = Release
  /\ \A w \in Windows : offer.phase[w] \in {"prepared", "helper"} => offer.prepared[offer.of[w]] = Release
===============================================================================
