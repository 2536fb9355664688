------------------------------ MODULE AudioPlayer ------------------------------
(***************************************************************************)
(* The sound player of e170_gm_audio.py: the emulation thread submits      *)
(* requests and closes the player, a worker thread decodes, renders and    *)
(* starts ffplay, and a thread per ffplay waits for its end.               *)
(*                                                                         *)
(* A request is a whole MMF file or a batch of MA2 snapshots.  A snapshot  *)
(* is cumulative: its notes are 1..length of its epoch, and a later one of *)
(* the same epoch repeats them.  Each step below is what runs under one    *)
(* lock, or between two of them.                                           *)
(***************************************************************************)
EXTENDS Integers, Sequences, SequencesExt

CONSTANTS MaxNotes,      \* bound: notes of an epoch
          MaxEpochs,     \* bound: epochs
          MaxRequests    \* bound: requests

AudioPlayerAssumption == MaxNotes \in Nat /\ MaxEpochs \in Nat /\ MaxRequests \in Nat

VARIABLE player

Stop == [id |-> 0, kind |-> "stop"]      \* the None that ends the worker

(* What the guest has made so far, seen by the emulation thread.           *)
Notes == (1..MaxEpochs) \X (1..MaxNotes)

TypeOK ==
  /\ Len(player.queue) <= 2
  /\ player.closed \in BOOLEAN                    \* _closed
  /\ player.worker \in {"get", "render", "rendered", "stop", "write", "launch", "ended"}
  /\ player.running \in SUBSET Nat                \* ffplay processes
  /\ player.current \in Nat                       \* _process, 0 if None
  /\ player.wav \in BOOLEAN                       \* the WAV file is there
  /\ player.emitted \subseteq Notes               \* the decoder's marks
  /\ player.closer \in {"open", "stop", "join", "again", "unlink", "closed"}
  /\ player.late \in BOOLEAN                      \* history: see CloseJoins

Init ==
  player = [queue |-> <<>>, closed |-> FALSE, worker |-> "get", request |-> Stop,
            running |-> {}, current |-> 0, wav |-> TRUE, epoch |-> 1, length |-> 0,
            requests |-> 0, taken |-> 0, decoded |-> 0, emitted |-> {}, fresh |-> {},
            rendered |-> <<>>, lost |-> {}, closer |-> "open", late |-> FALSE]

-------------------------------------------------------------------------------
(* The emulation thread.                                                   *)

(* The guest plays a note of this epoch, or begins another one.            *)
GuestNote ==
  /\ player.length < MaxNotes
  /\ player' = [player EXCEPT !.length = @ + 1]

GuestEpoch ==
  /\ player.epoch < MaxEpochs
  /\ player' = [player EXCEPT !.epoch = @ + 1, !.length = 0]

(* Wrong: the request is put where there is room, and dropped if there is  *)
(* none.                                                                   *)
Replaced_Keeps(p, request) ==
  [p EXCEPT !.queue = IF Len(@) < 2 THEN Append(@, request) ELSE @,
            !.requests = request.id]

(* _replace_request: what waits is dropped for the newest.                 *)
Replaced(p, request) ==
  [p EXCEPT !.queue = <<request>>, !.requests = request.id]

(* play_mmf and play_ma2_snapshots; a closed player refuses.               *)
Submit(kind) ==
  /\ player.requests < MaxRequests
  /\ player.closer = "open"       \* the same thread closes
  /\ kind = "ma2" => player.length > 0
  /\ LET request == [id |-> player.requests + 1, kind |-> kind,
                     epoch |-> player.epoch, length |-> player.length]
     IN player' = IF player.closed THEN player ELSE Replaced(player, request)

(* stop: the process is taken under _lock and then terminated.             *)
Stopped(p) == [p EXCEPT !.running = @ \ {p.current}, !.current = 0]

Close ==
  /\ player.closer = "open"
  /\ player' = [player EXCEPT !.closed = TRUE, !.queue = <<Stop>>, !.closer = "stop"]

CloseStops ==
  /\ player.closer \in {"stop", "again"}
  /\ player' = [Stopped(player) EXCEPT
                  !.closer = IF player.closer = "stop" THEN "join" ELSE "unlink"]

(* Past its last look at _closed, with the file still to write.            *)
Writing == player.worker \in {"stop", "write"}

(* join(timeout=2.0): the worker has ended, or two seconds have passed     *)
(* wherever it is; late when it has yet to write.                          *)
CloseJoins ==
  /\ player.closer = "join"
  /\ player' = [player EXCEPT !.closer = "again", !.late = Writing]

CloseUnlinks ==
  /\ player.closer = "unlink"
  /\ player' = [player EXCEPT !.wav = FALSE, !.closer = "closed"]

-------------------------------------------------------------------------------
(* _worker.                                                                *)

WorkerGets ==
  /\ player.worker = "get" /\ player.queue # <<>>
  /\ LET request == Head(player.queue)
     IN player' =
          IF request = Stop \/ player.closed
          THEN [player EXCEPT !.queue = Tail(@), !.worker = "ended"]
          ELSE [player EXCEPT !.queue = Tail(@), !.request = request,
                              !.taken = request.id, !.worker = "render"]

(* Wrong: the marks of the epoch before are kept and compared without it.  *)
Decode_Forgets(p) ==
  LET notes == {n \in Notes : n[1] = p.request.epoch /\ n[2] <= p.request.length}
  IN [p EXCEPT !.decoded = p.request.epoch, !.fresh = notes, !.emitted = notes]

(* _Ma2SnapshotDecoder.decode: notes not yet marked, which it marks; a new *)
(* epoch forgets the marks.                                                *)
Decode(p) ==
  LET marks == IF p.decoded = p.request.epoch THEN p.emitted ELSE {}
      notes == {n \in Notes : n[1] = p.request.epoch /\ n[2] <= p.request.length}
  IN [p EXCEPT !.decoded = p.request.epoch, !.fresh = notes \ marks,
               !.emitted = marks \cup notes]

(* Decoding and rendering.  With no new note there is nothing to render;   *)
(* an error ends this request, and its notes stay marked.                  *)
WorkerRenders(fails) ==
  /\ player.worker = "render"
  /\ LET p == IF player.request.kind = "ma2" THEN Decode(player)
              ELSE [player EXCEPT !.fresh = {}]
     IN player' =
          IF fails THEN [p EXCEPT !.worker = "get", !.lost = @ \cup p.fresh]
          ELSE IF p.request.kind = "ma2" /\ p.fresh = {}
          THEN [p EXCEPT !.worker = "get"]
          ELSE [p EXCEPT !.worker = "rendered"]

(* Wrong: whoever was closed while it rendered plays all the same.         *)
WorkerChecks_Trusting ==
  /\ player.worker = "rendered"
  /\ player' = [player EXCEPT !.worker = "stop", !.rendered = Append(@, player.fresh)]

(* The checks before and in _play_pcm: a closed player ends the worker.    *)
WorkerChecks ==
  /\ player.worker = "rendered"
  /\ player' = IF player.closed
               THEN [player EXCEPT !.worker = "ended"]
               ELSE [player EXCEPT !.worker = "stop", !.rendered = Append(@, player.fresh)]

WorkerStops ==
  /\ player.worker = "stop"
  /\ player' = [Stopped(player) EXCEPT !.worker = "write"]

WorkerWrites ==
  /\ player.worker = "write"
  /\ player' = [player EXCEPT !.wav = TRUE, !.worker = "launch"]

(* Wrong: the player is not asked again whether it is closed.              *)
WorkerLaunches_Anyway ==
  /\ player.worker = "launch"
  /\ player' = [player EXCEPT !.worker = "get", !.current = player.taken,
                              !.running = @ \cup {player.taken}]

(* ffplay is started under _lock, unless the player was closed meanwhile.  *)
WorkerLaunches ==
  /\ player.worker = "launch"
  /\ player' = IF player.closed THEN [player EXCEPT !.worker = "get"]
               ELSE [player EXCEPT !.worker = "get", !.current = player.taken,
                                   !.running = @ \cup {player.taken}]

(* ffplay ends; feed forgets it if it is still the current one.            *)
Ends(process) ==
  /\ process \in player.running
  /\ player' = [player EXCEPT !.running = @ \ {process},
                              !.current = IF @ = process THEN 0 ELSE @]

Next ==
  \/ GuestNote \/ GuestEpoch
  \/ \E kind \in {"mmf", "ma2"} : Submit(kind)
  \/ Close \/ CloseStops \/ CloseJoins \/ CloseUnlinks
  \/ WorkerGets
  \/ \E fails \in BOOLEAN : WorkerRenders(fails)
  \/ WorkerChecks \/ WorkerStops \/ WorkerWrites \/ WorkerLaunches
  \/ \E process \in 1..MaxRequests : Ends(process)

Spec == Init /\ [][Next]_player

-------------------------------------------------------------------------------
(* Properties.                                                             *)

(* Once close has returned no ffplay runs and none will start.  The WAV    *)
(* file is gone too, and a worker that was still rendering writes none; it *)
(* only comes back from a worker that was past its last check and had not  *)
(* written when the join gave up (close, _worker, _play_pcm).              *)
SilentAfterClose ==
  /\ player.closer = "closed" => player.running = {}
  /\ player.closer = "closed" /\ ~player.late => ~player.wav

(* Repeated snapshots repeat no note, and dropping requests loses none     *)
(* that still counts: an idle worker has taken the last request, and every *)
(* note it marked was rendered or belongs to a rendering that failed.      *)
EachNoteOnce ==
  /\ \A i, j \in DOMAIN player.rendered : i # j => player.rendered[i] \cap player.rendered[j] = {}
  /\ player.worker = "get" /\ player.queue = <<>> => player.taken = player.requests
  /\ player.worker = "get" =>
       \A n \in player.emitted :
         n \in player.lost \/ \E i \in DOMAIN player.rendered : n \in player.rendered[i]
===============================================================================
