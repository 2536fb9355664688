----------------------------- MODULE Media_proofs ------------------------------
(***************************************************************************)
(* Proofs about the components MCMedia checks side by side: the sound      *)
(* player, the frame buffer of the display, the writes to the sound chips, *)
(* the capture of raw pixels, and the decoders of windows with cursors and *)
(* of pages.  They share no state, so each has a section of its own, about *)
(* the instance of MCMedia: an inductive invariant, a lemma for each       *)
(* action, and the theorems.  The last section is about MCMedia's own      *)
(* specification.                                                          *)
(***************************************************************************)
EXTENDS MCMedia, SequenceTheorems, FiniteSetTheorems, TLAPS

-------------------------------------------------------------------------------
(* The sound player.                                                       *)

Requests == [id : Nat \ {0}, kind : {"mmf", "ma2"}, epoch : Nat, length : Nat]

PlayerType ==
  state \in
    [queue : Seq(Requests \cup {Player!Stop}), closed : BOOLEAN,
     worker : {"get", "render", "rendered", "stop", "write", "launch", "ended"},
     request : Requests \cup {Player!Stop},
     running : SUBSET Nat, current : Nat, wav : BOOLEAN, epoch : Nat, length : Nat,
     requests : Nat, taken : Nat, decoded : Nat, emitted : SUBSET Player!Notes,
     fresh : SUBSET Player!Notes, rendered : Seq(SUBSET Player!Notes),
     lost : SUBSET Player!Notes,
     closer : {"open", "stop", "join", "again", "unlink", "closed"}, late : BOOLEAN]

(* The queue holds at most the newest request, and the end of the worker   *)
(* once the player is closed, until the worker takes it.                   *)
NewestWaits ==
  /\ state.closed <=> state.closer # "open"
  /\ state.closed => state.queue = <<Player!Stop>> \/ state.worker = "ended"
  /\ ~state.closed =>
       /\ state.worker # "ended"
       /\ state.queue = <<>> => state.taken = state.requests
       /\ state.queue # <<>> =>
            \E r \in Requests : state.queue = <<r>> /\ r.id = state.requests
  /\ state.worker = "render" => state.request \in Requests

(* There is one process at most, the current one; while another is being   *)
(* made ready there is none, and after the close has stopped the player    *)
(* no other is started.                                                    *)
OneProcess ==
  /\ state.running \subseteq {state.current}
  /\ state.worker \in {"write", "launch"} => state.running = {}
  /\ state.closer \in {"join", "again", "unlink", "closed"} => state.running = {}

(* A worker that was not about to write when the join gave up writes none. *)
EndedInTime ==
  /\ state.closer \in {"again", "unlink", "closed"} /\ ~state.late =>
       state.worker \notin {"stop", "write"}
  /\ state.closer = "closed" /\ ~state.late => ~state.wav

PlayerInv == PlayerType /\ NewestWaits /\ OneProcess /\ EndedInTime

(* What waits is as new as what is worked on, and the notes marked are     *)
(* those of the newest epoch decoded.                                      *)
EpochsInOrder ==
  /\ state.decoded <= state.epoch
  /\ state.worker = "render" =>
       state.decoded <= state.request.epoch /\ state.request.epoch <= state.epoch
  /\ \A r \in Requests : state.queue = <<r>> =>
       /\ state.decoded <= r.epoch /\ r.epoch <= state.epoch
       /\ state.worker = "render" => state.request.epoch <= r.epoch
  /\ \A n \in state.emitted : n[1] = state.decoded

Sounded(n) == \E i \in DOMAIN state.rendered : n \in state.rendered[i]

(* A note that was rendered is marked or of an epoch that has passed; the  *)
(* notes about to be rendered are marked and were not rendered before; and *)
(* a marked note was rendered, is about to be, or was lost to a failure.   *)
MarksAreKept ==
  /\ \A n \in Player!Notes : Sounded(n) => n \in state.emitted \/ n[1] < state.decoded
  /\ state.worker = "rendered" =>
       state.fresh \subseteq state.emitted /\ \A n \in state.fresh : ~Sounded(n)
  /\ state.worker # "ended" =>
       \A n \in state.emitted : \/ n \in state.lost \/ Sounded(n)
                                \/ state.worker = "rendered" /\ n \in state.fresh
  /\ \A i, j \in DOMAIN state.rendered :
       i # j => state.rendered[i] \cap state.rendered[j] = {}

NotesInv == PlayerInv /\ EpochsInOrder /\ MarksAreKept

(* The record and its queue, where the steps below need them spelt out.    *)
LEMMA StopIsNoRequest == Player!Stop \notin Requests
BY DEF Player!Stop, Requests

LEMMA PlayerQueue ==
  ASSUME NEW S, NEW x \in S
  PROVE  /\ <<x>> \in Seq(S) /\ <<x>> # <<>> /\ Head(<<x>>) = x /\ Tail(<<x>>) = <<>>
         /\ \A y : <<x>> = <<y>> => x = y
OBVIOUS

LEMMA PlayerInitInv == Player!Init => NotesInv
<1> SUFFICES ASSUME Player!Init PROVE NotesInv
  OBVIOUS
<1>1. PlayerType
  BY EmptySeq DEF Player!Init, PlayerType
<1>2. PlayerInv
  BY <1>1 DEF Player!Init, PlayerInv, NewestWaits, OneProcess, EndedInTime
<1>3. EpochsInOrder /\ MarksAreKept
  BY DEF Player!Init, EpochsInOrder, MarksAreKept, Sounded
<1>4. QED BY <1>2, <1>3 DEF NotesInv

(* The steps of the emulation thread.                                      *)
LEMMA PlayerGuestGoesOn ==
  ASSUME NotesInv, NEW e \in Nat, NEW l \in Nat, state.epoch <= e,
         state' = [state EXCEPT !.epoch = e, !.length = l]
  PROVE  NotesInv'
<1>1. PlayerType
  BY DEF NotesInv, PlayerInv
<1>2. PlayerType' /\ state'.epoch = e
  BY <1>1 DEF PlayerType
<1>3. UNCHANGED <<state.queue, state.closed, state.worker, state.request, state.running,
                  state.current, state.wav, state.requests, state.taken, state.decoded,
                  state.emitted, state.fresh, state.rendered, state.lost, state.closer,
                  state.late>>
  BY <1>1 DEF PlayerType
<1>4. PlayerInv'
  BY <1>2, <1>3 DEF NotesInv, PlayerInv, NewestWaits, OneProcess, EndedInTime
<1>5. EpochsInOrder'
  <2>1. state.epoch \in Nat /\ state.decoded \in Nat /\ state.request \in Requests \cup {Player!Stop}
    BY <1>1 DEF PlayerType
  <2>2. EpochsInOrder /\ (state.worker = "render" => state.request \in Requests)
    BY DEF NotesInv, PlayerInv, NewestWaits
  <2>3. \A r \in Requests : r.epoch \in Nat
    BY DEF Requests
  <2>4. QED BY <1>2, <1>3, <2>1, <2>2, <2>3 DEF EpochsInOrder
<1>6. MarksAreKept'
  BY <1>3 DEF NotesInv, MarksAreKept, Sounded
<1>7. QED BY <1>4, <1>5, <1>6 DEF NotesInv

LEMMA PlayerGuestStep ==
  ASSUME NotesInv, Player!GuestNote \/ Player!GuestEpoch
  PROVE  NotesInv'
<1>1. PlayerType
  BY DEF NotesInv, PlayerInv
<1>2. /\ state.epoch \in Nat /\ state.epoch + 1 \in Nat /\ state.length + 1 \in Nat
      /\ state.epoch <= state.epoch /\ state.epoch <= state.epoch + 1
  BY <1>1 DEF PlayerType
<1>3. CASE Player!GuestNote
  <2>1. state' = [state EXCEPT !.epoch = state.epoch, !.length = state.length + 1]
    BY <1>1, <1>3 DEF Player!GuestNote, PlayerType
  <2>2. QED BY <1>2, <2>1, PlayerGuestGoesOn
<1>4. CASE Player!GuestEpoch
  <2>1. state' = [state EXCEPT !.epoch = state.epoch + 1, !.length = 0]
    BY <1>4 DEF Player!GuestEpoch
  <2>2. QED BY <1>2, <2>1, PlayerGuestGoesOn
<1>5. QED BY <1>3, <1>4

LEMMA PlayerSubmitStep ==
  ASSUME NotesInv, NEW kind \in {"mmf", "ma2"}, Player!Submit(kind)
  PROVE  NotesInv'
<1> DEFINE request == [id |-> state.requests + 1, kind |-> kind,
                       epoch |-> state.epoch, length |-> state.length]
<1>1. request \in Requests /\ PlayerType
  BY DEF NotesInv, PlayerInv, PlayerType, Requests
<1>2. ~state.closed /\ state.closer = "open"
  BY DEF Player!Submit, NotesInv, PlayerInv, NewestWaits
<1>3. state' = [state EXCEPT !.queue = <<request>>, !.requests = request.id]
  BY <1>2 DEF Player!Submit, Player!Replaced
<1> HIDE DEF request
<1>4. /\ state'.queue = <<request>> /\ state'.requests = request.id
      /\ UNCHANGED <<state.closed, state.worker, state.request, state.running,
                  state.current, state.wav, state.taken, state.decoded, state.epoch,
                  state.emitted, state.fresh, state.rendered, state.lost, state.closer,
                  state.late>>
  BY <1>1, <1>3 DEF PlayerType
<1>5. PlayerType'
  <2>1. <<request>> \in Seq(Requests \cup {Player!Stop}) /\ request.id \in Nat
    BY <1>1 DEF Requests
  <2>2. QED BY <1>1, <1>3, <2>1 DEF PlayerType
<1>6. PlayerInv'
  BY <1>1, <1>2, <1>4, <1>5 DEF NotesInv, PlayerInv, NewestWaits, OneProcess, EndedInTime
<1>7. request.epoch = state.epoch
  BY DEF request
<1>8. EpochsInOrder'
  BY <1>1, <1>4, <1>7 DEF NotesInv, PlayerType, EpochsInOrder, Requests
<1>9. MarksAreKept'
  BY <1>4 DEF NotesInv, MarksAreKept, Sounded
<1>10. QED BY <1>6, <1>8, <1>9 DEF NotesInv

LEMMA PlayerCloseStep ==
  ASSUME NotesInv,
         Player!Close \/ Player!CloseStops \/ Player!CloseJoins \/ Player!CloseUnlinks
  PROVE  NotesInv'
<1>0. PlayerType
  BY DEF NotesInv, PlayerInv
<1>1. PlayerType'
  <2>1. CASE Player!Close
    BY <1>0, <2>1, PlayerQueue DEF Player!Close, PlayerType
  <2>2. CASE Player!CloseStops
    <3>1. state.running \ {state.current} \in SUBSET Nat
      BY <1>0 DEF PlayerType
    <3>2. QED BY <1>0, <2>2, <3>1 DEF Player!CloseStops, Player!Stopped, PlayerType
  <2>3. CASE Player!CloseJoins
    <3>1. CASE Player!Writing
      <4>1. state' = [state EXCEPT !.closer = "again", !.late = TRUE]
        BY <2>3, <3>1 DEF Player!CloseJoins
      <4>2. QED BY <1>0, <4>1 DEF PlayerType
    <3>2. CASE ~Player!Writing
      <4>1. state' = [state EXCEPT !.closer = "again", !.late = FALSE]
        <5>1. Player!Writing \in BOOLEAN
          BY DEF Player!Writing
        <5>2. Player!Writing = FALSE
          BY <3>2, <5>1
        <5>3. QED BY <2>3, <5>2 DEF Player!CloseJoins
      <4>2. QED BY <1>0, <4>1 DEF PlayerType
    <3>3. QED BY <3>1, <3>2
  <2>4. CASE Player!CloseUnlinks
    BY <1>0, <2>4 DEF Player!CloseUnlinks, PlayerType
  <2>5. QED BY <2>1, <2>2, <2>3, <2>4
<1>2. UNCHANGED <<state.worker, state.request, state.epoch, state.taken, state.requests,
                  state.decoded, state.emitted, state.fresh, state.rendered, state.lost>>
  <2>1. ASSUME Player!CloseStops
        PROVE  \E r, c, l : state' = [state EXCEPT !.running = r, !.current = c, !.closer = l]
    BY <2>1 DEF Player!CloseStops, Player!Stopped
  <2>2. CASE Player!CloseStops
    <3>1. PICK r, c, l : state' = [state EXCEPT !.running = r, !.current = c, !.closer = l]
      BY <2>1, <2>2
    <3>2. QED BY <1>0, <3>1 DEF PlayerType
  <2>3. CASE Player!Close
    BY <1>0, <2>3 DEF Player!Close, PlayerType
  <2>4. CASE Player!CloseJoins
    BY <1>0, <2>4 DEF Player!CloseJoins, PlayerType
  <2>5. CASE Player!CloseUnlinks
    BY <1>0, <2>5 DEF Player!CloseUnlinks, PlayerType
  <2>6. QED BY <2>2, <2>3, <2>4, <2>5
<1>3. state'.queue = state.queue \/ state'.queue = <<Player!Stop>>
  BY <1>0 DEF Player!Close, Player!CloseStops, Player!CloseJoins, Player!CloseUnlinks,
     Player!Stopped, PlayerType
<1>4. PlayerInv'
  <2>1. CASE Player!Close
    BY <1>1, <2>1 DEF Player!Close, NotesInv, PlayerInv, PlayerType, NewestWaits, OneProcess,
       EndedInTime
  <2>2. CASE Player!CloseStops
    BY <1>1, <2>2 DEF Player!CloseStops, Player!Stopped, NotesInv, PlayerInv, PlayerType,
       NewestWaits, OneProcess, EndedInTime
  <2>3. CASE Player!CloseJoins
    BY <1>1, <2>3 DEF Player!CloseJoins, Player!Writing, NotesInv, PlayerInv, PlayerType, NewestWaits,
       OneProcess, EndedInTime
  <2>4. CASE Player!CloseUnlinks
    BY <1>1, <2>4 DEF Player!CloseUnlinks, NotesInv, PlayerInv, PlayerType, NewestWaits,
       OneProcess, EndedInTime
  <2>5. QED BY <2>1, <2>2, <2>3, <2>4
<1>5. EpochsInOrder'
  BY <1>2, <1>3, StopIsNoRequest DEF NotesInv, EpochsInOrder
<1>6. MarksAreKept'
  BY <1>2 DEF NotesInv, MarksAreKept, Sounded
<1>7. QED BY <1>4, <1>5, <1>6 DEF NotesInv

(* The steps of the worker.  Taking the one request that waits, or the     *)
(* end.                                                                    *)
LEMMA PlayerGetsStep ==
  ASSUME NotesInv, Player!WorkerGets
  PROVE  NotesInv'
<1>1. PlayerType /\ state.worker = "get" /\ state.queue # <<>>
  BY DEF NotesInv, PlayerInv, Player!WorkerGets
<1>2. PICK x \in Requests \cup {Player!Stop} :
        state.queue = <<x>> /\ (~state.closed => x \in Requests /\ x.id = state.requests)
             /\ (state.closed => x = Player!Stop)
  BY <1>1 DEF NotesInv, PlayerInv, NewestWaits
<1>3. Head(state.queue) = x /\ Tail(state.queue) = <<>>
  BY <1>2
<1>4. <<>> \in Seq(Requests \cup {Player!Stop}) /\ \A r \in Requests : <<>> # <<r>> /\ r.id \in Nat
  BY EmptySeq DEF Requests
<1>5. CASE state.closed
  <2>1. state' = [state EXCEPT !.queue = <<>>, !.worker = "ended"]
    BY <1>2, <1>3, <1>5 DEF Player!WorkerGets
  <2>2. /\ state'.queue = <<>> /\ state'.worker = "ended"
        /\ UNCHANGED <<state.closed, state.closer, state.running, state.current, state.wav,
                       state.late, state.epoch, state.decoded, state.emitted,
                       state.fresh, state.rendered, state.lost>>
    BY <1>1, <2>1 DEF PlayerType
  <2>3. PlayerType'
    BY <1>1, <1>4, <2>1 DEF PlayerType
  <2>4. PlayerInv'
    BY <1>5, <2>2, <2>3 DEF NotesInv, PlayerInv, NewestWaits, OneProcess, EndedInTime
  <2>5. EpochsInOrder' /\ MarksAreKept'
    BY <1>4, <2>2 DEF NotesInv, EpochsInOrder, MarksAreKept, Sounded
  <2>6. QED BY <2>4, <2>5 DEF NotesInv
<1>6. CASE ~state.closed
  <2>1. x \in Requests /\ x.id = state.requests /\ x # Player!Stop
    BY <1>2, <1>6, StopIsNoRequest
  <2>2. state' = [state EXCEPT !.queue = <<>>, !.request = x, !.taken = x.id,
                                 !.worker = "render"]
    BY <1>3, <1>6, <2>1 DEF Player!WorkerGets
  <2>3. /\ state'.queue = <<>> /\ state'.worker = "render"
        /\ state'.request = x /\ state'.taken = x.id
        /\ UNCHANGED <<state.closed, state.closer, state.running, state.current, state.wav,
                       state.late, state.epoch, state.decoded, state.emitted, state.requests,
                       state.fresh, state.rendered, state.lost>>
    BY <1>1, <2>2 DEF PlayerType
  <2>4. PlayerType'
    BY <1>1, <1>4, <2>1, <2>2 DEF PlayerType
  <2>5. PlayerInv'
    BY <1>1, <1>6, <2>1, <2>3, <2>4 DEF NotesInv, PlayerInv, NewestWaits, OneProcess, EndedInTime
  <2>6. EpochsInOrder'
    BY <1>2, <1>4, <2>1, <2>3 DEF NotesInv, EpochsInOrder
  <2>7. MarksAreKept'
    BY <1>1, <2>3 DEF NotesInv, MarksAreKept, Sounded
  <2>8. QED BY <2>5, <2>6, <2>7 DEF NotesInv
<1>7. QED BY <1>5, <1>6

LEMMA NotesHaveEpochs == \A n \in Player!Notes : n[1] \in Int
BY DEF Player!Notes

(* A rendering, whatever was decoded: the marks are now e, of epoch d, and *)
(* f are new.                                                              *)
Rendering(d, e, f, l, w) ==
  /\ d \in Nat /\ w \in {"get", "rendered"}
  /\ e \in SUBSET Player!Notes /\ f \in SUBSET Player!Notes /\ l \in SUBSET Player!Notes
  /\ state' = [state EXCEPT !.decoded = d, !.emitted = e, !.fresh = f,
                              !.lost = l, !.worker = w]
  /\ state.decoded <= d /\ d <= state.request.epoch
  /\ \A n \in e : n[1] = d /\ (n \in state.emitted \/ n \in f)
  /\ \A n \in state.emitted : n \in e \/ n[1] < d
  /\ f \subseteq e /\ \A n \in f : ~Sounded(n) /\ (w = "rendered" \/ n \in l)
  /\ state.lost \subseteq l

LEMMA PlayerRendered ==
  ASSUME NotesInv, state.worker = "render",
         NEW d, NEW e, NEW f, NEW l, NEW w, Rendering(d, e, f, l, w)
  PROVE  NotesInv'
<1>1. PlayerType /\ state.request \in Requests
  BY DEF NotesInv, PlayerInv, NewestWaits
<1>2. PlayerType'
  BY <1>1 DEF PlayerType, Rendering
<1>3. /\ state'.decoded = d /\ state'.emitted = e /\ state'.fresh = f
      /\ state'.lost = l /\ state'.worker = w
      /\ UNCHANGED <<state.queue, state.closed, state.closer, state.running, state.current,
                     state.wav, state.late, state.epoch, state.requests, state.taken,
                     state.request, state.rendered>>
  BY <1>1 DEF PlayerType, Rendering
<1>4. PlayerInv'
  BY <1>2, <1>3 DEF Rendering, NotesInv, PlayerInv, NewestWaits, OneProcess, EndedInTime
<1>5. state.epoch \in Nat /\ state.decoded \in Nat /\ state.request.epoch \in Nat /\ d \in Nat
  BY <1>1 DEF PlayerType, Requests, Rendering
<1>6. EpochsInOrder'
  <2>1. \A r \in Requests : r.epoch \in Nat
    BY DEF Requests
  <2>2. QED BY <1>3, <1>5, <2>1 DEF NotesInv, EpochsInOrder, Rendering
<1>7. MarksAreKept'
  <2>1. \A n : Sounded(n)' <=> Sounded(n)
    BY <1>3 DEF Sounded
  <2>2. \A n \in Player!Notes : Sounded(n)' => n \in state'.emitted \/ n[1] < state'.decoded
    BY <1>3, <1>5, <2>1, NotesHaveEpochs DEF NotesInv, MarksAreKept, Rendering
  <2>3. QED BY <1>3, <2>1, <2>2 DEF NotesInv, MarksAreKept, Rendering
<1>8. QED BY <1>4, <1>6, <1>7 DEF NotesInv

LEMMA PlayerRendersStep ==
  ASSUME NotesInv, NEW fails \in BOOLEAN, Player!WorkerRenders(fails)
  PROVE  NotesInv'
<1>1. PlayerType /\ state.request \in Requests /\ state.worker = "render"
  BY DEF NotesInv, PlayerInv, NewestWaits, Player!WorkerRenders
<1>2. /\ state.request.epoch \in Nat /\ state.decoded \in Nat /\ state.decoded <= state.decoded
      /\ state.emitted \in SUBSET Player!Notes /\ state.lost \in SUBSET Player!Notes
      /\ state.decoded <= state.request.epoch
      /\ state.request.epoch <= state.request.epoch
  BY <1>1 DEF PlayerType, Requests, NotesInv, EpochsInOrder
<1>3. CASE state.request.kind = "ma2"
  <2> DEFINE marks == IF state.decoded = state.request.epoch THEN state.emitted ELSE {}
             notes == {n \in Player!Notes :
                         n[1] = state.request.epoch /\ n[2] <= state.request.length}
             e == marks \cup notes
             f == notes \ marks
             l == IF fails THEN state.lost \cup f ELSE state.lost
             w == IF fails \/ f = {} THEN "get" ELSE "rendered"
  <2>1. Player!Decode(state) = [state EXCEPT !.decoded = state.request.epoch, !.fresh = f,
                                               !.emitted = e]
    BY DEF Player!Decode
  <2>2. state' = [state EXCEPT !.decoded = state.request.epoch, !.emitted = e, !.fresh = f,
                                 !.lost = l, !.worker = w]
    <3> DEFINE p == Player!Decode(state)
    <3> DEFINE with(x, y) == [state EXCEPT !.decoded = state.request.epoch, !.emitted = e,
                                            !.fresh = f, !.lost = x, !.worker = y]
    <3>0. p = [state EXCEPT !.decoded = state.request.epoch, !.fresh = f, !.emitted = e]
      BY <2>1
    <3>1. /\ p.request.kind = "ma2" /\ p.fresh = f /\ p.lost = state.lost
          /\ \A x, y : [p EXCEPT !.lost = x, !.worker = y] = with(x, y)
          /\ \A y : [p EXCEPT !.worker = y] = with(state.lost, y)
      <4> HIDE DEF e, f, p
      <4>1. p.request.kind = "ma2" /\ p.fresh = f /\ p.lost = state.lost
        BY <1>1, <1>3, <3>0 DEF PlayerType
      <4>2. \A x, y : [p EXCEPT !.lost = x, !.worker = y] = with(x, y)
        BY <1>1, <3>0 DEF PlayerType
      <4>3. \A y : [p EXCEPT !.worker = y] = with(state.lost, y)
        BY <1>1, <3>0 DEF PlayerType
      <4>4. QED BY <4>1, <4>2, <4>3
    <3>2. state' = IF fails THEN [p EXCEPT !.worker = "get", !.lost = p.lost \cup p.fresh]
                   ELSE IF p.request.kind = "ma2" /\ p.fresh = {}
                   THEN [p EXCEPT !.worker = "get"] ELSE [p EXCEPT !.worker = "rendered"]
      BY <1>3 DEF Player!WorkerRenders
    <3> HIDE DEF p, e, f
    <3>3. QED BY <3>1, <3>2 DEF with
  <2>3. e \in SUBSET Player!Notes /\ f \in SUBSET Player!Notes /\ l \in SUBSET Player!Notes
    BY <1>2
  <2>4. \A n \in e : n[1] = state.request.epoch /\ (n \in state.emitted \/ n \in f)
    BY DEF NotesInv, EpochsInOrder
  <2>5. \A n \in state.emitted : n \in e \/ n[1] < state.request.epoch
    BY <1>2 DEF NotesInv, EpochsInOrder
  <2>6. \A n \in f : ~Sounded(n) /\ (w = "rendered" \/ n \in l)
    <3>1. ASSUME NEW n \in f, Sounded(n)
          PROVE  FALSE
      <4>1. n \in Player!Notes /\ n[1] = state.request.epoch /\ n \notin marks
        OBVIOUS
      <4>2. n \in state.emitted \/ n[1] < state.decoded
        BY <3>1, <4>1 DEF NotesInv, MarksAreKept
      <4>3. n \in state.emitted => n[1] = state.decoded
        BY DEF NotesInv, EpochsInOrder
      <4> HIDE DEF f
      <4>4. QED BY <1>2, <4>1, <4>2, <4>3
    <3>2. QED BY <3>1
  <2>7. f \subseteq e /\ state.lost \subseteq l /\ w \in {"get", "rendered"}
    OBVIOUS
  <2> HIDE DEF e, f, l, w
  <2>8. Rendering(state.request.epoch, e, f, l, w)
    BY <1>2, <2>2, <2>3, <2>4, <2>5, <2>6, <2>7 DEF Rendering
  <2>9. QED BY <1>1, <2>8, PlayerRendered
<1>4. CASE state.request.kind # "ma2"
  <2> DEFINE w == IF fails THEN "get" ELSE "rendered"
             f == {}
             d == state.decoded
             e == state.emitted
             l == state.lost
  <2>1. state' = [state EXCEPT !.decoded = d, !.emitted = e,
                                 !.fresh = f, !.lost = l, !.worker = w]
    <3> DEFINE p == [state EXCEPT !.fresh = {}]
    <3>1. state' = IF fails THEN [p EXCEPT !.worker = "get", !.lost = p.lost \cup p.fresh]
                   ELSE [p EXCEPT !.worker = "rendered"]
      BY <1>1, <1>4 DEF PlayerType, Player!WorkerRenders
    <3>2. p.fresh = {} /\ p.lost = state.lost /\ p.lost \cup {} = p.lost
      BY <1>1 DEF PlayerType
    <3>3. state' = [state EXCEPT !.fresh = {}, !.lost = state.lost, !.worker = w]
      BY <1>1, <3>1, <3>2 DEF PlayerType
    <3>4. QED BY <1>1, <3>3 DEF PlayerType
  <2>2. \A n \in e : n[1] = d /\ (n \in state.emitted \/ n \in f)
    BY DEF NotesInv, EpochsInOrder
  <2>3. /\ w \in {"get", "rendered"} /\ f \subseteq e /\ state.lost \subseteq l
        /\ \A n \in state.emitted : n \in e \/ n[1] < d
        /\ \A n \in f : ~Sounded(n) /\ (w = "rendered" \/ n \in l)
    OBVIOUS
  <2>4. e \in SUBSET Player!Notes /\ f \in SUBSET Player!Notes /\ l \in SUBSET Player!Notes
    BY <1>2
  <2>5. d \in Nat /\ state.decoded <= d /\ d <= state.request.epoch
    BY <1>2
  <2> HIDE DEF w, d, e, f, l
  <2>6. Rendering(d, e, f, l, w)
    BY <2>1, <2>2, <2>3, <2>4, <2>5 DEF Rendering
  <2>7. QED BY <1>1, <2>6, PlayerRendered
<1>5. QED BY <1>3, <1>4

(* The rendering is counted as heard, unless the player was closed.        *)
LEMMA PlayerChecksStep ==
  ASSUME NotesInv, Player!WorkerChecks
  PROVE  NotesInv'
<1>1. PlayerType /\ state.worker = "rendered"
  BY DEF NotesInv, PlayerInv, Player!WorkerChecks
<1>2. CASE state.closed
  <2>1. state' = [state EXCEPT !.worker = "ended"]
    BY <1>2 DEF Player!WorkerChecks
  <2>2. state'.worker = "ended"
        /\ UNCHANGED <<state.queue, state.closed, state.closer, state.running, state.current,
                       state.wav, state.late, state.epoch, state.decoded, state.emitted,
                       state.fresh, state.rendered, state.lost>>
    BY <1>1, <2>1 DEF PlayerType
  <2>3. PlayerType'
    BY <1>1, <2>1 DEF PlayerType
  <2>4. PlayerInv'
    BY <1>2, <2>2, <2>3 DEF NotesInv, PlayerInv, NewestWaits, OneProcess, EndedInTime
  <2>5. EpochsInOrder' /\ MarksAreKept'
    BY <2>2 DEF NotesInv, EpochsInOrder, MarksAreKept, Sounded
  <2>6. QED BY <2>4, <2>5 DEF NotesInv
<1>3. CASE ~state.closed
  <2> DEFINE r == Append(state.rendered, state.fresh)
  <2>1. state' = [state EXCEPT !.worker = "stop", !.rendered = r]
    BY <1>3 DEF Player!WorkerChecks
  <2>2. /\ state.rendered \in Seq(SUBSET Player!Notes)
        /\ state.fresh \in SUBSET Player!Notes
    BY <1>1 DEF PlayerType
  <2>3. /\ r \in Seq(SUBSET Player!Notes) /\ Len(r) = Len(state.rendered) + 1
        /\ Len(state.rendered) \in Nat
        /\ DOMAIN r = 1..Len(r) /\ DOMAIN state.rendered = 1..Len(state.rendered)
        /\ \A i \in 1..Len(state.rendered) : r[i] = state.rendered[i]
        /\ r[Len(r)] = state.fresh
    BY <2>2, AppendProperties, LenProperties
  <2> HIDE DEF r
  <2>4. state'.worker = "stop" /\ state'.rendered = r
        /\ UNCHANGED <<state.queue, state.closed, state.closer, state.running, state.current,
                       state.wav, state.late, state.epoch, state.decoded, state.emitted,
                       state.fresh, state.lost, state.requests, state.taken, state.request>>
    BY <1>1, <2>1 DEF PlayerType
  <2>5. PlayerType'
    BY <1>1, <2>1, <2>3 DEF PlayerType
  <2>6. PlayerInv'
    BY <1>1, <1>3, <2>4, <2>5 DEF NotesInv, PlayerInv, NewestWaits, OneProcess, EndedInTime
  <2>7. EpochsInOrder'
    BY <2>4 DEF NotesInv, EpochsInOrder
  <2>8. \A n : Sounded(n)' <=> Sounded(n) \/ n \in state.fresh
    BY <2>3, <2>4 DEF Sounded
  <2>9. state.fresh \subseteq state.emitted /\ \A n \in state.fresh : ~Sounded(n)
    BY <1>1 DEF NotesInv, MarksAreKept
  <2>10. \A i, j \in DOMAIN r : i # j => r[i] \cap r[j] = {}
    <3>1. \A i \in DOMAIN r : \/ i = Len(r) /\ r[i] = state.fresh
                              \/ i \in DOMAIN state.rendered /\ r[i] = state.rendered[i]
      BY <2>3
    <3>2. \A i \in DOMAIN state.rendered : state.rendered[i] \cap state.fresh = {}
      BY <2>9 DEF Sounded
    <3>3. \A i, j \in DOMAIN state.rendered :
            i # j => state.rendered[i] \cap state.rendered[j] = {}
      BY DEF NotesInv, MarksAreKept
    <3>4. QED BY <3>1, <3>2, <3>3
  <2>11. MarksAreKept'
    BY <1>1, <2>4, <2>8, <2>9, <2>10 DEF NotesInv, MarksAreKept
  <2>12. QED BY <2>6, <2>7, <2>11 DEF NotesInv
<1>4. QED BY <1>2, <1>3

(* The process is replaced, or ends: nothing the guest played changes.     *)
Running(r, c, v, w) ==
  /\ r \in SUBSET Nat /\ c \in Nat /\ v \in BOOLEAN
  /\ state' = [state EXCEPT !.running = r, !.current = c, !.wav = v, !.worker = w]
  /\ \/ w = state.worker
     \/ w = "write" /\ state.worker = "stop"
     \/ w \in {"get", "launch"} /\ state.worker \in {"write", "launch"}
  /\ r \subseteq {c} /\ (w \in {"write", "launch"} => r = {})
  /\ state.closer \in {"join", "again", "unlink", "closed"} => r = {}
  /\ v # state.wav => state.worker = "write"

LEMMA PlayerRunning ==
  ASSUME NotesInv, NEW r, NEW c, NEW v, NEW w, Running(r, c, v, w)
  PROVE  NotesInv'
<1>1. PlayerType
  BY DEF NotesInv, PlayerInv
<1>2. PlayerType'
  BY <1>1 DEF PlayerType, Running
<1>3. /\ state'.running = r /\ state'.current = c /\ state'.wav = v /\ state'.worker = w
      /\ UNCHANGED <<state.queue, state.closed, state.closer, state.decoded, state.emitted,
                     state.late, state.epoch, state.requests, state.taken,
                     state.request, state.rendered, state.fresh, state.lost>>
  BY <1>1 DEF PlayerType, Running
<1>4. PlayerInv'
  BY <1>2, <1>3 DEF Running, NotesInv, PlayerInv, NewestWaits, OneProcess, EndedInTime
<1>5. EpochsInOrder'
  BY <1>3 DEF NotesInv, EpochsInOrder, Running
<1>6. MarksAreKept'
  BY <1>3 DEF NotesInv, MarksAreKept, Sounded, Running
<1>7. QED BY <1>4, <1>5, <1>6 DEF NotesInv

LEMMA PlayerProcessStep ==
  ASSUME NotesInv, NEW process,
         \/ Player!WorkerStops \/ Player!WorkerWrites \/ Player!WorkerLaunches
         \/ Player!Ends(process)
  PROVE  NotesInv'
<1>1. PlayerType /\ OneProcess /\ NewestWaits
  BY DEF NotesInv, PlayerInv
<1>2. /\ state.running \in SUBSET Nat /\ state.current \in Nat /\ state.wav \in BOOLEAN
      /\ state.taken \in Nat
  BY <1>1 DEF PlayerType
<1>3. CASE Player!WorkerStops
  <2> DEFINE r == state.running \ {state.current}
  <2>1. state' = [state EXCEPT !.running = r, !.current = 0, !.wav = state.wav,
                                 !.worker = "write"]
    BY <1>1, <1>3 DEF Player!WorkerStops, Player!Stopped, PlayerType
  <2>2. r = {} /\ state.worker = "stop"
    BY <1>1, <1>3 DEF Player!WorkerStops, OneProcess
  <2>3. Running(r, 0, state.wav, "write")
    BY <1>2, <2>1, <2>2 DEF Running
  <2>4. QED BY <2>3, PlayerRunning
<1>4. CASE Player!WorkerWrites
  <2>1. state' = [state EXCEPT !.running = state.running, !.current = state.current,
                                 !.wav = TRUE, !.worker = "launch"]
    BY <1>1, <1>4 DEF Player!WorkerWrites, PlayerType
  <2>2. Running(state.running, state.current, TRUE, "launch")
    BY <1>1, <1>2, <1>4, <2>1 DEF Running, OneProcess, Player!WorkerWrites
  <2>3. QED BY <2>2, PlayerRunning
<1>5. CASE Player!WorkerLaunches /\ state.closed
  <2>1. state' = [state EXCEPT !.running = state.running, !.current = state.current,
                                 !.wav = state.wav, !.worker = "get"]
    BY <1>1, <1>5 DEF Player!WorkerLaunches, PlayerType
  <2>2. Running(state.running, state.current, state.wav, "get")
    BY <1>1, <1>2, <1>5, <2>1 DEF Running, OneProcess, Player!WorkerLaunches
  <2>3. QED BY <2>2, PlayerRunning
<1>6. CASE Player!WorkerLaunches /\ ~state.closed
  <2>1. state.running = {} /\ state.closer = "open"
    BY <1>1, <1>6 DEF Player!WorkerLaunches, OneProcess, NewestWaits
  <2>2. state' = [state EXCEPT !.running = {state.taken}, !.current = state.taken,
                                 !.wav = state.wav, !.worker = "get"]
    BY <1>1, <1>6, <2>1 DEF Player!WorkerLaunches, PlayerType
  <2>3. Running({state.taken}, state.taken, state.wav, "get")
    BY <1>2, <1>6, <2>1, <2>2 DEF Running, Player!WorkerLaunches
  <2>4. QED BY <2>3, PlayerRunning
<1>7. CASE Player!Ends(process)
  <2> DEFINE r == state.running \ {process}
             c == IF state.current = process THEN 0 ELSE state.current
  <2>1. state' = [state EXCEPT !.running = r, !.current = c, !.wav = state.wav,
                                 !.worker = state.worker]
    BY <1>1, <1>7 DEF Player!Ends, PlayerType
  <2>2. Running(r, c, state.wav, state.worker)
    BY <1>1, <1>2, <2>1 DEF Running, OneProcess
  <2>3. QED BY <2>2, PlayerRunning
<1>8. QED BY <1>3, <1>4, <1>5, <1>6, <1>7

LEMMA PlayerInductive == NotesInv /\ [Player!Next]_state => NotesInv'
<1> SUFFICES ASSUME NotesInv, [Player!Next]_state
             PROVE  NotesInv'
  OBVIOUS
<1>1. CASE UNCHANGED state
  BY <1>1 DEF NotesInv, PlayerInv, PlayerType, NewestWaits, OneProcess, EndedInTime,
     EpochsInOrder, MarksAreKept, Sounded
<1>2. CASE Player!Next
  BY <1>2, PlayerGuestStep, PlayerSubmitStep, PlayerCloseStep, PlayerGetsStep,
     PlayerRendersStep, PlayerChecksStep, PlayerProcessStep DEF Player!Next
<1>3. QED BY <1>1, <1>2

(* close and _play_pcm: once close has returned no ffplay runs or will be  *)
(* started, and a worker that was still rendering leaves no WAV behind.    *)
THEOREM PlayerFallsSilent == Player!Spec => []Player!SilentAfterClose
<1>1. NotesInv => Player!SilentAfterClose
  BY DEF NotesInv, PlayerInv, OneProcess, EndedInTime, Player!SilentAfterClose
<1>2. QED BY <1>1, PlayerInitInv, PlayerInductive, PTL DEF Player!Spec

(* _Ma2SnapshotDecoder and _replace_request: cumulative snapshots repeat   *)
(* no note, and a request that is dropped loses none that still counts.    *)
THEOREM PlayerPlaysOnce == Player!Spec => []Player!EachNoteOnce
<1>1. ASSUME NotesInv PROVE Player!EachNoteOnce
  <2>1. state.worker = "get" /\ state.queue = <<>> => state.taken = state.requests
    BY <1>1, PlayerQueue DEF NotesInv, PlayerInv, NewestWaits
  <2>2. state.worker = "get" => \A n \in state.emitted : n \in state.lost \/ Sounded(n)
    BY <1>1 DEF NotesInv, MarksAreKept
  <2>3. QED BY <1>1, <2>1, <2>2 DEF NotesInv, MarksAreKept, Sounded, Player!EachNoteOnce
<1>2. QED BY <1>1, PlayerInitInv, PlayerInductive, PTL DEF Player!Spec

-------------------------------------------------------------------------------
(* The frame buffer of the display.                                        *)

FramesOf(panel) == [panel : {panel}, pixels : [Frame!Cells(panel) -> {0, 1}]]

FrameType ==
  state \in
    [panel : Panels, source : {"auto-default", "external-config", "runtime"}, given : Sources,
     buffer : Frame!Frames, shown : Frame!Frames, copy : Frame!Frames, next : Panels,
     sequence : Nat, firmware : Nat, own : BOOLEAN, index : Nat, dirty : BOOLEAN,
     worker : {"idle", "publish", "adopt", "adopted"}, lock : {"free", "worker", "window"},
     window : {"idle", "sized", "done"}, seen : Panels, snapshot : Frame!Frames,
     format : {"rgb", "bgr"}]

(* What the bound on the published frames leaves.                          *)
FramesCounted ==
  /\ state.firmware <= state.sequence
  /\ state.sequence <= MaxFrames + 1
  /\ state.worker = "publish" \/ state.dirty => state.sequence <= MaxFrames
  /\ state.worker = "publish" /\ state.dirty => state.sequence < MaxFrames

(* Each holder of the lock is where it may hold it.                        *)
LockIsHeld ==
  /\ state.lock = "worker" <=> state.worker = "adopted"
  /\ state.lock = "window" <=> state.window = "sized"

(* Outside an adoption both buffers are of the panel, and a window that    *)
(* has read the panel has read the one that is still there.                *)
BuffersFit ==
  /\ state.worker # "adopted" =>
       state.buffer.panel = state.panel /\ state.shown.panel = state.panel
  /\ state.worker = "publish" => state.copy.panel = state.panel
  /\ state.window = "sized" => state.seen = state.panel
  /\ state.window = "done" => state.snapshot.panel = state.seen

(* A given geometry is marked so and is on no way to change.               *)
GivenIsKept ==
  state.given = "external-config" =>
    /\ state.source = "external-config" /\ state.panel = FrameFirst
    /\ state.worker \in {"idle", "publish"}

FrameInv == FrameType /\ FramesCounted /\ LockIsHeld /\ BuffersFit /\ GivenIsKept

LEMMA SameCardinality == \A S : Frame!Cardinality(S) = Cardinality(S)
BY DEF Frame!Cardinality, Cardinality

(* A panel has cells, numbered from 0.                                     *)
LEMMA PanelsHaveCells ==
  ASSUME Frame!LcdFrameAssumption, NEW p \in Panels
  PROVE  /\ Frame!Cells(p) \subseteq Nat
         /\ Frame!Cardinality(Frame!Cells(p)) \in Nat \ {0}
<1>1. PICK a \in Nat \ {0}, b \in Nat \ {0} : p = <<a, b>>
  BY DEF Frame!LcdFrameAssumption
<1>2. a * b \in Nat /\ a * b >= 1
  <2>1. b <= a * b
    BY <1>1
  <2>2. QED BY <2>1
<1> DEFINE last == a * b - 1
<1>3. Frame!Cells(p) = 0..last
  BY <1>1 DEF Frame!Cells
<1>4. last \in Nat
  BY <1>2
<1> HIDE DEF last
<1>5. 0..last # {}
  BY <1>4
<1>6. IsFiniteSet(0..last) /\ Cardinality(0..last) \in Nat
  BY <1>4, FS_Interval, FS_CardinalityType
<1>7. Cardinality(0..last) # 0
  BY <1>5, <1>6, FS_EmptySet
<1>8. QED BY <1>3, <1>4, <1>6, <1>7, SameCardinality

(* A frame is one of its own panel.                                        *)
LEMMA FramesAreOfPanels ==
  /\ \A f \in Frame!Frames : f.panel \in Panels /\ f \in FramesOf(f.panel)
  /\ \A p \in Panels : \A f \in FramesOf(p) : f \in Frame!Frames /\ f.panel = p
BY DEF Frame!Frames, FramesOf

LEMMA BlankFrames ==
  ASSUME NEW p \in Panels
  PROVE  Frame!Blank(p) \in Frame!Frames /\ Frame!Blank(p).panel = p
<1>1. Frame!Blank(p) \in FramesOf(p)
  BY DEF Frame!Blank, FramesOf
<1>2. QED BY <1>1, FramesAreOfPanels

LEMMA FrameInitInv == Frame!LcdFrameAssumption /\ Frame!Init => FrameInv
<1> SUFFICES ASSUME Frame!LcdFrameAssumption, Frame!Init
             PROVE  FrameInv
  OBVIOUS
<1>1. FrameFirst \in Panels /\ MaxFrames \in Nat
  BY DEF Frame!LcdFrameAssumption
<1>2. PICK source \in Sources :
        state = [panel |-> FrameFirst, source |-> source, given |-> source,
                   buffer |-> Frame!Blank(FrameFirst), shown |-> Frame!Blank(FrameFirst),
                   copy |-> Frame!Blank(FrameFirst), next |-> FrameFirst, sequence |-> 0, firmware |-> 0,
                   own |-> TRUE, index |-> 0, dirty |-> FALSE, worker |-> "idle",
                   lock |-> "free", window |-> "idle", seen |-> FrameFirst,
                   snapshot |-> Frame!Blank(FrameFirst), format |-> "rgb"]
  BY DEF Frame!Init
<1>3. source \in {"auto-default", "external-config"}
  BY DEF Frame!LcdFrameAssumption
<1>4. FrameType
  BY <1>1, <1>2, <1>3, BlankFrames DEF FrameType
<1>5. FramesCounted /\ LockIsHeld /\ BuffersFit /\ GivenIsKept
  BY <1>1, <1>2, <1>3, BlankFrames DEF FramesCounted, LockIsHeld, BuffersFit, GivenIsKept
<1>6. QED BY <1>4, <1>5 DEF FrameInv

(* What the decoders draw: a buffer b of the panel, which they may go on   *)
(* to publish as k.                                                        *)
Redrawn(b, k, i, y, w, o, f) ==
  [state EXCEPT !.buffer = b, !.copy = k, !.index = i, !.dirty = y,
                  !.worker = w, !.own = o, !.format = f]

Drawing(b, k, i, y, w, o, f) ==
  /\ state.worker = "idle"
  /\ state' = Redrawn(b, k, i, y, w, o, f)
  /\ b \in Frame!Frames /\ k \in Frame!Frames /\ i \in Nat /\ y \in BOOLEAN
  /\ o \in BOOLEAN /\ f \in {"rgb", "bgr"}
  /\ b.panel = state.panel
  /\ \/ w = "idle" /\ (y => state.dirty \/ state.sequence < MaxFrames)
     \/ /\ w = "publish" /\ k.panel = state.panel
        /\ state.sequence < MaxFrames \/ (state.dirty /\ ~y)

LEMMA FrameDrawing ==
  ASSUME FrameInv, MaxFrames \in Nat, NEW b, NEW k, NEW i, NEW y, NEW w, NEW o, NEW f,
         Drawing(b, k, i, y, w, o, f)
  PROVE  FrameInv'
<1>1. FrameType
  BY DEF FrameInv
<1>2. FrameType'
  BY <1>1 DEF FrameType, Drawing, Redrawn
<1>3. /\ state'.buffer = b /\ state'.copy = k /\ state'.dirty = y /\ state'.worker = w
      /\ UNCHANGED <<state.panel, state.source, state.given, state.shown,
                     state.sequence, state.firmware, state.lock, state.window,
                     state.seen, state.snapshot>>
  BY <1>1 DEF FrameType, Drawing, Redrawn
<1>4. state.sequence \in Nat /\ state.firmware \in Nat
  BY <1>1 DEF FrameType
<1>5. FramesCounted'
  BY <1>3, <1>4 DEF Drawing, FrameInv, FramesCounted
<1>6. LockIsHeld' /\ GivenIsKept'
  BY <1>3 DEF Drawing, FrameInv, LockIsHeld, GivenIsKept
<1>7. BuffersFit'
  BY <1>3 DEF Drawing, FrameInv, BuffersFit
<1>8. QED BY <1>2, <1>5, <1>6, <1>7 DEF FrameInv

(* Only the buffer is drawn in.                                            *)
Drew(b) == Redrawn(b, state.copy, state.index, state.dirty, state.worker, state.own,
                   state.format)

LEMMA BufferRedrawn ==
  ASSUME FrameType, NEW b
  PROVE  [state EXCEPT !.buffer = b] = Drew(b)
BY DEF FrameType, Redrawn, Drew

(* An idle decoder's buffer is a frame of the panel, and stays one when a  *)
(* cell or a region of it is drawn.                                        *)
LEMMA IdleBuffer ==
  ASSUME FrameInv, state.worker = "idle"
  PROVE  /\ FrameType
         /\ state.panel \in Panels /\ state.buffer \in Frame!Frames
         /\ state.buffer.panel = state.panel
         /\ state.buffer.pixels \in [Frame!Cells(state.panel) -> {0, 1}]
         /\ state.buffer = [panel |-> state.panel, pixels |-> state.buffer.pixels]
         /\ state.copy \in Frame!Frames /\ state.index \in Nat /\ state.dirty \in BOOLEAN
         /\ state.own \in BOOLEAN /\ state.format \in {"rgb", "bgr"}
<1>1. FrameType /\ BuffersFit
  BY DEF FrameInv
<1>2. /\ state.panel \in Panels /\ state.buffer \in Frame!Frames
      /\ state.copy \in Frame!Frames /\ state.index \in Nat /\ state.dirty \in BOOLEAN
      /\ state.own \in BOOLEAN /\ state.format \in {"rgb", "bgr"}
  BY <1>1 DEF FrameType
<1>3. state.buffer.panel = state.panel
  BY <1>1 DEF BuffersFit
<1>4. state.buffer \in FramesOf(state.panel)
  BY <1>2, <1>3, FramesAreOfPanels
<1>5. QED BY <1>1, <1>2, <1>3, <1>4 DEF FramesOf

LEMMA DrawnBuffer ==
  ASSUME FrameInv, state.worker = "idle", NEW cell, NEW pixel \in {0, 1}
  PROVE  \E b \in Frame!Frames : b.panel = state.panel
           /\ Frame!Drawn(state, cell, pixel) = Drew(b)
<1>1. CASE cell \in Frame!Cells(state.panel)
  <2> DEFINE pixels == [state.buffer.pixels EXCEPT ![cell] = pixel]
             b == [panel |-> state.panel, pixels |-> pixels]
  <2>1. pixels \in [Frame!Cells(state.panel) -> {0, 1}]
    BY <1>1, IdleBuffer
  <2>2. b \in FramesOf(state.panel)
    BY <2>1 DEF FramesOf
  <2>3. b \in Frame!Frames /\ b.panel = state.panel
    BY <2>2, IdleBuffer, FramesAreOfPanels
  <2>4. [state.buffer EXCEPT !.pixels = pixels] = b
    <3>1. state.buffer = [panel |-> state.panel, pixels |-> state.buffer.pixels]
      BY IdleBuffer
    <3> HIDE DEF pixels
    <3>2. QED BY <3>1
  <2>5. Frame!Drawn(state, cell, pixel) = Drew(b)
    BY <1>1, <2>4, IdleBuffer, BufferRedrawn DEF Frame!Drawn
  <2>6. QED BY <2>3, <2>5
<1>2. CASE cell \notin Frame!Cells(state.panel)
  <2>1. Frame!Drawn(state, cell, pixel) = Drew(state.buffer)
    <3>1. state = [state EXCEPT !.buffer = state.buffer]
      BY IdleBuffer DEF FrameType
    <3>2. QED BY <1>2, <3>1, IdleBuffer, BufferRedrawn DEF Frame!Drawn
  <2>2. QED BY <2>1, IdleBuffer
<1>3. QED BY <1>1, <1>2

LEMMA RenderedBuffer ==
  ASSUME FrameInv, state.worker = "idle", NEW x0, NEW y0, NEW x1, NEW y1,
         NEW memory \in [Frame!Cells(state.panel) -> {0, 1}]
  PROVE  \E b \in Frame!Frames : b.panel = state.panel
           /\ Frame!Rendered(state, x0, y0, x1, y1, memory) = Drew(b)
<1> DEFINE old == state.buffer.pixels
           pixels == [c \in DOMAIN old |->
                        IF Frame!InRegion(state, c, x0, y0, x1, y1) THEN memory[c] ELSE old[c]]
           b == [panel |-> state.panel, pixels |-> pixels]
<1>1. pixels \in [Frame!Cells(state.panel) -> {0, 1}]
  BY IdleBuffer
<1>2. b \in FramesOf(state.panel)
  BY <1>1 DEF FramesOf
<1>3. b \in Frame!Frames /\ b.panel = state.panel
  BY <1>2, IdleBuffer, FramesAreOfPanels
<1>4. [state.buffer EXCEPT !.pixels = pixels] = b
  <2>1. state.buffer = [panel |-> state.panel, pixels |-> state.buffer.pixels]
    BY IdleBuffer
  <2> HIDE DEF pixels
  <2>2. QED BY <2>1
<1>5. Frame!Rendered(state, x0, y0, x1, y1, memory) = Drew(b)
  <2>1. Frame!Rendered(state, x0, y0, x1, y1, memory) = [state EXCEPT !.buffer = b]
    BY <1>4 DEF Frame!Rendered
  <2>2. QED BY <2>1, IdleBuffer, BufferRedrawn
<1>6. QED BY <1>3, <1>5

LEMMA NothingDrawn == ASSUME FrameType PROVE state = Drew(state.buffer)
BY DEF Redrawn, Drew, FrameType

(* The steps of the decoders.                                              *)
LEMMA FrameDrawStep ==
  ASSUME FrameInv, MaxFrames \in Nat, Frame!Draw \/ Frame!CompleteFrame
  PROVE  FrameInv'
<1>1. state.worker = "idle"
  BY DEF Frame!Draw, Frame!CompleteFrame
<1>2. CASE Frame!Draw
  <2>1. PICK cell \in Int, pixel \in {0, 1} : state' = Frame!Drawn(state, cell, pixel)
    BY <1>2 DEF Frame!Draw, Frame!Cells
  <2>2. PICK b \in Frame!Frames :
          b.panel = state.panel /\ Frame!Drawn(state, cell, pixel) = Drew(b)
    BY <1>1, DrawnBuffer
  <2>3. Drawing(b, state.copy, state.index, state.dirty, "idle", state.own,
                state.format)
    BY <1>1, <2>1, <2>2, IdleBuffer DEF Drawing, Drew
  <2>4. QED BY <2>3, FrameDrawing
<1>3. CASE Frame!CompleteFrame
  <2>1. state' = Redrawn(state.buffer, state.buffer, state.index, state.dirty,
                           "publish", TRUE, state.format)
    <3>1. state' = Frame!Publishing(Drew(state.buffer), TRUE)
      BY <1>1, <1>3, IdleBuffer, NothingDrawn DEF Frame!CompleteFrame
    <3>2. Frame!Publishing(Drew(state.buffer), TRUE)
          = Redrawn(state.buffer, state.buffer, state.index, state.dirty,
                    "publish", TRUE, state.format)
      BY <1>1, IdleBuffer DEF Frame!Publishing, Drew, Redrawn, FrameType
    <3>3. QED BY <3>1, <3>2
  <2>2. Drawing(state.buffer, state.buffer, state.index, state.dirty, "publish", TRUE,
                state.format)
    BY <1>1, <1>3, <2>1, IdleBuffer DEF Drawing, Frame!CompleteFrame
  <2>3. QED BY <2>2, FrameDrawing
<1>4. QED BY <1>2, <1>3

LEMMA FrameIndexStep ==
  ASSUME FrameInv, Frame!LcdFrameAssumption,
         Frame!IndexedPixel \/ Frame!IndexedSeek \/ Frame!SliceEnds
  PROVE  FrameInv'
<1>1. state.worker = "idle" /\ MaxFrames \in Nat
  BY DEF Frame!IndexedPixel, Frame!IndexedSeek, Frame!SliceEnds, Frame!LcdFrameAssumption
<1>2. CASE Frame!IndexedSeek
  <2>1. PICK panel \in Panels : \E cell \in Frame!Cells(panel) :
          state' = [state EXCEPT !.index = cell]
    BY <1>2 DEF Frame!IndexedSeek
  <2>2. PICK cell \in Nat : state' = [state EXCEPT !.index = cell]
    BY <2>1, PanelsHaveCells
  <2>3. state' = Redrawn(state.buffer, state.copy, cell, state.dirty, state.worker,
                           state.own, state.format)
    BY <1>1, <2>2, IdleBuffer DEF FrameType, Redrawn
  <2>4. Drawing(state.buffer, state.copy, cell, state.dirty, "idle", state.own,
                state.format)
    BY <1>1, <2>3, IdleBuffer DEF Drawing
  <2>5. QED BY <1>1, <2>4, FrameDrawing
<1>3. CASE Frame!SliceEnds
  <2>1. state' = Redrawn(state.buffer, state.buffer, state.index, FALSE, "publish", TRUE,
                           state.format)
    <3>1. Frame!Publishing([Drew(state.buffer) EXCEPT !.dirty = FALSE], TRUE)
          = Redrawn(state.buffer, state.buffer, state.index, FALSE, "publish", TRUE,
                    state.format)
      BY <1>1, IdleBuffer DEF Frame!Publishing, Drew, Redrawn, FrameType
    <3>2. state' = Frame!Publishing([Drew(state.buffer) EXCEPT !.dirty = FALSE], TRUE)
      BY <1>1, <1>3, IdleBuffer, NothingDrawn DEF Frame!SliceEnds
    <3>3. QED BY <3>1, <3>2
  <2>2. Drawing(state.buffer, state.buffer, state.index, FALSE, "publish", TRUE,
                state.format)
    BY <1>1, <1>3, <2>1, IdleBuffer DEF Drawing, Frame!SliceEnds
  <2>3. QED BY <1>1, <2>2, FrameDrawing
<1>4. CASE Frame!IndexedPixel
  <2> DEFINE place == (state.index + 1) % Frame!Cardinality(Frame!Cells(state.panel))
             stepped(b) == Redrawn(b, state.copy, place, TRUE, state.worker, state.own,
                                   state.format)
             drawn(pixel) == [Frame!Drawn(state, state.index, pixel)
                                EXCEPT !.index = place, !.dirty = TRUE]
  <2>1. place \in Nat
    BY <1>1, IdleBuffer, PanelsHaveCells
  <2>2. PICK pixel \in {0, 1} :
          state' = IF place = 0
                   THEN Frame!Publishing([drawn(pixel) EXCEPT !.dirty = FALSE], TRUE)
                   ELSE drawn(pixel)
    BY <1>4 DEF Frame!IndexedPixel
  <2>3. PICK b \in Frame!Frames :
          b.panel = state.panel /\ Frame!Drawn(state, state.index, pixel) = Drew(b)
    BY <1>1, DrawnBuffer
  <2> HIDE DEF place
  <2>4. [Drew(b) EXCEPT !.index = place, !.dirty = TRUE] = stepped(b)
    BY <1>1, IdleBuffer DEF Drew, Redrawn, FrameType
  <2>5. CASE place = 0
    <3>1. Frame!Publishing([stepped(b) EXCEPT !.dirty = FALSE], TRUE)
          = Redrawn(b, b, place, FALSE, "publish", TRUE, state.format)
      BY <1>1, IdleBuffer DEF Frame!Publishing, Drew, Redrawn, FrameType
    <3>2. state' = Frame!Publishing([stepped(b) EXCEPT !.dirty = FALSE], TRUE)
      BY <2>2, <2>3, <2>4, <2>5
    <3>3. state' = Redrawn(b, b, place, FALSE, "publish", TRUE, state.format)
      BY <3>1, <3>2
    <3>4. Drawing(b, b, place, FALSE, "publish", TRUE, state.format)
      BY <1>1, <1>4, <2>1, <2>3, <3>3, IdleBuffer DEF Drawing, Frame!IndexedPixel
    <3>5. QED BY <1>1, <3>4, FrameDrawing
  <2>6. CASE place # 0
    <3>1. state' = stepped(b)
      BY <2>2, <2>3, <2>4, <2>6
    <3>2. Drawing(b, state.copy, place, TRUE, "idle", state.own, state.format)
      BY <1>1, <1>4, <2>1, <2>3, <3>1, IdleBuffer DEF Drawing, Frame!IndexedPixel
    <3>3. QED BY <1>1, <3>2, FrameDrawing
  <2>7. QED BY <2>5, <2>6
<1>5. QED BY <1>2, <1>3, <1>4

LEMMA FrameGuestStep ==
  ASSUME FrameInv, MaxFrames \in Nat, Frame!GuestFlushes \/ Frame!SetFramebufferFormat
  PROVE  FrameInv'
<1>1. state.worker = "idle" /\ state.sequence < MaxFrames
  BY DEF Frame!GuestFlushes, Frame!SetFramebufferFormat
<1>2. CASE Frame!GuestFlushes
  <2> DEFINE inside(x0, x1, y0, y1) ==
        x0 <= x1 /\ x0 < state.panel[1] /\ y0 <= y1 /\ y0 < state.panel[2]
  <2>1. PICK x0 \in Int, x1 \in Int, y0 \in Int, y1 \in Int,
             memory \in [Frame!Cells(state.panel) -> {0, 1}] :
          state' = IF inside(x0, x1, y0, y1)
                   THEN Frame!Publishing(Frame!Rendered(state, x0, y0, x1, y1, memory), TRUE)
                   ELSE state
    <3>1. \E panel \in Panels :
            \E x0, x1 \in 0..(panel[1] - 1), y0, y1 \in 0..(panel[2] - 1) :
              \E memory \in [Frame!Cells(state.panel) -> {0, 1}] :
                state' = IF inside(x0, x1, y0, y1)
                         THEN Frame!Publishing(
                                Frame!Rendered(state, x0, y0, x1, y1, memory), TRUE)
                         ELSE state
      BY <1>2 DEF Frame!GuestFlushes
    <3>2. \A n : 0..n \subseteq Int
      OBVIOUS
    <3> HIDE DEF inside
    <3>3. QED BY <3>1, <3>2, Zenon
  <2> HIDE DEF inside
  <2>2. CASE ~inside(x0, x1, y0, y1)
    <3>1. state' = state
      BY <2>1, <2>2
    <3>2. QED BY <3>1 DEF FrameInv, FrameType, FramesCounted, LockIsHeld, BuffersFit, GivenIsKept
  <2>3. CASE inside(x0, x1, y0, y1)
    <3>1. state' = Frame!Publishing(Frame!Rendered(state, x0, y0, x1, y1, memory), TRUE)
      BY <2>1, <2>3
    <3>2. PICK b \in Frame!Frames : b.panel = state.panel
            /\ Frame!Rendered(state, x0, y0, x1, y1, memory) = Drew(b)
      BY <1>1, RenderedBuffer
    <3>3. state' = Redrawn(b, b, state.index, state.dirty, "publish", TRUE, state.format)
      <4>1. Frame!Publishing(Drew(b), TRUE)
            = Redrawn(b, b, state.index, state.dirty, "publish", TRUE, state.format)
        BY <1>1, IdleBuffer DEF Frame!Publishing, Drew, Redrawn, FrameType
      <4>2. QED BY <3>1, <3>2, <4>1
    <3>4. Drawing(b, b, state.index, state.dirty, "publish", TRUE, state.format)
      BY <1>1, <3>2, <3>3, IdleBuffer DEF Drawing
    <3>5. QED BY <3>4, FrameDrawing
  <2>4. QED BY <2>2, <2>3
<1>3. CASE Frame!SetFramebufferFormat
  <2>1. PICK format \in {"rgb", "bgr"}, memory \in [Frame!Cells(state.panel) -> {0, 1}] :
          state' = Frame!Publishing(
                       [Frame!Rendered(state, 0, 0, state.panel[1] - 1,
                                       state.panel[2] - 1, memory)
                          EXCEPT !.format = format], FALSE)
    BY <1>3 DEF Frame!SetFramebufferFormat
  <2>2. PICK b \in Frame!Frames : b.panel = state.panel
          /\ Frame!Rendered(state, 0, 0, state.panel[1] - 1, state.panel[2] - 1, memory)
             = Drew(b)
    BY <1>1, RenderedBuffer
  <2>3. [Drew(b) EXCEPT !.format = format]
        = Redrawn(b, state.copy, state.index, state.dirty, state.worker, state.own,
                  format)
    BY <1>1, IdleBuffer DEF Drew, Redrawn, FrameType
  <2>4. state' = Redrawn(b, b, state.index, state.dirty, "publish", FALSE, format)
    <3>1. Frame!Publishing(Redrawn(b, state.copy, state.index, state.dirty,
                                   state.worker, state.own, format), FALSE)
          = Redrawn(b, b, state.index, state.dirty, "publish", FALSE, format)
      BY <1>1, IdleBuffer DEF Frame!Publishing, Drew, Redrawn, FrameType
    <3>2. QED BY <2>1, <2>2, <2>3, <3>1
  <2>5. Drawing(b, b, state.index, state.dirty, "publish", FALSE, format)
    BY <1>1, <2>2, <2>4, IdleBuffer DEF Drawing
  <2>6. QED BY <2>5, FrameDrawing
<1>4. QED BY <1>2, <1>3

(* The steps under the lock: a publication, an adoption, a snapshot.       *)
LEMMA FramePublishStep ==
  ASSUME FrameInv, MaxFrames \in Nat, Frame!Publish
  PROVE  FrameInv'
<1>1. FrameType
  BY DEF FrameInv
<1>2. PICK n \in Nat : n \in {state.firmware, state.firmware + 1}
        /\ state' = [state EXCEPT !.shown = state.copy, !.sequence = state.sequence + 1,
                                      !.firmware = n, !.worker = "idle"]
  <2>1. state.firmware \in Nat /\ state.firmware + 1 \in Nat
    BY <1>1 DEF FrameType
  <2>2. QED BY <2>1 DEF Frame!Publish
<1>3. state.sequence + 1 \in Nat /\ state.sequence \in Nat /\ state.firmware \in Nat
  BY <1>1 DEF FrameType
<1>4. FrameType'
  BY <1>1, <1>2, <1>3 DEF FrameType
<1>5. /\ state'.shown = state.copy /\ state'.sequence = state.sequence + 1
      /\ state'.firmware = n /\ state'.worker = "idle"
      /\ UNCHANGED <<state.panel, state.source, state.given, state.buffer, state.dirty,
                     state.lock, state.window, state.seen, state.snapshot>>
  BY <1>1, <1>2 DEF FrameType
<1>6. FramesCounted'
  BY <1>2, <1>3, <1>5 DEF FrameInv, FramesCounted, Frame!Publish
<1>7. LockIsHeld' /\ BuffersFit' /\ GivenIsKept'
  BY <1>5 DEF FrameInv, LockIsHeld, BuffersFit, GivenIsKept, Frame!Publish
<1>8. QED BY <1>4, <1>6, <1>7 DEF FrameInv

LEMMA FrameAdoptStep ==
  ASSUME FrameInv,
         Frame!SetDisplayGeometry \/ Frame!AdoptPanel \/ Frame!AdoptBuffers
  PROVE  FrameInv'
<1>1. FrameType
  BY DEF FrameInv
<1>2. CASE Frame!SetDisplayGeometry
  <2>1. PICK panel \in Panels, force \in BOOLEAN :
          state' = CASE Frame!Adoptable(state, panel, force) ->
                          [state EXCEPT !.worker = "adopt", !.next = panel]
                     [] panel = state.panel
                          /\ (state.source = "auto-default"
                                \/ (force /\ state.source = "runtime")) ->
                          [state EXCEPT !.source = "runtime"]
                     [] OTHER -> state
    BY <1>2 DEF Frame!SetDisplayGeometry
  <2>2. \/ /\ state.source \in {"auto-default", "runtime"}
           /\ state' = [state EXCEPT !.worker = "adopt", !.next = panel]
        \/ /\ state.source \in {"auto-default", "runtime"}
           /\ state' = [state EXCEPT !.source = "runtime"]
        \/ state' = state
    BY <2>1 DEF Frame!Adoptable
  <2>3. state.worker = "idle"
    BY <1>2 DEF Frame!SetDisplayGeometry
  <2>4. FrameType'
    <3>1. CASE state' = [state EXCEPT !.worker = "adopt", !.next = panel]
      BY <1>1, <3>1 DEF FrameType
    <3>2. CASE state' = [state EXCEPT !.source = "runtime"]
      BY <1>1, <3>2 DEF FrameType
    <3>3. CASE state' = state
      BY <1>1, <3>3 DEF FrameType
    <3>4. QED BY <2>2, <3>1, <3>2, <3>3
  <2>5. /\ UNCHANGED <<state.panel, state.given, state.buffer, state.shown, state.copy,
                       state.dirty, state.lock, state.window, state.seen,
                       state.snapshot, state.sequence, state.firmware>>
        /\ state'.worker \in {"idle", "adopt"}
        /\ state'.worker # "idle" \/ state'.source # state.source =>
             state.source # "external-config"
    BY <1>1, <2>2, <2>3 DEF FrameType
  <2>6. FramesCounted' /\ LockIsHeld' /\ BuffersFit' /\ GivenIsKept'
    BY <2>3, <2>5 DEF FrameInv, FramesCounted, LockIsHeld, BuffersFit, GivenIsKept
  <2>7. QED BY <2>4, <2>6 DEF FrameInv
<1>3. CASE Frame!AdoptPanel
  <2>1. /\ state.worker = "adopt" /\ state.lock = "free"
        /\ state' = [state EXCEPT !.lock = "worker", !.worker = "adopted",
                                      !.panel = state.next, !.source = "runtime"]
    BY <1>3 DEF Frame!AdoptPanel
  <2>2. FrameType'
    BY <1>1, <2>1 DEF FrameType
  <2>3. /\ state'.worker = "adopted" /\ state'.lock = "worker"
        /\ UNCHANGED <<state.given, state.window, state.seen, state.dirty,
                       state.snapshot, state.sequence, state.firmware>>
    BY <1>1, <2>1 DEF FrameType
  <2>4. state.given # "external-config"
    BY <2>1 DEF FrameInv, GivenIsKept
  <2>5. FramesCounted' /\ LockIsHeld' /\ BuffersFit' /\ GivenIsKept'
    BY <2>1, <2>3, <2>4 DEF FrameInv, FramesCounted, LockIsHeld, BuffersFit, GivenIsKept
  <2>6. QED BY <2>2, <2>5 DEF FrameInv
<1>4. CASE Frame!AdoptBuffers
  <2> DEFINE blank == Frame!Blank(state.panel)
  <2>1. blank \in Frame!Frames /\ blank.panel = state.panel
    BY <1>1, BlankFrames DEF FrameType
  <2> HIDE DEF blank
  <2>2. /\ state.worker = "adopted"
        /\ state' = [state EXCEPT !.lock = "free", !.worker = "idle",
                                      !.buffer = blank, !.shown = blank]
    BY <1>4 DEF Frame!AdoptBuffers, blank
  <2>3. FrameType'
    BY <1>1, <2>1, <2>2 DEF FrameType
  <2>4. /\ state'.worker = "idle" /\ state'.lock = "free"
        /\ state'.buffer = blank /\ state'.shown = blank
        /\ UNCHANGED <<state.given, state.window, state.seen, state.dirty, state.panel,
                       state.source, state.snapshot, state.sequence, state.firmware>>
    BY <1>1, <2>2 DEF FrameType
  <2>5. FramesCounted' /\ LockIsHeld' /\ BuffersFit' /\ GivenIsKept'
    BY <2>1, <2>2, <2>4 DEF FrameInv, FramesCounted, LockIsHeld, BuffersFit, GivenIsKept
  <2>6. QED BY <2>3, <2>5 DEF FrameInv
<1>5. QED BY <1>2, <1>3, <1>4

LEMMA FrameWindowStep ==
  ASSUME FrameInv, Frame!TakePanel \/ Frame!TakeFrame \/ Frame!Repaint
  PROVE  FrameInv'
<1>1. FrameType
  BY DEF FrameInv
<1>2. FrameType'
  <2>1. CASE Frame!TakePanel
    BY <1>1, <2>1 DEF Frame!TakePanel, FrameType
  <2>2. CASE Frame!TakeFrame
    BY <1>1, <2>2 DEF Frame!TakeFrame, FrameType
  <2>3. CASE Frame!Repaint
    BY <1>1, <2>3 DEF Frame!Repaint, FrameType
  <2>4. QED BY <2>1, <2>2, <2>3
<1>3. UNCHANGED <<state.panel, state.source, state.given, state.buffer, state.shown,
                  state.copy, state.worker, state.dirty, state.sequence,
                  state.firmware>>
  BY <1>1 DEF Frame!TakePanel, Frame!TakeFrame, Frame!Repaint, FrameType
<1>4. FramesCounted' /\ GivenIsKept'
  BY <1>3 DEF FrameInv, FramesCounted, GivenIsKept
<1>5. LockIsHeld' /\ BuffersFit'
  <2>1. CASE Frame!TakePanel
    <3>1. /\ state.lock = "free" /\ state'.lock = "window"
          /\ state'.window = "sized" /\ state'.seen = state.panel
      BY <1>1, <2>1 DEF Frame!TakePanel, Frame!SnapshotPanel, FrameType
    <3>2. QED BY <1>3, <3>1 DEF FrameInv, LockIsHeld, BuffersFit
  <2>2. CASE Frame!TakeFrame
    <3>1. /\ state.window = "sized" /\ state'.lock = "free" /\ state'.window = "done"
          /\ state'.snapshot = state.shown /\ state'.seen = state.seen
      BY <1>1, <2>2 DEF Frame!TakeFrame, FrameType
    <3>2. QED BY <1>3, <3>1 DEF FrameInv, LockIsHeld, BuffersFit
  <2>3. CASE Frame!Repaint
    <3>1. /\ state.window = "done" /\ state'.window = "idle" /\ state'.lock = state.lock
      BY <1>1, <2>3 DEF Frame!Repaint, FrameType
    <3>2. QED BY <1>3, <3>1 DEF FrameInv, LockIsHeld, BuffersFit
  <2>4. QED BY <2>1, <2>2, <2>3
<1>6. QED BY <1>2, <1>4, <1>5 DEF FrameInv

LEMMA FrameInductive ==
  Frame!LcdFrameAssumption /\ FrameInv /\ [Frame!Next]_state => FrameInv'
<1> SUFFICES ASSUME Frame!LcdFrameAssumption, FrameInv, [Frame!Next]_state
             PROVE  FrameInv'
  OBVIOUS
<1>1. MaxFrames \in Nat
  BY DEF Frame!LcdFrameAssumption
<1>2. CASE UNCHANGED state
  BY <1>2 DEF FrameInv, FrameType, FramesCounted, LockIsHeld, BuffersFit, GivenIsKept
<1>3. CASE Frame!Next
  BY <1>1, <1>3, FrameDrawStep, FrameIndexStep, FrameGuestStep, FramePublishStep,
     FrameAdoptStep, FrameWindowStep DEF Frame!Next
<1>4. QED BY <1>2, <1>3

(* The record of the display is what its comments say, for any panels: in  *)
(* particular a drawn cell is one of the panel.                            *)
THEOREM FrameTypeCorrect ==
  ASSUME Frame!LcdFrameAssumption
  PROVE  Frame!Spec => []Frame!TypeOK
<1>1. ASSUME FrameInv PROVE Frame!TypeOK
  <2>1. /\ FrameType /\ FramesCounted /\ MaxFrames \in Nat
    BY <1>1 DEF FrameInv, Frame!LcdFrameAssumption
  <2>2. state.sequence \in 0..(MaxFrames + 1) /\ state.firmware \in 0..state.sequence
    BY <2>1 DEF FrameType, FramesCounted
  <2>3. QED BY <2>1, <2>2 DEF FrameType, Frame!TypeOK
<1>2. QED BY <1>1, FrameInitInv, FrameInductive, PTL DEF Frame!Spec

(* display_snapshot and _set_display_geometry: pixels and size belong      *)
(* together across every change of panel, also between panels of one size, *)
(* and a panel that was configured stays.                                  *)
THEOREM FrameIsWhole ==
  ASSUME Frame!LcdFrameAssumption
  PROVE  Frame!Spec => [](Frame!SnapshotIsWhole /\ Frame!ConfiguredPanelStays)
<1>1. FrameInv => Frame!SnapshotIsWhole /\ Frame!ConfiguredPanelStays
  BY DEF FrameInv, BuffersFit, GivenIsKept, Frame!SnapshotIsWhole, Frame!ConfiguredPanelStays
<1>2. QED BY <1>1, FrameInitInv, FrameInductive, PTL DEF Frame!Spec


-------------------------------------------------------------------------------
(* What the guest writes to the sound chips.                               *)

Heaps == Seq(Seq(LineBytes))

Snaps ==
  [epoch : Nat, timebase : {Transport!None} \cup Timebases, buffers : [Fifos -> Nat],
   lengths : [Fifos -> Nat], overflow : [Fifos -> BOOLEAN], bytes : [Fifos -> Seq(LineBytes)]]

(* States of the MA5's receiver.                                           *)
MaStates == 0..11

Lines ==
  [family : {"ma2", "ma5"}, bank : {0, 1},
   index : {Transport!None, 15} \cup Fifos \cup LineRegisters,
   heap : Heaps, fifo : [Fifos -> Nat], overflow : [Fifos -> BOOLEAN],
   timebase : {Transport!None} \cup Timebases, control : {0, 1}, epoch : Nat,
   snapshots : Seq(Snaps), status : {"pending", "ready", "submitted", "rejected"},
   reason : Transport!Reasons, state : MaStates, address : Nat, remaining : Nat,
   start : Nat, total : Nat]

PointsInto(heap, fifo) == \A f \in Fifos : fifo[f] \in 1..Len(heap)

(* What a snapshot noted of a buffer is still at the buffer's beginning.   *)
Stands(heap, s) ==
  \A f \in Fifos :
    /\ s.buffers[f] \in 1..Len(heap)
    /\ s.lengths[f] <= Len(heap[s.buffers[f]])
    /\ Len(s.bytes[f]) = s.lengths[f]
    /\ \A i \in 1..s.lengths[f] : heap[s.buffers[f]][i] = s.bytes[f][i]

(* Buffers only grow, and none goes away.                                  *)
Grows(old, new) ==
  /\ Len(old) <= Len(new)
  /\ \A b \in 1..Len(old) :
       /\ Len(old[b]) <= Len(new[b])
       /\ \A i \in 1..Len(old[b]) : new[b][i] = old[b][i]

LineInv ==
  /\ state \in Lines
  /\ PointsInto(state.heap, state.fifo)
  /\ \A i \in 1..Len(state.snapshots) : Stands(state.heap, state.snapshots[i])
  /\ Len(state.snapshots) <= SnapshotLimit
  /\ Transport!VoiceIsCounted /\ state.state \notin {8, 10}

LEMMA LineCardinality == \A S : Transport!Cardinality(S) = Cardinality(S)
BY DEF Transport!Cardinality, Cardinality

LEMMA LineFinite == ASSUME Transport!AudioTransportAssumption PROVE IsFiniteSet(Fifos)
BY DEF Transport!AudioTransportAssumption, Transport!IsFiniteSet, IsFiniteSet

(* The elements of a set are numbered from 1 by their order.               *)
LEMMA NumberOfFifo ==
  ASSUME NEW S \in SUBSET Nat, IsFiniteSet(S), NEW f \in S
  PROVE  /\ Cardinality({g \in S : g <= f}) \in 1..Cardinality(S)
         /\ Cardinality(S) \in Nat
<1> DEFINE T == {g \in S : g <= f}
<1>1. T \in SUBSET S /\ f \in T
  OBVIOUS
<1>2. IsFiniteSet(T) /\ Cardinality(T) <= Cardinality(S)
  BY <1>1, FS_Subset
<1>3. Cardinality(T) \in Nat /\ Cardinality(S) \in Nat
  BY <1>2, FS_CardinalityType
<1>4. Cardinality(T) # 0
  BY <1>1, <1>2, FS_EmptySet
<1>5. QED BY <1>2, <1>3, <1>4

LEMMA GrownStands ==
  ASSUME NEW old \in Heaps, NEW new \in Heaps, Grows(old, new),
         NEW s \in Snaps, Stands(old, s)
  PROVE  Stands(new, s)
<1> SUFFICES ASSUME NEW f \in Fifos
             PROVE  /\ s.buffers[f] \in 1..Len(new)
                    /\ s.lengths[f] <= Len(new[s.buffers[f]])
                    /\ Len(s.bytes[f]) = s.lengths[f]
                    /\ \A i \in 1..s.lengths[f] : new[s.buffers[f]][i] = s.bytes[f][i]
  BY DEF Stands
<1> DEFINE b == s.buffers[f]
           n == s.lengths[f]
<1>1. /\ b \in 1..Len(old) /\ n \in Nat /\ n <= Len(old[b]) /\ Len(s.bytes[f]) = n
      /\ \A i \in 1..n : old[b][i] = s.bytes[f][i]
  BY DEF Stands, Snaps
<1>2. Len(old) \in Nat /\ Len(new) \in Nat /\ Len(old) <= Len(new)
  BY DEF Heaps, Grows
<1>3. b \in 1..Len(new)
  BY <1>1, <1>2
<1>4. Len(old[b]) \in Nat /\ Len(new[b]) \in Nat
  BY <1>1, <1>3 DEF Heaps
<1>5. Len(old[b]) <= Len(new[b]) /\ \A i \in 1..Len(old[b]) : new[b][i] = old[b][i]
  BY <1>1 DEF Grows
<1> HIDE DEF b, n
<1>6. \A i \in 1..n : i \in 1..Len(old[b])
  BY <1>1, <1>4
<1>7. n <= Len(new[b]) /\ \A i \in 1..n : new[b][i] = s.bytes[f][i]
  BY <1>1, <1>4, <1>5, <1>6
<1>8. QED BY <1>1, <1>3, <1>7 DEF b, n

(* Buffers grew, the snapshots are the same.                               *)
LEMMA LineGoesOn ==
  ASSUME LineInv, state' \in Lines, Grows(state.heap, state'.heap),
         PointsInto(state'.heap, state'.fifo), state'.snapshots = state.snapshots,
         state'.state = state.state, state'.remaining = state.remaining,
         state'.address = state.address, state'.start = state.start, state'.total = state.total
  PROVE  LineInv'
<1>1. state.heap \in Heaps /\ state'.heap \in Heaps /\ state.snapshots \in Seq(Snaps)
  BY DEF LineInv, Lines
<1>2. ASSUME NEW i \in 1..Len(state'.snapshots) PROVE Stands(state'.heap, state'.snapshots[i])
  <2>1. state.snapshots[i] \in Snaps /\ Stands(state.heap, state.snapshots[i])
    BY <1>1, <1>2 DEF LineInv
  <2>2. QED BY <1>1, <2>1, GrownStands
<1>3. Transport!VoiceIsCounted' /\ state'.state \notin {8, 10} /\ Len(state'.snapshots) <= SnapshotLimit
  BY DEF LineInv, Transport!VoiceIsCounted
<1>4. QED BY <1>2, <1>3 DEF LineInv

LEMMA HeapStays ==
  ASSUME NEW heap \in Heaps
  PROVE  Grows(heap, heap)
BY DEF Grows, Heaps

LEMMA LineSetsField ==
  ASSUME LineInv, state' \in Lines, state'.heap = state.heap, state'.fifo = state.fifo,
         state'.snapshots = state.snapshots,
         state'.state = state.state, state'.remaining = state.remaining,
         state'.address = state.address, state'.start = state.start, state'.total = state.total
  PROVE  LineInv'
<1>1. state.heap \in Heaps /\ PointsInto(state.heap, state.fifo)
  BY DEF LineInv, Lines
<1>2. QED BY <1>1, HeapStays, LineGoesOn

(* New buffers come behind the others, which stay.                         *)
LEMMA RenewedBuffers ==
  ASSUME Transport!AudioTransportAssumption, NEW t \in Lines, PointsInto(t.heap, t.fifo),
         NEW fs \in SUBSET Fifos
  PROVE  \E heap \in Heaps, fifo \in [Fifos -> Nat] :
           /\ Transport!Renewed(t, fs) = [t EXCEPT !.heap = heap, !.fifo = fifo]
           /\ Grows(t.heap, heap) /\ PointsInto(heap, fifo)
<1> DEFINE n == Cardinality(fs)
           added == [b \in 1..n |-> <<>>]
           number(f) == Len(t.heap) + Cardinality({g \in fs : g <= f})
           heap == t.heap \o added
           fifo == [f \in Fifos |-> IF f \in fs THEN number(f) ELSE t.fifo[f]]
<1>1. IsFiniteSet(fs) /\ n \in Nat /\ fs \in SUBSET Nat
  BY LineFinite, FS_Subset, FS_CardinalityType DEF Transport!AudioTransportAssumption
<1>2. t.heap \in Heaps /\ t.fifo \in [Fifos -> Nat] /\ Len(t.heap) \in Nat
  BY DEF Lines, Heaps
<1>3. added \in Heaps /\ Len(added) = n
  <2>1. <<>> \in Seq(LineBytes)
    OBVIOUS
  <2>2. added \in [1..n -> Seq(LineBytes)]
    BY <2>1
  <2> HIDE DEF n
  <2>3. QED BY <1>1, <2>2 DEF Heaps
<1>4. /\ heap \in Heaps /\ Len(heap) = Len(t.heap) + n
      /\ \A b \in 1..Len(t.heap) : heap[b] = t.heap[b]
  <2> HIDE DEF added
  <2>1. \A S : \A a, b \in Seq(S) :
          /\ a \o b \in Seq(S) /\ Len(a \o b) = Len(a) + Len(b)
          /\ \A i \in 1..Len(a) : (a \o b)[i] = a[i]
    OBVIOUS
  <2>2. QED BY <1>2, <1>3, <2>1 DEF Heaps
<1>5. Grows(t.heap, heap)
  <2>1. \A b \in 1..Len(t.heap) : Len(t.heap[b]) \in Nat
    BY <1>2 DEF Heaps
  <2> HIDE DEF heap
  <2>2. QED BY <1>1, <1>2, <1>4, <2>1 DEF Grows
<1>6. ASSUME NEW f \in fs PROVE number(f) \in 1..Len(heap) /\ number(f) \in Nat
  <2>1. Cardinality({g \in fs : g <= f}) \in 1..n
    BY <1>1, NumberOfFifo
  <2> HIDE DEF heap, n
  <2>2. QED BY <1>1, <1>2, <1>4, <2>1
<1>7. ASSUME NEW f \in Fifos PROVE fifo[f] \in 1..Len(heap) /\ fifo[f] \in Nat
  <2>1. CASE f \in fs
    BY <1>6, <2>1
  <2>2. CASE f \notin fs
    <3>1. fifo[f] = t.fifo[f] /\ t.fifo[f] \in 1..Len(t.heap)
      BY <2>2 DEF PointsInto
    <3> HIDE DEF heap, fifo
    <3>2. QED BY <1>1, <1>2, <1>4, <3>1
  <2>3. QED BY <2>1, <2>2
<1>8. fifo \in [Fifos -> Nat] /\ PointsInto(heap, fifo)
  <2>1. fifo = [f \in Fifos |-> fifo[f]]
    OBVIOUS
  <2> HIDE DEF fifo, heap
  <2>2. QED BY <1>7, <2>1 DEF PointsInto
<1>9. Transport!Renewed(t, fs) = [t EXCEPT !.heap = heap, !.fifo = fifo]
  BY LineCardinality DEF Transport!Renewed, Lines
<1>10. QED BY <1>4, <1>5, <1>8, <1>9

LEMMA LineSelects ==
  ASSUME LineInv, NEW index \in {15} \cup Fifos \cup LineRegisters, Transport!SelectMa2(index)
  PROVE  LineInv'
<1>1. state' = [state EXCEPT !.index = index] /\ state \in Lines
  BY DEF LineInv, Transport!SelectMa2
<1>2. state' \in Lines
  BY <1>1 DEF Lines
<1>3. QED BY <1>1, <1>2, LineSetsField DEF Lines

LEMMA LineWritesBank ==
  ASSUME LineInv, NEW bank \in {0, 1}, Transport!WriteBank(bank)
  PROVE  LineInv'
<1>1. state' = [state EXCEPT !.bank = bank] /\ state \in Lines
  BY DEF LineInv, Transport!WriteBank
<1>2. state' \in Lines
  BY <1>1 DEF Lines
<1>3. QED BY <1>1, <1>2, LineSetsField DEF Lines

(* A byte is appended to its FIFO's buffer, or the FIFO gets another one.  *)
LEMMA LineWritesFifo ==
  ASSUME Transport!AudioTransportAssumption, LineInv, NEW value \in LineBytes, Transport!WriteFifo(value)
  PROVE  LineInv'
<1> DEFINE f == state.index
           b == state.fifo[f]
<1>1. f \in Fifos /\ state \in Lines /\ PointsInto(state.heap, state.fifo)
  BY DEF LineInv, Transport!WriteFifo
<1>2. state.heap \in Heaps /\ b \in 1..Len(state.heap) /\ state.heap[b] \in Seq(LineBytes)
      /\ state.fifo \in [Fifos -> Nat]
  BY <1>1 DEF Lines, Heaps, PointsInto
<1>3. CASE state' = state
  BY <1>1, <1>3, LineSetsField
<1>4. CASE state' = [state EXCEPT !.heap[b] = Append(@, value)]
  <2> DEFINE longer == Append(state.heap[b], value)
             heap == [state.heap EXCEPT ![b] = longer]
  <2>1. /\ longer \in Seq(LineBytes) /\ Len(longer) = Len(state.heap[b]) + 1
        /\ \A i \in 1..Len(state.heap[b]) : longer[i] = state.heap[b][i]
    BY <1>2
  <2>2. state' = [state EXCEPT !.heap = heap]
    BY <1>1, <1>4 DEF Lines
  <2> HIDE DEF longer
  <2>3. heap \in Heaps /\ Len(heap) = Len(state.heap)
    BY <1>2, <2>1 DEF Heaps
  <2>4. \A c \in 1..Len(state.heap) :
          /\ heap[c] = IF c = b THEN longer ELSE state.heap[c]
          /\ Len(state.heap[c]) \in Nat
    BY <1>2 DEF Heaps
  <2> HIDE DEF heap, b
  <2>5. Len(state.heap) \in Nat
    BY <1>2 DEF Heaps
  <2>6. Grows(state.heap, heap)
    <3>1. ASSUME NEW c \in 1..Len(state.heap)
          PROVE  /\ Len(state.heap[c]) <= Len(heap[c])
                 /\ \A i \in 1..Len(state.heap[c]) : heap[c][i] = state.heap[c][i]
      BY <2>1, <2>4
    <3>2. QED BY <2>3, <2>5, <3>1 DEF Grows
  <2>7. state' \in Lines
    BY <1>1, <2>2, <2>3 DEF Lines
  <2>8. /\ state'.heap = heap /\ state'.fifo = state.fifo /\ state'.snapshots = state.snapshots
        /\ state'.state = state.state /\ state'.remaining = state.remaining
        /\ state'.address = state.address /\ state'.start = state.start /\ state'.total = state.total
    BY <1>1, <2>2 DEF Lines
  <2>9. PointsInto(heap, state.fifo)
    BY <1>1, <2>3 DEF PointsInto
  <2>10. QED BY <2>6, <2>7, <2>8, <2>9, LineGoesOn
<1>5. CASE state' = Transport!Overflowed(state, f)
  <2>1. PICK heap \in Heaps, fifo \in [Fifos -> Nat] :
          /\ Transport!Renewed(state, {f}) = [state EXCEPT !.heap = heap, !.fifo = fifo]
          /\ Grows(state.heap, heap) /\ PointsInto(heap, fifo)
    BY <1>1, RenewedBuffers
  <2> DEFINE renewed == [state EXCEPT !.heap = heap, !.fifo = fifo]
             overflow == [state.overflow EXCEPT ![f] = TRUE]
  <2>2. state' = [renewed EXCEPT !.overflow = overflow]
    BY <1>1, <1>5, <2>1 DEF Transport!Overflowed, Lines
  <2>3. renewed \in Lines /\ renewed.heap = heap /\ renewed.fifo = fifo
        /\ renewed.snapshots = state.snapshots
        /\ renewed.state = state.state /\ renewed.remaining = state.remaining
        /\ renewed.address = state.address /\ renewed.start = state.start
        /\ renewed.total = state.total
    BY <1>1 DEF Lines
  <2>4. overflow \in [Fifos -> BOOLEAN]
    BY <1>1 DEF Lines
  <2> HIDE DEF renewed, overflow
  <2>5. state' \in Lines
    BY <2>2, <2>3, <2>4 DEF Lines
  <2>6. /\ state'.heap = heap /\ state'.fifo = fifo /\ state'.snapshots = state.snapshots
        /\ state'.state = state.state /\ state'.remaining = state.remaining
        /\ state'.address = state.address /\ state'.start = state.start /\ state'.total = state.total
    BY <2>2, <2>3 DEF Lines
  <2>7. QED BY <2>1, <2>5, <2>6, LineGoesOn
<1>6. QED BY <1>3, <1>4, <1>5 DEF Transport!WriteFifo

LEMMA LineWritesTimebase ==
  ASSUME Transport!AudioTransportAssumption, LineInv, NEW value \in Timebases,
         Transport!WriteTimebase(value)
  PROVE  LineInv'
<1>1. state \in Lines /\ PointsInto(state.heap, state.fifo) /\ state' = Transport!Retimed(state, value)
  BY DEF LineInv, Transport!WriteTimebase
<1>2. PICK heap \in Heaps, fifo \in [Fifos -> Nat] :
        /\ Transport!Renewed(state, Fifos) = [state EXCEPT !.heap = heap, !.fifo = fifo]
        /\ Grows(state.heap, heap) /\ PointsInto(heap, fifo)
  BY <1>1, RenewedBuffers
<1> DEFINE renewed == [state EXCEPT !.heap = heap, !.fifo = fifo]
           begun == [renewed EXCEPT !.epoch = @ + 1]
           cleared == [begun EXCEPT !.overflow = [f \in Fifos |-> FALSE]]
           Same(t) == /\ t \in Lines /\ t.snapshots = state.snapshots
                      /\ t.state = state.state /\ t.remaining = state.remaining
                      /\ t.address = state.address /\ t.start = state.start
                      /\ t.total = state.total
<1>3. Same(renewed) /\ renewed.heap = heap /\ renewed.fifo = fifo
  BY <1>1 DEF Lines
<1> HIDE DEF renewed
<1>4. Same(begun) /\ begun.heap = heap /\ begun.fifo = fifo
  <2>1. renewed \in Lines /\ renewed.epoch + 1 \in Nat
    BY <1>3 DEF Lines
  <2>2. begun \in Lines
    BY <2>1 DEF Lines
  <2>3. /\ begun.heap = renewed.heap /\ begun.fifo = renewed.fifo
        /\ begun.snapshots = renewed.snapshots
        /\ begun.state = renewed.state /\ begun.remaining = renewed.remaining
        /\ begun.address = renewed.address /\ begun.start = renewed.start
        /\ begun.total = renewed.total
    BY <2>1 DEF Lines
  <2>4. QED BY <1>3, <2>2, <2>3
<1> HIDE DEF begun
<1>5. Same(cleared) /\ cleared.heap = heap /\ cleared.fifo = fifo
  <2>1. [f \in Fifos |-> FALSE] \in [Fifos -> BOOLEAN]
    OBVIOUS
  <2>2. QED BY <1>4, <2>1 DEF Lines
<1> HIDE DEF cleared
<1>6. PICK t \in {state, begun, cleared} : state' = [t EXCEPT !.timebase = value]
  BY <1>1, <1>2 DEF Transport!Retimed, renewed, begun, cleared
<1>7. /\ Same(t) /\ Grows(state.heap, t.heap) /\ PointsInto(t.heap, t.fifo)
  <2>1. Grows(state.heap, state.heap)
    BY <1>1, HeapStays DEF Lines
  <2>2. Same(state)
    BY <1>1
  <2> HIDE DEF Same
  <2>3. QED BY <1>1, <1>2, <1>4, <1>5, <2>1, <2>2
<1>8. Same(state') /\ state'.heap = t.heap /\ state'.fifo = t.fifo
  BY <1>6, <1>7 DEF Lines
<1>9. QED BY <1>7, <1>8, LineGoesOn

(* A start edge takes the lengths the buffers have, and their bytes.       *)
LEMMA TakenStands ==
  ASSUME LineInv
  PROVE  Transport!Taken(state) \in Snaps /\ Stands(state.heap, Transport!Taken(state))
<1>1. state \in Lines /\ PointsInto(state.heap, state.fifo)
  BY DEF LineInv
<1>2. state.heap \in Heaps /\ state.fifo \in [Fifos -> Nat]
  BY <1>1 DEF Lines
<1>3. ASSUME NEW f \in Fifos
      PROVE  state.heap[state.fifo[f]] \in Seq(LineBytes) /\ Len(state.heap[state.fifo[f]]) \in Nat
  BY <1>1, <1>2 DEF PointsInto, Heaps
<1> DEFINE lengths == [f \in Fifos |-> Len(state.heap[state.fifo[f]])]
           bytes == [f \in Fifos |-> state.heap[state.fifo[f]]]
<1>4. lengths \in [Fifos -> Nat] /\ bytes \in [Fifos -> Seq(LineBytes)]
  BY <1>3
<1>5. \A f \in Fifos : lengths[f] = Len(state.heap[state.fifo[f]]) /\ bytes[f] = state.heap[state.fifo[f]]
  OBVIOUS
<1>6. Transport!Taken(state) = [epoch |-> state.epoch, timebase |-> state.timebase,
        buffers |-> state.fifo, lengths |-> lengths, overflow |-> state.overflow, bytes |-> bytes]
  BY DEF Transport!Taken
<1> HIDE DEF lengths, bytes
<1>7. Transport!Taken(state) \in Snaps
  BY <1>1, <1>4, <1>6 DEF Lines, Snaps
<1>8. Stands(state.heap, Transport!Taken(state))
  <2>1. /\ Transport!Taken(state).buffers = state.fifo /\ Transport!Taken(state).lengths = lengths
        /\ Transport!Taken(state).bytes = bytes
    BY <1>6
  <2>2. QED BY <1>1, <1>3, <1>5, <2>1 DEF Stands, PointsInto
<1>9. QED BY <1>7, <1>8

LEMMA LineWritesControl ==
  ASSUME Transport!AudioTransportAssumption, LineInv, NEW value \in {0, 1},
         Transport!WriteControl(value)
  PROVE  LineInv'
<1>1. state \in Lines /\ PointsInto(state.heap, state.fifo)
  BY DEF LineInv
<1>2. CASE state' = [state EXCEPT !.control = value]
  <2>1. state' \in Lines
    BY <1>1, <1>2 DEF Lines
  <2>2. QED BY <1>1, <1>2, <2>1, LineSetsField DEF Lines
<1> DEFINE all == Append(state.snapshots, Transport!Taken(state))
           kept == IF Len(all) > SnapshotLimit THEN Tail(all) ELSE all
<1>3. CASE state' = [state EXCEPT !.control = 1, !.snapshots = kept]
  <2>1. state.snapshots \in Seq(Snaps) /\ SnapshotLimit \in Nat \ {0}
        /\ Len(state.snapshots) \in Nat
    BY <1>1 DEF Lines, Transport!AudioTransportAssumption
  <2>2. Transport!Taken(state) \in Snaps /\ Stands(state.heap, Transport!Taken(state))
    BY TakenStands
  <2>3. /\ all \in Seq(Snaps) /\ Len(all) = Len(state.snapshots) + 1
        /\ \A i \in 1..Len(all) : Stands(state.heap, all[i])
    <3>1. all \in Seq(Snaps) /\ Len(all) = Len(state.snapshots) + 1
      BY <2>1, <2>2
    <3>2. ASSUME NEW i \in 1..Len(all) PROVE Stands(state.heap, all[i])
      <4>1. CASE i = Len(all)
        <5>1. all[i] = Transport!Taken(state)
          BY <2>1, <2>2, <3>1, <4>1
        <5>2. QED BY <2>2, <5>1
      <4>2. CASE i # Len(all)
        <5>1. i \in 1..Len(state.snapshots) /\ all[i] = state.snapshots[i]
          BY <2>1, <2>2, <3>1, <4>2
        <5>2. QED BY <5>1 DEF LineInv
      <4>3. QED BY <4>1, <4>2
    <3>3. QED BY <3>1, <3>2
  <2> HIDE DEF all
  <2>4. /\ kept \in Seq(Snaps) /\ Len(kept) <= SnapshotLimit
        /\ \A i \in 1..Len(kept) : Stands(state.heap, kept[i])
    <3>1. CASE Len(all) > SnapshotLimit
      <4>1. /\ Tail(all) \in Seq(Snaps) /\ Len(Tail(all)) = Len(all) - 1
            /\ \A i \in 1..(Len(all) - 1) : Tail(all)[i] = all[i + 1]
        BY <2>1, <2>3
      <4>2. ASSUME NEW i \in 1..Len(Tail(all)) PROVE Stands(state.heap, Tail(all)[i])
        <5>1. i + 1 \in 1..Len(all) /\ Tail(all)[i] = all[i + 1]
          BY <2>1, <2>3, <4>1
        <5>2. QED BY <2>3, <5>1
      <4>3. Len(state.snapshots) <= SnapshotLimit
        BY DEF LineInv
      <4>4. kept = Tail(all)
        BY <3>1
      <4>5. QED BY <2>1, <2>3, <4>1, <4>2, <4>3, <4>4
    <3>2. CASE ~(Len(all) > SnapshotLimit)
      BY <2>1, <2>3, <3>2
    <3>3. QED BY <3>1, <3>2
  <2> HIDE DEF kept
  <2>5. state' \in Lines
    BY <1>1, <1>3, <2>4 DEF Lines
  <2>6. /\ state'.heap = state.heap /\ state'.fifo = state.fifo /\ state'.snapshots = kept
        /\ state'.state = state.state /\ state'.remaining = state.remaining
        /\ state'.address = state.address /\ state'.start = state.start /\ state'.total = state.total
    BY <1>1, <1>3 DEF Lines
  <2>7. QED BY <1>1, <2>4, <2>5, <2>6 DEF LineInv, Transport!VoiceIsCounted
<1>4. QED BY <1>2, <1>3 DEF Transport!WriteControl

LEMMA LineFlushes ==
  ASSUME Transport!AudioTransportAssumption, LineInv, NEW accepted \in BOOLEAN, Transport!Flush(accepted)
  PROVE  LineInv'
<1>1. state \in Lines /\ PointsInto(state.heap, state.fifo)
      /\ state.snapshots \in Seq(Snaps) /\ state.snapshots # <<>>
  BY DEF LineInv, Lines, Transport!Flush
<1> DEFINE verdicts == [i \in DOMAIN state.snapshots |-> Transport!Rejection(state, state.snapshots[i])]
<1>2. PICK status \in {"submitted", "rejected"},
           reason \in {"none", "refused", verdicts[Len(verdicts)]} :
        state' = [state EXCEPT !.snapshots = <<>>, !.status = status, !.reason = reason]
  BY DEF Transport!Flush, Transport!Last
<1>3. verdicts[Len(verdicts)] \in Transport!Reasons
  <2>1. Len(verdicts) = Len(state.snapshots) /\ Len(state.snapshots) \in DOMAIN state.snapshots
    BY <1>1
  <2>2. verdicts[Len(verdicts)] = Transport!Rejection(state, state.snapshots[Len(state.snapshots)])
    BY <2>1
  <2>3. state.snapshots[Len(state.snapshots)] \in Snaps
    BY <1>1, <2>1
  <2>4. ASSUME NEW s \in Snaps PROVE Transport!Rejection(state, s) \in Transport!Reasons
    <3>1. s.overflow \in [Fifos -> BOOLEAN]
      BY DEF Snaps
    <3>2. (\E f \in Fifos : s.overflow[f]) \/ (\A f \in Fifos : ~s.overflow[f])
      OBVIOUS
    <3>3. QED BY <3>2 DEF Transport!Rejection, Transport!Reasons
  <2>5. QED BY <2>2, <2>3, <2>4
<1> HIDE DEF verdicts
<1>4. reason \in Transport!Reasons
  BY <1>2, <1>3 DEF Transport!Reasons
<1>5. <<>> \in Seq(Snaps) /\ Len(<<>>) = 0
  OBVIOUS
<1>6. state' \in Lines
  BY <1>1, <1>2, <1>4, <1>5 DEF Lines
<1>7. /\ state'.heap = state.heap /\ state'.fifo = state.fifo /\ state'.snapshots = <<>>
      /\ state'.state = state.state /\ state'.remaining = state.remaining
      /\ state'.address = state.address /\ state'.start = state.start /\ state'.total = state.total
  BY <1>1, <1>2 DEF Lines
<1>8. Len(state'.snapshots) <= SnapshotLimit
  BY <1>7 DEF Transport!AudioTransportAssumption
<1>9. QED BY <1>1, <1>6, <1>7, <1>8 DEF LineInv, Transport!VoiceIsCounted

LEMMA MaStatesAre == \A n \in 0..11 : n \in MaStates
BY DEF MaStates

(* The receiver of the MA5: a byte of a packet.  Neither of the two states *)
(* between a header and its payload is ever left to the next byte.         *)
Received(t) ==
  /\ t \in Lines /\ t.heap = state.heap /\ t.fifo = state.fifo
  /\ t.snapshots = state.snapshots

LEMMA HeaderBytes ==
  ASSUME Transport!AudioTransportAssumption, LineInv, state.state \notin {9, 11},
         NEW value \in 0..(Radix - 1), NEW last \in BOOLEAN
  PROVE  LET t == Transport!Header(state, value, last)
         IN /\ Received(t) /\ t.state \in 0..8 \cup {10}
            /\ t.state = 10 => t.remaining > 0
<1>1. /\ state \in Lines /\ state.state \in 0..7
      /\ state.address \in Nat /\ state.remaining \in Nat /\ value \in Nat /\ Radix \in Nat
  BY DEF LineInv, Lines, MaStates, Transport!AudioTransportAssumption
<1>2. value * Radix \in Nat /\ value * Radix * Radix \in Nat
  <2>1. \A a, b \in Nat : a * b \in Nat
    OBVIOUS
  <2>2. value * Radix \in Nat
    BY <1>1, <2>1
  <2>3. QED BY <1>1, <2>1, <2>2
<1> DEFINE second == state.address + value * Radix
           third == state.address + value * Radix * Radix
           count == state.remaining + value * Radix
           t == Transport!Header(state, value, last)
           Fine == /\ Received(t) /\ t.state \in 0..8 \cup {10}
                   /\ t.state = 10 => t.remaining > 0
<1> SUFFICES Fine
  OBVIOUS
<1>3. second \in Nat /\ third \in Nat /\ count \in Nat
  BY <1>1, <1>2
<1>4. CASE state.state \in {0, 1, 2}
  <2> DEFINE stage == IF state.state = 2 \/ last THEN 3 ELSE state.state + 1
  <2>1. stage \in 0..7
    BY <1>4
  <2>2. t = [state EXCEPT !.state = stage]
    BY <1>4 DEF Transport!Header
  <2> HIDE DEF stage, t
  <2>3. stage \in MaStates
    BY <2>1, MaStatesAre
  <2>4. t \in Lines
    BY <1>1, <2>1, <2>2, <2>3 DEF Lines
  <2>5. Received(t) /\ t.state = stage
    BY <1>1, <2>1, <2>2, <2>4 DEF Lines, Received
  <2>6. QED BY <2>1, <2>5
<1>5. CASE state.state = 3
  <2> DEFINE stage == IF last THEN 8 ELSE 4
  <2>1. t = [state EXCEPT !.address = value, !.state = stage]
    BY <1>5 DEF Transport!Header
  <2>2. stage \in {4, 8}
    OBVIOUS
  <2> HIDE DEF stage, t
  <2>3. stage \in MaStates
    BY <2>2, MaStatesAre
  <2>4. t \in Lines
    BY <1>1, <2>1, <2>2, <2>3 DEF Lines
  <2>5. Received(t) /\ t.state = stage
    BY <1>1, <2>1, <2>2, <2>4 DEF Lines, Received
  <2>6. QED BY <2>2, <2>5
<1>6. CASE state.state = 4
  <2> DEFINE stage == IF last THEN 8 ELSE 5
  <2>1. t = [state EXCEPT !.address = second, !.state = stage]
    BY <1>6 DEF Transport!Header
  <2>2. stage \in {5, 8}
    OBVIOUS
  <2> HIDE DEF stage, t, second
  <2>3. stage \in MaStates
    BY <2>2, MaStatesAre
  <2>4. t \in Lines
    BY <1>1, <1>3, <2>1, <2>2, <2>3 DEF Lines
  <2>5. Received(t) /\ t.state = stage
    BY <1>1, <1>3, <2>1, <2>2, <2>4 DEF Lines, Received
  <2>6. QED BY <2>2, <2>5
<1>7. CASE state.state = 5
  <2>1. t = [state EXCEPT !.address = third, !.state = 6]
    BY <1>7 DEF Transport!Header
  <2> HIDE DEF t, third
  <2>2. 6 \in MaStates
    BY MaStatesAre
  <2>3. t \in Lines
    BY <1>1, <1>3, <2>1, <2>2 DEF Lines
  <2>4. Received(t) /\ t.state = 6
    BY <1>1, <1>3, <2>1, <2>3 DEF Lines, Received
  <2>5. QED BY <2>4
<1>8. CASE state.state = 6
  <2> DEFINE stage == IF ~last THEN 7 ELSE IF value = 0 THEN 0 ELSE 10
  <2>1. t = [state EXCEPT !.remaining = value, !.state = stage]
    BY <1>8 DEF Transport!Header
  <2>2. stage \in {0, 7, 10} /\ (stage = 10 => value > 0)
    BY <1>1
  <2> HIDE DEF stage, t
  <2>3. stage \in MaStates
    BY <2>2, MaStatesAre
  <2>4. t \in Lines
    BY <1>1, <2>1, <2>2, <2>3 DEF Lines
  <2>5. Received(t) /\ t.state = stage /\ t.remaining = value
    BY <1>1, <2>1, <2>2, <2>4 DEF Lines, Received
  <2>6. QED BY <2>2, <2>5
<1>9. CASE state.state = 7
  <2> DEFINE stage == IF count = 0 THEN 0 ELSE 10
  <2>1. t = [state EXCEPT !.remaining = count, !.state = stage]
    BY <1>9 DEF Transport!Header
  <2> HIDE DEF count
  <2>2. stage \in {0, 10} /\ (stage = 10 => count > 0)
    BY <1>3
  <2> HIDE DEF stage, t
  <2>3. stage \in MaStates
    BY <2>2, MaStatesAre
  <2>4. t \in Lines
    BY <1>1, <1>3, <2>1, <2>2, <2>3 DEF Lines
  <2>5. Received(t) /\ t.state = stage /\ t.remaining = count
    BY <1>1, <1>3, <2>1, <2>2, <2>4 DEF Lines, Received
  <2>6. QED BY <2>2, <2>5
<1>10. QED BY <1>1, <1>4, <1>5, <1>6, <1>7, <1>8, <1>9

LEMMA LineReceives ==
  ASSUME Transport!AudioTransportAssumption, LineInv, Received(state'),
         state'.state \notin {8, 10}, Transport!VoiceIsCounted'
  PROVE  LineInv'
BY DEF LineInv, Received

LEMMA LineFeeds ==
  ASSUME Transport!AudioTransportAssumption, LineInv, NEW value \in 0..(Radix - 1),
         NEW last \in BOOLEAN, Transport!FeedMa5(value, last)
  PROVE  LineInv'
<1>1. /\ state \in Lines /\ state.state \in 0..11 /\ state.address \in Nat
      /\ state.remaining \in Nat /\ state.start \in Nat /\ state.total \in Nat
  BY DEF LineInv, Lines, MaStates
<1>2. CASE state.state \notin {9, 11}
  <2> DEFINE t == Transport!Header(state, value, last)
  <2>1. /\ Received(t) /\ t.state \in 0..8 \cup {10}
        /\ t.state = 10 => t.remaining > 0
    BY <1>2, HeaderBytes
  <2>2. state' = Transport!Entered(t)
    BY <1>2 DEF Transport!FeedMa5
  <2> HIDE DEF t
  <2>3. CASE t.state = 8
    <3>1. state' = [t EXCEPT !.state = 9]
      BY <2>2, <2>3 DEF Transport!Entered
    <3>2. 9 \in MaStates
      BY MaStatesAre
    <3>3. Received(state') /\ state'.state = 9
      BY <2>1, <3>1, <3>2 DEF Received, Lines
    <3>4. QED BY <3>3, LineReceives DEF Transport!VoiceIsCounted
  <2>4. CASE t.state = 10
    <3>1. state' = [t EXCEPT !.state = 11, !.start = t.address, !.total = t.remaining]
      BY <2>2, <2>4 DEF Transport!Entered
    <3>2. t.address \in Nat /\ t.remaining \in Nat /\ 11 \in MaStates
      BY <2>1, MaStatesAre DEF Received, Lines
    <3>3. /\ Received(state') /\ state'.state = 11 /\ state'.address = t.address
          /\ state'.start = t.address /\ state'.total = t.remaining
          /\ state'.remaining = t.remaining
      BY <2>1, <3>1, <3>2 DEF Received, Lines
    <3>4. QED BY <2>1, <2>4, <3>2, <3>3, LineReceives DEF Transport!VoiceIsCounted
  <2>5. CASE t.state \notin {8, 10}
    <3>1. state' = t
      BY <2>2, <2>5 DEF Transport!Entered
    <3>2. QED BY <2>1, <2>5, <3>1, LineReceives DEF Transport!VoiceIsCounted
  <2>6. QED BY <2>3, <2>4, <2>5
<1>3. CASE state.state = 9
  <2> DEFINE stage == IF last THEN 0 ELSE 9
             t == [state EXCEPT !.address = @ + 1, !.state = stage]
  <2>1. state' = Transport!Entered(t)
    BY <1>3 DEF Transport!FeedMa5, Transport!Payload
  <2>2. stage \in {0, 9} /\ state.address + 1 \in Nat /\ stage \in MaStates
    BY <1>1, MaStatesAre
  <2> HIDE DEF stage
  <2>3. Received(t) /\ t.state = stage
    BY <1>1, <2>2 DEF Received, Lines
  <2> HIDE DEF t
  <2>4. state' = t
    BY <2>1, <2>2, <2>3 DEF Transport!Entered
  <2>5. QED BY <2>2, <2>3, <2>4, LineReceives DEF Transport!VoiceIsCounted
<1>4. CASE state.state = 11 /\ state.remaining = 1
  <2> DEFINE t == [state EXCEPT !.remaining = 0, !.state = 0]
  <2>1. state' = Transport!Entered(t)
    BY <1>4 DEF Transport!FeedMa5, Transport!Payload
  <2>2. 0 \in MaStates
    BY MaStatesAre
  <2>3. Received(t) /\ t.state = 0
    BY <1>1, <2>2 DEF Received, Lines
  <2> HIDE DEF t
  <2>4. state' = t
    BY <2>1, <2>3 DEF Transport!Entered
  <2>5. QED BY <2>3, <2>4, LineReceives DEF Transport!VoiceIsCounted
<1>5. CASE state.state = 11 /\ state.remaining # 1
  <2> DEFINE t == [state EXCEPT !.remaining = @ - 1, !.address = @ + 1]
  <2>1. state' = Transport!Entered(t)
    BY <1>5 DEF Transport!FeedMa5, Transport!Payload
  <2>2. state.remaining > 0 /\ state.address - state.start = state.total - state.remaining
    BY <1>5 DEF LineInv, Transport!VoiceIsCounted
  <2>3. state.address + 1 \in Nat /\ state.remaining - 1 \in Nat /\ state.remaining - 1 > 0
    BY <1>1, <1>5, <2>2
  <2>4. /\ Received(t) /\ t.state = 11 /\ t.remaining = state.remaining - 1
        /\ t.address = state.address + 1 /\ t.start = state.start /\ t.total = state.total
    BY <1>1, <1>5, <2>3 DEF Received, Lines
  <2> HIDE DEF t
  <2>5. state' = t
    BY <2>1, <2>4 DEF Transport!Entered
  <2>6. QED BY <1>1, <2>2, <2>3, <2>4, <2>5, LineReceives DEF Transport!VoiceIsCounted
<1>6. QED BY <1>2, <1>3, <1>4, <1>5

LEMMA LineInitInv == Transport!AudioTransportAssumption /\ Transport!Init => LineInv
<1>1. SUFFICES ASSUME Transport!AudioTransportAssumption, Transport!Init PROVE LineInv
  OBVIOUS
<1> DEFINE n == Cardinality(Fifos)
           heap == [b \in 1..n |-> <<>>]
           fifo == [f \in Fifos |-> Cardinality({g \in Fifos : g <= f})]
           overflow == [f \in Fifos |-> FALSE]
<1>2. PICK family \in {"ma2", "ma5"} :
        state = [family |-> family, bank |-> 0, index |-> Transport!None, heap |-> heap,
                fifo |-> fifo, overflow |-> overflow, timebase |-> Transport!None, control |-> 0,
                epoch |-> 0, snapshots |-> <<>>, status |-> "pending", reason |-> "none",
                state |-> 0, address |-> 0, remaining |-> 0, start |-> 0, total |-> 0]
  BY <1>1, LineCardinality DEF Transport!Init
<1>3. IsFiniteSet(Fifos) /\ n \in Nat /\ Fifos \in SUBSET Nat /\ SnapshotLimit \in Nat
  BY <1>1, LineFinite, FS_CardinalityType DEF Transport!AudioTransportAssumption
<1>4. heap \in Heaps /\ Len(heap) = n
  <2>1. <<>> \in Seq(LineBytes)
    OBVIOUS
  <2>2. heap \in [1..n -> Seq(LineBytes)]
    BY <2>1
  <2> HIDE DEF n
  <2>3. QED BY <1>3, <2>2 DEF Heaps
<1>5. \A f \in Fifos : fifo[f] \in 1..n
  BY <1>3, NumberOfFifo
<1> HIDE DEF n
<1>6. fifo \in [Fifos -> Nat] /\ PointsInto(heap, fifo)
  <2>1. \A f \in Fifos : fifo[f] \in Nat
    BY <1>3, <1>5
  <2>2. fifo = [f \in Fifos |-> fifo[f]]
    OBVIOUS
  <2> HIDE DEF fifo, heap
  <2>3. QED BY <1>4, <1>5, <2>1, <2>2 DEF PointsInto
<1>7. overflow \in [Fifos -> BOOLEAN] /\ <<>> \in Seq(Snaps) /\ Len(<<>>) = 0
  OBVIOUS
<1> HIDE DEF heap, fifo, overflow
<1>8. state \in Lines
  <2>1. "none" \in Transport!Reasons /\ 0 \in MaStates
    BY MaStatesAre DEF Transport!Reasons
  <2>2. QED BY <1>2, <1>4, <1>6, <1>7, <2>1 DEF Lines
<1>9. QED BY <1>2, <1>3, <1>6, <1>7, <1>8 DEF LineInv, Transport!VoiceIsCounted

LEMMA LineStep ==
  Transport!AudioTransportAssumption /\ LineInv /\ [Transport!Next]_state => LineInv'
<1>1. SUFFICES ASSUME Transport!AudioTransportAssumption, LineInv, [Transport!Next]_state PROVE LineInv'
  OBVIOUS
<1>2. CASE UNCHANGED state
  BY <1>1, <1>2 DEF LineInv, Transport!VoiceIsCounted
<1>3. CASE Transport!Next
  BY <1>1, <1>3, LineSelects, LineWritesBank, LineWritesFifo, LineWritesTimebase,
     LineWritesControl, LineFlushes, LineFeeds DEF Transport!Next
<1>4. QED BY <1>1, <1>2, <1>3

(* What is found in a snapshot's buffers are the bytes of its start edge.  *)
LEMMA StandingContents ==
  ASSUME LineInv, NEW i \in 1..Len(state.snapshots), NEW f \in Fifos
  PROVE  Transport!Contents(state, state.snapshots[i], f) = state.snapshots[i].bytes[f]
<1> DEFINE s == state.snapshots[i]
           buffer == state.heap[s.buffers[f]]
           n == s.lengths[f]
<1>1. s \in Snaps /\ Stands(state.heap, s) /\ state.heap \in Heaps
  BY DEF LineInv, Lines
<1>2. /\ s.buffers[f] \in 1..Len(state.heap) /\ n <= Len(buffer) /\ Len(s.bytes[f]) = n
      /\ \A j \in 1..n : buffer[j] = s.bytes[f][j]
  BY <1>1 DEF Stands
<1>3. buffer \in Seq(LineBytes) /\ n \in Nat /\ s.bytes[f] \in Seq(LineBytes)
  BY <1>1, <1>2 DEF Heaps, Snaps
<1>4. Transport!Contents(state, s, f) = SubSeq(buffer, 1, Transport!Min({Len(buffer), n}))
  BY DEF Transport!Contents
<1> HIDE DEF buffer, n
<1>5. Transport!Min({Len(buffer), n}) = n
  BY <1>2, <1>3 DEF Transport!Min
<1>6. SubSeq(buffer, 1, n) = s.bytes[f]
  <2>1. /\ SubSeq(buffer, 1, n) \in Seq(LineBytes) /\ Len(SubSeq(buffer, 1, n)) = n
        /\ \A j \in 1..n : SubSeq(buffer, 1, n)[j] = buffer[j]
    BY <1>2, <1>3
  <2>2. \A j \in 1..n : SubSeq(buffer, 1, n)[j] = s.bytes[f][j]
    BY <1>2, <2>1
  <2> HIDE DEF s
  <2>3. QED BY <1>2, <1>3, <2>1, <2>2, SeqEqual
<1>7. QED BY <1>4, <1>5, <1>6

(* A snapshot of the MA2 yields the bytes its FIFOs held at its start      *)
(* edge, whatever is written, dropped or timed anew after it, and a voice  *)
(* packet of the MA5 writes as many bytes as it announced.                 *)
THEOREM SnapshotsKeepTheirBytes ==
  ASSUME Transport!AudioTransportAssumption
  PROVE  Transport!Spec => [](Transport!TypeOK /\ Transport!SnapshotKeepsItsBytes /\ Transport!VoiceIsCounted)
<1>1. LineInv => Transport!TypeOK
  <2>1. SUFFICES ASSUME LineInv PROVE Transport!TypeOK
    OBVIOUS
  <2>2. state.fifo \in [Fifos -> 1..Len(state.heap)]
    BY <2>1 DEF LineInv, Lines, PointsInto
  <2>3. QED BY <2>1, <2>2 DEF LineInv, Lines, Heaps, MaStates, Transport!TypeOK
<1>2. LineInv => Transport!SnapshotKeepsItsBytes
  <2>1. SUFFICES ASSUME LineInv PROVE Transport!SnapshotKeepsItsBytes
    OBVIOUS
  <2>2. DOMAIN state.snapshots = 1..Len(state.snapshots)
    BY <2>1 DEF LineInv, Lines
  <2>3. QED BY <2>1, <2>2, StandingContents DEF Transport!SnapshotKeepsItsBytes
<1>3. LineInv => Transport!VoiceIsCounted
  BY DEF LineInv
<1>4. QED BY <1>1, <1>2, <1>3, LineInitInv, LineStep, PTL DEF Transport!Spec

-------------------------------------------------------------------------------
(* The capture of words no decoder of the display knows a use for.         *)

RawStates ==
  [panel : RawPanels, auto : BOOLEAN, shown : BOOLEAN, len : [Raw!Ports -> Nat],
   count : [Raw!Ports -> Nat], segment : 0..Proving, segments : Nat, low : BOOLEAN,
   window : RawPanels \cup {0}, fifo : BOOLEAN,
   picture : {"none", "raster", "window", "segment"}, of : Nat]

(* Every port holds its last words, in the middle of a write, too.         *)
RawHolds(r) ==
  /\ r \in RawStates
  /\ \A port \in Raw!Ports : r.len[port] = Raw!Least(r.count[port], r.panel)

RawInv == RawHolds(state) /\ Raw!RastersFillPanel

LEMMA RawSizes ==
  ASSUME Raw!LcdRawAssumption
  PROVE  /\ RawPanels \subseteq Nat \ {0} /\ RawFirst \in RawPanels /\ Proving \in RawPanels
         /\ Proving \in Nat \ {0} /\ Raw!Empty \in [Raw!Ports -> Nat]
         /\ \A port \in Raw!Ports : Raw!Empty[port] = 0
BY DEF Raw!LcdRawAssumption, Raw!Empty

LEMMA RawQuiet ==
  ASSUME NEW r, RawHolds(r)
  PROVE  RawHolds(Raw!Quiet(r)) /\ Raw!Quiet(r).picture = "none"
BY DEF RawHolds, RawStates, Raw!Quiet

LEMMA RawShown ==
  ASSUME NEW r, RawHolds(r), NEW words \in Nat
  PROVE  \A picture \in {"raster", "window", "segment"} :
           /\ RawHolds(Raw!Shown(r, picture, words))
           /\ Raw!Shown(r, picture, words).picture = picture
           /\ Raw!Shown(r, picture, words).of = words
           /\ Raw!Shown(r, picture, words).panel = r.panel
BY DEF RawHolds, RawStates, Raw!Shown

LEMMA RawCleared ==
  ASSUME Raw!LcdRawAssumption, NEW r, RawHolds(r), NEW port \in Raw!Ports
  PROVE  RawHolds(Raw!Cleared(r, port)) /\ Raw!Cleared(r, port).picture = r.picture
<1> DEFINE len == [r.len EXCEPT ![port] = 0]
           count == [r.count EXCEPT ![port] = 0]
           s == Raw!Cleared(r, port)
<1>1. r \in RawStates /\ r.panel \in Nat /\ \A q \in Raw!Ports : r.len[q] = Raw!Least(r.count[q], r.panel)
  BY RawSizes DEF RawHolds, RawStates
<1>2. s = [r EXCEPT !.len = len, !.count = count]
  BY <1>1 DEF Raw!Cleared, RawStates
<1>3. /\ len \in [Raw!Ports -> Nat] /\ count \in [Raw!Ports -> Nat]
      /\ \A q \in Raw!Ports : len[q] = Raw!Least(count[q], r.panel)
  BY <1>1 DEF RawStates, Raw!Least
<1> HIDE DEF len, count, s
<1>4. s \in RawStates /\ s.len = len /\ s.count = count /\ s.panel = r.panel /\ s.picture = r.picture
  BY <1>1, <1>2, <1>3 DEF RawStates
<1>5. QED BY <1>3, <1>4 DEF RawHolds, s

(* Another panel begins its captures anew.                                 *)
LEMMA RawResized ==
  ASSUME Raw!LcdRawAssumption, NEW r, RawHolds(r), NEW panel \in RawPanels
  PROVE  RawHolds(Raw!Resized(r, panel)) /\ Raw!Resized(r, panel).picture = r.picture
<1> DEFINE s == Raw!Resized(r, panel)
<1>1. CASE panel = r.panel
  BY <1>1 DEF Raw!Resized
<1>2. CASE panel # r.panel
  <2>1. r \in RawStates /\ panel \in Nat /\ panel > 0
    BY RawSizes DEF RawHolds
  <2>2. s = [r EXCEPT !.panel = panel, !.len = Raw!Empty, !.count = Raw!Empty, !.segment = 0, !.segments = 0]
    BY <1>2 DEF Raw!Resized
  <2>3. 0 \in 0..Proving
    BY RawSizes
  <2> HIDE DEF s
  <2>4. /\ s \in RawStates /\ s.len = Raw!Empty /\ s.count = Raw!Empty /\ s.panel = panel
        /\ s.picture = r.picture
    BY <2>1, <2>2, <2>3, RawSizes DEF RawStates
  <2>5. \A port \in Raw!Ports : s.len[port] = Raw!Least(s.count[port], s.panel)
    BY <2>1, <2>4, RawSizes DEF Raw!Least
  <2>6. QED BY <2>4, <2>5 DEF RawHolds, s
<1>3. QED BY <1>1, <1>2

LEMMA RawProved ==
  ASSUME Raw!LcdRawAssumption, NEW r, RawHolds(r), NEW panel \in RawPanels, NEW dark \in BOOLEAN
  PROVE  RawHolds(Raw!Proved(r, panel, dark)) /\ Raw!Proved(r, panel, dark).picture = r.picture
<1> DEFINE s == Raw!Resized(r, panel)
<1>1. Raw!Proved(r, panel, dark) = r \/ Raw!Proved(r, panel, dark) = [s EXCEPT !.auto = FALSE]
  BY DEF Raw!Proved
<1>2. RawHolds(s) /\ s.picture = r.picture
  BY RawResized
<1> HIDE DEF s
<1>3. RawHolds([s EXCEPT !.auto = FALSE]) /\ [s EXCEPT !.auto = FALSE].picture = s.picture
  BY <1>2 DEF RawHolds, RawStates
<1>4. QED BY <1>1, <1>2, <1>3

LEMMA RawKept ==
  ASSUME Raw!LcdRawAssumption, NEW r, RawHolds(r), NEW port \in Raw!Ports
  PROVE  LET s == Raw!Kept(r, port)
         IN RawHolds(s) /\ s.picture = r.picture /\ s.window = r.window
<1> DEFINE len == [r.len EXCEPT ![port] = Raw!Least(r.len[port] + 1, r.panel)]
           count == [r.count EXCEPT ![port] = r.count[port] + 1]
           segment == IF port = "020+2" THEN Raw!Least(r.segment + 1, Proving) ELSE r.segment
           segments == IF port = "020+2" THEN r.segments + 1 ELSE r.segments
           s == Raw!Kept(r, port)
<1>1. r \in RawStates /\ r.panel \in Nat /\ \A q \in Raw!Ports : r.len[q] = Raw!Least(r.count[q], r.panel)
  BY RawSizes DEF RawHolds, RawStates
<1>2. s = [r EXCEPT !.len = len, !.count = count, !.segment = segment, !.segments = segments]
  BY <1>1 DEF Raw!Kept, RawStates
<1>3. /\ len \in [Raw!Ports -> Nat] /\ count \in [Raw!Ports -> Nat]
      /\ \A q \in Raw!Ports : len[q] = Raw!Least(count[q], r.panel)
  <2>1. r.len \in [Raw!Ports -> Nat] /\ r.count \in [Raw!Ports -> Nat]
    BY <1>1 DEF RawStates
  <2>2. Raw!Least(r.len[port] + 1, r.panel) \in Nat
    BY <1>1, <2>1 DEF Raw!Least
  <2>3. Raw!Least(r.len[port] + 1, r.panel) = Raw!Least(r.count[port] + 1, r.panel)
    BY <1>1, <2>1 DEF Raw!Least
  <2>4. QED BY <1>1, <2>1, <2>2, <2>3
<1>4. segment \in 0..Proving /\ segments \in Nat
  BY <1>1, RawSizes DEF RawStates, Raw!Least
<1> HIDE DEF len, count, segment, segments, s
<1>5. s \in RawStates /\ s.len = len /\ s.count = count /\ s.panel = r.panel /\ s.picture = r.picture
      /\ s.window = r.window
  BY <1>1, <1>2, <1>3, <1>4 DEF RawStates
<1>6. QED BY <1>3, <1>5 DEF RawHolds, s

(* A full window is drawn, or leaves no picture.                           *)
LEMMA RawWindow ==
  ASSUME Raw!LcdRawAssumption, NEW r, RawHolds(r), r.window # 0, r.picture = "none",
         NEW full \in BOOLEAN, NEW dark \in BOOLEAN
  PROVE  LET s == Raw!WindowPicture(r, full, dark)
         IN RawHolds(s) /\ s.picture \in {"none", "window"}
<1> DEFINE proved == Raw!Proved(r, r.window, dark)
           sized == IF full /\ (r.window = r.panel \/ r.auto)
                    THEN [proved EXCEPT !.fifo = (proved.panel = r.window)] ELSE r
           s == Raw!WindowPicture(r, full, dark)
<1>1. r.window \in RawPanels /\ r.window \in Nat
  BY RawSizes DEF RawHolds, RawStates
<1>2. RawHolds(proved) /\ proved.picture = r.picture
  BY <1>1, RawProved
<1>3. s = sized \/ s = Raw!Cleared(Raw!Shown(sized, "window", r.window), "028+4")
  BY DEF Raw!WindowPicture
<1> HIDE DEF proved
<1>4. RawHolds(sized) /\ sized.picture = "none"
  <2> DEFINE fifo == (proved.panel = r.window)
  <2>1. fifo \in BOOLEAN
    OBVIOUS
  <2> HIDE DEF fifo
  <2>2. RawHolds([proved EXCEPT !.fifo = fifo]) /\ [proved EXCEPT !.fifo = fifo].picture = proved.picture
    BY <1>2, <2>1 DEF RawHolds, RawStates
  <2>3. sized = r \/ sized = [proved EXCEPT !.fifo = fifo]
    BY DEF fifo
  <2> HIDE DEF sized
  <2>4. QED BY <1>2, <2>2, <2>3
<1> HIDE DEF sized, s
<1>5. CASE s = sized
  BY <1>4, <1>5 DEF s
<1>6. CASE s = Raw!Cleared(Raw!Shown(sized, "window", r.window), "028+4")
  <2>1. RawHolds(Raw!Shown(sized, "window", r.window)) /\ Raw!Shown(sized, "window", r.window).picture = "window"
    BY <1>1, <1>4, RawShown
  <2>2. RawHolds(s) /\ s.picture = "window"
    BY <1>6, <2>1, RawCleared DEF Raw!Ports
  <2>3. QED BY <2>2 DEF s
<1>7. QED BY <1>3, <1>5, <1>6

LEMMA RawWord ==
  ASSUME Raw!LcdRawAssumption, RawInv, Raw!CaptureWord
  PROVE  RawInv'
<1>1. PICK port \in Raw!Ports, low \in BOOLEAN, row \in BOOLEAN, full \in BOOLEAN, dark \in BOOLEAN,
           bright \in BOOLEAN :
        LET kept    == Raw!Kept(Raw!LowStill(Raw!Quiet(state), port, low), port)
            held    == kept.len[port]
            counted == kept.count[port]
            window  == IF Raw!WindowFull(kept, port) THEN Raw!WindowPicture(kept, full, dark) ELSE kept
            proved  == IF Raw!Proves(window, port, counted) THEN Raw!Proved(window, Proving, dark) ELSE window
        IN state' = CASE Raw!PageRow(kept, port, row) -> Raw!Cleared(kept, port)
                      [] ~Raw!PageRow(kept, port, row) /\ window.picture = "window" -> window
                      [] OTHER -> Raw!Raster(proved, held, counted, bright)
  BY DEF Raw!CaptureWord
<1> DEFINE still   == Raw!LowStill(Raw!Quiet(state), port, low)
           kept    == Raw!Kept(still, port)
           held    == kept.len[port]
           counted == kept.count[port]
           window  == IF Raw!WindowFull(kept, port) THEN Raw!WindowPicture(kept, full, dark) ELSE kept
           proved  == IF Raw!Proves(window, port, counted) THEN Raw!Proved(window, Proving, dark) ELSE window
<1>2. RawHolds(still) /\ still.picture = "none"
  <2> DEFINE quiet == Raw!Quiet(state)
             wasLow == low /\ (quiet.low \/ quiet.len[port] = 0)
  <2>1. RawHolds(quiet) /\ quiet.picture = "none"
    BY RawQuiet DEF RawInv
  <2>2. still = quiet \/ still = [quiet EXCEPT !.low = wasLow]
    BY DEF Raw!LowStill
  <2>3. wasLow \in BOOLEAN
    OBVIOUS
  <2> HIDE DEF quiet, wasLow
  <2>4. RawHolds([quiet EXCEPT !.low = wasLow]) /\ [quiet EXCEPT !.low = wasLow].picture = quiet.picture
    BY <2>1, <2>3 DEF RawHolds, RawStates
  <2>5. QED BY <2>1, <2>2, <2>4
<1> HIDE DEF still
<1>3. RawHolds(kept) /\ kept.picture = "none"
  BY <1>2, RawKept
<1> HIDE DEF kept
<1>4. RawHolds(window) /\ window.picture \in {"none", "window"}
  <2>1. Raw!WindowFull(kept, port) => kept.window # 0
    BY DEF Raw!WindowFull
  <2>2. QED BY <1>3, <2>1, RawWindow
<1>5. \/ state' = Raw!Cleared(kept, port)
      \/ state' = window /\ window.picture = "window"
      \/ state' = Raw!Raster(proved, held, counted, bright) /\ window.picture # "window"
  <2> HIDE DEF window, proved, held, counted
  <2>1. state' = CASE Raw!PageRow(kept, port, row) -> Raw!Cleared(kept, port)
                   [] ~Raw!PageRow(kept, port, row) /\ window.picture = "window" -> window
                   [] OTHER -> Raw!Raster(proved, held, counted, bright)
    BY <1>1 DEF window, proved, held, counted, kept, still
  <2>2. QED BY <2>1
<1> HIDE DEF window
<1>6. CASE state' = Raw!Cleared(kept, port)
  <2>1. RawHolds(state') /\ state'.picture = "none"
    BY <1>3, <1>6, RawCleared
  <2>2. QED BY <2>1 DEF RawInv, Raw!RastersFillPanel
<1>7. CASE state' = window /\ window.picture = "window"
  BY <1>4, <1>7 DEF RawInv, Raw!RastersFillPanel
<1>8. CASE state' = Raw!Raster(proved, held, counted, bright) /\ window.picture # "window"
  <2>1. RawHolds(proved) /\ proved.picture = "none"
    BY <1>4, <1>8, RawProved, RawSizes
  <2>2. held \in Nat
    BY <1>3 DEF RawHolds, RawStates
  <2>3. state' = proved \/ (state' = Raw!Shown(proved, "raster", held) /\ held = proved.panel)
    BY <1>8 DEF Raw!Raster
  <2> HIDE DEF proved, held
  <2>4. CASE state' = proved
    BY <2>1, <2>4 DEF RawInv, Raw!RastersFillPanel
  <2>5. CASE state' = Raw!Shown(proved, "raster", held) /\ held = proved.panel
    <3>1. RawHolds(state') /\ state'.of = held /\ state'.panel = proved.panel
      BY <2>1, <2>2, <2>5, RawShown
    <3>2. QED BY <2>5, <3>1 DEF RawInv, Raw!RastersFillPanel
  <2>6. QED BY <2>3, <2>4, <2>5
<1>9. QED BY <1>5, <1>6, <1>7, <1>8

(* _capture_raw_lcd_stream, _set_display_geometry, _finish_020_raw_segment:*)
(* every port holds its last words, as many as the panel has, and a raster *)
(* that is shown is one panel of words.                                    *)
THEOREM CapturesAreWhole ==
  ASSUME Raw!LcdRawAssumption
  PROVE  Raw!Spec => [](Raw!TypeOK /\ Raw!CapturesFitPanel /\ Raw!RastersFillPanel)
<1>1. Raw!Init => RawInv
  <2>1. SUFFICES ASSUME Raw!Init PROVE RawInv
    OBVIOUS
  <2>2. PICK auto \in BOOLEAN :
          state = [panel |-> RawFirst, auto |-> auto, shown |-> FALSE, len |-> Raw!Empty,
                 count |-> Raw!Empty, segment |-> 0, segments |-> 0, low |-> TRUE, window |-> 0,
                 fifo |-> FALSE, picture |-> "none", of |-> 0]
    BY <2>1 DEF Raw!Init
  <2>3. state \in RawStates
    BY <2>2, RawSizes DEF RawStates
  <2>4. \A port \in Raw!Ports : state.len[port] = Raw!Least(state.count[port], state.panel)
    BY <2>2, RawSizes DEF Raw!Least
  <2>5. QED BY <2>2, <2>3, <2>4 DEF RawInv, RawHolds, Raw!RastersFillPanel
<1>2. RawInv /\ [Raw!Next]_state => RawInv'
  <2>1. SUFFICES ASSUME RawInv, [Raw!Next]_state PROVE RawInv'
    OBVIOUS
  <2> DEFINE quiet == Raw!Quiet(state)
  <2>2. RawHolds(quiet) /\ quiet.picture = "none"
    BY <2>1, RawQuiet DEF RawInv
  <2>3. ASSUME RawHolds(state'), state'.picture # "raster" PROVE RawInv'
    BY <2>3 DEF RawInv, Raw!RastersFillPanel
  <2>4. CASE Raw!SetWindow
    <3>1. PICK window \in RawPanels \cup {0} : state' = [quiet EXCEPT !.window = window]
      BY <2>4 DEF Raw!SetWindow
    <3> HIDE DEF quiet
    <3>2. RawHolds(state') /\ state'.picture = "none"
      BY <2>2, <3>1 DEF RawHolds, RawStates
    <3>3. QED BY <2>3, <3>2
  <2>5. CASE Raw!BeginCommand
    <3>1. state' = quiet \/ state' = Raw!Cleared(quiet, "028+4")
      BY <2>5 DEF Raw!BeginCommand, Raw!Command
    <3> HIDE DEF quiet
    <3>2. QED BY <2>1, <2>2, <2>3, <3>1, RawCleared DEF Raw!Ports
  <2>6. CASE Raw!SelectorOpens
    <3>1. state' = Raw!Cleared(quiet, "020+4")
      BY <2>6 DEF Raw!SelectorOpens
    <3> HIDE DEF quiet
    <3>2. QED BY <2>2, <2>3, <3>1, RawCleared DEF Raw!Ports
  <2>7. CASE Raw!FinishSegment
    <3>1. PICK known \in BOOLEAN, dark \in BOOLEAN, bright \in BOOLEAN :
            state' = [Raw!Segment(quiet, known, dark, bright) EXCEPT !.segment = 0, !.segments = 0]
      BY <2>7 DEF Raw!FinishSegment
    <3> DEFINE proved == Raw!Proved(quiet, Proving, dark)
               segment == Raw!Segment(quiet, known, dark, bright)
    <3>2. segment = quiet \/ segment = Raw!Shown(proved, "segment", Proving)
      BY DEF Raw!Segment
    <3> HIDE DEF quiet
    <3>3. RawHolds(proved)
      BY <2>2, RawProved, RawSizes
    <3> HIDE DEF proved, segment
    <3>4. RawHolds(segment) /\ segment.picture # "raster"
      <4>1. Proving \in Nat
        BY RawSizes
      <4>2. /\ RawHolds(Raw!Shown(proved, "segment", Proving))
            /\ Raw!Shown(proved, "segment", Proving).picture = "segment"
        BY <3>3, <4>1, RawShown
      <4>3. QED BY <2>2, <3>2, <4>2
    <3>5. RawHolds(state') /\ state'.picture = segment.picture
      <4>1. state' = [segment EXCEPT !.segment = 0, !.segments = 0] /\ 0 \in 0..Proving
        BY <3>1, RawSizes DEF segment
      <4>2. QED BY <3>4, <4>1 DEF RawHolds, RawStates
    <3>6. QED BY <2>3, <3>4, <3>5
  <2>8. CASE Raw!OtherDecoder
    <3>1. PICK panel \in RawPanels : state' = [Raw!Resized(quiet, panel) EXCEPT !.auto = FALSE, !.shown = TRUE]
      BY <2>8 DEF Raw!OtherDecoder
    <3> DEFINE sized == Raw!Resized(quiet, panel)
    <3> HIDE DEF quiet
    <3>2. RawHolds(sized) /\ sized.picture = "none"
      BY <2>2, RawResized
    <3>3. state' = [sized EXCEPT !.auto = FALSE, !.shown = TRUE]
      BY <3>1
    <3> HIDE DEF sized
    <3>4. RawHolds(state') /\ state'.picture = "none"
      BY <3>2, <3>3 DEF RawHolds, RawStates
    <3>5. QED BY <2>3, <3>4
  <2>9. CASE UNCHANGED state
    BY <2>1, <2>9 DEF RawInv, RawHolds, Raw!RastersFillPanel
  <2>10. QED BY <2>1, <2>4, <2>5, <2>6, <2>7, <2>8, <2>9, RawWord DEF Raw!Next
<1>3. RawInv => Raw!TypeOK /\ Raw!CapturesFitPanel /\ Raw!RastersFillPanel
  BY RawSizes DEF RawInv, RawHolds, RawStates, Raw!TypeOK, Raw!CapturesFitPanel
<1>4. QED BY <1>1, <1>2, <1>3, PTL DEF Raw!Spec

-------------------------------------------------------------------------------
(* The decoder of windows and cursors.                                     *)

StreamBytes == 0..(Modulus - 1)
StreamArgs == {a \in Seq(StreamBytes) : Len(a) < 4}
Sides == StreamBytes \X StreamBytes
Places == Nat \X Nat
Origins == [1..2 -> Int]
Latches == [byte : StreamBytes \cup {-1}, of : {"none", "this"}]

StreamStates ==
  [protocol : {"unknown", "parallel-2", "selector-4", "parallel-8", "direct"}, mode : {0, 1},
   command : Commands \cup {0}, args : StreamArgs, x : Sides, y : Sides, axes : SUBSET (1..4),
   panel : Places, proved : BOOLEAN, gram : Places, addressed : BOOLEAN, packed : 0..2,
   expected : Nat, streamed : Nat, cursor : Places, window : Places, origin : Origins,
   calibrated : SUBSET (1..2), latch : Latches, published : {"none", "part", "whole"},
   pixel : {"none", "window", "cursor"}, cause : {"none", "cursor"}, drawn : BOOLEAN,
   writes : Nat]

(* A place of the window is the count of those before it.                  *)
StreamFills(s) ==
  s.expected # 0 =>
    /\ s.expected = s.window[1] * s.window[2]
    /\ s.streamed = s.cursor[2] * s.window[1] + s.cursor[1]
    /\ s.streamed < s.expected /\ s.cursor[1] < s.window[1]

StreamRuns(s) == s \in StreamStates /\ StreamFills(s)

(* A stream into an addressed cursor was begun as a cursor's.              *)
StreamCaused(s) == s.command = \h22 /\ s.addressed => s.cause = "cursor"
StreamDrawn(s) == s.pixel = "cursor" => s.cause = "cursor"

StreamInv == StreamRuns(state) /\ StreamCaused(state) /\ StreamDrawn(state)

LEMMA StreamSizes ==
  ASSUME Stream!LcdStreamAssumption
  PROVE  /\ Modulus \in Nat /\ Modulus > 1 /\ StreamFirst \in Places /\ MinSpan \in Nat
         /\ Commands \subseteq 0..255 /\ 0 \in StreamBytes
BY DEF Stream!LcdStreamAssumption, Places, StreamBytes

LEMMA SpanPositive ==
  ASSUME Stream!LcdStreamAssumption, NEW axis \in Sides
  PROVE  Stream!Span(axis) \in Nat \ {0}
<1>1. axis[1] \in Int /\ axis[2] \in Int /\ axis[2] - axis[1] \in Int
  BY StreamSizes DEF Sides, StreamBytes
<1>2. (axis[2] - axis[1]) % Modulus \in 0..(Modulus - 1)
  BY <1>1, StreamSizes
<1>3. QED BY <1>2, StreamSizes DEF Stream!Span

LEMMA SpansPlaces ==
  ASSUME Stream!LcdStreamAssumption, NEW s \in StreamStates
  PROVE  /\ Stream!Spans(s) \in Places
         /\ Stream!Spans(s)[1] \in Nat \ {0} /\ Stream!Spans(s)[2] \in Nat \ {0}
<1>1. s.x \in Sides /\ s.y \in Sides
  BY DEF StreamStates
<1>2. QED BY <1>1, SpanPositive DEF Stream!Spans, Places

(* The fields a helper leaves alone keep what the invariant says of them.  *)
LEMMA PromotedRuns ==
  ASSUME Stream!LcdStreamAssumption, NEW s, StreamRuns(s), NEW dark \in BOOLEAN
  PROVE  LET t == Stream!Promoted(s, dark)
         IN StreamRuns(t) /\ t.command = s.command /\ t.addressed = s.addressed /\ t.pixel = s.pixel
              /\ t.cause = s.cause
<1> DEFINE t == Stream!Promoted(s, dark)
           spans == Stream!Spans(s)
           none == {}
<1>1. \/ t = s \/ t = [s EXCEPT !.proved = TRUE]
      \/ t = [s EXCEPT !.panel = spans, !.proved = TRUE, !.calibrated = none]
  BY DEF Stream!Promoted
<1>2. spans \in Places /\ s \in StreamStates /\ none \in SUBSET (1..2)
  BY SpansPlaces DEF StreamRuns
<1> HIDE DEF t, spans, none
<1>3. /\ t \in StreamStates /\ t.command = s.command /\ t.addressed = s.addressed
      /\ t.pixel = s.pixel /\ t.cause = s.cause /\ t.expected = s.expected
      /\ t.streamed = s.streamed /\ t.window = s.window /\ t.cursor = s.cursor
  <2>1. CASE t = s
    BY <1>2, <2>1
  <2>2. CASE t = [s EXCEPT !.proved = TRUE]
    BY <1>2, <2>2 DEF StreamStates
  <2>3. CASE t = [s EXCEPT !.panel = spans, !.proved = TRUE, !.calibrated = none]
    BY <1>2, <2>3 DEF StreamStates
  <2>4. QED BY <1>1, <2>1, <2>2, <2>3
<1>4. QED BY <1>3 DEF StreamRuns, StreamFills, t

LEMMA CalibratedStates ==
  ASSUME Stream!LcdStreamAssumption, NEW s \in StreamStates
  PROVE  LET t == Stream!Calibrated(s)
         IN t \in StreamStates /\ t.command = s.command /\ t.addressed = s.addressed
              /\ t.pixel = s.pixel /\ t.cause = s.cause
<1> DEFINE t == Stream!Calibrated(s)
           spans == Stream!Spans(s)
           start == <<s.x[1], s.y[1]>>
           exact == {a \in 1..2 : Stream!AllAxes(s) /\ spans[a] = s.panel[a]}
           wide  == {a \in 1..2 : Stream!AllAxes(s) /\ spans[a] > s.panel[a]} \ s.calibrated
           calibrated == s.calibrated \cup exact
           origin == [a \in 1..2 |->
                        IF a \in exact THEN start[a]
                        ELSE IF a \in wide THEN (start[a] + (spans[a] - s.panel[a]) \div 2) % Modulus
                        ELSE s.origin[a]]
<1>1. t = [s EXCEPT !.calibrated = calibrated, !.origin = origin]
  BY DEF Stream!Calibrated, StreamStates
<1>2. calibrated \in SUBSET (1..2)
  BY DEF StreamStates
<1>3. origin \in Origins
  <2>1. s.panel \in Places /\ s.origin \in Origins /\ s.x \in Sides /\ s.y \in Sides
    BY DEF StreamStates
  <2>2. ASSUME NEW a \in 1..2 PROVE spans[a] \in Int /\ s.panel[a] \in Int /\ start[a] \in Int
    <3>1. a = 1 \/ a = 2
      OBVIOUS
    <3>2. spans[a] \in Int
      <4> HIDE DEF spans
      <4>1. spans[1] \in Int /\ spans[2] \in Int
        BY SpansPlaces DEF spans
      <4>2. QED BY <3>1, <4>1
    <3>3. s.panel[a] \in Int /\ start[a] \in Int
      BY <2>1, <3>1, StreamSizes DEF Places, Sides, StreamBytes
    <3>4. QED BY <3>2, <3>3
  <2> HIDE DEF spans, start, exact, wide
  <2>3. ASSUME NEW a \in 1..2 PROVE (start[a] + (spans[a] - s.panel[a]) \div 2) % Modulus \in Int
    <3>1. (spans[a] - s.panel[a]) \div 2 \in Int
      BY <2>2
    <3>2. start[a] + (spans[a] - s.panel[a]) \div 2 \in Int
      BY <2>2, <3>1
    <3>3. QED BY <3>2, StreamSizes
  <2>4. QED BY <2>1, <2>2, <2>3 DEF Origins
<1> HIDE DEF t, spans, start, exact, wide, calibrated, origin
<1>4. QED BY <1>1, <1>2, <1>3 DEF StreamStates, t

LEMMA StartedRuns ==
  ASSUME Stream!LcdStreamAssumption, NEW s, StreamRuns(s), NEW dark \in BOOLEAN
  PROVE  LET t == Stream!Started(s, dark)
         IN StreamRuns(t) /\ t.command = s.command /\ t.addressed = s.addressed /\ t.pixel = s.pixel
              /\ t.cause = s.cause
<1> DEFINE t == Stream!Started(s, dark)
           base == IF Stream!AllAxes(s) /\ Stream!Smaller(s) THEN Stream!Promoted(s, dark) ELSE s
           sized == Stream!Calibrated(base)
           spans == Stream!Spans(s)
           area == spans[1] * spans[2]
           zero == <<0, 0>>
<1>1. t = [sized EXCEPT !.window = spans, !.cursor = zero, !.expected = area, !.streamed = 0]
  BY DEF Stream!Started
<1>2. StreamRuns(base) /\ base.command = s.command /\ base.addressed = s.addressed /\ base.pixel = s.pixel
        /\ base.cause = s.cause
  BY PromotedRuns
<1> HIDE DEF base
<1>3. sized \in StreamStates /\ sized.command = s.command /\ sized.addressed = s.addressed
        /\ sized.pixel = s.pixel /\ sized.cause = s.cause
  BY <1>2, CalibratedStates DEF StreamRuns
<1>4. spans \in Places /\ spans[1] \in Nat \ {0} /\ spans[2] \in Nat \ {0}
  BY SpansPlaces DEF StreamRuns
<1> HIDE DEF spans, sized
<1>5. area \in Nat /\ area > 0 /\ zero \in Places
  BY <1>4 DEF Places
<1> HIDE DEF area
<1>6. zero[1] = 0 /\ zero[2] = 0
  OBVIOUS
<1> HIDE DEF zero, t
<1>7. /\ t \in StreamStates /\ t.window = spans /\ t.cursor = zero /\ t.expected = area
      /\ t.streamed = 0 /\ t.command = s.command /\ t.addressed = s.addressed
      /\ t.pixel = s.pixel /\ t.cause = s.cause
  BY <1>1, <1>3, <1>4, <1>5 DEF StreamStates
<1>8. StreamFills(t)
  BY <1>4, <1>5, <1>6, <1>7 DEF StreamFills, area
<1>9. QED BY <1>7, <1>8 DEF StreamRuns, t

LEMMA ArgsFinishedRuns ==
  ASSUME NEW s, StreamRuns(s)
  PROVE  StreamRuns(Stream!ArgsFinished(s)) /\ Stream!ArgsFinished(s).pixel = s.pixel
<1> DEFINE t == Stream!ArgsFinished(s)
           two == <<s.args[1], s.args[2]>>
           wide == s.axes \cup {1, 2}
           high == s.axes \cup {3, 4}
<1>1. s \in StreamStates /\ s.args \in StreamArgs
  BY DEF StreamRuns, StreamStates
<1>2. \/ t = s
      \/ t = [s EXCEPT !.x = two, !.axes = wide] /\ Len(s.args) >= 2
      \/ t = [s EXCEPT !.y = two, !.axes = high] /\ Len(s.args) >= 2
  <2> DEFINE low == <<s.args[1], s.args[3]>>
             of  == IF Len(s.args) >= 4 THEN low ELSE two
  <2>1. of = two
    BY <1>1 DEF StreamArgs
  <2>2. t = CASE s.command \notin Stream!ByteWindow \/ Len(s.args) < 2 -> s
              [] s.command = \h15 /\ Len(s.args) >= 2 -> [s EXCEPT !.x = of, !.axes = @ \cup {1, 2}]
              [] OTHER -> [s EXCEPT !.y = of, !.axes = @ \cup {3, 4}]
    BY DEF Stream!ArgsFinished
  <2> HIDE DEF of, two, t
  <2>3. \/ t = s
        \/ t = [s EXCEPT !.x = of, !.axes = wide] /\ Len(s.args) >= 2
        \/ t = [s EXCEPT !.y = of, !.axes = high] /\ Len(s.args) >= 2
    <3>1. Len(s.args) < 2 \/ Len(s.args) >= 2
      BY <1>1 DEF StreamArgs
    <3>2. CASE s.command \notin Stream!ByteWindow \/ Len(s.args) < 2
      <4>1. ~(s.command = \h15 /\ Len(s.args) >= 2)
        BY <1>1, <3>2 DEF Stream!ByteWindow, StreamArgs
      <4>2. QED BY <2>2, <3>2, <4>1
    <3>3. CASE ~(s.command \notin Stream!ByteWindow \/ Len(s.args) < 2)
      <4>1. CASE s.command = \h15
        BY <2>2, <3>1, <3>3, <4>1
      <4>2. CASE s.command # \h15
        BY <2>2, <3>1, <3>3, <4>2
      <4>3. QED BY <4>1, <4>2
    <3>4. QED BY <3>2, <3>3
  <2>4. QED BY <2>1, <2>3
<1>3. Len(s.args) >= 2 => two \in Sides
  BY <1>1 DEF StreamArgs, Sides
<1>4. wide \in SUBSET (1..4) /\ high \in SUBSET (1..4)
  BY <1>1 DEF StreamStates
<1> HIDE DEF t, two, wide, high
<1>5. /\ t \in StreamStates /\ t.pixel = s.pixel /\ t.expected = s.expected
      /\ t.streamed = s.streamed /\ t.window = s.window /\ t.cursor = s.cursor
  <2>1. CASE t = s
    BY <1>1, <2>1
  <2>2. CASE t = [s EXCEPT !.x = two, !.axes = wide] /\ Len(s.args) >= 2
    BY <1>1, <1>3, <1>4, <2>2 DEF StreamStates
  <2>3. CASE t = [s EXCEPT !.y = two, !.axes = high] /\ Len(s.args) >= 2
    BY <1>1, <1>3, <1>4, <2>3 DEF StreamStates
  <2>4. QED BY <1>2, <2>1, <2>2, <2>3
<1>6. QED BY <1>5 DEF StreamRuns, StreamFills, t

LEMMA FrameFinishedRuns ==
  ASSUME NEW s, StreamRuns(s)
  PROVE  StreamRuns(Stream!FrameFinished(s)) /\ Stream!FrameFinished(s).pixel = s.pixel
<1> DEFINE t == Stream!FrameFinished(s)
<1>1. t = s \/ t = [s EXCEPT !.published = "part", !.expected = 0]
  BY DEF Stream!FrameFinished
<1> HIDE DEF t
<1>2. CASE t = s
  BY <1>2 DEF t
<1>3. CASE t = [s EXCEPT !.published = "part", !.expected = 0]
  <2>1. t \in StreamStates /\ t.pixel = s.pixel /\ t.expected = 0
    BY <1>3 DEF StreamRuns, StreamStates
  <2>2. QED BY <2>1 DEF StreamRuns, StreamFills, t
<1>4. QED BY <1>1, <1>2, <1>3

(* Another command: what the last one left undone is dropped or shown.     *)
LEMMA BegunRuns ==
  ASSUME Stream!LcdStreamAssumption, NEW s, StreamRuns(s), NEW command \in Commands, NEW dark \in BOOLEAN
  PROVE  LET t == Stream!Begun(s, command, dark)
         IN StreamRuns(t) /\ StreamCaused(t) /\ t.pixel = s.pixel
<1> DEFINE t     == Stream!Begun(s, command, dark)
           ended == Stream!FrameFinished(Stream!ArgsFinished(s))
           packed == IF command \in {\h20, \h21, \h22} THEN ended.packed ELSE 0
           none  == <<>>
           empty == [byte |-> -1, of |-> "none"]
           now   == [[ended EXCEPT !.command = command, !.args = none, !.cause = "none",
                                   !.packed = packed] EXCEPT !.latch = empty]
           bare  == Stream!Unaddressed(now)
<1>1. \/ t = Stream!Started(bare, dark)
      \/ t = [Stream!Promoted(now, dark) EXCEPT !.cause = "cursor"]
      \/ t = now /\ command \notin Stream!MemoryWrites
  <2>1. StreamRuns(ended)
    BY ArgsFinishedRuns, FrameFinishedRuns
  <2> DEFINE begun == Stream!Unlatched([ended EXCEPT !.command = command, !.args = <<>>, !.cause = "none",
                                  !.packed = IF command \in {\h20, \h21, \h22} THEN @ ELSE 0])
  <2>2. begun = now
    BY <2>1 DEF Stream!Unlatched, StreamRuns, StreamStates
  <2>3. \/ t = Stream!Started(Stream!Unaddressed(begun), dark)
        \/ t = [Stream!Promoted(begun, dark) EXCEPT !.cause = "cursor"]
        \/ t = begun /\ command \notin Stream!MemoryWrites
    <3> HIDE DEF begun
    <3>1. t = CASE command \in Stream!MemoryWrites /\ ~Stream!CursorStream(begun) ->
                     Stream!Started(Stream!Unaddressed(begun), dark)
                [] command \in Stream!MemoryWrites /\ Stream!CursorStream(begun) ->
                     [Stream!Promoted(begun, dark) EXCEPT !.cause = "cursor"]
                [] OTHER -> begun
      BY DEF Stream!Begun, begun
    <3>2. QED BY <3>1
  <2> HIDE DEF begun
  <2>4. QED BY <2>2, <2>3
<1>2. StreamRuns(ended) /\ ended.pixel = s.pixel
  BY ArgsFinishedRuns, FrameFinishedRuns
<1> HIDE DEF ended
<1>3. packed \in 0..2 /\ none \in StreamArgs /\ empty \in Latches
  BY <1>2 DEF StreamRuns, StreamStates, StreamArgs, Latches
<1> HIDE DEF packed, none, empty
<1>4. /\ now \in StreamStates /\ now.pixel = s.pixel /\ now.command = command
      /\ now.expected = ended.expected /\ now.streamed = ended.streamed
      /\ now.window = ended.window /\ now.cursor = ended.cursor
  BY <1>2, <1>3 DEF StreamRuns, StreamStates
<1>5. StreamRuns(now)
  BY <1>2, <1>4 DEF StreamRuns, StreamFills
<1> HIDE DEF now
<1>6. StreamRuns(bare) /\ bare.pixel = s.pixel /\ ~(bare.command = \h22 /\ bare.addressed)
  <2>1. \/ bare = [now EXCEPT !.addressed = FALSE]
        \/ bare = now /\ now.command # \h22
    BY DEF Stream!Unaddressed
  <2>2. now \in StreamStates
    BY <1>5 DEF StreamRuns
  <2> HIDE DEF bare
  <2>3. /\ bare \in StreamStates /\ bare.pixel = now.pixel /\ bare.expected = now.expected
        /\ bare.streamed = now.streamed /\ bare.window = now.window /\ bare.cursor = now.cursor
        /\ ~(bare.command = \h22 /\ bare.addressed)
    BY <2>1, <2>2 DEF StreamStates
  <2>4. QED BY <1>4, <1>5, <2>3 DEF StreamRuns, StreamFills
<1> HIDE DEF bare, t
<1>7. CASE t = Stream!Started(bare, dark)
  BY <1>6, <1>7, StartedRuns DEF StreamCaused, t
<1>8. CASE t = [Stream!Promoted(now, dark) EXCEPT !.cause = "cursor"]
  <2> DEFINE proved == Stream!Promoted(now, dark)
  <2>1. StreamRuns(proved) /\ proved.pixel = now.pixel
    BY <1>5, PromotedRuns
  <2>2. t = [proved EXCEPT !.cause = "cursor"]
    BY <1>8
  <2> HIDE DEF proved
  <2>3. /\ t \in StreamStates /\ t.pixel = proved.pixel /\ t.cause = "cursor"
        /\ t.expected = proved.expected /\ t.streamed = proved.streamed
        /\ t.window = proved.window /\ t.cursor = proved.cursor
    BY <2>1, <2>2 DEF StreamRuns, StreamStates
  <2>4. QED BY <1>4, <2>1, <2>3 DEF StreamRuns, StreamFills, StreamCaused, t
<1>9. CASE t = now /\ command \notin Stream!MemoryWrites
  <2>1. command # \h22
    BY <1>9 DEF Stream!MemoryWrites
  <2>2. QED BY <1>4, <1>5, <1>9, <2>1 DEF StreamCaused, t
<1>10. QED BY <1>1, <1>7, <1>8, <1>9

(* What the registers of an axis or an address may change.                 *)
StreamSame(s, t) ==
  /\ t.command = s.command /\ t.pixel = s.pixel /\ t.cause = s.cause /\ t.expected = s.expected
  /\ t.streamed = s.streamed /\ t.window = s.window /\ t.cursor = s.cursor

StreamValues == {Stream!Value(hi, lo) : hi, lo \in StreamBytes}

LEMMA ValueHalves ==
  ASSUME NEW value \in StreamValues
  PROVE  value.hi \in StreamBytes /\ value.lo \in StreamBytes
BY DEF StreamValues, Stream!Value

LEMMA CursorAtSame ==
  ASSUME NEW s \in StreamStates, NEW cursor \in Places
  PROVE  LET t == Stream!CursorAt(s, cursor) IN t \in StreamStates /\ StreamSame(s, t)
BY DEF Stream!CursorAt, StreamStates, StreamSame

LEMMA EdgeSetSame ==
  ASSUME NEW s \in StreamStates, NEW edge \in 1..4, NEW value \in StreamValues
  PROVE  LET t == Stream!EdgeSet(s, edge, value) IN t \in StreamStates /\ StreamSame(s, t)
<1> DEFINE t == Stream!EdgeSet(s, edge, value)
           x == IF edge \in {1, 2} THEN [s.x EXCEPT ![edge] = value.lo] ELSE s.x
           y == IF edge \in {3, 4} THEN [s.y EXCEPT ![edge - 2] = value.lo] ELSE s.y
           axes == s.axes \cup {edge}
<1>1. t = [s EXCEPT !.x = x, !.y = y, !.axes = axes]
  BY DEF Stream!EdgeSet, StreamStates
<1>2. value.lo \in StreamBytes /\ s.x \in Sides /\ s.y \in Sides
  BY ValueHalves DEF StreamStates
<1>3. x \in Sides /\ y \in Sides
  <2> DEFINE lo == value.lo
  <2>1. ASSUME NEW side \in Sides, NEW half \in {1, 2}, NEW byte \in StreamBytes
        PROVE  [side EXCEPT ![half] = byte] \in Sides
    BY <2>1 DEF Sides
  <2>2. edge \in {3, 4} => edge - 2 \in {1, 2}
    OBVIOUS
  <2>3. QED BY <1>2, <2>1, <2>2
<1>4. axes \in SUBSET (1..4)
  BY DEF StreamStates
<1> HIDE DEF t, x, y, axes
<1>5. t \in StreamStates /\ StreamSame(s, t)
  BY <1>1, <1>3, <1>4 DEF StreamStates, StreamSame
<1>6. QED BY <1>5 DEF t

LEMMA AxisSetSame ==
  ASSUME Stream!LcdStreamAssumption, NEW s \in StreamStates, NEW value \in StreamValues
  PROVE  LET t == Stream!AxisSet(s, value) IN t \in StreamStates /\ StreamSame(s, t)
<1> DEFINE t == Stream!AxisSet(s, value)
           c == s.command
           edge == CHOOSE e \in 1..4 : Stream!Edges[e] = c
           pair == <<value.lo, value.hi>>
           wide == s.axes \cup {1, 2}
           high == s.axes \cup {3, 4}
           first == IF Stream!PackedWindow(s, value) THEN 1 ELSE 0
           second == IF s.packed = 1 /\ value = Stream!Value(0, 0) THEN 2 ELSE 0
           third == IF s.packed = 2 /\ value.hi # 0 THEN 0 ELSE s.packed
           column == <<Stream!Coordinate(value), s.gram[2]>>
           row == <<s.gram[1], Stream!Coordinate(value)>>
<1>1. value.hi \in StreamBytes /\ value.lo \in StreamBytes /\ value.hi \in Nat /\ value.lo \in Nat
        /\ Stream!Coordinate(value) \in Nat
  BY ValueHalves, StreamSizes DEF StreamBytes, Stream!Coordinate
<1>2. /\ pair \in Sides /\ wide \in SUBSET (1..4) /\ high \in SUBSET (1..4) /\ first \in 0..2
      /\ second \in 0..2 /\ third \in 0..2 /\ column \in Places /\ row \in Places
      /\ <<value.lo, value.hi>> \in Places
  BY <1>1 DEF StreamStates, Sides, Places
<1> DEFINE at(place) == Stream!CursorAt(s, place)
<1>3. \/ t = [s EXCEPT !.x = pair, !.axes = wide]
      \/ t = [s EXCEPT !.y = pair, !.axes = high]
      \/ t = Stream!EdgeSet(s, edge, value) /\ \E e \in 1..4 : Stream!Edges[e] = c
      \/ t = [s EXCEPT !.packed = first]
      \/ t = [at(column) EXCEPT !.packed = second]
      \/ t = at(pair)
      \/ t = [at(row) EXCEPT !.packed = third]
  <2> DEFINE other == IF s.packed = 2 /\ value.hi # 0 THEN 0 ELSE at(row).packed
  <2>1. at(row).packed = s.packed
    BY DEF Stream!CursorAt, StreamStates
  <2>2. other = third
    BY <2>1
  <2>3. [at(row) EXCEPT !.packed = IF s.packed = 2 /\ value.hi # 0 THEN 0 ELSE @] = [at(row) EXCEPT !.packed = other]
    OBVIOUS
  <2> DEFINE last == [at(row) EXCEPT !.packed = IF s.packed = 2 /\ value.hi # 0 THEN 0 ELSE @]
             A == c = \h16
             B == c = \h17
             C == \E e \in 1..4 : Stream!Edges[e] = c
             D == c = \h05
             E == c = \h20
             F == c = \h21 /\ s.packed = 2 /\ value.hi # 0 /\ value.lo < s.panel[1] /\ value.hi < s.panel[2]
             a == [s EXCEPT !.x = pair, !.axes = wide]
             b == [s EXCEPT !.y = pair, !.axes = high]
             d == [s EXCEPT !.packed = first]
             e2 == [at(column) EXCEPT !.packed = second]
             g == Stream!EdgeSet(s, edge, value)
  <2>4. t = CASE A -> a [] B -> b [] C -> g [] D -> d [] E -> e2 [] F -> at(pair) [] OTHER -> last
    BY DEF Stream!AxisSet
  <2>5. last = [at(row) EXCEPT !.packed = third]
    BY <2>2, <2>3
  <2>6. t = a \/ t = b \/ (t = g /\ C) \/ t = d \/ t = e2 \/ t = at(pair) \/ t = last
    <3> HIDE DEF a, b, d, e2, g, last, A, B, C, D, E, F, t, at
    <3>1. QED BY <2>4
  <2>7. QED BY <2>5, <2>6
<1>4. CASE t = [s EXCEPT !.x = pair, !.axes = wide]
  <2> HIDE DEF t, pair, wide
  <2>1. QED BY <1>2, <1>4 DEF StreamStates, StreamSame, t
<1>5. CASE t = [s EXCEPT !.y = pair, !.axes = high]
  <2> HIDE DEF t, pair, high
  <2>1. QED BY <1>2, <1>5 DEF StreamStates, StreamSame, t
<1>6. CASE t = Stream!EdgeSet(s, edge, value) /\ \E e \in 1..4 : Stream!Edges[e] = c
  <2>1. edge \in 1..4
    BY <1>6
  <2> HIDE DEF edge
  <2>2. Stream!EdgeSet(s, edge, value) \in StreamStates /\ StreamSame(s, Stream!EdgeSet(s, edge, value))
    BY <2>1, EdgeSetSame
  <2>3. QED BY <1>6, <2>2
<1>7. CASE t = [s EXCEPT !.packed = first]
  <2> HIDE DEF t, first
  <2>1. QED BY <1>2, <1>7 DEF StreamStates, StreamSame, t
<1>8. ASSUME NEW place \in Places, NEW packed \in 0..2, t = [at(place) EXCEPT !.packed = packed]
      PROVE  t \in StreamStates /\ StreamSame(s, t)
  <2>1. at(place) \in StreamStates /\ StreamSame(s, at(place))
    BY CursorAtSame
  <2> HIDE DEF at, t
  <2>2. QED BY <1>8, <2>1 DEF StreamStates, StreamSame
<1>9. CASE t = [at(column) EXCEPT !.packed = second]
  <2> HIDE DEF t, column, second, at
  <2>1. QED BY <1>2, <1>8, <1>9 DEF t
<1>10. CASE t = at(pair)
  BY <1>2, <1>10, CursorAtSame
<1>11. CASE t = [at(row) EXCEPT !.packed = third]
  <2> HIDE DEF t, row, third, at
  <2>1. QED BY <1>2, <1>8, <1>11 DEF t
<1>12. QED BY <1>3, <1>4, <1>5, <1>6, <1>7, <1>9, <1>10, <1>11

LEMMA ArgFedSame ==
  ASSUME Stream!LcdStreamAssumption, NEW s \in StreamStates, NEW value \in StreamValues
  PROVE  LET t == Stream!ArgFed(s, value) IN t \in StreamStates /\ StreamSame(s, t)
<1> DEFINE t == Stream!ArgFed(s, value)
           new == IF s.command \in Stream!WordWindow THEN <<value.hi, value.lo>> ELSE <<value.lo>>
           args == s.args \o new
           pair == <<args[2], args[4]>>
           none == <<>>
           wide == s.axes \cup {1, 2}
           high == s.axes \cup {3, 4}
           short == Len(args) < 4
           side == s.command \in {\h15, \h2A}
<1>1. value.hi \in StreamBytes /\ value.lo \in StreamBytes /\ s.args \in Seq(StreamBytes)
  BY ValueHalves DEF StreamStates, StreamArgs
<1>2. new \in Seq(StreamBytes)
  BY <1>1
<1>3. args \in Seq(StreamBytes) /\ Len(args) \in Nat
  <2> HIDE DEF new
  <2>1. args \in Seq(StreamBytes)
    BY <1>1, <1>2
  <2> HIDE DEF args
  <2>2. QED BY <2>1
<1>4. short => args \in StreamArgs
  BY <1>3 DEF StreamArgs
<1>5. ~short => pair \in Sides
  <2> HIDE DEF args
  <2>1. QED BY <1>3 DEF Sides
<1>6. wide \in SUBSET (1..4) /\ high \in SUBSET (1..4) /\ none \in StreamArgs
  BY DEF StreamStates, StreamArgs
<1>7. \/ short /\ t = [s EXCEPT !.args = args]
      \/ ~short /\ t = [s EXCEPT !.args = none, !.x = pair, !.axes = wide]
      \/ ~short /\ t = [s EXCEPT !.args = none, !.y = pair, !.axes = high]
  <2>1. ~short <=> Len(args) >= 4
    <3> HIDE DEF args
    <3>1. QED BY <1>3
  <2> DEFINE a == [s EXCEPT !.args = args]
             b == [s EXCEPT !.args = none, !.x = pair, !.axes = wide]
             c == [s EXCEPT !.args = none, !.y = pair, !.axes = high]
             long == Len(args) >= 4
  <2>2. t = CASE short -> a [] long /\ side -> b [] OTHER -> c
    BY DEF Stream!ArgFed
  <2> HIDE DEF a, b, c, t, short, side, long
  <2>3. (short /\ t = a) \/ (~short /\ t = b) \/ (~short /\ t = c)
    BY <2>1, <2>2 DEF long
  <2>4. QED BY <2>3 DEF a, b, c
<1> HIDE DEF t, args, pair, none, wide, high, short
<1>8. CASE short /\ t = [s EXCEPT !.args = args]
  BY <1>4, <1>8 DEF StreamStates, StreamSame, t
<1>9. CASE ~short /\ t = [s EXCEPT !.args = none, !.x = pair, !.axes = wide]
  <2>1. t \in StreamStates /\ StreamSame(s, t)
    BY <1>5, <1>6, <1>9 DEF StreamStates, StreamSame
  <2>2. QED BY <2>1 DEF t
<1>10. CASE ~short /\ t = [s EXCEPT !.args = none, !.y = pair, !.axes = high]
  <2>1. t \in StreamStates /\ StreamSame(s, t)
    BY <1>5, <1>6, <1>10 DEF StreamStates, StreamSame
  <2>2. QED BY <2>1 DEF t
<1>11. QED BY <1>7, <1>8, <1>9, <1>10

LEMMA GramPixelRuns ==
  ASSUME NEW s, StreamRuns(s), s.cause = "cursor"
  PROVE  LET t == Stream!GramPixel(s) IN StreamRuns(t) /\ StreamCaused(t) /\ StreamDrawn(t)
<1> DEFINE t == Stream!GramPixel(s)
           next == s.gram[1] + 1
           gram == IF next >= s.panel[1] THEN <<0, s.gram[2] + 1>> ELSE <<next, s.gram[2]>>
<1>1. t = [s EXCEPT !.gram = gram, !.pixel = "cursor"]
  BY DEF Stream!GramPixel, StreamRuns, StreamStates
<1>2. gram \in Places
  <2>1. s.gram \in Places
    BY DEF StreamRuns, StreamStates
  <2>2. s.gram[1] \in Nat /\ s.gram[2] \in Nat
    BY <2>1 DEF Places
  <2>3. <<0, s.gram[2] + 1>> \in Places /\ <<next, s.gram[2]>> \in Places
    BY <2>2 DEF Places
  <2>4. QED BY <2>3
<1> HIDE DEF t, gram
<1>3. /\ t \in StreamStates /\ t.cause = s.cause /\ t.expected = s.expected
      /\ t.streamed = s.streamed /\ t.window = s.window /\ t.cursor = s.cursor
  BY <1>1, <1>2 DEF StreamRuns, StreamStates
<1>4. QED BY <1>3 DEF StreamRuns, StreamFills, StreamCaused, StreamDrawn, t

(* A pixel moves the place of the next one as it moves the count.          *)
LEMMA WindowPixelRuns ==
  ASSUME NEW s, StreamRuns(s), StreamCaused(s), s.expected # 0
  PROVE  LET t == Stream!WindowPixel(s) IN StreamRuns(t) /\ StreamCaused(t) /\ StreamDrawn(t)
<1> DEFINE t == Stream!WindowPixel(s)
           next == s.cursor[1] + 1
           cursor == IF next >= s.window[1] THEN <<0, s.cursor[2] + 1>> ELSE <<next, s.cursor[2]>>
           streamed == s.streamed + 1
           fed == [s EXCEPT !.cursor = cursor, !.streamed = streamed, !.pixel = "window"]
<1>1. s \in StreamStates /\ s.window \in Places /\ s.cursor \in Places /\ s.expected \in Nat
        /\ s.streamed \in Nat
  BY DEF StreamRuns, StreamStates
<1>2. s.window[1] \in Nat /\ s.window[2] \in Nat /\ s.cursor[1] \in Nat /\ s.cursor[2] \in Nat
  BY <1>1 DEF Places
<1>3. cursor \in Places /\ streamed \in Nat
  <2>1. <<0, s.cursor[2] + 1>> \in Places /\ <<next, s.cursor[2]>> \in Places
    BY <1>2 DEF Places
  <2>2. QED BY <1>1, <2>1
<1>4. cursor[1] < s.window[1] /\ streamed = cursor[2] * s.window[1] + cursor[1]
  <2>1. /\ s.streamed = s.cursor[2] * s.window[1] + s.cursor[1] /\ s.cursor[1] < s.window[1]
    BY DEF StreamRuns, StreamFills
  <2>2. CASE next >= s.window[1]
    <3>1. cursor[1] = 0 /\ cursor[2] = s.cursor[2] + 1 /\ s.window[1] = next
      BY <1>2, <2>1, <2>2
    <3>2. (s.cursor[2] + 1) * s.window[1] = s.cursor[2] * s.window[1] + s.window[1]
      BY <1>2
    <3> HIDE DEF cursor
    <3>3. QED BY <1>2, <2>1, <3>1, <3>2
  <2>3. CASE ~(next >= s.window[1])
    <3>1. cursor[1] = next /\ cursor[2] = s.cursor[2]
      BY <2>3
    <3> HIDE DEF cursor
    <3>2. QED BY <1>2, <2>1, <2>3, <3>1
  <2>4. QED BY <2>2, <2>3
<1>5. t = IF fed.streamed >= fed.expected THEN [fed EXCEPT !.published = "whole", !.expected = 0] ELSE fed
  BY <1>1 DEF Stream!WindowPixel, StreamStates
<1> HIDE DEF cursor, streamed
<1>6. /\ fed \in StreamStates /\ fed.pixel = "window" /\ fed.command = s.command
      /\ fed.addressed = s.addressed /\ fed.cause = s.cause /\ fed.expected = s.expected
      /\ fed.streamed = streamed /\ fed.window = s.window /\ fed.cursor = cursor
  BY <1>1, <1>3 DEF StreamStates
<1> HIDE DEF fed, t
<1>7. CASE ~(fed.streamed >= fed.expected)
  <2>1. t = fed
    BY <1>5, <1>7
  <2>2. StreamFills(fed)
    BY <1>1, <1>3, <1>4, <1>6, <1>7 DEF StreamRuns, StreamFills
  <2>3. QED BY <1>6, <2>1, <2>2 DEF StreamRuns, StreamCaused, StreamDrawn, t
<1>8. CASE fed.streamed >= fed.expected
  <2>1. t = [fed EXCEPT !.published = "whole", !.expected = 0]
    BY <1>5, <1>8
  <2>2. /\ t \in StreamStates /\ t.expected = 0 /\ t.pixel = fed.pixel /\ t.command = fed.command
        /\ t.addressed = fed.addressed /\ t.cause = fed.cause
    BY <1>6, <2>1 DEF StreamStates
  <2>3. QED BY <1>6, <2>2 DEF StreamRuns, StreamFills, StreamCaused, StreamDrawn, t
<1>9. QED BY <1>7, <1>8

LEMMA SameRuns ==
  ASSUME NEW s, StreamRuns(s), s.pixel = "none", s.command # \h22, NEW t \in StreamStates, StreamSame(s, t)
  PROVE  StreamRuns(t) /\ StreamCaused(t) /\ StreamDrawn(t)
BY DEF StreamRuns, StreamFills, StreamSame, StreamCaused, StreamDrawn

LEMMA FedRuns ==
  ASSUME Stream!LcdStreamAssumption, NEW s, StreamRuns(s), StreamCaused(s), s.pixel = "none",
         NEW value \in StreamValues
  PROVE  LET t == Stream!Fed(s, value) IN StreamRuns(t) /\ StreamCaused(t) /\ StreamDrawn(t)
<1> DEFINE t == Stream!Fed(s, value)
           addressed == s.protocol = "parallel-2" /\ s.command = \h22 /\ s.addressed
           streams == s.command \in Stream!MemoryWrites
           axis == s.command \in Stream!AxisCommands
           taken == Stream!Taken(s, value)
           packed == s.command = \h05
           window == s.command \in Stream!ByteWindow \cup Stream!WordWindow
           pixel == IF s.expected = 0 THEN s ELSE Stream!WindowPixel(s)
           unpacked == [s EXCEPT !.packed = 0]
<1>1. t = CASE addressed -> Stream!GramPixel(s)
            [] ~addressed /\ streams -> pixel
            [] axis /\ taken -> Stream!AxisSet(s, value)
            [] packed /\ ~taken -> unpacked
            [] window -> Stream!ArgFed(s, value)
            [] OTHER -> s
  BY DEF Stream!Fed
<1>2. \/ t = Stream!GramPixel(s) /\ addressed
      \/ t = pixel
      \/ t = Stream!AxisSet(s, value) /\ axis
      \/ t = unpacked
      \/ t = Stream!ArgFed(s, value) /\ window
      \/ t = s
  <2> HIDE DEF t, addressed, streams, axis, taken, packed, window, pixel, unpacked
  <2>1. QED BY <1>1
<1>3. CASE t = Stream!GramPixel(s) /\ addressed
  <2>1. s.cause = "cursor"
    BY <1>3 DEF StreamCaused
  <2>2. QED BY <1>3, <2>1, GramPixelRuns
<1>4. CASE t = pixel
  <2>1. CASE s.expected = 0
    BY <1>4, <2>1 DEF StreamDrawn
  <2>2. CASE s.expected # 0
    BY <1>4, <2>2, WindowPixelRuns
  <2>3. QED BY <2>1, <2>2
<1>5. CASE t = Stream!AxisSet(s, value) /\ axis
  <2>1. s.command # \h22
    <3>1. ASSUME NEW e \in 1..4 PROVE Stream!Edges[e] \in {\h50, \h51, \h52, \h53}
      BY DEF Stream!Edges
    <3>2. QED BY <1>5, <3>1 DEF Stream!AxisCommands
  <2>2. t \in StreamStates /\ StreamSame(s, t)
    BY <1>5, AxisSetSame DEF StreamRuns
  <2> HIDE DEF t
  <2>3. QED BY <2>1, <2>2, SameRuns DEF t
<1>6. CASE t = unpacked
  <2> HIDE DEF t
  <2>1. /\ t \in StreamStates /\ StreamSame(s, t) /\ t.addressed = s.addressed
    BY <1>6 DEF StreamRuns, StreamStates, StreamSame
  <2>2. QED BY <2>1 DEF StreamRuns, StreamFills, StreamSame, StreamCaused, StreamDrawn, t
<1>7. CASE t = Stream!ArgFed(s, value) /\ window
  <2>1. s.command # \h22
    BY <1>7 DEF Stream!ByteWindow, Stream!WordWindow
  <2>2. t \in StreamStates /\ StreamSame(s, t)
    BY <1>7, ArgFedSame DEF StreamRuns
  <2> HIDE DEF t
  <2>3. QED BY <2>1, <2>2, SameRuns DEF t
<1>8. CASE t = s
  BY <1>8 DEF StreamDrawn
<1>9. QED BY <1>2, <1>3, <1>4, <1>5, <1>6, <1>7, <1>8

(* Two bytes of one command make a pixel.                                  *)
LEMMA HalfFedRuns ==
  ASSUME Stream!LcdStreamAssumption, NEW s, StreamRuns(s), StreamCaused(s), s.pixel = "none",
         NEW byte \in StreamBytes
  PROVE  LET t == Stream!HalfFed(s, byte) IN StreamRuns(t) /\ StreamCaused(t) /\ StreamDrawn(t)
<1> DEFINE t == Stream!HalfFed(s, byte)
           half == [byte |-> byte, of |-> "this"]
           empty == [byte |-> -1, of |-> "none"]
<1>1. half \in Latches /\ empty \in Latches /\ s \in StreamStates /\ s.latch \in Latches
  BY DEF Latches, StreamRuns, StreamStates
<1>2. ASSUME NEW latch \in Latches
      PROVE  LET u == [s EXCEPT !.latch = latch]
             IN StreamRuns(u) /\ StreamCaused(u) /\ StreamDrawn(u) /\ u.pixel = "none"
  <2> DEFINE u == [s EXCEPT !.latch = latch]
  <2>1. /\ u \in StreamStates /\ StreamSame(s, u) /\ u.addressed = s.addressed
    BY <1>1 DEF StreamStates, StreamSame
  <2> HIDE DEF u
  <2>2. QED BY <2>1 DEF StreamRuns, StreamFills, StreamSame, StreamCaused, StreamDrawn, u
<1>3. CASE s.latch.byte = -1
  <2>1. t = [s EXCEPT !.latch = half]
    BY <1>3 DEF Stream!HalfFed
  <2> HIDE DEF t, half
  <2>2. QED BY <1>1, <1>2, <2>1 DEF t
<1>4. CASE s.latch.byte # -1
  <2> DEFINE free == [s EXCEPT !.latch = empty]
             value == Stream!Value(s.latch.byte, byte)
             fed == Stream!Fed(free, value)
             drawn == IF s.latch.of = "earlier" THEN "broken" ELSE fed.pixel
  <2>1. t = [fed EXCEPT !.pixel = drawn]
    BY <1>4 DEF Stream!HalfFed, Stream!Unlatched
  <2>2. value \in StreamValues
    <3>1. s.latch.byte \in StreamBytes
      BY <1>1, <1>4 DEF Latches
    <3>2. QED BY <3>1 DEF StreamValues
  <2>3. StreamRuns(free) /\ StreamCaused(free) /\ free.pixel = "none"
    <3> HIDE DEF empty
    <3>1. QED BY <1>1, <1>2
  <2> HIDE DEF free, value
  <2>4. StreamRuns(fed) /\ StreamCaused(fed) /\ StreamDrawn(fed)
    BY <2>2, <2>3, FedRuns
  <2>5. drawn = fed.pixel
    BY <1>1 DEF Latches
  <2> HIDE DEF drawn, fed, t
  <2>6. /\ t \in StreamStates /\ StreamSame(fed, t) /\ t.addressed = fed.addressed
    BY <2>1, <2>4, <2>5 DEF StreamRuns, StreamStates, StreamSame
  <2>7. QED BY <2>4, <2>6 DEF StreamRuns, StreamFills, StreamSame, StreamCaused, StreamDrawn, t
<1>5. QED BY <1>3, <1>4

LEMMA StepRuns ==
  ASSUME NEW s, StreamRuns(s), StreamCaused(s)
  PROVE  LET t == Stream!Step(s) IN StreamRuns(t) /\ StreamCaused(t) /\ t.pixel = "none"
<1> DEFINE t == Stream!Step(s)
           drawn == s.drawn \/ s.pixel # "none"
           writes == s.writes + 1
<1>1. s \in StreamStates
  BY DEF StreamRuns
<1>2. t = [s EXCEPT !.published = "none", !.pixel = "none", !.writes = writes, !.drawn = drawn]
  BY <1>1 DEF Stream!Step, StreamStates
<1>3. drawn \in BOOLEAN /\ writes \in Nat
  BY <1>1 DEF StreamStates
<1> HIDE DEF t, drawn, writes
<1>4. /\ t \in StreamStates /\ t.pixel = "none" /\ t.command = s.command
      /\ t.addressed = s.addressed /\ t.cause = s.cause /\ t.expected = s.expected
      /\ t.streamed = s.streamed /\ t.window = s.window /\ t.cursor = s.cursor
  BY <1>1, <1>2, <1>3 DEF StreamStates
<1>5. QED BY <1>4 DEF StreamRuns, StreamFills, StreamCaused, t

StreamProtocols == {"unknown", "parallel-2", "selector-4", "parallel-8", "direct"}

LEMMA RoutedRuns ==
  ASSUME NEW s, StreamRuns(s), StreamCaused(s), NEW protocol \in StreamProtocols
  PROVE  LET t == [s EXCEPT !.protocol = protocol]
         IN StreamRuns(t) /\ StreamCaused(t) /\ t.pixel = s.pixel
<1> DEFINE t == [s EXCEPT !.protocol = protocol]
<1>1. t \in StreamStates /\ StreamSame(s, t) /\ t.addressed = s.addressed
  BY DEF StreamRuns, StreamStates, StreamSame, StreamProtocols
<1> HIDE DEF t
<1>2. QED BY <1>1 DEF StreamRuns, StreamFills, StreamSame, StreamCaused, t

LEMMA ModeRuns ==
  ASSUME NEW s, StreamRuns(s), StreamCaused(s), NEW protocol \in StreamProtocols, NEW mode \in {0, 1}
  PROVE  LET t == [s EXCEPT !.mode = mode, !.protocol = protocol]
         IN StreamRuns(t) /\ StreamCaused(t) /\ t.pixel = s.pixel
<1> DEFINE t == [s EXCEPT !.mode = mode, !.protocol = protocol]
<1>1. t \in StreamStates /\ StreamSame(s, t) /\ t.addressed = s.addressed
  BY DEF StreamRuns, StreamStates, StreamSame, StreamProtocols
<1> HIDE DEF t
<1>2. QED BY <1>1 DEF StreamRuns, StreamFills, StreamSame, StreamCaused, t

LEMMA StreamCommand ==
  ASSUME Stream!LcdStreamAssumption, StreamInv, Stream!WriteCommand
  PROVE  StreamInv'
<1> DEFINE s == Stream!Step(state)
<1>1. StreamRuns(s) /\ StreamCaused(s) /\ s.pixel = "none"
  BY StepRuns DEF StreamInv
<1>2. PICK transport \in Stream!Transports \cup {"028+4"}, command \in Commands,
           dark \in Stream!Dark(state) :
        LET protocol == CASE transport = "028" -> IF s.protocol = "parallel-2" THEN s.protocol ELSE "direct"
                          [] transport = "028+8" -> "parallel-8"
                          [] transport \in {"020+4", "028+4"} -> s.protocol
                          [] OTHER -> "parallel-2"
        IN state' = Stream!Begun([s EXCEPT !.protocol = protocol], command, dark)
  BY DEF Stream!WriteCommand
<1> DEFINE protocol == CASE transport = "028" -> IF s.protocol = "parallel-2" THEN s.protocol ELSE "direct"
                         [] transport = "028+8" -> "parallel-8"
                         [] transport \in {"020+4", "028+4"} -> s.protocol
                         [] OTHER -> "parallel-2"
           routed == [s EXCEPT !.protocol = protocol]
<1>3. protocol \in StreamProtocols
  <2>1. s.protocol \in StreamProtocols
    BY <1>1 DEF StreamRuns, StreamStates, StreamProtocols
  <2> HIDE DEF s
  <2>2. QED BY <2>1 DEF StreamProtocols
<1>4. state' = Stream!Begun(routed, command, dark)
  BY <1>2
<1> HIDE DEF s, protocol
<1>5. StreamRuns(routed) /\ routed.pixel = "none"
  BY <1>1, <1>3, RoutedRuns
<1> HIDE DEF routed
<1>6. dark \in BOOLEAN
  BY DEF Stream!Dark
<1>7. StreamRuns(state') /\ StreamCaused(state') /\ state'.pixel = "none"
  BY <1>4, <1>5, <1>6, BegunRuns
<1>8. QED BY <1>7 DEF StreamInv, StreamDrawn, StreamRuns, StreamFills, StreamCaused

LEMMA StreamMode ==
  ASSUME Stream!LcdStreamAssumption, StreamInv, Stream!SelectMode
  PROVE  StreamInv'
<1> DEFINE s == Stream!Step(state)
<1>1. StreamRuns(s) /\ StreamCaused(s) /\ s.pixel = "none"
  BY StepRuns DEF StreamInv
<1>2. PICK transport \in {"020+4", "028"}, mode \in {0, 1} :
        state' = [s EXCEPT !.mode = mode, !.protocol = IF transport = "020+4" THEN "selector-4" ELSE @]
  BY DEF Stream!SelectMode
<1> DEFINE protocol == IF transport = "020+4" THEN "selector-4" ELSE s.protocol
<1> HIDE DEF s
<1>3. protocol \in StreamProtocols /\ s \in StreamStates
  BY <1>1 DEF StreamRuns, StreamStates, StreamProtocols
<1>4. state' = [s EXCEPT !.mode = mode, !.protocol = protocol]
  BY <1>2, <1>3 DEF StreamStates
<1> HIDE DEF protocol
<1>5. StreamRuns(state') /\ StreamCaused(state') /\ state'.pixel = "none"
  BY <1>1, <1>3, <1>4, ModeRuns
<1>6. QED BY <1>5 DEF StreamInv, StreamDrawn, StreamRuns, StreamFills, StreamCaused

LEMMA StreamData ==
  ASSUME Stream!LcdStreamAssumption, StreamInv, Stream!WriteData
  PROVE  StreamInv'
<1> DEFINE s == Stream!Step(state)
<1>1. StreamRuns(s) /\ StreamCaused(s) /\ s.pixel = "none"
  BY StepRuns DEF StreamInv
<1>2. PICK transport \in Stream!Transports, size \in {1, 2}, value \in Stream!Values :
        LET protocol == CASE transport = "020+4" /\ s.protocol = "selector-4" -> "selector-4"
                          [] transport = "028" -> s.protocol
                          [] transport = "028+8" -> "parallel-8"
                          [] OTHER -> "parallel-2"
            routed == [s EXCEPT !.protocol = protocol]
        IN state' = IF transport = "028" THEN Stream!Fed(routed, value)
                    ELSE Stream!ParallelFed(routed, size, value)
  BY DEF Stream!WriteData
<1> DEFINE protocol == CASE transport = "020+4" /\ s.protocol = "selector-4" -> "selector-4"
                         [] transport = "028" -> s.protocol
                         [] transport = "028+8" -> "parallel-8"
                         [] OTHER -> "parallel-2"
           routed == [s EXCEPT !.protocol = protocol]
<1>3. protocol \in StreamProtocols
  <2>1. s.protocol \in StreamProtocols
    BY <1>1 DEF StreamRuns, StreamStates, StreamProtocols
  <2> HIDE DEF s
  <2>2. QED BY <2>1 DEF StreamProtocols
<1>4. state' = IF transport = "028" THEN Stream!Fed(routed, value)
               ELSE Stream!ParallelFed(routed, size, value)
  BY <1>2
<1> HIDE DEF s, protocol
<1>5. StreamRuns(routed) /\ StreamCaused(routed) /\ routed.pixel = "none"
  BY <1>1, <1>3, RoutedRuns
<1> HIDE DEF routed
<1>6. value \in StreamValues /\ value.lo \in StreamBytes
  BY ValueHalves DEF StreamValues, Stream!Values, Stream!Bytes, StreamBytes
<1>7. state' = Stream!Fed(routed, value) \/ state' = Stream!HalfFed(routed, value.lo)
  BY <1>4 DEF Stream!ParallelFed
<1>8. StreamRuns(state') /\ StreamCaused(state') /\ StreamDrawn(state')
  BY <1>5, <1>6, <1>7, FedRuns, HalfFedRuns
<1>9. QED BY <1>8 DEF StreamInv, StreamDrawn, StreamRuns, StreamFills, StreamCaused

(* _lcd_begin_command, _lcd_feed_parallel_data, _lcd_direct_data: a stream *)
(* fills its window, place by place, in whole pixels of one command each,  *)
(* and draws at a cursor only if it was begun as a cursor's.               *)
THEOREM StreamsFillTheirWindow ==
  ASSUME Stream!LcdStreamAssumption
  PROVE  Stream!Spec => [](/\ Stream!TypeOK /\ Stream!StreamFillsWindow
                           /\ Stream!PixelsAreWhole /\ Stream!StaleCursorIsUnused)
<1>1. Stream!Init => StreamInv
  <2>1. SUFFICES ASSUME Stream!Init PROVE StreamInv
    OBVIOUS
  <2> DEFINE x == <<0, (StreamFirst[1] - 1) % Modulus>>
             y == <<0, (StreamFirst[2] - 1) % Modulus>>
             zero == <<0, 0>>
             none == {}
             args == <<>>
             empty == [byte |-> -1, of |-> "none"]
  <2>2. state = [protocol |-> "unknown", mode |-> 0, command |-> 0, args |-> args,
               x |-> x, y |-> y, axes |-> none,
               panel |-> StreamFirst, proved |-> FALSE, gram |-> zero, addressed |-> FALSE, packed |-> 0,
               expected |-> 0, streamed |-> 0, cursor |-> zero, window |-> StreamFirst,
               origin |-> zero, calibrated |-> none, latch |-> empty,
               published |-> "none", pixel |-> "none", cause |-> "none", drawn |-> FALSE, writes |-> 0]
    BY <2>1 DEF Stream!Init
  <2>3. x \in Sides /\ y \in Sides
    <3>1. StreamFirst[1] - 1 \in Int /\ StreamFirst[2] - 1 \in Int
      BY StreamSizes DEF Places
    <3>2. (StreamFirst[1] - 1) % Modulus \in StreamBytes /\ (StreamFirst[2] - 1) % Modulus \in StreamBytes
      BY <3>1, StreamSizes DEF StreamBytes
    <3>3. QED BY <3>2, StreamSizes DEF Sides
  <2>4. zero \in Places /\ zero \in Origins
    BY DEF Places, Origins
  <2>5. args \in StreamArgs /\ empty \in Latches /\ none \in SUBSET (1..4) /\ none \in SUBSET (1..2)
    BY DEF StreamArgs, Latches
  <2> HIDE DEF x, y, zero, none, args, empty
  <2>6. /\ state \in StreamStates /\ state.expected = 0 /\ state.addressed = FALSE /\ state.pixel = "none"
    BY <2>2, <2>3, <2>4, <2>5, StreamSizes DEF StreamStates
  <2>7. QED BY <2>6 DEF StreamInv, StreamRuns, StreamFills, StreamCaused, StreamDrawn
<1>2. StreamInv /\ [Stream!Next]_state => StreamInv'
  <2>1. ASSUME StreamInv, UNCHANGED state PROVE StreamInv'
    BY <2>1 DEF StreamInv, StreamRuns, StreamFills, StreamCaused, StreamDrawn
  <2>2. QED BY <2>1, StreamCommand, StreamMode, StreamData DEF Stream!Next
<1>3. StreamInv => /\ Stream!TypeOK /\ Stream!StreamFillsWindow
                   /\ Stream!PixelsAreWhole /\ Stream!StaleCursorIsUnused
  <2>1. SUFFICES ASSUME StreamInv
                 PROVE  /\ Stream!TypeOK /\ Stream!StreamFillsWindow
                        /\ Stream!PixelsAreWhole /\ Stream!StaleCursorIsUnused
    OBVIOUS
  <2>2. state \in StreamStates /\ Stream!Bytes = StreamBytes
    BY <2>1 DEF StreamInv, StreamRuns, Stream!Bytes, StreamBytes
  <2>3. /\ state.args \in Seq(StreamBytes) /\ Len(state.args) <= 4
        /\ state.x \in StreamBytes \X StreamBytes /\ state.y \in StreamBytes \X StreamBytes
        /\ state.latch.byte \in StreamBytes \cup {-1} /\ state.latch.of \in {"none", "this", "earlier"}
        /\ state.gram \in Nat \X Nat
    BY <2>2 DEF StreamStates, StreamArgs, Sides, Places, Latches
  <2>4. Stream!TypeOK
    BY <2>2, <2>3 DEF StreamStates, Stream!TypeOK
  <2>5. QED BY <2>1, <2>2, <2>4 DEF StreamInv, StreamRuns, StreamFills, StreamDrawn, StreamStates,
              Stream!StreamFillsWindow, Stream!PixelsAreWhole, Stream!StaleCursorIsUnused
<1>4. QED BY <1>1, <1>2, <1>3, PTL DEF Stream!Spec

-------------------------------------------------------------------------------
(* The decoder of page-addressed panels.                                   *)

PagePictures == [Page!Cells -> {0, 1}]

PageStates ==
  [current : -1..(Pages - 1), port : Page!Ports \cup {"none"}, high : {-1, 0, 1},
   ready : BOOLEAN, column : Nat, start : Nat, count : 0..(2 * MaxData),
   row : {0, Columns, 2 * Columns}, rows : 0..3, finished : -1..(Pages - 1),
   qualified : BOOLEAN, rendered : BOOLEAN, width : Page!Bytes \cup {2 * Columns},
   planes : {1, 2}, height : {0, HalfPages, Pages}, seen : SUBSET (0..(Pages - 1)),
   ram : PagePictures, shown : PagePictures, panel : Nat \X Nat, adoptable : BOOLEAN]

(* A grammar is proved of a row that is known; what is shown was proved,   *)
(* and the lower panel is shown only where the display has its size.       *)
PageProved(p) ==
  /\ p.qualified => p.row # 0
  /\ p.rendered => p.qualified /\ p.height # 0
  /\ p.rendered /\ p.height = HalfPages => p.panel = Page!Target(p)

PageHolds(p) == p \in PageStates /\ PageProved(p)

(* The picture is the RAM, but for some pages.                             *)
PageShows(p, but) ==
  p.rendered /\ p.panel = Page!Target(p) =>
    \A c \in Page!Cells :
      c[1] < p.height /\ c[2] < p.width * p.planes /\ c[1] \notin but => p.shown[c] = p.ram[c]

PageUnderWay(p) == IF p.count # 0 THEN {p.current} ELSE {}

PageInv == PageHolds(state) /\ state.rows <= 2 /\ PageShows(state, PageUnderWay(state))

LEMMA PageSizes ==
  ASSUME Page!LcdPageAssumption
  PROVE  /\ HalfPages \in Nat \ {0} /\ Pages \in Nat \ {0} /\ HalfPages < Pages /\ Columns \in Nat \ {0}
         /\ WidthHint \in Nat /\ MaxData \in Nat /\ PagePanels \subseteq Nat \X Nat
BY DEF Page!LcdPageAssumption

LEMMA PageTarget ==
  ASSUME Page!LcdPageAssumption, NEW p \in PageStates
  PROVE  Page!Target(p) \in Nat \X Nat
<1>1. p.width \in Nat /\ p.height \in Nat
  BY PageSizes DEF PageStates, Page!Bytes
<1>2. QED BY <1>1 DEF Page!Target

(* Showing pages brings them in line with the RAM.                         *)
LEMMA PageRendered ==
  ASSUME NEW p, PageHolds(p), NEW pages, NEW but, PageShows(p, but)
  PROVE  LET t == Page!Rendered(p, pages)
         IN PageHolds(t) /\ PageShows(t, but \ pages) /\ t.current = p.current /\ t.count = p.count
              /\ t.rows = p.rows /\ t.height = p.height
<1> DEFINE t == Page!Rendered(p, pages)
           shown == [c \in Page!Cells |-> IF c[1] \in pages /\ c[2] < p.width * p.planes
                                          THEN p.ram[c] ELSE p.shown[c]]
<1>1. p \in PageStates /\ p.ram \in PagePictures /\ p.shown \in PagePictures
  BY DEF PageHolds, PageStates
<1>2. t = [p EXCEPT !.shown = shown]
  BY <1>1 DEF Page!Rendered, PageStates
<1>3. shown \in PagePictures
  BY <1>1 DEF PagePictures
<1>4. \A c \in Page!Cells : shown[c] = IF c[1] \in pages /\ c[2] < p.width * p.planes
                                       THEN p.ram[c] ELSE p.shown[c]
  OBVIOUS
<1> HIDE DEF t, shown
<1>5. /\ t \in PageStates /\ t.shown = shown /\ t.ram = p.ram /\ t.current = p.current
      /\ t.count = p.count /\ t.rows = p.rows /\ t.height = p.height /\ t.width = p.width
      /\ t.planes = p.planes /\ t.panel = p.panel /\ t.rendered = p.rendered /\ t.row = p.row
      /\ t.qualified = p.qualified
  BY <1>1, <1>2, <1>3 DEF PageStates
<1>6. Page!Target(t) = Page!Target(p)
  BY <1>5 DEF Page!Target
<1>7. PageHolds(t)
  BY <1>5, <1>6 DEF PageHolds, PageProved
<1>8. PageShows(t, but \ pages)
  BY <1>4, <1>5, <1>6 DEF PageShows
<1>9. QED BY <1>5, <1>7, <1>8 DEF t

(* The panel that is proved is taken with all of its pages.                *)
LEMMA PageGeometry ==
  ASSUME Page!LcdPageAssumption, NEW p, PageHolds(p), NEW but, PageShows(p, but)
  PROVE  LET t == Page!Geometry(p)
         IN PageHolds(t) /\ PageShows(t, but) /\ t.current = p.current /\ t.count = p.count
              /\ t.rows = p.rows /\ t.height = p.height
<1> DEFINE t == Page!Geometry(p)
           target == Page!Target(p)
           changed == target # p.panel
           dark == [c \in Page!Cells |-> 0]
           adopted == IF changed /\ p.adoptable
                      THEN [p EXCEPT !.panel = target, !.shown = dark] ELSE p
           known == ~(~p.qualified \/ p.width = 0 \/ p.height = 0)
           taken == target = adopted.panel /\ (changed \/ ~p.rendered)
           marked == [adopted EXCEPT !.rendered = TRUE]
           all == 0..(p.height - 1)
<1>1. p \in PageStates /\ target \in Nat \X Nat /\ dark \in PagePictures
  BY PageTarget DEF PageHolds, PagePictures
<1>2. \/ t = p
      \/ t = Page!Rendered(marked, all) /\ known /\ taken
      \/ t = adopted /\ known /\ ~taken
  <2> DEFINE unknown == ~p.qualified \/ p.width = 0 \/ p.height = 0
             told == p.qualified /\ p.width # 0 /\ p.height # 0 /\ target = adopted.panel
                       /\ (changed \/ ~p.rendered)
  <2>1. t = CASE unknown -> p [] told -> Page!Rendered(marked, all) [] OTHER -> adopted
    BY DEF Page!Geometry
  <2>2. p.qualified \in BOOLEAN /\ p.rendered \in BOOLEAN
    BY <1>1 DEF PageStates
  <2>3. (told <=> known /\ taken) /\ (known <=> ~unknown)
    OBVIOUS
  <2> HIDE DEF unknown, told, t, marked, adopted, known, taken
  <2>4. QED BY <2>1, <2>3
<1>3. CASE t = p
  BY <1>3
<1> HIDE DEF t
<1>4. CASE t = Page!Rendered(marked, all) /\ known /\ taken
  <2> HIDE DEF dark
  <2>1. /\ adopted \in PageStates /\ adopted.current = p.current /\ adopted.count = p.count
        /\ adopted.rows = p.rows /\ adopted.height = p.height /\ adopted.width = p.width
        /\ adopted.row = p.row /\ adopted.qualified = p.qualified
    <3>1. CASE adopted = p
      BY <1>1, <3>1
    <3>2. CASE adopted = [p EXCEPT !.panel = target, !.shown = dark]
      <4> HIDE DEF adopted, target
      <4>1. QED BY <1>1, <3>2 DEF PageStates
    <3>3. QED BY <3>1, <3>2
  <2>2. adopted.panel = target /\ p.qualified /\ p.height # 0 /\ p.row # 0
    BY <1>4 DEF PageHolds, PageProved
  <2> HIDE DEF adopted
  <2>3. /\ marked \in PageStates /\ marked.current = p.current /\ marked.count = p.count
        /\ marked.rows = p.rows /\ marked.height = p.height /\ marked.width = p.width
        /\ marked.row = p.row /\ marked.qualified = p.qualified /\ marked.panel = target
    BY <2>1, <2>2 DEF PageStates
  <2>4. Page!Target(marked) = target
    BY <2>3 DEF Page!Target
  <2> HIDE DEF marked, all
  <2>5. PageHolds(marked)
    BY <2>2, <2>3, <2>4 DEF PageHolds, PageProved
  <2>6. PageShows(marked, 0..(Pages - 1))
    BY DEF PageShows, Page!Cells
  <2>7. /\ PageHolds(t) /\ PageShows(t, (0..(Pages - 1)) \ all) /\ t.current = p.current
        /\ t.count = p.count /\ t.rows = p.rows /\ t.height = p.height
    BY <1>4, <2>3, <2>5, <2>6, PageRendered
  <2>8. ASSUME NEW c \in Page!Cells, c[1] < p.height
        PROVE  c[1] \notin (0..(Pages - 1)) \ all
    <3>1. c[1] \in 0..(Pages - 1) /\ p.height \in Nat
      BY <1>1, PageSizes DEF Page!Cells, PageStates
    <3>2. QED BY <2>8, <3>1, PageSizes DEF all
  <2>9. PageShows(t, but)
    BY <2>7, <2>8 DEF PageShows
  <2>10. QED BY <2>7, <2>9 DEF t
<1>5. CASE t = adopted /\ known /\ ~taken
  <2>1. adopted = p
    <3>1. CASE changed /\ p.adoptable
      <4> HIDE DEF target, dark
      <4>1. adopted.panel = target
        BY <1>1, <3>1 DEF PageStates
      <4>2. QED BY <1>5, <3>1, <4>1
    <3>2. QED BY <3>1
  <2>2. QED BY <1>5, <2>1 DEF t
<1>6. QED BY <1>2, <1>3, <1>4, <1>5 DEF t

(* A transfer that ends is shown, if there is a picture at all.            *)
LEMMA PageFlushed ==
  ASSUME Page!LcdPageAssumption, NEW p, PageHolds(p), PageShows(p, PageUnderWay(p))
  PROVE  LET t == Page!Flushed(p)
         IN PageHolds(t) /\ PageShows(t, {}) /\ t.rows = p.rows
<1> DEFINE t == Page!Flushed(p)
           sized == Page!Geometry(p)
           none == ~p.qualified \/ p.current = Page!None \/ p.count = 0
           fits == sized.panel = Page!Target(sized) /\ p.current < p.height
<1>1. p \in PageStates /\ p.current \in -1..(Pages - 1) /\ p.height \in Nat
  BY PageSizes DEF PageHolds, PageStates
<1>2. /\ PageHolds(sized) /\ PageShows(sized, PageUnderWay(p)) /\ sized.rows = p.rows
      /\ sized.height = p.height
  BY PageGeometry
<1>3. (none /\ t = p) \/ (~none /\ fits /\ t = Page!Rendered(sized, {p.current}))
      \/ (~none /\ ~fits /\ t = sized)
  <2> DEFINE told == p.qualified /\ p.current # Page!None /\ p.count # 0 /\ sized.panel = Page!Target(sized)
                       /\ p.current < p.height
             shown == Page!Rendered(sized, {p.current})
  <2>1. t = CASE none -> p [] told -> shown [] OTHER -> sized
    BY DEF Page!Flushed
  <2>2. told <=> ~none /\ fits
    OBVIOUS
  <2> HIDE DEF told, none, fits, t, sized, shown
  <2>3. (none /\ t = p) \/ (~none /\ fits /\ t = shown) \/ (~none /\ ~fits /\ t = sized)
    BY <2>1, <2>2
  <2>4. QED BY <2>3 DEF shown
<1> HIDE DEF t, sized
<1>4. CASE none /\ t = p
  <2>1. CASE p.count = 0 \/ p.current = -1
    <3>1. \A c \in Page!Cells : c[1] \notin PageUnderWay(p)
      BY <2>1 DEF Page!Cells, PageUnderWay
    <3>2. PageShows(p, {})
      BY <3>1 DEF PageShows
    <3>3. QED BY <1>4, <3>2 DEF t
  <2>2. CASE ~p.qualified
    BY <1>4, <2>2 DEF PageHolds, PageProved, PageShows, t
  <2>3. QED BY <1>4, <2>1, <2>2 DEF Page!None
<1>5. CASE ~none /\ fits /\ t = Page!Rendered(sized, {p.current})
  <2>1. PageHolds(t) /\ PageShows(t, PageUnderWay(p) \ {p.current}) /\ t.rows = sized.rows
    BY <1>2, <1>5, PageRendered
  <2>2. PageUnderWay(p) \ {p.current} = {}
    BY DEF PageUnderWay
  <2>3. QED BY <1>2, <2>1, <2>2 DEF t
<1>6. CASE ~none /\ ~fits /\ t = sized
  <2>1. CASE sized.panel # Page!Target(sized)
    BY <1>2, <1>6, <2>1 DEF PageShows, t
  <2>2. CASE ~(p.current < p.height)
    <3>1. \A c \in Page!Cells : c[1] < sized.height => c[1] \notin PageUnderWay(p)
      BY <1>1, <1>2, <2>2, PageSizes DEF Page!Cells, PageUnderWay
    <3>2. PageShows(sized, {})
      BY <1>2, <3>1 DEF PageShows
    <3>3. QED BY <1>2, <1>6, <3>2 DEF t
  <2>3. QED BY <1>6, <2>1, <2>2
<1>7. QED BY <1>3, <1>4, <1>5, <1>6 DEF t

(* Steps that only move the transfer.                                      *)
PageAlike(s, t) ==
  /\ t.qualified = s.qualified /\ t.row = s.row /\ t.rendered = s.rendered /\ t.width = s.width
  /\ t.planes = s.planes /\ t.height = s.height /\ t.panel = s.panel /\ t.ram = s.ram
  /\ t.shown = s.shown

LEMMA PageAlikeHolds ==
  ASSUME NEW s, PageHolds(s), NEW t \in PageStates, PageAlike(s, t), NEW but, PageShows(s, but)
  PROVE  PageHolds(t) /\ PageShows(t, but)
<1>1. Page!Target(t) = Page!Target(s)
  BY DEF Page!Target, PageAlike
<1>2. QED BY <1>1 DEF PageHolds, PageProved, PageShows, PageAlike

LEMMA PageLaid ==
  ASSUME Page!LcdPageAssumption, NEW p \in PageStates, NEW bytes \in {Columns, 2 * Columns}
  PROVE  LET t == Page!Laid(p, bytes)
         IN t \in PageStates /\ t.row = bytes /\ t.rows = 1 /\ t.rendered = p.rendered
              /\ t.qualified = p.qualified /\ t.current = p.current /\ t.count = p.count
<1> DEFINE t == Page!Laid(p, bytes)
           planes == IF WidthHint # 0 /\ bytes % WidthHint = 0 /\ bytes \div WidthHint \in {1, 2}
                     THEN bytes \div WidthHint ELSE 1
           width == bytes \div planes
<1>1. planes \in {1, 2}
  OBVIOUS
<1>2. t = [p EXCEPT !.row = bytes, !.rows = 1, !.planes = planes, !.width = width]
  BY DEF Page!Laid
<1> HIDE DEF planes
<1>3. width \in Page!Bytes \cup {2 * Columns}
  BY <1>1, PageSizes DEF Page!Bytes
<1> DEFINE rowBytes == {0, Columns, 2 * Columns}
           wide == Page!Bytes \cup {2 * Columns}
<1> HIDE DEF width, t
<1>4. /\ t \in PageStates /\ t.row = bytes /\ t.rows = 1 /\ t.rendered = p.rendered
      /\ t.qualified = p.qualified /\ t.current = p.current /\ t.count = p.count
  <2>1. bytes \in rowBytes /\ width \in wide /\ 1 \in 0..3
    BY <1>3
  <2>2. PageStates =
          [current : -1..(Pages - 1), port : Page!Ports \cup {"none"}, high : {-1, 0, 1},
           ready : BOOLEAN, column : Nat, start : Nat, count : 0..(2 * MaxData),
           row : rowBytes, rows : 0..3, finished : -1..(Pages - 1),
           qualified : BOOLEAN, rendered : BOOLEAN, width : wide,
           planes : {1, 2}, height : {0, HalfPages, Pages}, seen : SUBSET (0..(Pages - 1)),
           ram : PagePictures, shown : PagePictures, panel : Nat \X Nat, adoptable : BOOLEAN]
    BY DEF PageStates
  <2> HIDE DEF rowBytes, wide
  <2>3. QED BY <1>1, <1>2, <2>1, <2>2
<1>5. QED BY <1>4 DEF t

(* A row of a grammar that was proved changes nothing but the count.       *)
LEMMA PageRowCounted ==
  ASSUME Page!LcdPageAssumption, NEW p, PageHolds(p), p.rows <= 2, Page!WholeRow(p),
         PageShows(p, PageUnderWay(p))
  PROVE  LET t == Page!RowCounted(p)
         IN PageHolds(t) /\ PageShows(t, PageUnderWay(t)) /\ t.row # 0
<1> DEFINE t == Page!RowCounted(p)
           next == p.current = p.finished + 1
           more == p.rows + 1
<1>1. p \in PageStates /\ p.count \in {Columns, 2 * Columns} /\ p.rows \in 0..2
  BY DEF PageHolds, PageStates, Page!WholeRow
<1>2. \/ t = Page!Laid(p, p.count) /\ ~p.qualified
      \/ p.row # 0 /\ t = [p EXCEPT !.rows = more]
      \/ p.row # 0 /\ t = [p EXCEPT !.rows = 1]
      \/ p.row # 0 /\ t = p
  <2> DEFINE laid == Page!Laid(p, p.count)
             up == [p EXCEPT !.rows = more]
             one == [p EXCEPT !.rows = 1]
  <2>1. t = CASE p.row = 0 -> laid
              [] p.row # 0 /\ p.count = p.row /\ next -> up
              [] p.row # 0 /\ p.count = p.row /\ ~next -> one
              [] p.row # 0 /\ p.count # p.row /\ ~p.qualified -> laid
              [] OTHER -> p
    BY DEF Page!RowCounted
  <2>2. p.row = 0 => ~p.qualified
    BY DEF PageHolds, PageProved
  <2> HIDE DEF laid, up, one, t, next
  <2>3. (t = laid /\ ~p.qualified) \/ (p.row # 0 /\ t = up) \/ (p.row # 0 /\ t = one) \/ (p.row # 0 /\ t = p)
    BY <2>1, <2>2
  <2>4. QED BY <2>3 DEF laid, up, one
<1>3. CASE t = Page!Laid(p, p.count) /\ ~p.qualified
  <2>1. /\ t \in PageStates /\ t.row = p.count /\ t.rendered = p.rendered /\ t.qualified = p.qualified
    BY <1>1, <1>3, PageLaid
  <2>2. ~p.rendered /\ t.row # 0
    BY <1>1, <1>3, <2>1, PageSizes DEF PageHolds, PageProved
  <2> HIDE DEF t
  <2>3. QED BY <1>3, <2>1, <2>2 DEF PageHolds, PageProved, PageShows, t
<1>4. ASSUME NEW rows \in 0..3, p.row # 0, t = [p EXCEPT !.rows = rows]
      PROVE  PageHolds(t) /\ PageShows(t, PageUnderWay(t)) /\ t.row # 0
  <2> HIDE DEF t
  <2>1. t \in PageStates /\ PageAlike(p, t) /\ t.current = p.current /\ t.count = p.count
    BY <1>1, <1>4 DEF PageStates, PageAlike
  <2>2. PageUnderWay(t) = PageUnderWay(p)
    BY <2>1 DEF PageUnderWay
  <2>3. PageHolds(t) /\ PageShows(t, PageUnderWay(t))
    BY <2>1, <2>2, PageAlikeHolds
  <2>4. QED BY <1>4, <2>1, <2>3 DEF PageAlike
<1>5. CASE p.row # 0 /\ t = [p EXCEPT !.rows = more]
  <2>1. more \in 0..3
    BY <1>1
  <2> HIDE DEF t, more
  <2>2. QED BY <1>4, <1>5, <2>1 DEF t
<1>6. CASE p.row # 0 /\ t = [p EXCEPT !.rows = 1]
  <2> HIDE DEF t
  <2>1. QED BY <1>4, <1>6 DEF t
<1>7. CASE p.row # 0 /\ t = p
  BY <1>7
<1> HIDE DEF t
<1>8. QED BY <1>2, <1>3, <1>5, <1>6, <1>7 DEF t

LEMMA PageFinished ==
  ASSUME Page!LcdPageAssumption, NEW p, PageHolds(p), p.rows <= 2, PageShows(p, PageUnderWay(p))
  PROVE  LET t == Page!Finished(p) IN PageHolds(t) /\ PageShows(t, {}) /\ t.rows <= 2
<1> DEFINE t == Page!Finished(p)
           counted == Page!RowCounted(p)
           qualified == counted.qualified \/ counted.rows >= 2
           rows == IF counted.rows > 2 THEN 2 ELSE counted.rows
           whole == [counted EXCEPT !.finished = p.current, !.qualified = qualified, !.rows = rows]
           short == [p EXCEPT !.rows = 0]
<1>1. p \in PageStates
  BY DEF PageHolds
<1>2. \/ Page!WholeRow(p) /\ t = Page!Flushed([counted EXCEPT !.finished = p.current,
                                    !.qualified = @ \/ counted.rows >= 2, !.rows = IF @ > 2 THEN 2 ELSE @])
      \/ t = Page!Flushed(short)
      \/ t = Page!Flushed(p)
  <2> DEFINE row == Page!WholeRow(p)
             bytes == p.count # 0 /\ ~p.qualified
             a == Page!Flushed([counted EXCEPT !.finished = p.current,
                                    !.qualified = @ \/ counted.rows >= 2, !.rows = IF @ > 2 THEN 2 ELSE @])
             b == Page!Flushed(short)
             c == Page!Flushed(p)
  <2>1. t = CASE row -> a [] ~row /\ p.count # 0 /\ ~p.qualified -> b [] OTHER -> c
    BY DEF Page!Finished
  <2> HIDE DEF t, row, a, b, c
  <2>2. (row /\ t = a) \/ t = b \/ t = c
    BY <2>1
  <2>3. QED BY <2>2 DEF row, a, b, c
<1>3. CASE Page!WholeRow(p) /\ t = Page!Flushed([counted EXCEPT !.finished = p.current,
                                    !.qualified = @ \/ counted.rows >= 2, !.rows = IF @ > 2 THEN 2 ELSE @])
  <2>1. PageHolds(counted) /\ PageShows(counted, PageUnderWay(counted)) /\ counted.row # 0
    BY <1>3, PageRowCounted
  <2>2. [counted EXCEPT !.finished = p.current,
                        !.qualified = @ \/ counted.rows >= 2, !.rows = IF @ > 2 THEN 2 ELSE @] = whole
    <3> HIDE DEF counted
    <3>1. QED BY <2>1 DEF PageHolds, PageStates
  <2>3. t = Page!Flushed(whole)
    <3> HIDE DEF whole, counted
    <3>1. QED BY <1>3, <2>2
  <2> HIDE DEF counted
  <2>4. counted.rows \in 0..3 /\ counted.qualified \in BOOLEAN /\ p.current \in -1..(Pages - 1)
    BY <1>1, <2>1 DEF PageHolds, PageStates
  <2>5. qualified \in BOOLEAN /\ rows \in 0..3 /\ rows <= 2 /\ (counted.qualified => qualified)
    BY <2>4
  <2> HIDE DEF qualified, rows
  <2>11. counted \in PageStates /\ whole = [counted EXCEPT !.finished = p.current, !.qualified = qualified, !.rows = rows]
    BY <2>1 DEF PageHolds
  <2> HIDE DEF whole
  <2>6. /\ whole \in PageStates /\ whole.qualified = qualified /\ whole.rows = rows
        /\ whole.row = counted.row /\ whole.rendered = counted.rendered /\ whole.width = counted.width
        /\ whole.planes = counted.planes /\ whole.height = counted.height
        /\ whole.panel = counted.panel /\ whole.ram = counted.ram /\ whole.shown = counted.shown
        /\ whole.current = counted.current /\ whole.count = counted.count
    BY <2>11, <2>4, <2>5 DEF PageStates
  <2>7. Page!Target(whole) = Page!Target(counted) /\ PageUnderWay(whole) = PageUnderWay(counted)
    BY <2>6 DEF Page!Target, PageUnderWay
  <2>8. PageHolds(whole) /\ PageShows(whole, PageUnderWay(whole))
    BY <2>1, <2>5, <2>6, <2>7 DEF PageHolds, PageProved, PageShows
  <2> HIDE DEF t
  <2>9. PageHolds(t) /\ PageShows(t, {}) /\ t.rows = whole.rows
    BY <2>3, <2>8, PageFlushed
  <2>10. QED BY <2>5, <2>6, <2>9 DEF t
<1>4. CASE t = Page!Flushed(short)
  <2>1. short \in PageStates /\ PageAlike(p, short) /\ short.current = p.current
        /\ short.count = p.count /\ short.rows = 0
    BY <1>1 DEF PageStates, PageAlike
  <2> HIDE DEF short, t
  <2>2. PageUnderWay(short) = PageUnderWay(p)
    BY <2>1 DEF PageUnderWay
  <2>3. PageHolds(short) /\ PageShows(short, PageUnderWay(short))
    BY <2>1, <2>2, PageAlikeHolds
  <2>4. PageHolds(t) /\ PageShows(t, {}) /\ t.rows = short.rows
    BY <1>4, <2>3, PageFlushed
  <2>5. QED BY <2>1, <2>4 DEF t
<1>5. CASE t = Page!Flushed(p)
  <2> HIDE DEF t
  <2>1. QED BY <1>5, PageFlushed DEF t
<1> HIDE DEF t, whole, short, counted
<1>6. QED BY <1>2, <1>3, <1>4, <1>5 DEF t, counted, short

(* A transfer that is over leaves a picture, and no transfer is under way. *)
LEMMA PageAfter ==
  ASSUME NEW s, PageHolds(s), PageShows(s, {}), s.rows <= 2,
         NEW t \in PageStates, PageAlike(s, t), t.rows = s.rows
  PROVE  PageHolds(t) /\ t.rows <= 2 /\ PageShows(t, PageUnderWay(t))
<1>1. PageHolds(t) /\ PageShows(t, {})
  BY PageAlikeHolds
<1>2. QED BY <1>1 DEF PageShows

LEMMA PageFirst ==
  ASSUME PageInv, Page!LcdPageAssumption
  PROVE  LET ended == Page!Finished(state)
         IN ended \in PageStates /\ PageHolds(ended) /\ PageShows(ended, {}) /\ ended.rows <= 2
BY PageFinished DEF PageInv, PageHolds

LEMMA PageSelects ==
  ASSUME Page!LcdPageAssumption, PageInv, Page!SelectPage
  PROVE  PageInv'
<1> DEFINE ended == Page!Finished(state)
<1>1. PICK port \in Page!Ports, number \in 0..(Pages - 1) :
        LET seen  == ended.seen \cup {number}
            now   == [ended EXCEPT !.current = number, !.port = port, !.high = Page!None, !.ready = FALSE,
                                   !.column = 0, !.start = 0, !.count = 0, !.seen = seen]
            tall  == CASE number >= HalfPages -> [now EXCEPT !.height = Pages]
                       [] number = 0 /\ now.height = 0 /\ (0..(HalfPages - 1)) \subseteq seen ->
                            [now EXCEPT !.height = HalfPages]
                       [] OTHER -> now
        IN state' = Page!Geometry(tall)
  BY DEF Page!SelectPage
<1> DEFINE seen == ended.seen \cup {number}
           now  == [ended EXCEPT !.current = number, !.port = port, !.high = Page!None, !.ready = FALSE,
                                 !.column = 0, !.start = 0, !.count = 0, !.seen = seen]
           high == [now EXCEPT !.height = Pages]
           low  == [now EXCEPT !.height = HalfPages]
           half == number = 0 /\ now.height = 0 /\ (0..(HalfPages - 1)) \subseteq seen
           tall == CASE number >= HalfPages -> high [] half -> low [] OTHER -> now
<1>2. state' = Page!Geometry(tall)
  BY <1>1
<1>3. ended \in PageStates /\ PageHolds(ended) /\ PageShows(ended, {}) /\ ended.rows <= 2
  BY PageFirst
<1> HIDE DEF ended
<1>4. seen \in SUBSET (0..(Pages - 1)) /\ number \in -1..(Pages - 1) /\ 0 \in 0..(2 * MaxData)
  BY <1>3, PageSizes DEF PageStates
<1> HIDE DEF seen
<1>5. now \in PageStates /\ PageAlike(ended, now) /\ now.rows = ended.rows /\ now.count = 0
  BY <1>3, <1>4 DEF PageStates, PageAlike, Page!None
<1>6. PageHolds(now) /\ PageShows(now, {})
  BY <1>3, <1>5, PageAlikeHolds
<1> HIDE DEF now
<1>7. tall = high \/ (tall = low /\ now.height = 0) \/ tall = now
  <2> HIDE DEF high, low
  <2>1. tall = high \/ (tall = low /\ half) \/ tall = now
    <3> HIDE DEF half
    <3>1. QED OBVIOUS
  <2>2. QED BY <2>1
<1> HIDE DEF tall
<1>8. ASSUME NEW height \in {HalfPages, Pages}, tall = [now EXCEPT !.height = height],
             height = Pages \/ now.height = 0
      PROVE  PageHolds(tall) /\ PageShows(tall, {}) /\ tall.rows = now.rows /\ tall.count = 0
  <2>1. /\ tall \in PageStates /\ tall.qualified = now.qualified /\ tall.row = now.row
        /\ tall.rendered = now.rendered /\ tall.width = now.width /\ tall.planes = now.planes
        /\ tall.height = height /\ tall.panel = now.panel /\ tall.ram = now.ram
        /\ tall.shown = now.shown /\ tall.rows = now.rows /\ tall.count = 0
    BY <1>5, <1>8 DEF PageStates
  <2>2. height # 0 /\ HalfPages # Pages /\ now.height \in {0, HalfPages, Pages}
    BY <1>5, PageSizes DEF PageStates
  <2>3. PageHolds(tall)
    BY <1>6, <1>8, <2>1, <2>2 DEF PageHolds, PageProved
  <2>4. CASE ~now.rendered
    BY <2>1, <2>3, <2>4 DEF PageShows
  <2>5. CASE now.rendered /\ now.height = Pages
    <3>1. height = Pages /\ Page!Target(tall) = Page!Target(now)
      BY <1>8, <2>1, <2>2, <2>5 DEF Page!Target, PageHolds, PageProved
    <3>2. QED BY <1>6, <2>1, <2>3, <2>5, <3>1 DEF PageShows
  <2>6. CASE now.rendered /\ now.height = HalfPages
    <3>1. now.panel = Page!Target(now) /\ height = Pages
      BY <1>6, <1>8, <2>2, <2>6 DEF PageHolds, PageProved
    <3>2. Page!Target(tall) # Page!Target(now)
      BY <2>1, <2>2, <2>6, <3>1 DEF Page!Target
    <3>3. QED BY <2>1, <2>3, <3>1, <3>2 DEF PageShows
  <2>7. QED BY <1>6, <2>2, <2>4, <2>5, <2>6 DEF PageHolds, PageProved
<1>9. PageHolds(tall) /\ PageShows(tall, {}) /\ tall.rows = now.rows /\ tall.count = 0
  BY <1>5, <1>6, <1>7, <1>8
<1>10. PageHolds(state') /\ PageShows(state', {}) /\ state'.rows = tall.rows
  BY <1>2, <1>9, PageGeometry
<1>11. state'.rows <= 2
  BY <1>3, <1>5, <1>9, <1>10
<1>12. QED BY <1>10, <1>11 DEF PageInv, PageHolds, PageProved, PageShows

LEMMA PageColumns ==
  ASSUME Page!LcdPageAssumption, PageInv, Page!ColumnHigh \/ Page!ColumnLow \/ Page!OtherCommand
  PROVE  PageInv'
<1> DEFINE ended == Page!Finished(state)
<1>1. ended \in PageStates /\ PageHolds(ended) /\ PageShows(ended, {}) /\ ended.rows <= 2
  BY PageFirst
<1>2. 0 \in 0..(2 * MaxData) /\ -1 \in -1..(Pages - 1)
  BY PageSizes
<1>3. ASSUME state' \in PageStates, PageAlike(ended, state'), state'.rows = ended.rows
      PROVE  PageInv'
  <2> HIDE DEF ended
  <2>1. PageHolds(state') /\ state'.rows <= 2 /\ PageShows(state', PageUnderWay(state'))
    BY <1>1, <1>3, PageAfter
  <2>2. QED BY <2>1 DEF PageInv, PageHolds, PageProved, PageShows, PageUnderWay
<1>4. ASSUME state' = Page!Left(ended) PROVE PageInv'
  <2>1. state' = [ended EXCEPT !.current = -1, !.port = "none", !.high = -1, !.ready = FALSE]
    BY <1>4 DEF Page!Left, Page!None
  <2> HIDE DEF ended
  <2>2. state' \in PageStates /\ PageAlike(ended, state') /\ state'.rows = ended.rows
    BY <1>1, <1>2, <2>1 DEF PageStates, PageAlike
  <2>3. QED BY <1>3, <2>2
<1>5. CASE Page!ColumnHigh
  <2>1. PICK high \in {0, 1} :
          state' = Page!Left(ended) \/ state' = [ended EXCEPT !.count = 0, !.high = high, !.ready = FALSE]
    BY <1>5 DEF Page!ColumnHigh
  <2>2. CASE state' = [ended EXCEPT !.count = 0, !.high = high, !.ready = FALSE]
    <3> HIDE DEF ended
    <3>1. state' \in PageStates /\ PageAlike(ended, state') /\ state'.rows = ended.rows
      BY <1>1, <1>2, <2>2 DEF PageStates, PageAlike
    <3>2. QED BY <1>3, <3>1
  <2>3. QED BY <1>4, <2>1, <2>2
<1>6. CASE Page!ColumnLow
  <2>1. PICK port \in Page!Ports, low \in {0, 1} :
          /\ state.high # -1
          /\ state' = IF Page!ByteWide(port) /\ (low # 0 \/ state.high # 0)
                      THEN Page!Left(ended)
                      ELSE [ended EXCEPT !.start = 16 * state.high + low, !.count = 0, !.ready = TRUE,
                              !.column = (16 * state.high + low) * (IF ended.qualified THEN ended.planes ELSE 1)]
    BY <1>6 DEF Page!ColumnLow, Page!None
  <2> DEFINE start == 16 * state.high + low
             column == start * (IF ended.qualified THEN ended.planes ELSE 1)
             late == [ended EXCEPT !.start = start, !.count = 0, !.ready = TRUE, !.column = column]
  <2>2. state' = Page!Left(ended) \/ state' = late
    BY <2>1
  <2>3. start \in Nat
    <3>1. state.high \in {0, 1}
      BY <2>1 DEF PageInv, PageHolds, PageStates
    <3>2. QED BY <3>1
  <2> HIDE DEF ended, start
  <2>4. column \in Nat
    <3>1. ended.planes \in {1, 2}
      BY <1>1 DEF PageStates
    <3>2. QED BY <2>3, <3>1
  <2>5. CASE state' = late
    <3> HIDE DEF column
    <3>1. state' \in PageStates /\ PageAlike(ended, state') /\ state'.rows = ended.rows
      BY <1>1, <1>2, <2>3, <2>4, <2>5 DEF PageStates, PageAlike
    <3>2. QED BY <1>3, <3>1
  <2>6. QED BY <1>4, <2>2, <2>5
<1>7. CASE Page!OtherCommand
  <2> DEFINE quiet == [ended EXCEPT !.count = 0, !.high = -1, !.ready = FALSE]
  <2>1. state' = quiet \/ state' = [quiet EXCEPT !.current = -1, !.port = "none"]
    BY <1>7 DEF Page!OtherCommand, Page!OtherEnds, Page!None
  <2> HIDE DEF ended
  <2>2. quiet \in PageStates /\ PageAlike(ended, quiet) /\ quiet.rows = ended.rows
    BY <1>1, <1>2 DEF PageStates, PageAlike
  <2>3. CASE state' = quiet
    BY <1>3, <2>2, <2>3
  <2>4. CASE state' = [quiet EXCEPT !.current = -1, !.port = "none"]
    <3> HIDE DEF quiet
    <3>1. state' \in PageStates /\ PageAlike(quiet, state') /\ state'.rows = quiet.rows
      BY <1>2, <2>2, <2>4 DEF PageStates, PageAlike
    <3>2. PageAlike(ended, state')
      BY <2>2, <3>1 DEF PageAlike
    <3>3. QED BY <1>3, <2>2, <3>1, <3>2
  <2>5. QED BY <2>1, <2>3, <2>4
<1>8. QED BY <1>5, <1>6, <1>7

LEMMA PageFeeds ==
  ASSUME Page!LcdPageAssumption, PageInv, Page!FeedData
  PROVE  PageInv'
<1> DEFINE cell == <<state.current, state.column>>
<1>1. PICK byte \in {0, 1} :
        state' = [state EXCEPT !.ram = IF state.column \in Page!Bytes THEN [@ EXCEPT ![cell] = byte] ELSE @,
                             !.column = @ + 1, !.count = @ + 1]
  BY DEF Page!FeedData
<1>2. state \in PageStates /\ state.ram \in PagePictures /\ state.count \in Nat /\ state.column \in Nat
        /\ state.current # -1 /\ state.count < MaxData
  BY PageSizes DEF Page!FeedData, Page!None, PageInv, PageHolds, PageStates
<1> DEFINE ram == IF state.column \in Page!Bytes THEN [state.ram EXCEPT ![cell] = byte] ELSE state.ram
           column == state.column + 1
           count == state.count + 1
<1>3. state' = [state EXCEPT !.ram = ram, !.column = column, !.count = count]
  BY <1>1, <1>2 DEF PageStates
<1>4. ram \in PagePictures /\ \A c \in Page!Cells : c[1] # state.current => ram[c] = state.ram[c]
  <2>1. CASE state.column \in Page!Bytes
    <3>1. ram = [state.ram EXCEPT ![cell] = byte]
      BY <2>1
    <3>2. ASSUME NEW c \in Page!Cells, c[1] # state.current PROVE c # cell
      BY <3>2
    <3> HIDE DEF cell, ram
    <3>3. QED BY <1>2, <3>1, <3>2 DEF PagePictures
  <2>2. CASE state.column \notin Page!Bytes
    BY <1>2, <2>2
  <2>3. QED BY <2>1, <2>2
<1>5. column \in Nat /\ count \in 0..(2 * MaxData) /\ count # 0
  BY <1>2, PageSizes
<1> HIDE DEF ram, column, count
<1>6. /\ state' \in PageStates /\ state'.ram = ram /\ state'.count = count /\ state'.current = state.current
      /\ state'.qualified = state.qualified /\ state'.row = state.row /\ state'.rendered = state.rendered
      /\ state'.width = state.width /\ state'.planes = state.planes /\ state'.height = state.height
      /\ state'.panel = state.panel /\ state'.shown = state.shown /\ state'.rows = state.rows
  BY <1>2, <1>3, <1>4, <1>5 DEF PageStates
<1>7. Page!Target(state') = Page!Target(state) /\ PageUnderWay(state') = {state.current}
  BY <1>5, <1>6 DEF Page!Target, PageUnderWay
<1>8. PageHolds(state') /\ state'.rows <= 2
  BY <1>6, <1>7 DEF PageInv, PageHolds, PageProved
<1>9. PageShows(state', {state.current})
  <2>1. SUFFICES ASSUME state.rendered, state.panel = Page!Target(state), NEW c \in Page!Cells,
                        c[1] < state.height, c[2] < state.width * state.planes, c[1] # state.current
                 PROVE  state.shown[c] = ram[c]
    BY <1>6, <1>7 DEF PageShows
  <2>2. c[1] \notin PageUnderWay(state)
    BY <2>1 DEF PageUnderWay
  <2>3. QED BY <1>4, <2>1, <2>2 DEF PageInv, PageShows
<1>10. PageShows(state', PageUnderWay(state'))
  BY <1>7, <1>9
<1>11. QED BY <1>8, <1>10 DEF PageInv, PageHolds, PageProved, PageShows, PageUnderWay

(* _lcd_page_finish_transfer, _lcd_page_set_geometry, _lcd_page_render_    *)
(* current: once the panel is proved, it shows the RAM of the controller,  *)
(* but for the page of the transfer under way.                             *)
THEOREM PageShowsItsRam ==
  ASSUME Page!LcdPageAssumption
  PROVE  Page!Spec => [](Page!TypeOK /\ Page!PictureIsRam)
<1>1. Page!Init => PageInv
  <2>1. SUFFICES ASSUME Page!Init PROVE PageInv
    OBVIOUS
  <2> DEFINE dark == [c \in Page!Cells |-> 0]
             none == {}
  <2>2. PICK panel \in PagePanels, adoptable \in BOOLEAN :
          state = [current |-> -1, port |-> "none", high |-> -1, ready |-> FALSE, column |-> 0,
                  start |-> 0, count |-> 0, row |-> 0, rows |-> 0, finished |-> -1,
                  qualified |-> FALSE, rendered |-> FALSE, width |-> 0, planes |-> 1, height |-> 0,
                  seen |-> none, ram |-> dark, shown |-> dark, panel |-> panel, adoptable |-> adoptable]
    BY <2>1 DEF Page!Init, Page!None
  <2>3. dark \in PagePictures /\ none \in SUBSET (0..(Pages - 1)) /\ panel \in Nat \X Nat
    BY PageSizes DEF PagePictures
  <2>4. 0 \in 0..(2 * MaxData) /\ -1 \in -1..(Pages - 1) /\ 0 \in Page!Bytes \cup {2 * Columns} /\ 0 \in 0..3
    BY PageSizes DEF Page!Bytes
  <2> HIDE DEF dark, none
  <2>5. state \in PageStates /\ ~state.qualified /\ ~state.rendered /\ state.rows = 0
    BY <2>2, <2>3, <2>4 DEF PageStates
  <2>6. QED BY <2>5 DEF PageInv, PageHolds, PageProved, PageShows
<1>2. PageInv /\ [Page!Next]_state => PageInv'
  <2>1. ASSUME PageInv, UNCHANGED state PROVE PageInv'
    BY <2>1 DEF PageInv, PageHolds, PageProved, PageShows, PageUnderWay
  <2>2. QED BY <2>1, PageSelects, PageColumns, PageFeeds DEF Page!Next
<1>3. PageInv => Page!TypeOK /\ Page!PictureIsRam
  <2>1. SUFFICES ASSUME PageInv PROVE Page!TypeOK /\ Page!PictureIsRam
    OBVIOUS
  <2>2. state \in PageStates /\ state.rows <= 2
    BY <2>1 DEF PageInv, PageHolds
  <2>3. Page!TypeOK
    <3>1. state.rows \in 0..2
      BY <2>2 DEF PageStates
    <3>2. QED BY <2>2, <3>1 DEF PageStates, PagePictures, Page!TypeOK, Page!None
  <2>4. Page!PictureIsRam
    BY <2>1 DEF PageInv, PageShows, PageUnderWay, Page!PictureIsRam
  <2>5. QED BY <2>3, <2>4
<1>4. QED BY <1>1, <1>2, <1>3, PTL DEF Page!Spec

-------------------------------------------------------------------------------
(* A behaviour of MCMedia is one of the component it runs.                 *)

LEMMA PartStays == [Next]_vars => part' = part
BY DEF Next, vars

(* Once close has returned no process of the player runs, and no file is   *)
(* left by a worker that was not about to write it when the join gave up.  *)
THEOREM ClosedPlayerIsSilent == Spec => []SilentAfterClose
<1>1. Init /\ part = "player" => Player!Init
  BY DEF Init
<1>2. [Next]_vars => ((part = "player")' <=> part = "player")
  BY PartStays
<1>3. part = "player" /\ [Next]_vars => [Player!Next]_state
  BY DEF Next, Device, vars
<1>4. (part = "player" => Player!SilentAfterClose) => SilentAfterClose
  BY DEF SilentAfterClose
<1>5. QED BY <1>1, <1>2, <1>3, <1>4, PlayerFallsSilent, PTL DEF Spec, Player!Spec

(* Pixels and size of a snapshot belong together.                          *)
THEOREM EverySnapshotIsWhole == Spec => []SnapshotIsWhole
<1>1. Init /\ part = "frame" => Frame!Init
  BY DEF Init
<1>2. [Next]_vars => ((part = "frame")' <=> part = "frame")
  BY PartStays
<1>3. part = "frame" /\ [Next]_vars => [Frame!Next]_state
  BY DEF Next, Device, vars
<1>4. Frame!Spec => [](Frame!SnapshotIsWhole /\ Frame!ConfiguredPanelStays)
  BY Assumptions, FrameIsWhole
<1>5. (part = "frame" => Frame!SnapshotIsWhole /\ Frame!ConfiguredPanelStays) => SnapshotIsWhole
  BY DEF SnapshotIsWhole
<1>6. QED BY <1>1, <1>2, <1>3, <1>4, <1>5, PTL DEF Spec, Frame!Spec
===============================================================================
