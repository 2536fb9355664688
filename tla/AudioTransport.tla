---------------------------- MODULE AudioTransport -----------------------------
(***************************************************************************)
(* What devices/audio_lle.py makes of the guest's writes to a sound chip:  *)
(* an MA2 (index and data port, a bank, FIFOs that the guest fills and     *)
(* starts) or an MA5 (a FIFO of packets that write registers and voices).  *)
(* The writes are those of the driver's own sites; others are not owned.   *)
(*                                                                         *)
(* A snapshot of the MA2 keeps the FIFOs' bytearrays, not their bytes, so  *)
(* buffers have an identity here: fifo[f] is an index of heap.             *)
(***************************************************************************)
EXTENDS Integers, Sequences, SequencesExt, FiniteSetsExt

CONSTANTS Fifos,          \* numbers of the rendered FIFOs, 0..3 in the code
          Registers,      \* other indexes than FIFOs, 1 and 2
          FifoLimit,      \* _MA2_RENDER_FIFO_LIMIT
          SnapshotLimit,  \* _MA2_RENDER_SNAPSHOT_LIMIT
          Bytes,          \* bytes the guest writes
          Timebases,      \* timebase codes it writes
          KnownTimebases, \* those the renderer knows
          Radix,          \* 128 in the code: what 7 bits of an MA5 byte can say
          MaxBuffers      \* bound: buffers ever made

AudioTransportAssumption ==
  /\ Fifos # {} /\ Fifos \subseteq Nat /\ IsFiniteSet(Fifos) /\ FifoLimit \in Nat /\ SnapshotLimit \in Nat \ {0}
  /\ Registers \subseteq {1, 2}
  /\ Bytes \subseteq Nat /\ Timebases \subseteq Nat /\ KnownTimebases \subseteq Timebases
  /\ Radix \in Nat \ {0, 1} /\ MaxBuffers \in Nat

VARIABLE line

None == -1

Reasons == {"none", "timebase-missing", "timebase-unknown", "fifo-overflow",
            "prefix-incomplete", "refused"}

TypeOK ==
  /\ line.family \in {"ma2", "ma5"}
  /\ line.bank \in {0, 1}
  /\ line.index \in {None, 15} \cup Fifos \cup Registers
  /\ line.heap \in Seq(Seq(Bytes))
  /\ line.fifo \in [Fifos -> 1..Len(line.heap)]    \* _ma2_render_fifos
  /\ line.overflow \in [Fifos -> BOOLEAN]
  /\ line.timebase \in {None} \cup Timebases
  /\ line.control \in {0, 1}
  /\ line.epoch \in Nat
  /\ Len(line.snapshots) <= SnapshotLimit
  /\ line.status \in {"pending", "ready", "submitted", "rejected"}
  /\ line.reason \in Reasons
  /\ line.state \in 0..11                          \* of the MA5 receiver
  /\ line.address \in Nat /\ line.remaining \in Nat

Init ==
  \E family \in {"ma2", "ma5"} :
    line = [family |-> family, bank |-> 0, index |-> None,
            heap |-> [b \in 1..Cardinality(Fifos) |-> <<>>],
            fifo |-> [f \in Fifos |-> Cardinality({g \in Fifos : g <= f})],
            overflow |-> [f \in Fifos |-> FALSE], timebase |-> None, control |-> 0,
            epoch |-> 0, snapshots |-> <<>>, status |-> "pending", reason |-> "none",
            state |-> 0, address |-> 0, remaining |-> 0, start |-> 0, total |-> 0]

Ma2 == line.family = "ma2"

-------------------------------------------------------------------------------
(* _write_ma2.                                                             *)

SelectMa2(index) == Ma2 /\ line' = [line EXCEPT !.index = index]

(* The bank is chosen through index 15.                                    *)
WriteBank(bank) == Ma2 /\ line.index = 15 /\ line' = [line EXCEPT !.bank = bank]

(* New buffers for the FIFOs of fs; those they replace are left alone.     *)
Renewed(t, fs) ==
  LET number(f) == Len(t.heap) + Cardinality({g \in fs : g <= f})
  IN [t EXCEPT !.heap = @ \o [b \in 1..Cardinality(fs) |-> <<>>],
               !.fifo = [f \in Fifos |-> IF f \in fs THEN number(f) ELSE @[f]]]

HasRoom(fs) == Len(line.heap) + Cardinality(fs) <= MaxBuffers

(* Wrong: a full FIFO is emptied in place.                                 *)
Overflowed_InPlace(t, f) ==
  [t EXCEPT !.heap[t.fifo[f]] = <<>>, !.overflow[f] = TRUE]

(* A full FIFO gets an empty buffer and drops what follows.                *)
Overflowed(t, f) == [Renewed(t, {f}) EXCEPT !.overflow[f] = TRUE]

WriteFifo(value) ==
  /\ Ma2 /\ line.bank = 0 /\ line.index \in Fifos
  /\ HasRoom({line.index})
  /\ LET f == line.index IN
     line' = IF line.overflow[f] THEN line
             ELSE IF Len(line.heap[line.fifo[f]]) < FifoLimit
             THEN [line EXCEPT !.heap[line.fifo[f]] = Append(@, value)]
             ELSE Overflowed(line, f)

(* _ma2_render_set_timebase: a change, or a first one after bytes that had *)
(* none, begins an epoch.  The latter keeps the overflow marks.            *)
Retimed(t, value) ==
  LET changed == t.timebase \notin {None, value}
      late    == t.timebase = None /\ \E f \in Fifos : t.heap[t.fifo[f]] # <<>>
      begun   == [Renewed(t, Fifos) EXCEPT !.epoch = @ + 1]
  IN [(IF changed THEN [begun EXCEPT !.overflow = [f \in Fifos |-> FALSE]]
       ELSE IF late THEN begun ELSE t) EXCEPT !.timebase = value]

WriteTimebase(value) ==
  /\ Ma2 /\ line.bank = 1 /\ line.index = 2
  /\ HasRoom(Fifos)
  /\ line' = Retimed(line, value)

(* What a start edge keeps, and what the FIFOs hold then.                  *)
Taken(t) == [epoch |-> t.epoch, timebase |-> t.timebase, buffers |-> t.fifo,
             lengths |-> [f \in Fifos |-> Len(t.heap[t.fifo[f]])],
             overflow |-> t.overflow,
             bytes |-> [f \in Fifos |-> t.heap[t.fifo[f]]]]

(* Wrong: snapshots nobody fetched are kept for ever.                      *)
WriteControl_Unlimited(value) ==
  /\ Ma2 /\ line.bank = 1 /\ line.index = 1
  /\ line' = IF line.control = 0 /\ value = 1
             THEN [line EXCEPT !.control = 1, !.snapshots = Append(@, Taken(line))]
             ELSE [line EXCEPT !.control = value]

(* A rising start bit takes a snapshot; the oldest of too many is dropped. *)
WriteControl(value) ==
  /\ Ma2 /\ line.bank = 1 /\ line.index = 1
  /\ line' = IF line.control = 0 /\ value = 1
             THEN [line EXCEPT
                     !.control = 1,
                     !.snapshots = LET all == Append(@, Taken(line))
                                   IN IF Len(all) > SnapshotLimit THEN Tail(all) ELSE all]
             ELSE [line EXCEPT !.control = value]

-------------------------------------------------------------------------------
(* drain_renderer_snapshots and renderer_submission, which                 *)
(* _flush_audio_transport_renderer calls after every chunk.                *)

Contents(t, s, f) ==
  LET buffer == t.heap[s.buffers[f]]
  IN SubSeq(buffer, 1, Min({Len(buffer), s.lengths[f]}))

(* The first FIFO starts with its header, whose last byte is a length.     *)
Complete(first) == first # <<>> /\ Len(first) >= 1 + first[1]

First == Min(Fifos)

Rejection(t, s) ==
  CASE s.timebase = None                           -> "timebase-missing"
    [] s.timebase # None /\ s.timebase \notin KnownTimebases -> "timebase-unknown"
    [] s.timebase \in KnownTimebases /\ \E f \in Fifos : s.overflow[f] -> "fifo-overflow"
    [] s.timebase \in KnownTimebases /\ \A f \in Fifos : ~s.overflow[f] ->
         IF Complete(Contents(t, s, First)) THEN "none" ELSE "prefix-incomplete"

(* accepted is what the player says of the batch.                          *)
Flush(accepted) ==
  /\ line.snapshots # <<>>
  /\ line' =
       LET verdicts == [i \in DOMAIN line.snapshots |-> Rejection(line, line.snapshots[i])]
       IN IF \A i \in DOMAIN verdicts : verdicts[i] # "none"
          THEN [line EXCEPT !.snapshots = <<>>, !.status = "rejected",
                            !.reason = Last(verdicts)]
          ELSE [line EXCEPT !.snapshots = <<>>,
                            !.status = IF accepted THEN "submitted" ELSE "rejected",
                            !.reason = IF accepted THEN "none" ELSE "refused"]

-------------------------------------------------------------------------------
(* _MA5FIFOReceiver.feed: a byte is 7 bits and the mark of the last one.   *)
(* A delay, an address and, for a voice, a count, each of at most three    *)
(* bytes, and then the payload.                                            *)

Ma5 == line.family = "ma5"

(* _enter_payload.                                                         *)
Entered(t) ==
  CASE t.state = 8  -> [t EXCEPT !.state = 9]
    [] t.state = 10 -> [t EXCEPT !.state = 11, !.start = t.address, !.total = t.remaining]
    [] OTHER        -> t

(* States 0 to 2 read the delay, 3 to 5 the address, 6 and 7 the count.    *)
Header(t, value, last) ==
  CASE t.state \in {0, 1} -> [t EXCEPT !.state = IF last THEN 3 ELSE @ + 1]
    [] t.state = 2        -> [t EXCEPT !.state = 3]
    [] t.state = 3        -> [t EXCEPT !.address = value, !.state = IF last THEN 8 ELSE 4]
    [] t.state = 4        -> [t EXCEPT !.address = @ + value * Radix,
                                       !.state = IF last THEN 8 ELSE 5]
    [] t.state = 5        -> [t EXCEPT !.address = @ + value * Radix * Radix, !.state = 6]
    [] t.state = 6        -> [t EXCEPT !.remaining = value,
                                       !.state = IF ~last THEN 7
                                                 ELSE IF value = 0 THEN 0 ELSE 10]
    [] t.state = 7        -> [t EXCEPT !.remaining = @ + value * Radix,
                                       !.state = IF t.remaining + value * Radix = 0
                                                 THEN 0 ELSE 10]

(* Wrong: the packet ends one byte late.                                   *)
Payload_Late(t, value, last) ==
  IF t.state = 9 THEN [t EXCEPT !.address = @ + 1, !.state = IF last THEN 0 ELSE 9]
  ELSE IF t.remaining = 0 THEN [t EXCEPT !.state = 0]
  ELSE [t EXCEPT !.remaining = @ - 1, !.address = @ + 1]

(* State 9 writes registers until the last, 11 the counted voice bytes.    *)
Payload(t, value, last) ==
  IF t.state = 9 THEN [t EXCEPT !.address = @ + 1, !.state = IF last THEN 0 ELSE 9]
  ELSE IF t.remaining = 1 THEN [t EXCEPT !.remaining = 0, !.state = 0]
  ELSE [t EXCEPT !.remaining = @ - 1, !.address = @ + 1]

FeedMa5(value, last) ==
  /\ Ma5
  /\ line.state = 9 => line.address < Radix * Radix * Radix   \* bound
  /\ line' = Entered(IF line.state \in {9, 11} THEN Payload(line, value, last)
                                                ELSE Header(line, value, last))

Next ==
  \/ \E index \in {15} \cup Fifos \cup Registers : SelectMa2(index)
  \/ \E bank \in {0, 1} : WriteBank(bank)
  \/ \E value \in Bytes : WriteFifo(value)
  \/ \E value \in Timebases : WriteTimebase(value)
  \/ \E value \in {0, 1} : WriteControl(value)
  \/ \E accepted \in BOOLEAN : Flush(accepted)
  \/ \E value \in 0..(Radix - 1), last \in BOOLEAN : FeedMa5(value, last)

Spec == Init /\ [][Next]_line

-------------------------------------------------------------------------------
(* Properties.                                                             *)

(* A snapshot that waits for the end of the chunk still yields the bytes   *)
(* the FIFOs had at its start edge, although it shares their buffers with  *)
(* the guest's later writes, overflows and new epochs.                     *)
SnapshotKeepsItsBytes ==
  \A i \in DOMAIN line.snapshots : \A f \in Fifos :
    Contents(line, line.snapshots[i], f) = line.snapshots[i].bytes[f]

(* A voice packet writes as many bytes as its count says, one after the    *)
(* other from its address (_MA5FIFOReceiver.feed, states 6 to 11).         *)
VoiceIsCounted ==
  line.state = 11 => /\ line.remaining > 0
                     /\ line.address - line.start = line.total - line.remaining
===============================================================================
