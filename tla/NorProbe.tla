------------------------------- MODULE NorProbe -------------------------------
(***************************************************************************)
(* devices/storage/nor.py: the observer of direct Intel ID probes of the   *)
(* primary flash: identify at a page, read the words 0 and 2, reset.  It   *)
(* answers nothing; its records are evidence for the detection.            *)
(***************************************************************************)
EXTENDS Integers, Sequences

CONSTANTS Accesses,    \* of the guest to the primary flash
          MaxProbes    \* records that are kept, 16

NorProbeAssumption ==
  /\ MaxProbes \in Nat
  /\ Accesses \subseteq [op : {"read", "write"}, halfword : BOOLEAN, idle : BOOLEAN,
                          command : {"identify", "array", "other"}, page : Nat, offset : Nat]

VARIABLE watch

TypeOK ==
  /\ \A i \in DOMAIN watch.pending : watch.pending[i] \in Accesses
  /\ watch.probes \in 0..MaxProbes /\ watch.noted \in BOOLEAN

Init ==
  watch = [pending |-> <<>>,    \* _parallel_nor_direct_probe: the accesses of a probe
           probes |-> 0,
           recent |-> <<>>,     \* history: the last four accesses
           noted |-> FALSE]     \* history: the last one was recorded

-------------------------------------------------------------------------------
(* _observe_parallel_nor_direct_write and _observe_parallel_nor_direct_read*)
(* of an access: op, halfword, command, page, offset, and idle, whether    *)
(* the device was.                                                         *)

Begins(a) == a.op = "write" /\ a.halfword /\ a.idle /\ a.command = "identify" /\ a.offset = 0

(* Wrong: a word that was read already does not matter.                    *)
Reads_Again(pending, a) ==
  /\ pending # <<>> /\ a.op = "read" /\ a.halfword
  /\ a.page = pending[1].page /\ a.offset \in {0, 2}

Reads(pending, a) ==
  /\ pending # <<>> /\ a.op = "read" /\ a.halfword
  /\ a.page = pending[1].page /\ a.offset \in {0, 2}
  /\ \A i \in 2..Len(pending) : pending[i].offset # a.offset

Completes(pending, a) ==
  /\ Len(pending) = 3 /\ a.op = "write" /\ a.halfword /\ a.command = "array"
  /\ a.page = pending[1].page /\ a.offset = 0

Observed(pending, a) ==
  IF Begins(a) THEN <<a>> ELSE IF Reads(pending, a) THEN Append(pending, a) ELSE <<>>

Last(history, n) == SubSeq(history, IF Len(history) > n THEN Len(history) - n + 1 ELSE 1, Len(history))

Access(a) ==
  watch' = [watch EXCEPT
    !.pending = Observed(@, a),
    !.noted = Completes(watch.pending, a),
    !.probes = IF Completes(watch.pending, a) /\ @ < MaxProbes THEN @ + 1 ELSE @,
    !.recent = Last(Append(@, a), 4)]

Next == \E a \in Accesses : Access(a)

Spec == Init /\ [][Next]_watch

-------------------------------------------------------------------------------
(* Properties.                                                             *)

(* A probe is recorded when the last four accesses to the device were one. *)
IsProbe(h) ==
  /\ Len(h) = 4 /\ \A i \in 1..4 : h[i].halfword /\ h[i].page = h[1].page
  /\ Begins(h[1]) /\ h[2].op = "read" /\ h[3].op = "read"
  /\ {h[2].offset, h[3].offset} = {0, 2}
  /\ h[4].op = "write" /\ h[4].command = "array" /\ h[4].offset = 0

ProbesAreComplete == watch.noted => IsProbe(watch.recent)
===============================================================================
