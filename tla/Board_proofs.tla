----------------------------- MODULE Board_proofs ------------------------------
(***************************************************************************)
(* Proofs about the components MCBoard checks side by side: the run loop   *)
(* and the release of its polls, the serial bus and the converter behind   *)
(* it, the memory bus, the scan of the keys, the boot probe, the NAND and  *)
(* the EEPROM, the saves of a close, the observer of flash-ID probes, the  *)
(* calls a hook answers and the routines for the second NOR.  They share   *)
(* no state, so each has a section of its own: a named instance, an        *)
(* inductive invariant, a lemma for each action, and the theorems.  The    *)
(* loops a hook completes are in HleLoops_proofs; MCBoard_proofs carries   *)
(* all of them to MCBoard's specification, and has the proofs about the    *)
(* other components.                                                       *)
(***************************************************************************)
EXTENDS HleLoops_proofs

-------------------------------------------------------------------------------
(* What induction shows of the folds and of the rows of the components.    *)

(* A fold over a finite set, whichever elements it picks, has a value, and *)
(* only one.                                                               *)
Picks(S, pick) == \A s \in SUBSET S : s # {} => pick[s] \in s

IsFold(S, T, base, step, pick, h) ==
  /\ h \in [SUBSET S -> T]
  /\ \A s \in SUBSET S :
       h[s] = IF s = {} THEN base ELSE step[<<pick[s], h[s \ {pick[s]}]>>]

AgreeOn(S, pick, f, g) ==
  \A s \in SUBSET S : s # {} /\ f[s \ {pick[s]}] = g[s \ {pick[s]}] => f[s] = g[s]

LEMMA FoldExists ==
  ASSUME NEW S, IsFiniteSet(S), NEW T, NEW base \in T, NEW step \in [S \X T -> T],
         NEW pick, Picks(S, pick)
  PROVE  \E h : IsFold(S, T, base, step, pick, h)
<1> USE DEF Picks, IsFold
<1> DEFINE Small(k) == {s \in SUBSET S : Cardinality(s) <= k}
           Folds(k, h) == \A s \in Small(k) :
             h[s] = IF s = {} THEN base ELSE step[<<pick[s], h[s \ {pick[s]}]>>]
           good == {k \in Nat : \E h \in [Small(k) -> T] : Folds(k, h)}
           n == Cardinality(S)
<1>1. n \in Nat /\ \A s \in SUBSET S : IsFiniteSet(s) /\ Cardinality(s) \in Nat /\ Cardinality(s) <= n
  BY FS_Subset, FS_CardinalityType
<1>2. 0 \in good
  <2>1. \A s \in Small(0) : s = {}
    BY <1>1, FS_EmptySet
  <2> DEFINE h == [s \in Small(0) |-> base]
  <2>2. h \in [Small(0) -> T] /\ Folds(0, h)
    BY <2>1
  <2>3. QED BY <2>2
<1>3. ASSUME NEW k \in 1..n, k - 1 \in good PROVE k \in good
  <2>1. PICK h \in [Small(k - 1) -> T] : Folds(k - 1, h)
    BY <1>3
  <2> DEFINE more == [s \in Small(k) |-> IF s = {} THEN base ELSE step[<<pick[s], h[s \ {pick[s]}]>>]]
  <2>2. ASSUME NEW s \in Small(k), s # {}
        PROVE  /\ s \ {pick[s]} \in Small(k - 1) /\ s \ {pick[s]} \in Small(k)
               /\ pick[s] \in S /\ h[s \ {pick[s]}] \in T
    <3>1. s \in SUBSET S /\ IsFiniteSet(s) /\ Cardinality(s) <= k /\ pick[s] \in s
      BY <1>1, <2>2
    <3>2. Cardinality(s \ {pick[s]}) = Cardinality(s) - 1
      BY <3>1, FS_RemoveElement
    <3>3. Cardinality(s) \in Nat /\ k \in Nat
      BY <1>1, <3>1
    <3>4. s \ {pick[s]} \in Small(k - 1) /\ s \ {pick[s]} \in Small(k)
      BY <3>1, <3>2, <3>3
    <3>5. QED BY <2>1, <3>1, <3>4
  <2>3. more \in [Small(k) -> T]
    BY <2>2
  <2>4. ASSUME NEW s \in Small(k - 1) PROVE s \in Small(k) /\ more[s] = h[s]
    <3>1. s \in Small(k)
      BY <1>1, <2>4
    <3>2. QED BY <2>1, <3>1
  <2>5. ASSUME NEW s \in Small(k), s # {} PROVE more[s] = step[<<pick[s], more[s \ {pick[s]}]>>]
    <3>1. more[s \ {pick[s]}] = h[s \ {pick[s]}]
      BY <2>2, <2>4, <2>5
    <3>2. QED BY <3>1, <2>5
  <2>6. {} \in Small(k) => more[{}] = base
    OBVIOUS
  <2>7. Folds(k, more)
    <3> HIDE DEF more
    <3>1. QED BY <2>5, <2>6
  <2>8. QED
    <3> HIDE DEF more, Folds, Small
    <3>1. k \in Nat
      OBVIOUS
    <3>2. QED BY <2>3, <2>7, <3>1
<1>4. n \in good
  <2> HIDE DEF good
  <2>1. QED BY <1>1, <1>2, <1>3, NumbersUpTo
<1>5. Small(n) = SUBSET S
  BY <1>1
<1>6. QED BY <1>4, <1>5

LEMMA SameFold ==
  ASSUME NEW S, IsFiniteSet(S), NEW pick, Picks(S, pick),
         NEW f, NEW g, f[{}] = g[{}], AgreeOn(S, pick, f, g)
  PROVE  f[S] = g[S]
<1> USE DEF Picks, AgreeOn
<1> DEFINE n == Cardinality(S)
           same == {k \in 0..n : \A s \in SUBSET S : Cardinality(s) <= k => f[s] = g[s]}
<1>1. n \in Nat /\ \A s \in SUBSET S : IsFiniteSet(s) /\ Cardinality(s) \in Nat /\ Cardinality(s) <= n
  BY FS_Subset, FS_CardinalityType
<1>2. 0 \in same
  <2>1. \A s \in SUBSET S : Cardinality(s) <= 0 => s = {}
    BY <1>1, FS_EmptySet
  <2>2. \A s \in SUBSET S : Cardinality(s) <= 0 => f[s] = g[s]
    BY <2>1
  <2>3. QED BY <1>1, <2>2
<1>3. ASSUME NEW k \in 1..n, k - 1 \in same PROVE k \in same
  <2>1. ASSUME NEW s \in SUBSET S, Cardinality(s) <= k PROVE f[s] = g[s]
    <3>1. CASE s = {}
      BY <3>1
    <3>2. CASE s # {}
      <4>1. pick[s] \in s /\ IsFiniteSet(s) /\ Cardinality(s) \in Nat
        BY <1>1, <3>2
      <4>2. Cardinality(s \ {pick[s]}) = Cardinality(s) - 1
        BY <4>1, FS_RemoveElement
      <4>3. Cardinality(s \ {pick[s]}) <= k - 1 /\ s \ {pick[s]} \in SUBSET S
        BY <1>1, <2>1, <4>1, <4>2
      <4>4. f[s \ {pick[s]}] = g[s \ {pick[s]}]
        BY <1>3, <4>3
      <4>5. QED BY <3>2, <4>4
    <3>3. QED BY <3>1, <3>2
  <2>2. k \in 0..n
    BY <1>1
  <2>3. QED BY <2>1, <2>2
<1>4. n \in same
  <2> HIDE DEF same
  <2>1. QED BY <1>1, <1>2, <1>3, NumbersUpTo
<1>5. QED BY <1>1, <1>4

(* A fold that picks the last element of a row runs along the row, and one *)
(* element more is one step more.                                          *)
LEMMA FoldRuns ==
  ASSUME NEW n \in Nat, NEW T, NEW base, NEW step, NEW pick,
         \A i \in 1..n : pick[1..i] = i,
         NEW h, IsFold(1..n, T, base, step, pick, h)
  PROVE  \E r : IsRun(n, T, base, step, r) /\ r[n] = h[1..n]
<1> DEFINE r == [i \in 0..n |-> h[1..i]]
<1>1. \A i \in 0..n : 1..i \in SUBSET (1..n)
  OBVIOUS
<1>2. r \in [0..n -> T]
  BY <1>1 DEF IsFold
<1>3. r[0] = base
  <2>1. 1..0 = {} /\ {} \in SUBSET (1..n) /\ 0 \in 0..n
    OBVIOUS
  <2>2. h[{}] = base
    BY <2>1 DEF IsFold
  <2>3. QED BY <2>1, <2>2
<1>4. ASSUME NEW i \in 1..n PROVE r[i] = step[<<i, r[i - 1]>>]
  <2>1. /\ 1..i \in SUBSET (1..n) /\ 1..i # {} /\ (1..i) \ {i} = 1..(i - 1)
        /\ i \in 0..n /\ i - 1 \in 0..n
    <3>1. i \in 1..i /\ i \in 0..n /\ i - 1 \in 0..n /\ \A j \in 1..i : j \in 1..n
      OBVIOUS
    <3>2. \A j : j \in (1..i) \ {i} <=> j \in 1..(i - 1)
      OBVIOUS
    <3>3. QED BY <3>1, <3>2
  <2>2. h[1..i] = step[<<pick[1..i], h[(1..i) \ {pick[1..i]}]>>]
    BY <2>1 DEF IsFold
  <2>3. h[1..i] = step[<<i, h[1..(i - 1)]>>]
    BY <2>1, <2>2
  <2>4. QED BY <2>1, <2>3
<1>5. QED
  <2>1. r[n] = h[1..n]
    OBVIOUS
  <2> HIDE DEF r
  <2>2. QED BY <1>2, <1>3, <1>4, <2>1 DEF IsRun

GoesOn(n, T, step, more) == \A i \in 1..n : \A v \in T : more[<<i, v>>] = step[<<i, v>>]

LEMMA RunAppend ==
  ASSUME NEW n \in Nat, NEW T, NEW base, NEW step, NEW more, NEW r, NEW q,
         IsRun(n, T, base, step, r), IsRun(n + 1, T, base, more, q),
         GoesOn(n, T, step, more)
  PROVE  q[n + 1] = more[<<n + 1, r[n]>>] /\ r[n] \in T
<1> USE DEF GoesOn
<1>1. r[0] = q[0]
  BY DEF IsRun
<1>2. ASSUME NEW i \in 1..n, r[i - 1] = q[i - 1] PROVE r[i] = q[i]
  <2>1. i - 1 \in 0..n /\ i \in 1..(n + 1)
    OBVIOUS
  <2>2. r[i - 1] \in T /\ r[i] = step[<<i, r[i - 1]>>] /\ q[i] = more[<<i, q[i - 1]>>]
    BY <2>1 DEF IsRun
  <2>3. QED BY <1>2, <2>2
<1>3. n \in 0..n
  OBVIOUS
<1>4. r[n] = q[n]
  BY <1>1, <1>2, <1>3, SameRun
<1>5. n + 1 \in 1..(n + 1) /\ n + 1 - 1 = n
  OBVIOUS
<1>6. QED BY <1>3, <1>4, <1>5 DEF IsRun

(* The first and the last of some numbers, and of a row of them.           *)
Least(s) == CHOOSE x \in s : \A y \in s : x <= y
Greatest(s) == CHOOSE x \in s : \A y \in s : x >= y

LEMMA LeastOfSome ==
  ASSUME NEW n \in Nat, NEW s \in SUBSET (1..n), s # {}
  PROVE  Least(s) \in s
<1>1. s \in SUBSET Nat
  OBVIOUS
<1>2. PICK x \in s : \A y \in s : x <= y
  BY <1>1, LeastNumber
<1>3. QED BY <1>2 DEF Least

LEMMA GreatestOfSome ==
  ASSUME NEW n \in Nat, NEW s \in SUBSET (1..n), s # {}
  PROVE  Greatest(s) \in s
<1> DEFINE from == {n - x : x \in s}
<1>1. from \in SUBSET Nat /\ from # {}
  <2>1. \A x \in s : n - x \in Nat
    OBVIOUS
  <2>2. QED BY <2>1
<1>2. PICK d \in from : \A e \in from : d <= e
  <2> HIDE DEF from
  <2>1. QED BY <1>1, LeastNumber
<1>3. PICK x \in s : d = n - x
  BY <1>2
<1>4. ASSUME NEW y \in s PROVE x >= y
  <2>1. n - y \in from /\ x \in Int /\ y \in Int
    OBVIOUS
  <2>2. n - x <= n - y
    BY <1>2, <1>3, <2>1
  <2>3. QED BY <2>1, <2>2
<1>5. QED BY <1>3, <1>4 DEF Greatest

LEMMA GreatestOfRow ==
  ASSUME NEW n \in Nat \ {0}
  PROVE  Greatest(1..n) = n /\ (1..n) \ {n} = 1..(n - 1)
<1>1. n \in 1..n /\ \A y \in 1..n : n >= y
  OBVIOUS
<1>2. \A x \in 1..n : (\A y \in 1..n : x >= y) => x = n
  BY <1>1
<1>3. Greatest(1..n) = n
  BY <1>1, <1>2 DEF Greatest
<1>4. QED BY <1>3

(* The powers of two are counts of subsets.                                *)
LEMMA PowerCounts ==
  ASSUME NEW n \in Nat
  PROVE  2^n = Cardinality(SUBSET (1..n)) /\ IsFiniteSet(SUBSET (1..n))
<1>1. IsFiniteSet(1..n) /\ Cardinality(1..n) = n
  BY FS_Interval
<1>2. QED BY <1>1, FS_SUBSET

LEMMA PowerIsPositive ==
  ASSUME NEW n \in Nat PROVE 2^n \in Nat \ {0}
<1>1. IsFiniteSet(SUBSET (1..n)) /\ 2^n = Cardinality(SUBSET (1..n))
  BY PowerCounts
<1>2. SUBSET (1..n) # {}
  OBVIOUS
<1>3. QED BY <1>1, <1>2, FS_CardinalityType, FS_EmptySet

LEMMA PowerOfNone == 2^0 = 1
BY SMT

LEMMA PowerNext ==
  ASSUME NEW n \in Nat PROVE 2^(n + 1) = 2 * 2^n
<1> DEFINE A == SUBSET (1..n)
           B == {s \cup {n + 1} : s \in A}
           f == [s \in A |-> s \cup {n + 1}]
<1>1. A \cap B = {}
  BY DEF A
<1>2. SUBSET (1..(n + 1)) = A \cup B
  <2>1. ASSUME NEW s \in SUBSET (1..(n + 1)), s \notin A PROVE s \in B
    <3>1. n + 1 \in s /\ s \ {n + 1} \in A
      BY <2>1
    <3>2. s = (s \ {n + 1}) \cup {n + 1}
      BY <3>1
    <3>3. QED BY <3>1, <3>2
  <2>2. \A s \in A \cup B : s \in SUBSET (1..(n + 1))
    OBVIOUS
  <2>3. QED BY <2>1, <2>2
<1>3. IsFiniteSet(A) /\ 2^n = Cardinality(A) /\ 2^(n + 1) = Cardinality(SUBSET (1..(n + 1)))
  BY PowerCounts
<1>4. f \in Bijection(A, B)
  <2>1. \A s, t \in A : f[s] = f[t] => s = t
    <3>1. SUFFICES ASSUME NEW s \in A, NEW t \in A, s \cup {n + 1} = t \cup {n + 1} PROVE s = t
      OBVIOUS
    <3>2. n + 1 \notin s /\ n + 1 \notin t
      OBVIOUS
    <3>3. QED BY <3>1, <3>2
  <2>2. f \in [A -> B] /\ \A b \in B : \E s \in A : f[s] = b
    OBVIOUS
  <2> HIDE DEF f, A, B
  <2>3. QED BY <2>1, <2>2 DEF Bijection, Injection, Surjection, IsInjective
<1>5. IsFiniteSet(B) /\ Cardinality(B) = Cardinality(A)
  <2> HIDE DEF A, B, f
  <2>1. QED BY <1>3, <1>4, FS_Bijection DEF ExistsBijection
<1>6. QED
  <2>1. Cardinality(A \cup B) = Cardinality(A) + Cardinality(B) - Cardinality(A \cap B)
    <3> HIDE DEF A, B
    <3>1. QED BY <1>3, <1>5, FS_Union
  <2>2. Cardinality(A \cap B) = 0 /\ Cardinality(A) \in Nat
    <3> HIDE DEF A, B
    <3>1. QED BY <1>1, <1>3, FS_EmptySet, FS_CardinalityType
  <2> HIDE DEF A, B
  <2>3. Cardinality(A \cup B) = 2 * Cardinality(A)
    BY <1>5, <2>1, <2>2
  <2>4. QED BY <1>2, <1>3, <2>3, Zenon

-------------------------------------------------------------------------------
(* The run loop.                                                           *)

CONSTANTS Window, Hot, Slices, Probes, Polls, Inert, HasLinker, MaxSteps
VARIABLE machine

Loop == INSTANCE RunLoop

(* The loop's record, also in the middle of a turn, where a window may     *)
(* have come to its end.                                                   *)
Machines ==
  [remaining : Nat, probe : Probes, window : 0..Window, instructions : Nat,
   reads : [Polls -> Nat], candidates : SUBSET Polls, set : SUBSET Loop!Bits,
   clear : SUBSET Loop!Bits, fault : Loop!Faults, fast : BOOLEAN, hle : BOOLEAN,
   decisions : Nat, stuck : [Polls -> 0..2]]

(* Within a window a poll was read no more often than instructions ran.    *)
ReadsFit ==
  machine.fault = "none" =>
    \A p \in Polls : /\ machine.reads[p] <= Window
                     /\ machine.window < Window =>
                          machine.reads[p] <= Window - machine.window

(* A candidate was stuck in an earlier window, and a forced bit was        *)
(* released for a poll that was stuck in two.                              *)
CandidatesWereStuck ==
  \A p \in machine.candidates : p \notin Inert /\ machine.stuck[p] >= 1

WaitedFor(bit, state) ==
  \E p \in Polls \ Inert : p.bit = bit /\ p.state = state /\ machine.stuck[p] >= 2

BitsWereWaitedFor ==
  /\ machine.set \cap machine.clear = {}
  /\ \A b \in machine.set : WaitedFor(b, TRUE)
  /\ \A b \in machine.clear : WaitedFor(b, FALSE)

LoopInv ==
  /\ machine \in Machines /\ machine.window # 0
  /\ machine.instructions = machine.decisions * Window + (Window - machine.window)
  /\ ReadsFit /\ CandidatesWereStuck /\ BitsWereWaitedFor

LEMMA LoopInitInv == Loop!RunLoopAssumption /\ Loop!Init => LoopInv
<1> SUFFICES ASSUME Loop!RunLoopAssumption, Loop!Init PROVE LoopInv
  OBVIOUS
<1> DEFINE none == [p \in Polls |-> 0]
<1>1. none \in [Polls -> Nat] /\ none \in [Polls -> 0..2] /\ \A p \in Polls : none[p] = 0
  OBVIOUS
<1>2. PICK probe \in Probes : probe = CHOOSE p \in Probes : TRUE
  BY DEF Loop!RunLoopAssumption
<1>3. Window \in Nat \ {0}
  BY DEF Loop!RunLoopAssumption
<1> HIDE DEF none
<1>4. machine = [remaining |-> 0, probe |-> probe, window |-> Window,
                 instructions |-> 0, reads |-> none, candidates |-> {},
                 set |-> {}, clear |-> {}, fault |-> "none", fast |-> FALSE,
                 hle |-> FALSE, decisions |-> 0, stuck |-> none]
  BY <1>2 DEF Loop!Init, none
<1>5. machine \in Machines
  BY <1>1, <1>3, <1>4 DEF Machines, Loop!Faults
<1>6. machine.instructions = machine.decisions * Window + (Window - machine.window)
  BY <1>3, <1>4
<1>7. QED BY <1>1, <1>3, <1>4, <1>5, <1>6 DEF LoopInv, ReadsFit, CandidatesWereStuck,
        BitsWereWaitedFor

(* What a chunk leaves before its window is looked at.                     *)
LEMMA ChunkFits ==
  ASSUME Loop!RunLoopAssumption, LoopInv, ~Loop!Idle
  PROVE  /\ Loop!Chunk \in Nat \ {0} /\ Loop!Chunk <= machine.remaining
         /\ Loop!Chunk <= machine.window
<1>1. /\ machine.remaining \in Nat \ {0} /\ machine.probe \in Nat \ {0}
      /\ machine.window \in Nat \ {0}
  <2>1. /\ machine.remaining \in Nat /\ machine.probe \in Probes
        /\ machine.window \in 0..Window /\ machine.window # 0
    BY DEF LoopInv, Machines
  <2>2. Probes \subseteq Nat \ {0} /\ Window \in Nat /\ machine.remaining # 0
    BY DEF Loop!RunLoopAssumption, Loop!Idle
  <2>3. machine.window \in Nat
    BY <2>1, <2>2
  <2>4. QED BY <2>1, <2>2, <2>3
<1>2. QED BY <1>1 DEF Loop!Chunk, Loop!Least

Ran(m) ==
  /\ m \in Machines /\ m.fault = machine.fault
  /\ \A p \in Polls : m.reads[p] <= Loop!Chunk
       + IF machine.window = Window THEN 0 ELSE machine.reads[p]
  /\ m = [machine EXCEPT !.reads = m.reads, !.hle = m.hle]

LEMMA LoopExecuted ==
  ASSUME Loop!RunLoopAssumption, LoopInv, ~Loop!Idle, NEW poll \in Polls, NEW hle \in BOOLEAN
  PROVE  Ran(Loop!Executed(machine, poll, hle))
<1> DEFINE m == Loop!Executed(machine, poll, hle)
           old == IF machine.window = Window THEN [p \in Polls |-> 0] ELSE machine.reads
           reads == [p \in Polls |-> old[p] + IF p = poll THEN Loop!Chunk ELSE 0]
<1>1. /\ machine \in Machines /\ Loop!Chunk \in Nat /\ machine.hle \in BOOLEAN
      /\ machine.reads \in [Polls -> Nat]
  BY ChunkFits DEF LoopInv, Machines
<1>2. m = [machine EXCEPT !.reads = reads, !.hle = machine.hle \/ hle]
  <2>1. Loop!Observed(machine) = [machine EXCEPT !.reads = old]
    BY <1>1 DEF Loop!Observed, Machines
  <2>2. [machine EXCEPT !.reads = old].reads = old
    BY <1>1 DEF Machines
  <2>3. [machine EXCEPT !.reads = old].hle = machine.hle
    BY <1>1 DEF Machines
  <2> HIDE DEF old
  <2>4. m = [[machine EXCEPT !.reads = old] EXCEPT !.reads = reads, !.hle = machine.hle \/ hle]
    BY <2>1, <2>2, <2>3 DEF Loop!Executed
  <2>5. QED BY <1>1, <2>4 DEF Machines
<1>3. old \in [Polls -> Nat]
  BY <1>1
<1>4. reads \in [Polls -> Nat]
  <2> HIDE DEF old
  <2>1. QED BY <1>1, <1>3
<1>5. \A p \in Polls : reads[p] <= Loop!Chunk
                 + IF machine.window = Window THEN 0 ELSE machine.reads[p]
  BY <1>1
<1> HIDE DEF reads, m
<1>6. m \in Machines /\ m.reads = reads /\ m.fault = machine.fault
      /\ m.hle = (machine.hle \/ hle)
  BY <1>1, <1>2, <1>4 DEF Machines
<1>7. Ran(m)
  BY <1>2, <1>5, <1>6 DEF Ran
<1>8. QED BY <1>7 DEF m

(* The end of a window: what was read in it makes polls stuck, polls that  *)
(* are stuck candidates, and a candidate that is stuck again is released.  *)
StuckNow(m, p) == p \in Polls \ Inert /\ m.reads[p] >= Hot

Released(m, n) ==
  \/ n.set = m.set /\ n.clear = m.clear
  \/ \E p \in m.candidates : /\ StuckNow(m, p)
                             /\ n.set = IF p.state THEN m.set \cup {p.bit}
                                                   ELSE m.set \ {p.bit}
                             /\ n.clear = IF p.state THEN m.clear \ {p.bit}
                                                     ELSE m.clear \cup {p.bit}

LEMMA LoopReleases ==
  ASSUME Loop!RunLoopAssumption, NEW m \in Machines, NEW n \in Loop!ReleasePoll(m)
  PROVE  /\ n \in Machines
         /\ n.remaining = m.remaining /\ n.window = m.window /\ n.fault = m.fault
         /\ n.instructions = m.instructions /\ n.decisions = m.decisions
         /\ n.reads = m.reads /\ n.stuck = m.stuck
         /\ \A p \in n.candidates : p \in m.candidates \/ StuckNow(m, p)
         /\ Released(m, n)
<1>1. \A p \in Loop!Stuck(m) : StuckNow(m, p)
  BY DEF Loop!Stuck, StuckNow
<1>2. Loop!Stuck(m) \subseteq Polls
  BY DEF Loop!Stuck
<1> DEFINE again == Loop!Stuck(m) \cap m.candidates
           noted(p) == {q \in Loop!Stuck(m) : Loop!Hotter(m, q, p)}
<1>3. CASE again = {}
  <2>1. n = [m EXCEPT !.candidates = m.candidates \cup Loop!Stuck(m)]
    BY <1>3 DEF Loop!ReleasePoll
  <2>2. m.candidates \cup Loop!Stuck(m) \in SUBSET Polls
    BY <1>2 DEF Machines
  <2>3. n \in Machines /\ n.candidates = m.candidates \cup Loop!Stuck(m)
        /\ n.remaining = m.remaining /\ n.window = m.window /\ n.fault = m.fault
        /\ n.instructions = m.instructions /\ n.decisions = m.decisions
        /\ n.reads = m.reads /\ n.stuck = m.stuck /\ n.set = m.set /\ n.clear = m.clear
    BY <2>1, <2>2 DEF Machines
  <2>4. QED BY <1>1, <2>3 DEF Released
<1>4. CASE again # {}
  <2>1. PICK p \in again :
          n = Loop!Released([m EXCEPT !.candidates = m.candidates \cup noted(p)], p)
    BY <1>4 DEF Loop!ReleasePoll
  <2> DEFINE candidates == (m.candidates \cup noted(p)) \ {p}
             set == IF p.state THEN m.set \cup {p.bit} ELSE m.set \ {p.bit}
             clear == IF p.state THEN m.clear \ {p.bit} ELSE m.clear \cup {p.bit}
  <2>2. candidates \in SUBSET Polls /\ \A q \in candidates : q \in m.candidates \/ StuckNow(m, q)
    BY <1>1, <1>2 DEF Machines
  <2>3. p \in m.candidates /\ StuckNow(m, p) /\ p \in Polls
    BY <1>1, <1>2
  <2>4. set \in SUBSET Loop!Bits /\ clear \in SUBSET Loop!Bits
    BY <2>3 DEF Machines, Loop!Bits
  <2>5. n = [m EXCEPT !.candidates = candidates, !.set = set, !.clear = clear]
    <3> DEFINE k == [m EXCEPT !.candidates = m.candidates \cup noted(p)]
    <3>1. k.candidates = m.candidates \cup noted(p) /\ k.set = m.set /\ k.clear = m.clear
      BY DEF Machines
    <3>2. n = [k EXCEPT !.candidates = candidates, !.set = set, !.clear = clear]
      <4> HIDE DEF k, noted
      <4>1. n = Loop!Released(k, p)
        BY <2>1 DEF k
      <4>2. QED BY <3>1, <4>1 DEF Loop!Released
    <3> HIDE DEF candidates, set, clear, noted
    <3>3. QED BY <3>2 DEF Machines
  <2> HIDE DEF candidates, set, clear
  <2>6. n \in Machines /\ n.candidates = candidates /\ n.set = set /\ n.clear = clear
        /\ n.remaining = m.remaining /\ n.window = m.window /\ n.fault = m.fault
        /\ n.instructions = m.instructions /\ n.decisions = m.decisions
        /\ n.reads = m.reads /\ n.stuck = m.stuck
    BY <2>2, <2>4, <2>5 DEF Machines
  <2>7. Released(m, n)
    BY <2>3, <2>6 DEF Released, set, clear
  <2>8. QED BY <2>2, <2>6, <2>7
<1>5. QED BY <1>3, <1>4

LEMMA LoopDecides ==
  ASSUME Loop!RunLoopAssumption, NEW m \in Machines, NEW repeated \in BOOLEAN,
         NEW n \in Loop!Decided(m, repeated)
  PROVE  /\ n \in Machines
         /\ n.remaining = m.remaining /\ n.window = Window /\ n.fault = m.fault
         /\ n.instructions = m.instructions /\ n.decisions = m.decisions + 1
         /\ n.reads = m.reads
         /\ \A p \in Polls : /\ n.stuck[p] >= m.stuck[p]
                             /\ m.reads[p] >= Hot /\ m.stuck[p] >= 1 => n.stuck[p] >= 2
                             /\ m.reads[p] >= Hot => n.stuck[p] >= 1
         /\ \A p \in n.candidates : p \in m.candidates \/ StuckNow(m, p)
         /\ Released(m, n)
<1> DEFINE stuck == [p \in Polls |-> IF m.reads[p] >= Hot
                                     THEN Loop!Least(2, m.stuck[p] + 1) ELSE m.stuck[p]]
           seen == [m EXCEPT !.window = Window, !.decisions = m.decisions + 1, !.stuck = stuck]
<1>1. m.stuck \in [Polls -> 0..2] /\ m.decisions \in Nat /\ Window \in 0..Window
  BY DEF Machines, Loop!RunLoopAssumption
<1>2. /\ stuck \in [Polls -> 0..2]
      /\ \A p \in Polls : /\ stuck[p] >= m.stuck[p]
                          /\ m.reads[p] >= Hot /\ m.stuck[p] >= 1 => stuck[p] >= 2
                          /\ m.reads[p] >= Hot => stuck[p] >= 1
  BY <1>1 DEF Loop!Least
<1> HIDE DEF stuck
<1>3. seen \in Machines
  <2>1. m.decisions + 1 \in Nat
    BY <1>1
  <2>2. QED BY <1>1, <1>2, <2>1 DEF Machines
<1>4. /\ seen.remaining = m.remaining /\ seen.window = Window /\ seen.fault = m.fault
      /\ seen.instructions = m.instructions /\ seen.decisions = m.decisions + 1
      /\ seen.reads = m.reads /\ seen.stuck = stuck /\ seen.candidates = m.candidates
      /\ seen.set = m.set /\ seen.clear = m.clear
  BY DEF Machines
<1>5. \A p : StuckNow(seen, p) <=> StuckNow(m, p)
  BY <1>4 DEF StuckNow
<1>6. n = [seen EXCEPT !.fast = TRUE] \/ n \in Loop!ReleasePoll(seen)
  BY DEF Loop!Decided, stuck
<1> HIDE DEF seen
<1>7. CASE n = [seen EXCEPT !.fast = TRUE]
  <2>1. /\ n \in Machines /\ n.remaining = seen.remaining /\ n.window = seen.window
        /\ n.fault = seen.fault /\ n.instructions = seen.instructions
        /\ n.decisions = seen.decisions /\ n.reads = seen.reads /\ n.stuck = seen.stuck
        /\ n.candidates = seen.candidates /\ n.set = seen.set /\ n.clear = seen.clear
    BY <1>3, <1>7 DEF Machines
  <2>2. QED BY <1>2, <1>4, <2>1 DEF Released
<1>8. CASE n \in Loop!ReleasePoll(seen)
  <2>1. /\ n \in Machines
        /\ n.remaining = seen.remaining /\ n.window = seen.window /\ n.fault = seen.fault
        /\ n.instructions = seen.instructions /\ n.decisions = seen.decisions
        /\ n.reads = seen.reads /\ n.stuck = seen.stuck
        /\ \A p \in n.candidates : p \in seen.candidates \/ StuckNow(seen, p)
        /\ Released(seen, n)
    BY <1>3, <1>8, LoopReleases
  <2>2. Released(m, n)
    BY <1>4, <1>5, <2>1 DEF Released
  <2>3. QED BY <1>2, <1>4, <1>5, <2>1, <2>2
<1>9. QED BY <1>6, <1>7, <1>8

(* Bits stay waited for when polls are only stuck more often, and the bit  *)
(* that a poll releases was waited for: the poll was a candidate.          *)
LEMMA LoopForces ==
  ASSUME Loop!RunLoopAssumption, LoopInv, NEW m \in Machines, NEW n \in Machines, Released(m, n),
         m.set = machine.set, m.clear = machine.clear,
         m.candidates = machine.candidates, m.stuck = machine.stuck,
         \A p \in Polls : n.stuck[p] >= m.stuck[p],
         \A p \in Polls : m.reads[p] >= Hot /\ m.stuck[p] >= 1 => n.stuck[p] >= 2,
         machine' = [n EXCEPT !.remaining = machine'.remaining]
  PROVE  BitsWereWaitedFor'
<1>1. /\ machine'.set = n.set /\ machine'.clear = n.clear /\ machine'.stuck = n.stuck
      /\ n.stuck \in [Polls -> 0..2] /\ m.stuck \in [Polls -> 0..2]
      /\ m.candidates \subseteq Polls
  BY DEF Machines
<1>2. ASSUME NEW bit, NEW state, WaitedFor(bit, state) PROVE WaitedFor(bit, state)'
  <2>1. PICK p \in Polls \ Inert : p.bit = bit /\ p.state = state /\ machine.stuck[p] >= 2
    BY <1>2 DEF WaitedFor
  <2>2. n.stuck[p] >= 2
    BY <1>1, <2>1
  <2>3. QED BY <1>1, <2>1, <2>2 DEF WaitedFor
<1>3. /\ machine.set \cap machine.clear = {}
      /\ \A b \in machine.set : WaitedFor(b, TRUE)
      /\ \A b \in machine.clear : WaitedFor(b, FALSE)
  BY DEF LoopInv, BitsWereWaitedFor
<1>4. CASE n.set = m.set /\ n.clear = m.clear
  <2>1. \A b \in n.set : WaitedFor(b, TRUE)'
    BY <1>2, <1>3, <1>4
  <2>2. \A b \in n.clear : WaitedFor(b, FALSE)'
    BY <1>2, <1>3, <1>4
  <2>3. QED BY <1>1, <1>3, <1>4, <2>1, <2>2 DEF BitsWereWaitedFor
<1>5. ASSUME NEW p \in m.candidates, StuckNow(m, p),
             n.set = IF p.state THEN m.set \cup {p.bit} ELSE m.set \ {p.bit},
             n.clear = IF p.state THEN m.clear \ {p.bit} ELSE m.clear \cup {p.bit}
      PROVE  BitsWereWaitedFor'
  <2>1. p \in Polls \ Inert /\ m.stuck[p] >= 1 /\ m.reads[p] >= Hot /\ p.state \in BOOLEAN
    BY <1>5 DEF LoopInv, CandidatesWereStuck, StuckNow, Loop!RunLoopAssumption
  <2>2. n.stuck[p] >= 2
    BY <2>1
  <2>3. ASSUME NEW state, p.state = state PROVE WaitedFor(p.bit, state)'
    BY <1>1, <2>1, <2>2, <2>3 DEF WaitedFor
  <2>4. n.set \cap n.clear = {}
    BY <1>3, <1>5
  <2>5. ASSUME NEW b \in n.set PROVE WaitedFor(b, TRUE)'
    <3>1. CASE b \in machine.set
      BY <1>2, <1>3, <3>1
    <3>2. CASE b \notin machine.set
      <4>1. b = p.bit /\ p.state = TRUE
        BY <1>5, <2>1, <3>2
      <4>2. QED BY <2>3, <4>1
    <3>3. QED BY <3>1, <3>2
  <2>6. ASSUME NEW b \in n.clear PROVE WaitedFor(b, FALSE)'
    <3>1. CASE b \in machine.clear
      BY <1>2, <1>3, <3>1
    <3>2. CASE b \notin machine.clear
      <4>1. b = p.bit /\ p.state = FALSE
        BY <1>5, <2>1, <3>2
      <4>2. QED BY <2>3, <4>1
    <3>3. QED BY <3>1, <3>2
  <2>7. QED BY <1>1, <2>4, <2>5, <2>6 DEF BitsWereWaitedFor
<1>6. QED BY <1>4, <1>5 DEF Released

LEMMA LoopChunkRuns ==
  ASSUME Loop!RunLoopAssumption, LoopInv, NEW poll \in Polls,
         NEW hle \in BOOLEAN, NEW repeated \in BOOLEAN,
         Loop!ChunkRuns(poll, hle, repeated)
  PROVE  LoopInv'
<1> DEFINE e == Loop!Executed(machine, poll, hle)
           m == Loop!Counted(e)
<1>1. /\ Loop!Chunk \in Nat \ {0} /\ Loop!Chunk <= machine.remaining
      /\ Loop!Chunk <= machine.window
  BY ChunkFits DEF Loop!ChunkRuns
<1>2. /\ e \in Machines /\ e.fault = machine.fault
      /\ \A p \in Polls : e.reads[p] <= Loop!Chunk
           + IF machine.window = Window THEN 0 ELSE machine.reads[p]
      /\ e = [machine EXCEPT !.reads = e.reads, !.hle = e.hle]
  <2>1. ~Loop!Idle
    BY DEF Loop!ChunkRuns
  <2>2. Ran(e)
    BY <2>1, LoopExecuted, Zenon
  <2>3. QED BY <2>2 DEF Ran
<1>3. /\ machine \in Machines /\ machine.window \in 1..Window /\ Window \in Nat \ {0}
      /\ machine.instructions \in Nat /\ machine.decisions \in Nat
      /\ machine.instructions = machine.decisions * Window + (Window - machine.window)
      /\ machine.remaining \in Nat /\ machine.reads \in [Polls -> Nat]
  BY DEF LoopInv, Machines, Loop!RunLoopAssumption
<1> HIDE DEF e
<1>4. /\ e.instructions = machine.instructions /\ e.window = machine.window
      /\ e.remaining = machine.remaining /\ e.decisions = machine.decisions
      /\ e.stuck = machine.stuck /\ e.candidates = machine.candidates
      /\ e.set = machine.set /\ e.clear = machine.clear
  BY <1>2, <1>3 DEF Machines
<1>5. /\ m \in Machines /\ m.instructions = machine.instructions + Loop!Chunk
      /\ m.window = machine.window - Loop!Chunk
      /\ m.remaining = machine.remaining /\ m.decisions = machine.decisions
      /\ m.stuck = machine.stuck /\ m.candidates = machine.candidates
      /\ m.set = machine.set /\ m.clear = machine.clear
      /\ m.fault = machine.fault /\ m.reads = e.reads
  <2>1. machine.instructions + Loop!Chunk \in Nat /\ machine.window - Loop!Chunk \in 0..Window
    BY <1>1, <1>3
  <2>2. QED BY <1>2, <1>4, <2>1 DEF Loop!Counted, Machines
<1> HIDE DEF m
<1>6. m.fault = "none" => \A p \in Polls : m.reads[p] <= Window - m.window
  <2> SUFFICES ASSUME m.fault = "none", NEW p \in Polls PROVE m.reads[p] <= Window - m.window
    OBVIOUS
  <2>1. machine.window < Window => machine.reads[p] <= Window - machine.window
    BY <1>5 DEF LoopInv, ReadsFit
  <2>2. m.reads[p] \in Nat /\ machine.reads[p] \in Nat
    BY <1>3, <1>5 DEF Machines
  <2>3. m.reads[p] <= Loop!Chunk + IF machine.window = Window THEN 0 ELSE machine.reads[p]
    BY <1>2, <1>5
  <2>4. QED
    <3>1. machine.window \in Nat /\ m.reads[p] \in Nat /\ machine.reads[p] \in Nat
      BY <1>3, <2>2
    <3>2. CASE machine.window = Window
      <4>1. m.reads[p] <= Loop!Chunk /\ m.window = Window - Loop!Chunk
        BY <1>1, <1>3, <1>5, <2>3, <3>1, <3>2
      <4>2. QED BY <1>1, <1>3, <3>1, <4>1
    <3>3. CASE machine.window < Window
      BY <1>1, <1>3, <1>5, <2>1, <2>3, <3>1, <3>3
    <3>4. machine.window <= Window /\ Window \in Nat
      BY <1>3
    <3>5. machine.window = Window \/ machine.window < Window
      BY <3>1, <3>4
    <3>6. QED BY <3>2, <3>3, <3>5
<1>7. PICK n \in IF m.window = 0 THEN Loop!Decided(m, repeated) ELSE {m} :
        machine' = Loop!Continued(n)
  BY DEF Loop!ChunkRuns, m, e
<1>8. CASE m.window = 0
  <2>1. n \in Loop!Decided(m, repeated)
    BY <1>7, <1>8
  <2>2. /\ n \in Machines
        /\ n.remaining = m.remaining /\ n.window = Window /\ n.fault = m.fault
        /\ n.instructions = m.instructions /\ n.decisions = m.decisions + 1
        /\ n.reads = m.reads
        /\ \A p \in Polls : /\ n.stuck[p] >= m.stuck[p]
                            /\ m.reads[p] >= Hot /\ m.stuck[p] >= 1 => n.stuck[p] >= 2
                            /\ m.reads[p] >= Hot => n.stuck[p] >= 1
        /\ \A p \in n.candidates : p \in m.candidates \/ StuckNow(m, p)
        /\ Released(m, n)
    BY <1>5, <2>1, LoopDecides
  <2>3. machine' = [n EXCEPT !.remaining = n.remaining - Loop!Chunk]
    BY <1>7 DEF Loop!Continued
  <2>4. n.remaining - Loop!Chunk \in Nat
    BY <1>1, <1>3, <1>5, <2>2
  <2>5. /\ machine' \in Machines /\ machine'.window = Window /\ machine'.fault = n.fault
        /\ machine'.instructions = n.instructions /\ machine'.decisions = n.decisions
        /\ machine'.reads = n.reads /\ machine'.candidates = n.candidates
        /\ machine'.stuck = n.stuck
    BY <2>2, <2>3, <2>4 DEF Machines
  <2>6. machine'.instructions = machine'.decisions * Window + (Window - machine'.window)
    <3>1. PICK d \in Nat, w \in Nat : d = machine.decisions /\ w = Window
      BY <1>3
    <3>2. PICK old \in Nat : old = d * w
      OBVIOUS
    <3>3. (d + 1) * w = old + w
      BY <3>2
    <3>4. machine.instructions = old + (w - machine.window) /\ machine.window \in Int
      BY <1>3, <3>1, <3>2
    <3>5. machine'.instructions = machine.instructions + Loop!Chunk /\ machine.window = Loop!Chunk
      BY <1>1, <1>3, <1>5, <1>8, <2>2, <2>5
    <3>6. machine'.instructions = old + w
      BY <3>4, <3>5
    <3>7. machine'.decisions = d + 1 /\ machine'.window = w
      BY <1>5, <2>2, <2>5, <3>1
    <3>8. QED BY <3>1, <3>3, <3>6, <3>7
  <2>7. ReadsFit'
    <3> SUFFICES ASSUME machine'.fault = "none", NEW p \in Polls
                 PROVE  machine'.reads[p] <= Window
      <4>1. ~(machine'.window < Window)
        BY <1>3, <2>5
      <4>2. QED BY <4>1 DEF ReadsFit
    <3>1. m.reads[p] <= Window - m.window
      BY <1>6, <2>2, <2>5
    <3>2. QED BY <1>3, <1>8, <2>2, <2>5, <3>1
  <2>8. CandidatesWereStuck'
    <3> SUFFICES ASSUME NEW p \in n.candidates PROVE p \notin Inert /\ n.stuck[p] >= 1
      BY <2>5 DEF CandidatesWereStuck
    <3>1. p \in Polls /\ n.stuck[p] \in 0..2 /\ m.stuck[p] \in 0..2
      BY <1>5, <2>2 DEF Machines
    <3>2. CASE p \in m.candidates
      BY <1>5, <2>2, <3>1, <3>2 DEF LoopInv, CandidatesWereStuck
    <3>3. CASE StuckNow(m, p)
      BY <2>2, <3>1, <3>3 DEF StuckNow
    <3>4. QED BY <2>2, <3>2, <3>3
  <2>9. BitsWereWaitedFor'
    <3>1. machine' = [n EXCEPT !.remaining = machine'.remaining]
      BY <2>2, <2>3 DEF Machines
    <3>2. QED BY <1>5, <2>2, <3>1, LoopForces
  <2>10. machine'.window # 0
    BY <1>3, <2>5
  <2>11. QED BY <2>5, <2>6, <2>7, <2>8, <2>9, <2>10 DEF LoopInv
<1>9. CASE m.window # 0
  <2>1. machine' = [m EXCEPT !.remaining = m.remaining - Loop!Chunk]
    BY <1>7, <1>9 DEF Loop!Continued
  <2>2. m.remaining - Loop!Chunk \in Nat
    BY <1>1, <1>3, <1>5
  <2>3. /\ machine' \in Machines /\ machine'.window = m.window /\ machine'.fault = m.fault
        /\ machine'.instructions = m.instructions /\ machine'.decisions = m.decisions
        /\ machine'.reads = m.reads /\ machine'.candidates = m.candidates
        /\ machine'.stuck = m.stuck /\ machine'.set = m.set /\ machine'.clear = m.clear
    BY <1>5, <2>1, <2>2 DEF Machines
  <2>4. machine'.instructions = machine'.decisions * Window + (Window - machine'.window)
    <3>1. PICK old : old = machine.decisions * Window
      OBVIOUS
    <3>2. old \in Nat /\ machine.instructions = old + (Window - machine.window)
      BY <1>3, <3>1
    <3>3. machine'.decisions = machine.decisions
      BY <1>5, <2>3
    <3>4. machine'.instructions = old + (Window - machine'.window)
      BY <1>1, <1>3, <1>5, <2>3, <3>2
    <3>5. QED BY <3>1, <3>3, <3>4
  <2>5. ReadsFit'
    <3> SUFFICES ASSUME machine'.fault = "none", NEW p \in Polls
                 PROVE  m.reads[p] <= Window /\ m.reads[p] <= Window - m.window
      BY <2>3 DEF ReadsFit
    <3>1. m.reads[p] <= Window - m.window /\ m.reads[p] \in Nat /\ m.window \in 0..Window
      BY <1>5, <1>6, <2>3 DEF Machines
    <3>2. QED BY <1>3, <3>1
  <2>6. CandidatesWereStuck' /\ BitsWereWaitedFor'
    BY <1>5, <2>3 DEF LoopInv, CandidatesWereStuck, BitsWereWaitedFor, WaitedFor
  <2>7. QED BY <1>9, <2>3, <2>4, <2>5, <2>6 DEF LoopInv
<1>10. QED BY <1>8, <1>9

LEMMA LoopChunkFaults ==
  ASSUME Loop!RunLoopAssumption, LoopInv, NEW poll \in Polls, Loop!ChunkFaults(poll)
  PROVE  LoopInv'
<1> DEFINE e == Loop!Executed(machine, poll, FALSE)
<1>1. ~Loop!Idle /\ machine' = [e EXCEPT !.fault = "guest", !.remaining = 0]
  BY DEF Loop!ChunkFaults
<1>2. e \in Machines /\ e = [machine EXCEPT !.reads = e.reads, !.hle = e.hle]
  <2>1. Ran(e)
    BY <1>1, LoopExecuted, Zenon
  <2>2. QED BY <2>1 DEF Ran
<1>3. machine \in Machines
  BY DEF LoopInv
<1> HIDE DEF e
<1>4. /\ machine' \in Machines /\ machine'.fault = "guest"
      /\ machine'.window = machine.window
      /\ machine'.instructions = machine.instructions
      /\ machine'.decisions = machine.decisions /\ machine'.stuck = machine.stuck
      /\ machine'.candidates = machine.candidates
      /\ machine'.set = machine.set /\ machine'.clear = machine.clear
  BY <1>1, <1>2, <1>3 DEF Machines, Loop!Faults
<1>5. QED BY <1>4 DEF LoopInv, ReadsFit, CandidatesWereStuck, BitsWereWaitedFor, WaitedFor

LEMMA LoopNext ==
  ASSUME Loop!RunLoopAssumption, LoopInv, [Loop!Next]_machine
  PROVE  LoopInv'
<1>1. ASSUME NEW steps \in Slices, NEW probe \in Probes, Loop!Run(steps, probe)
      PROVE  LoopInv'
  <2>1. machine' = [machine EXCEPT !.remaining = steps, !.probe = probe]
        /\ steps \in Nat /\ machine \in Machines
    BY <1>1 DEF Loop!Run, Loop!RunLoopAssumption, LoopInv
  <2>2. /\ machine' \in Machines /\ machine'.fault = machine.fault
        /\ machine'.window = machine.window /\ machine'.reads = machine.reads
        /\ machine'.instructions = machine.instructions
        /\ machine'.decisions = machine.decisions /\ machine'.stuck = machine.stuck
        /\ machine'.candidates = machine.candidates
        /\ machine'.set = machine.set /\ machine'.clear = machine.clear
    BY <2>1 DEF Machines
  <2>3. QED BY <2>2 DEF LoopInv, ReadsFit, CandidatesWereStuck, BitsWereWaitedFor, WaitedFor
<1>2. CASE Loop!HostFails
  <2>1. machine' = [machine EXCEPT !.fault = "host", !.remaining = 0] /\ machine \in Machines
    BY <1>2 DEF Loop!HostFails, LoopInv
  <2>2. /\ machine' \in Machines /\ machine'.fault = "host"
        /\ machine'.window = machine.window
        /\ machine'.instructions = machine.instructions
        /\ machine'.decisions = machine.decisions /\ machine'.stuck = machine.stuck
        /\ machine'.candidates = machine.candidates
        /\ machine'.set = machine.set /\ machine'.clear = machine.clear
    BY <2>1 DEF Machines, Loop!Faults
  <2>3. QED BY <2>2 DEF LoopInv, ReadsFit, CandidatesWereStuck, BitsWereWaitedFor, WaitedFor
<1>3. CASE UNCHANGED machine
  BY <1>3 DEF LoopInv, Machines, ReadsFit, CandidatesWereStuck, BitsWereWaitedFor, WaitedFor
<1>4. QED BY <1>1, <1>2, <1>3, LoopChunkRuns, LoopChunkFaults DEF Loop!Next

(* The loop's state keeps its shape; windows, counts and faults keep their *)
(* ranges whatever slices the callers ask for.                             *)
THEOREM LoopTypeCorrect ==
  ASSUME Loop!RunLoopAssumption PROVE Loop!Spec => []Loop!TypeOK
<1>1. LoopInv => Loop!TypeOK
  <2> SUFFICES ASSUME LoopInv PROVE Loop!TypeOK
    OBVIOUS
  <2>1. machine \in Machines /\ machine.window # 0 /\ Window \in Nat \ {0}
    BY DEF LoopInv, Loop!RunLoopAssumption
  <2>2. machine.window \in 0..Window
    BY <2>1 DEF Machines
  <2>3. machine.window \in 1..Window
    BY <2>1, <2>2
  <2>4. QED BY <2>1, <2>3 DEF Machines, Loop!TypeOK
<1>2. QED BY <1>1, LoopInitInv, LoopNext, PTL DEF Loop!Spec

(* However the callers slice their runs, the polls are looked at after     *)
(* every whole window of instructions and at no other time, and a bit is   *)
(* forced, one way at a time, only for a poll that may be released and was *)
(* found stuck in two windows.                                             *)
THEOREM LoopKeepsCadence ==
  ASSUME Loop!RunLoopAssumption
  PROVE  Loop!Spec => [](Loop!CadenceIgnoresSlices /\ Loop!ForcedBitsAreWaitedFor)
<1>1. LoopInv => Loop!CadenceIgnoresSlices
  BY DEF LoopInv, ReadsFit, Loop!CadenceIgnoresSlices
<1>2. LoopInv => Loop!ForcedBitsAreWaitedFor
  <2> SUFFICES ASSUME LoopInv, NEW b \in machine.set \cup machine.clear
               PROVE  \E p \in Polls \ Inert : p.bit = b /\ p.state = (b \in machine.set)
                                               /\ machine.stuck[p] >= 2
    BY DEF Loop!ForcedBitsAreWaitedFor, LoopInv, BitsWereWaitedFor
  <2>1. CASE b \in machine.set
    <3>1. PICK p \in Polls \ Inert : p.bit = b /\ p.state = TRUE /\ machine.stuck[p] >= 2
      BY <2>1 DEF LoopInv, BitsWereWaitedFor, WaitedFor
    <3>2. p.state = (b \in machine.set)
      BY <2>1, <3>1
    <3>3. QED BY <3>1, <3>2
  <2>2. CASE b \in machine.clear
    <3>1. b \notin machine.set
      BY <2>2 DEF LoopInv, BitsWereWaitedFor
    <3>2. PICK p \in Polls \ Inert : p.bit = b /\ p.state = FALSE /\ machine.stuck[p] >= 2
      BY <2>2 DEF LoopInv, BitsWereWaitedFor, WaitedFor
    <3>3. (b \in machine.set) = FALSE
      BY <3>1
    <3>4. p.state = (b \in machine.set)
      BY <3>2, <3>3
    <3>5. QED BY <3>2, <3>4
  <2>3. QED BY <2>1, <2>2
<1>3. QED BY <1>1, <1>2, LoopInitInv, LoopNext, PTL DEF Loop!Spec

-------------------------------------------------------------------------------
(* The loops that wait for a register, and the release of their polls.     *)

CONSTANTS RegisterBits, WaitLoops
VARIABLE poll

Register == INSTANCE PollRelease WITH Width <- RegisterBits, Loops <- WaitLoops

(* The bits of a number from its half.                                     *)
LEMMA HalfOf ==
  ASSUME NEW v \in Nat
  PROVE  v \div 2 \in Nat /\ v % 2 \in {0, 1} /\ v = 2 * (v \div 2) + (v % 2)
<1>1. v \div 2 \in Nat
  OBVIOUS
<1>2. v % 2 \in 0..1
  OBVIOUS
<1>3. v = 2 * (v \div 2) + (v % 2)
  OBVIOUS
<1>4. QED BY <1>1, <1>2, <1>3

LEMMA DivisionHalves ==
  ASSUME NEW k \in Nat \ {0}, NEW v \in Nat
  PROVE  v \div (2 * k) = (v \div 2) \div k
<1>1. PICK h \in Nat, b \in {0, 1} : h = v \div 2 /\ v = 2 * h + b
  BY HalfOf
<1>2. PICK q \in Nat, r \in 0..(k - 1) : q = h \div k /\ h = k * q + r
  OBVIOUS
<1>3. v = (2 * k) * q + (2 * r + b)
  <2>1. (2 * k) * q = 2 * (k * q) /\ k * q \in Nat
    OBVIOUS
  <2>2. PICK p \in Nat : p = k * q
    BY <2>1
  <2>3. v = 2 * (p + r) + b
    BY <1>1, <1>2, <2>2
  <2>4. QED BY <2>1, <2>2, <2>3
<1>4. 2 * k \in Nat \ {0} /\ 2 * r + b \in 0..(2 * k - 1)
  BY <1>1, <1>2
<1>5. v \div (2 * k) = q
  BY <1>3, <1>4, DivisionIs
<1>6. QED BY <1>1, <1>2, <1>5

LEMMA BitsFromHalf ==
  ASSUME NEW v \in Nat
  PROVE  /\ Register!Bit(v, 0) <=> v % 2 = 1
         /\ \A b \in Nat : Register!Bit(v, b + 1) <=> Register!Bit(v \div 2, b)
<1>1. Register!Bit(v, 0) <=> v % 2 = 1
  <2>1. v \div 1 = v
    OBVIOUS
  <2>2. QED BY <2>1, PowerOfNone DEF Register!Bit
<1>2. ASSUME NEW b \in Nat PROVE Register!Bit(v, b + 1) <=> Register!Bit(v \div 2, b)
  <2>1. PICK k \in Nat \ {0} : k = 2^b
    BY PowerIsPositive
  <2>2. 2^(b + 1) = 2 * k
    BY <2>1, PowerNext
  <2>3. v \div (2 * k) = (v \div 2) \div k
    BY DivisionHalves
  <2>4. v \div 2^(b + 1) = (v \div 2) \div 2^b
    BY <2>1, <2>2, <2>3, Zenon
  <2>5. QED BY <2>4, Zenon DEF Register!Bit
<1>3. QED BY <1>1, <1>2

(* The numbers of w bits, and the same bits up to w.                       *)
UpTo(w) == 0..(2^w - 1)
HasBits(v, w, bits) == \A b \in 0..(w - 1) : Register!Bit(v, b) <=> b \in bits
SameBitsTo(u, v, w) == \A b \in 0..(w - 1) : Register!Bit(u, b) <=> Register!Bit(v, b)

LEMMA HalfFits ==
  ASSUME NEW w \in Nat \ {0}, NEW v \in UpTo(w)
  PROVE  v \in Nat /\ v \div 2 \in UpTo(w - 1)
<1>1. w - 1 \in Nat /\ (w - 1) + 1 = w
  OBVIOUS
<1>2. PICK k \in Nat \ {0}, m \in Nat : k = 2^(w - 1) /\ m = 2^w /\ m = 2 * k
  <2>1. 2^w = 2 * 2^(w - 1)
    BY <1>1, PowerNext, Zenon
  <2>2. PICK k \in Nat \ {0} : k = 2^(w - 1)
    BY <1>1, PowerIsPositive
  <2>3. 2^w = 2 * k /\ 2 * k \in Nat
    BY <2>1, <2>2
  <2>4. QED BY <2>2, <2>3
<1>3. v \in 0..(2 * k - 1)
  BY <1>2 DEF UpTo
<1>4. v \div 2 \in 0..(k - 1)
  BY <1>3
<1>5. QED BY <1>2, <1>3, <1>4 DEF UpTo

LEMMA DoubleFits ==
  ASSUME NEW w \in Nat \ {0}, NEW v \in UpTo(w - 1), NEW b \in {0, 1}
  PROVE  v \in Nat /\ 2 * v + b \in UpTo(w)
<1>1. w - 1 \in Nat /\ (w - 1) + 1 = w
  OBVIOUS
<1>2. PICK k \in Nat \ {0}, m \in Nat : k = 2^(w - 1) /\ m = 2^w /\ m = 2 * k
  <2>1. 2^w = 2 * 2^(w - 1)
    BY <1>1, PowerNext, Zenon
  <2>2. PICK k \in Nat \ {0} : k = 2^(w - 1)
    BY <1>1, PowerIsPositive
  <2>3. 2^w = 2 * k /\ 2 * k \in Nat
    BY <2>1, <2>2
  <2>4. QED BY <2>2, <2>3
<1>3. v \in 0..(k - 1)
  BY <1>2 DEF UpTo
<1>4. 2 * v + b \in 0..(2 * k - 1)
  BY <1>3
<1>5. QED BY <1>2, <1>3, <1>4 DEF UpTo

LEMMA ZeroFits == UpTo(0) = {0}
<1>1. 0..(1 - 1) = {0}
  OBVIOUS
<1>2. QED BY <1>1, PowerOfNone, Zenon DEF UpTo

(* Any bits are those of a number.                                         *)
LEMMA NumberExists ==
  ASSUME NEW n \in Nat, NEW bits
  PROVE  \E v \in UpTo(n) : HasBits(v, n, bits)
<1> DEFINE good == {w \in 0..n : \A some \in SUBSET Nat : \E v \in UpTo(w) : HasBits(v, w, some)}
<1>1. 0 \in good
  <2>1. \A some : HasBits(0, 0, some)
    BY DEF HasBits
  <2>2. QED BY <2>1, ZeroFits
<1>2. ASSUME NEW w \in 1..n, w - 1 \in good PROVE w \in good
  <2>1. ASSUME NEW some \in SUBSET Nat PROVE \E v \in UpTo(w) : HasBits(v, w, some)
    <3> DEFINE rest == {b \in Nat : b + 1 \in some}
               low == IF 0 \in some THEN 1 ELSE 0
    <3>1. PICK v \in UpTo(w - 1) : HasBits(v, w - 1, rest)
      BY <1>2
    <3>2. v \in Nat /\ 2 * v + low \in UpTo(w) /\ low \in {0, 1}
      <4>1. low \in {0, 1} /\ w \in Nat \ {0}
        OBVIOUS
      <4> HIDE DEF low
      <4>2. QED BY <3>1, <4>1, DoubleFits
    <3>3. (2 * v + low) \div 2 = v /\ (2 * v + low) % 2 = low /\ 2 * v + low \in Nat
      BY <3>2
    <3>4. ASSUME NEW b \in 0..(w - 1) PROVE Register!Bit(2 * v + low, b) <=> b \in some
      <4>1. CASE b = 0
        BY <3>3, <4>1, BitsFromHalf
      <4>2. CASE b # 0
        <5>1. b - 1 \in 0..((w - 1) - 1) /\ b - 1 \in Nat /\ (b - 1) + 1 = b
          BY <4>2
        <5>2. Register!Bit(2 * v + low, (b - 1) + 1) <=> Register!Bit(v, b - 1)
          BY <3>3, <5>1, BitsFromHalf
        <5>3. Register!Bit(v, b - 1) <=> b - 1 \in rest
          BY <3>1, <5>1 DEF HasBits
        <5>4. QED BY <5>1, <5>2, <5>3
      <4>3. QED BY <4>1, <4>2
    <3> HIDE DEF low
    <3>5. QED BY <3>2, <3>4 DEF HasBits
  <2>2. w \in 0..n
    OBVIOUS
  <2>3. QED BY <2>1, <2>2
<1>3. n \in good
  <2> HIDE DEF good
  <2>1. QED BY <1>1, <1>2, NumbersUpTo
<1>4. PICK v \in UpTo(n) : HasBits(v, n, bits \cap Nat)
  BY <1>3
<1>5. HasBits(v, n, bits)
  BY <1>4 DEF HasBits
<1>6. QED BY <1>5

(* Two numbers with the same bits are one.                                 *)
LEMMA SameBitsSame ==
  ASSUME NEW n \in Nat, NEW u \in UpTo(n), NEW v \in UpTo(n), SameBitsTo(u, v, n)
  PROVE  u = v
<1> DEFINE good == {w \in 0..n : \A x, y \in UpTo(w) : SameBitsTo(x, y, w) => x = y}
<1>1. 0 \in good
  BY ZeroFits
<1>2. ASSUME NEW w \in 1..n, w - 1 \in good PROVE w \in good
  <2>1. ASSUME NEW x \in UpTo(w), NEW y \in UpTo(w), SameBitsTo(x, y, w) PROVE x = y
    <3>1. x \in Nat /\ y \in Nat /\ x \div 2 \in UpTo(w - 1) /\ y \div 2 \in UpTo(w - 1)
      BY HalfFits
    <3>2. ASSUME NEW b \in 0..((w - 1) - 1)
          PROVE  Register!Bit(x \div 2, b) <=> Register!Bit(y \div 2, b)
      <4>1. b \in Nat /\ b + 1 \in 0..(w - 1)
        OBVIOUS
      <4>2. Register!Bit(x, b + 1) <=> Register!Bit(y, b + 1)
        BY <2>1, <4>1 DEF SameBitsTo
      <4>3. QED BY <3>1, <4>1, <4>2, BitsFromHalf
    <3>3. x \div 2 = y \div 2
      <4>1. SameBitsTo(x \div 2, y \div 2, w - 1)
        BY <3>2 DEF SameBitsTo
      <4>2. QED BY <1>2, <3>1, <4>1
    <3>4. x % 2 = y % 2
      <4>1. Register!Bit(x, 0) <=> Register!Bit(y, 0)
        BY <2>1 DEF SameBitsTo
      <4>2. x % 2 \in {0, 1} /\ y % 2 \in {0, 1}
        BY <3>1, HalfOf
      <4>3. (Register!Bit(x, 0) <=> x % 2 = 1) /\ (Register!Bit(y, 0) <=> y % 2 = 1)
        BY <3>1, BitsFromHalf
      <4>4. (x % 2 = 1) <=> (y % 2 = 1)
        BY <4>1, <4>3
      <4>5. QED BY <4>2, <4>4
    <3>5. QED BY <3>1, <3>3, <3>4, HalfOf
  <2>2. w \in 0..n
    OBVIOUS
  <2>3. QED BY <2>1, <2>2
<1>3. n \in good
  <2> HIDE DEF good
  <2>1. QED BY <1>1, <1>2, NumbersUpTo
<1>4. QED BY <1>3

(* The number with the given bits, and the bits of a number.               *)
LEMMA NumberHasBits ==
  ASSUME RegisterBits \in Nat \ {0}, NEW bits \in SUBSET Register!BitSet
  PROVE  Register!Number(bits) \in Register!Values /\ Register!BitsOf(Register!Number(bits)) = bits
<1>1. \E v \in UpTo(RegisterBits) : HasBits(v, RegisterBits, bits)
  BY NumberExists
<1>2. \E v \in Register!Values : \A b \in Register!BitSet : Register!Bit(v, b) <=> b \in bits
  BY <1>1 DEF UpTo, HasBits, Register!Values, Register!BitSet
<1>3. /\ Register!Number(bits) \in Register!Values
      /\ \A b \in Register!BitSet : Register!Bit(Register!Number(bits), b) <=> b \in bits
  BY <1>2 DEF Register!Number
<1>4. QED BY <1>3 DEF Register!BitsOf

LEMMA SameBitsOf ==
  ASSUME RegisterBits \in Nat \ {0}, NEW u \in Register!Values, NEW v \in Register!Values,
         Register!BitsOf(u) = Register!BitsOf(v)
  PROVE  u = v
<1>1. \A b \in Register!BitSet : Register!Bit(u, b) <=> Register!Bit(v, b)
  BY DEF Register!BitsOf
<1>2. SameBitsTo(u, v, RegisterBits) /\ u \in UpTo(RegisterBits) /\ v \in UpTo(RegisterBits)
  BY <1>1 DEF SameBitsTo, UpTo, Register!Values, Register!BitSet
<1>3. QED BY <1>2, SameBitsSame

(* The bits that a read gives.                                             *)
ReadBits(p) == (Register!BitsOf(p.value) \cup p.set) \ p.clear
SeenAs(p) == Register!Number(ReadBits(p))

(* What is forced is right for this inference.                             *)
ForcedRight(p, i) == IF i.state THEN i.bit \in p.set ELSE i.bit \in p.clear

(* The bits in which the register differs from what a compare wants.       *)
Differing(p) ==
  {b \in Register!BitSet : (b \in ReadBits(p)) # (b \in Register!BitsOf(Register!Wanted(p.loop)))}

PollStates ==
  [loop : WaitLoops \cup {Register!Idle}, value : Register!Values, set : SUBSET Register!BitSet,
   clear : SUBSET Register!BitSet, releases : Nat]

(* A compare needs at most as many releases as bits differ; any other loop *)
(* is given its bit once, whatever the register holds.                     *)
Progress(p) ==
  p.loop # Register!Idle =>
    IF p.loop.kind = "compare"
    THEN p.releases = 0 \/ (/\ p.value = Register!Wanted(p.loop)
                            /\ p.releases + Cardinality(Differing(p)) <= RegisterBits)
    ELSE p.releases = 0 \/ (/\ p.releases = 1
                            /\ \A v \in Register!Values : ForcedRight(p, Register!Inferred(p.loop, v))
                            /\ p.loop.kind = "literal" => p.value = p.loop.expected)

PollInv == poll \in PollStates /\ poll.set \cap poll.clear = {} /\ Progress(poll)

LEMMA PollTypes ==
  ASSUME PollInv
  PROVE  /\ poll.loop \in WaitLoops \cup {Register!Idle} /\ poll.value \in Register!Values
         /\ poll.set \in SUBSET Register!BitSet /\ poll.clear \in SUBSET Register!BitSet
         /\ poll.releases \in Nat /\ poll.set \cap poll.clear = {}
BY DEF PollInv, PollStates

LEMMA ReadHasBits ==
  ASSUME Register!PollReleaseAssumption, PollInv
  PROVE  /\ Register!Read(poll.value) \in Register!Values
         /\ Register!BitsOf(Register!Read(poll.value)) = ReadBits(poll)
         /\ \A b \in Register!BitSet : Register!Bit(Register!Read(poll.value), b) <=> b \in ReadBits(poll)
<1>1. ReadBits(poll) \in SUBSET Register!BitSet
  BY PollTypes DEF ReadBits, Register!BitsOf
<1>2. Register!Read(poll.value) = Register!Number(ReadBits(poll))
  BY DEF Register!Read, ReadBits
<1>3. /\ Register!Number(ReadBits(poll)) \in Register!Values
      /\ Register!BitsOf(Register!Number(ReadBits(poll))) = ReadBits(poll)
  BY <1>1, NumberHasBits DEF Register!PollReleaseAssumption
<1>4. \A v : \A b \in Register!BitSet : b \in Register!BitsOf(v) <=> Register!Bit(v, b)
  BY DEF Register!BitsOf
<1>5. QED BY <1>2, <1>3, <1>4

(* What is inferred of a loop is a bit of the register and a value of it.  *)
LEMMA InferredFits ==
  ASSUME Register!PollReleaseAssumption, NEW l \in WaitLoops, NEW v \in Register!Values
  PROVE  LET i == Register!Inferred(l, v) IN
         /\ i.bit \in Register!BitSet /\ i.state \in BOOLEAN /\ i.value \in Register!Values
         /\ l.kind \in {"compare", "mask", "literal", "split", "extract", "carry"}
         /\ l.kind = "compare" => i.value = Register!Wanted(l)
         /\ l.kind = "literal" => i.value = l.expected
         /\ l.kind # "compare" => \A w \in Register!Values :
              Register!Inferred(l, w).bit = i.bit /\ Register!Inferred(l, w).state = i.state
<1>1. l \in Register!Grammars /\ RegisterBits \in Nat \ {0}
  BY DEF Register!PollReleaseAssumption
<1>2. 0 \in Register!BitSet
  BY <1>1 DEF Register!BitSet
<1>3. ASSUME NEW x \in Register!Values, NEW b \in Register!BitSet, NEW on \in BOOLEAN
      PROVE  Register!With(x, b, on) \in Register!Values
  <2>1. (IF on THEN Register!BitsOf(x) \cup {b} ELSE Register!BitsOf(x) \ {b}) \in SUBSET Register!BitSet
    BY DEF Register!BitsOf
  <2>2. QED BY <1>1, <2>1, NumberHasBits DEF Register!With
<1>4. CASE l.kind = "compare"
  <2> DEFINE changed == {b \in Register!BitSet : Register!Bit(v, b) # Register!Bit(Register!Wanted(l), b)}
             bit == Register!LowestBit(changed)
  <2>1. bit \in Register!BitSet
    <3>1. CASE changed = {}
      BY <1>2, <3>1 DEF Register!LowestBit
    <3>2. CASE changed # {}
      <4>1. changed \in SUBSET Nat
        BY DEF Register!BitSet
      <4>2. \E b \in changed : \A c \in changed : b <= c
        BY <3>2, <4>1, LeastNumber
      <4>3. bit \in changed
        BY <3>2, <4>2 DEF Register!LowestBit
      <4>4. QED BY <4>3
    <3>3. QED BY <3>1, <3>2
  <2>2. Register!Wanted(l) \in Register!Values
    <3>1. l.expected \in Register!Values /\ l.condition \in {"eq", "ne"}
      BY <1>1, <1>4 DEF Register!Grammars
    <3>2. 0 \in Register!Values /\ 1 \in Register!Values
      <4>1. RegisterBits - 1 \in Nat /\ (RegisterBits - 1) + 1 = RegisterBits
        BY <1>1
      <4>2. PICK k \in Nat \ {0} : k = 2^(RegisterBits - 1)
        BY <4>1, PowerIsPositive
      <4>3. 2^RegisterBits = 2 * k
        <5>1. 2^((RegisterBits - 1) + 1) = 2 * 2^(RegisterBits - 1)
          BY <4>1, PowerNext
        <5>2. QED BY <4>1, <4>2, <5>1, Zenon
      <4>4. 0 \in 0..(2 * k - 1) /\ 1 \in 0..(2 * k - 1)
        OBVIOUS
      <4>5. QED BY <4>3, <4>4, Zenon DEF Register!Values
    <3>3. QED BY <3>1, <3>2 DEF Register!Wanted
  <2>3. Register!Inferred(l, v) = [value |-> Register!Wanted(l), bit |-> bit,
                                   state |-> Register!Bit(Register!Wanted(l), bit)]
    BY <1>4 DEF Register!Inferred, Register!Inference
  <2>4. Register!Bit(Register!Wanted(l), bit) \in BOOLEAN
    BY DEF Register!Bit
  <2> HIDE DEF bit
  <2>5. QED BY <1>4, <2>1, <2>2, <2>3, <2>4
<1>5. CASE l.kind = "mask"
  <2>1. l.bit \in Register!BitSet
    BY <1>1, <1>5 DEF Register!Grammars
  <2>2. PICK on \in BOOLEAN :
          \A w : Register!Inferred(l, w) = [value |-> Register!With(w, l.bit, on), bit |-> l.bit, state |-> on]
    BY <1>5 DEF Register!Inferred, Register!Inference
  <2>3. QED BY <1>3, <1>5, <2>1, <2>2
<1>6. CASE l.kind = "literal"
  <2>1. l.expected \in Register!Values
    BY <1>1, <1>6 DEF Register!Grammars
  <2>2. \A w : Register!Inferred(l, w) = [value |-> l.expected, bit |-> 0, state |-> Register!Bit(l.expected, 0)]
    BY <1>6 DEF Register!Inferred, Register!Inference
  <2>3. Register!Bit(l.expected, 0) \in BOOLEAN
    BY DEF Register!Bit
  <2>4. QED BY <1>2, <1>6, <2>1, <2>2, <2>3
<1>7. CASE l.kind = "split"
  <2>1. PICK on \in BOOLEAN :
          \A w : Register!Inferred(l, w) = [value |-> Register!With(w, 0, on), bit |-> 0, state |-> on]
    BY <1>7 DEF Register!Inferred, Register!Inference
  <2>2. QED BY <1>2, <1>3, <1>7, <2>1
<1>8. CASE l.kind = "extract"
  <2>1. PICK wanted \in BOOLEAN :
          \A w : Register!Inferred(l, w) = [value |-> Register!With(w, 0, wanted), bit |-> 0, state |-> wanted]
    BY <1>8 DEF Register!Inferred, Register!Inference
  <2>2. QED BY <1>2, <1>3, <1>8, <2>1
<1>9. CASE l.kind = "carry"
  <2>1. l.shift - 1 \in Register!BitSet
    <3>1. l.shift \in 1..RegisterBits
      BY <1>1, <1>9 DEF Register!Grammars
    <3>2. QED BY <1>1, <3>1 DEF Register!BitSet
  <2>2. Register!Carry(l) \in BOOLEAN
    BY DEF Register!Carry, Register!WantTaken
  <2>3. \A w : Register!Inferred(l, w) =
          [value |-> Register!With(w, l.shift - 1, Register!Carry(l)), bit |-> l.shift - 1,
           state |-> Register!Carry(l)]
    BY <1>9 DEF Register!Inferred, Register!Inference
  <2>4. QED BY <1>3, <1>9, <2>1, <2>2, <2>3
<1>10. l.kind \in {"compare", "mask", "literal", "split", "extract", "carry"}
  BY <1>1 DEF Register!Grammars
<1>11. QED BY <1>4, <1>5, <1>6, <1>7, <1>8, <1>9, <1>10

(* A bit that is forced right reads as inferred.                           *)
LEMMA ForcedReads ==
  ASSUME Register!PollReleaseAssumption, PollInv, NEW i,
         i.bit \in Register!BitSet, i.state \in BOOLEAN, ForcedRight(poll, i)
  PROVE  Register!Bit(Register!Read(poll.value), i.bit) <=> i.state
<1>1. Register!Bit(Register!Read(poll.value), i.bit) <=> i.bit \in ReadBits(poll)
  BY ReadHasBits
<1>2. poll.set \cap poll.clear = {}
  BY PollTypes
<1>3. CASE i.state
  BY <1>1, <1>2, <1>3 DEF ForcedRight, ReadBits
<1>4. CASE ~i.state
  BY <1>1, <1>2, <1>4 DEF ForcedRight, ReadBits
<1>5. QED BY <1>3, <1>4

(* A loop whose bit is forced right is left, unless it looks at more.      *)
LEMMA ForcedLeaves ==
  ASSUME Register!PollReleaseAssumption, PollInv, poll.loop \in WaitLoops, poll.loop.kind # "compare",
         Register!Exact(poll.loop),
         ForcedRight(poll, Register!Inferred(poll.loop, Register!Read(poll.value))),
         poll.loop.kind = "literal" => poll.value = poll.loop.expected
  PROVE  Register!Exits(poll.loop, Register!Read(poll.value))
<1> DEFINE l == poll.loop
           seen == Register!Read(poll.value)
           i == Register!Inferred(l, seen)
<1>1. seen \in Register!Values /\ l \in Register!Grammars /\ RegisterBits \in Nat \ {0}
  BY ReadHasBits DEF Register!PollReleaseAssumption
<1>2. i.bit \in Register!BitSet /\ i.state \in BOOLEAN
  BY <1>1, InferredFits
<1>3. Register!Bit(seen, i.bit) <=> i.state
  BY <1>2, ForcedReads
<1>4. l.kind \in {"mask", "literal", "split", "extract", "carry"}
  BY <1>1, InferredFits
<1> HIDE DEF seen
<1>5. CASE l.kind = "mask"
  <2>1. i.bit = l.bit /\ i.state = TRUE
    BY <1>5 DEF Register!Inferred, Register!Inference
  <2>2. QED BY <1>3, <1>5, <2>1 DEF Register!Exits, seen
<1>6. CASE l.kind = "split"
  <2>1. i.bit = 0 /\ i.state = FALSE
    BY <1>6 DEF Register!Inferred, Register!Inference
  <2>2. QED BY <1>3, <1>6, <2>1 DEF Register!Exits, seen
<1>7. CASE l.kind = "extract"
  <2>1. /\ i.bit = 0
        /\ i.state = (IF l.condition = "eq" THEN l.expected = 1 ELSE l.expected = 0)
    BY <1>7 DEF Register!Inferred, Register!Inference
  <2>2. l.bits = 1
    BY <1>7 DEF Register!Exact
  <2>3. l.expected \in {0, 1} /\ l.condition \in {"eq", "ne"}
    BY <1>1, <1>7 DEF Register!Grammars
  <2>4. seen \in Nat /\ seen % 2 \in {0, 1}
    <3>1. PICK k \in Nat : k = 2^RegisterBits
      BY <1>1, PowerIsPositive
    <3>2. seen \in Nat
      BY <1>1, <3>1 DEF Register!Values
    <3>3. QED BY <3>2, HalfOf
  <2>5. Register!Bit(seen, 0) <=> seen % 2 = 1
    BY <2>4, BitsFromHalf
  <2>6. 2^1 = 2
    BY SMT
  <2>7. (seen % 2 = l.expected) <=> (l.condition = "eq")
    <3>1. (seen % 2 = 1) <=> i.state
      BY <1>3, <2>1, <2>5
    <3>2. CASE l.condition = "eq"
      BY <2>1, <2>3, <2>4, <3>1, <3>2
    <3>3. CASE l.condition = "ne"
      <4>1. (seen % 2 = 1) <=> l.expected = 0
        BY <2>1, <3>1, <3>3
      <4>2. seen % 2 # l.expected
        BY <2>3, <2>4, <4>1
      <4>3. QED BY <3>3, <4>2
    <3>4. QED BY <2>3, <3>2, <3>3
  <2>8. (seen % 2^l.bits = l.expected) = (l.condition = "eq")
    BY <2>2, <2>6, <2>7, Zenon
  <2>9. QED BY <1>7, <2>8 DEF Register!Exits, seen
<1>8. CASE l.kind = "carry"
  <2>1. i.bit = l.shift - 1 /\ i.state = Register!Carry(l)
    BY <1>8 DEF Register!Inferred, Register!Inference
  <2>2. Register!Taken(l, seen) <=> Register!WantTaken(l)
    <3>1. Register!Bit(seen, l.shift - 1) <=> Register!Carry(l)
      BY <1>3, <2>1
    <3>2. QED BY <3>1 DEF Register!Taken, Register!Carry
  <2>3. (IF Register!WantTaken(l) THEN l.taken ELSE l.fall) \in {"exit", "return"}
    BY <1>8 DEF Register!PollReleaseAssumption
  <2>4. (IF Register!Taken(l, seen) THEN l.taken ELSE l.fall) \in {"exit", "return"}
    BY <2>2, <2>3
  <2>5. QED BY <1>8, <2>4 DEF Register!Exits, seen
<1>9. CASE l.kind = "literal"
  <2>1. i.bit = 0 /\ i.state = Register!Bit(l.expected, 0)
    BY <1>9 DEF Register!Inferred, Register!Inference
  <2>2. poll.value = l.expected /\ l.expected \in Register!Values
    BY <1>9, PollTypes
  <2>3. poll.set \cup poll.clear \subseteq {0} /\ poll.set \cap poll.clear = {}
    BY <1>9, PollTypes DEF Register!Exact
  <2>4. 0 \in Register!BitSet
    BY <1>2, <2>1
  <2>5. Register!BitsOf(seen) = ReadBits(poll)
    BY ReadHasBits DEF seen
  <2>6. ReadBits(poll) = Register!BitsOf(l.expected)
    <3>1. 0 \in Register!BitsOf(l.expected) <=> i.state
      BY <2>1, <2>4 DEF Register!BitsOf
    <3>2. (i.state => 0 \in poll.set) /\ (~i.state => 0 \in poll.clear)
      BY <2>1 DEF ForcedRight, seen
    <3>3. QED BY <2>2, <2>3, <3>1, <3>2 DEF ReadBits
  <2>7. seen = l.expected
    BY <1>1, <2>2, <2>5, <2>6, SameBitsOf
  <2>8. QED BY <1>9, <2>7 DEF Register!Exits, seen
<1>10. QED BY <1>4, <1>5, <1>6, <1>7, <1>8, <1>9

(* What a compare still waits for: its inference is a bit that differs.    *)
LEMMA CompareInfers ==
  ASSUME Register!PollReleaseAssumption, PollInv, poll.loop \in WaitLoops, poll.loop.kind = "compare",
         ~Register!Exits(poll.loop, Register!Read(poll.value))
  PROVE  LET i == Register!Inferred(poll.loop, Register!Read(poll.value)) IN
         /\ i.bit \in Differing(poll)
         /\ i.state <=> i.bit \in Register!BitsOf(Register!Wanted(poll.loop))
         /\ ~ForcedRight(poll, i)
<1> DEFINE l == poll.loop
           seen == Register!Read(poll.value)
           i == Register!Inferred(l, seen)
           wanted == Register!Wanted(l)
           changed == {b \in Register!BitSet : Register!Bit(seen, b) # Register!Bit(wanted, b)}
<1>1. /\ seen \in Register!Values /\ wanted \in Register!Values
      /\ l \in Register!Grammars /\ RegisterBits \in Nat \ {0}
  BY ReadHasBits, InferredFits DEF Register!PollReleaseAssumption
<1>2. seen # wanted
  <2>1. l.condition \in {"eq", "ne"} /\ (seen = l.expected) = (l.condition = "eq")
    <3>1. l.condition \in {"eq", "ne"}
      BY <1>1 DEF Register!Grammars
    <3>2. ~((seen = l.expected) # (l.condition = "eq"))
      BY DEF Register!Exits
    <3>3. QED BY <3>1, <3>2
  <2>2. wanted = IF l.condition = "ne" THEN l.expected ELSE IF l.expected = 0 THEN 1 ELSE 0
    BY DEF Register!Wanted
  <2> HIDE DEF seen, wanted
  <2>3. QED BY <2>1, <2>2
<1>3. changed = Differing(poll)
  <2>1. \A b \in Register!BitSet : Register!Bit(seen, b) <=> b \in ReadBits(poll)
    BY ReadHasBits
  <2>2. \A b \in Register!BitSet : Register!Bit(wanted, b) <=> b \in Register!BitsOf(wanted)
    BY DEF Register!BitsOf
  <2>3. \A v, b : Register!Bit(v, b) \in BOOLEAN
    BY DEF Register!Bit
  <2> HIDE DEF seen, wanted
  <2>4. QED BY <2>1, <2>2, <2>3 DEF Differing, wanted
<1>4. changed # {}
  <2>1. ASSUME changed = {} PROVE FALSE
    <3>1. \A b \in Register!BitSet : Register!Bit(seen, b) <=> Register!Bit(wanted, b)
      BY <2>1
    <3>2. Register!BitsOf(seen) = Register!BitsOf(wanted)
      BY <3>1 DEF Register!BitsOf
    <3> HIDE DEF seen, wanted
    <3>3. QED BY <1>1, <1>2, <3>2, SameBitsOf
  <2>2. QED BY <2>1
<1>5. i.bit \in changed /\ i.state = Register!Bit(wanted, i.bit)
  <2>1. i.bit = Register!LowestBit(changed) /\ i.state = Register!Bit(wanted, i.bit)
    BY DEF Register!Inferred, Register!Inference
  <2>2. changed \in SUBSET Nat
    BY DEF Register!BitSet
  <2> HIDE DEF changed
  <2>3. \E b \in changed : \A c \in changed : b <= c
    BY <1>4, <2>2, LeastNumber
  <2>4. Register!LowestBit(changed) \in changed
    BY <1>4, <2>3 DEF Register!LowestBit
  <2>5. QED BY <2>1, <2>4
<1>6. i.bit \in Register!BitSet /\ i.state \in BOOLEAN /\ i.bit \in Differing(poll)
  BY <1>1, <1>3, <1>5, InferredFits
<1>7. i.state <=> i.bit \in Register!BitsOf(wanted)
  BY <1>5, <1>6 DEF Register!BitsOf
<1>8. ~ForcedRight(poll, i)
  <2>1. ASSUME ForcedRight(poll, i) PROVE FALSE
    <3>1. Register!Bit(seen, i.bit) <=> i.state
      BY <1>6, <2>1, ForcedReads
    <3>2. Register!Bit(seen, i.bit) # Register!Bit(wanted, i.bit)
      BY <1>5
    <3> HIDE DEF seen, wanted, i
    <3>3. Register!Bit(seen, i.bit) \in BOOLEAN
      BY DEF Register!Bit
    <3>4. QED BY <1>5, <1>6, <3>1, <3>2, <3>3
  <2>2. QED BY <2>1
<1>9. QED BY <1>6, <1>7, <1>8

LEMMA DifferingCount ==
  ASSUME RegisterBits \in Nat \ {0}, NEW p
  PROVE  /\ IsFiniteSet(Differing(p)) /\ Cardinality(Differing(p)) \in Nat
         /\ Cardinality(Differing(p)) <= RegisterBits
         /\ \A b \in Differing(p) : Cardinality(Differing(p) \ {b}) = Cardinality(Differing(p)) - 1
<1>1. IsFiniteSet(Register!BitSet) /\ Cardinality(Register!BitSet) = RegisterBits
  <2>1. 0 \in Int /\ RegisterBits - 1 \in Int /\ ~(0 > RegisterBits - 1)
        /\ (RegisterBits - 1) - 0 + 1 = RegisterBits
    OBVIOUS
  <2>2. QED BY <2>1, FS_Interval DEF Register!BitSet
<1>2. Differing(p) \subseteq Register!BitSet
  BY DEF Differing
<1>3. QED BY <1>1, <1>2, FS_Subset, FS_CardinalityType, FS_RemoveElement

(* A compare's release makes one bit right, and none wrong.                *)
LEMMA CompareReleased ==
  ASSUME Register!PollReleaseAssumption, PollInv, poll.loop \in WaitLoops, poll.loop.kind = "compare",
         ~Register!Exits(poll.loop, Register!Read(poll.value)),
         NEW p, NEW i, i = Register!Inferred(poll.loop, Register!Read(poll.value)),
         p.loop = poll.loop, p.value = i.value,
         p.set = IF i.state THEN poll.set \cup {i.bit} ELSE poll.set \ {i.bit},
         p.clear = IF i.state THEN poll.clear \ {i.bit} ELSE poll.clear \cup {i.bit}
  PROVE  Differing(p) \subseteq Differing(poll) \ {i.bit} /\ i.bit \in Differing(poll)
<1> DEFINE wanted == Register!BitsOf(Register!Wanted(poll.loop))
<1>1. i.bit \in Differing(poll) /\ (i.state <=> i.bit \in wanted)
  BY CompareInfers
<1>2. i.value = Register!Wanted(poll.loop)
  BY InferredFits, ReadHasBits
<1>3. Differing(p) = {b \in Register!BitSet : (b \in (wanted \cup p.set) \ p.clear) # (b \in wanted)}
  BY <1>2 DEF Differing, ReadBits
<1>4. Differing(poll) =
        {b \in Register!BitSet :
           (b \in (Register!BitsOf(poll.value) \cup poll.set) \ poll.clear) # (b \in wanted)}
  BY DEF Differing, ReadBits
<1> HIDE DEF wanted
<1>5. ASSUME NEW b \in Differing(p) PROVE b \in Differing(poll) /\ b # i.bit
  <2>1. b \in Register!BitSet /\ (b \in (wanted \cup p.set) \ p.clear) # (b \in wanted)
    BY <1>3
  <2>2. b # i.bit
    BY <1>1, <2>1
  <2>3. (b \in p.set <=> b \in poll.set) /\ (b \in p.clear <=> b \in poll.clear)
    BY <2>2
  <2>4. (b \in poll.set /\ b \notin poll.clear /\ b \notin wanted) \/ (b \in poll.clear /\ b \in wanted)
    BY <2>1, <2>3
  <2>5. b \in Differing(poll)
    BY <1>4, <2>1, <2>4
  <2>6. QED BY <2>2, <2>5
<1>6. QED BY <1>1, <1>5

LEMMA PollReleases ==
  ASSUME Register!PollReleaseAssumption, PollInv, Register!Release
  PROVE  PollInv'
<1> DEFINE i == Register!Inferred(poll.loop, Register!Read(poll.value))
           set == IF i.state THEN poll.set \cup {i.bit} ELSE poll.set \ {i.bit}
           clear == IF i.state THEN poll.clear \ {i.bit} ELSE poll.clear \cup {i.bit}
<1>1. /\ poll.loop # Register!Idle /\ ~Register!Exits(poll.loop, Register!Read(poll.value))
      /\ ~Register!Supplied(i)
      /\ poll' = [poll EXCEPT !.value = i.value, !.releases = @ + 1, !.set = set, !.clear = clear]
  BY DEF Register!Release, Register!Waits
<1>2. poll.loop \in WaitLoops /\ RegisterBits \in Nat \ {0} /\ Register!Read(poll.value) \in Register!Values
  BY <1>1, PollTypes, ReadHasBits DEF Register!PollReleaseAssumption
<1>3. /\ i.bit \in Register!BitSet /\ i.state \in BOOLEAN /\ i.value \in Register!Values
      /\ poll.loop.kind = "compare" => i.value = Register!Wanted(poll.loop)
      /\ poll.loop.kind = "literal" => i.value = poll.loop.expected
      /\ poll.loop.kind # "compare" => \A w \in Register!Values :
           /\ Register!Inferred(poll.loop, w).bit = i.bit
           /\ Register!Inferred(poll.loop, w).state = i.state
  BY <1>2, InferredFits
<1> HIDE DEF i
<1>4. /\ set \in SUBSET Register!BitSet /\ clear \in SUBSET Register!BitSet /\ set \cap clear = {}
      /\ i.state => i.bit \in set
      /\ ~i.state => i.bit \in clear
  BY <1>3, PollTypes
<1>5. /\ poll' \in PollStates /\ poll'.loop = poll.loop /\ poll'.value = i.value
      /\ poll'.set = set /\ poll'.clear = clear /\ poll'.releases = poll.releases + 1
  <2> HIDE DEF set, clear
  <2>1. poll \in PollStates
    BY DEF PollInv
  <2>2. PICK v, n : v = i.value /\ v \in Register!Values /\ n = poll.releases + 1 /\ n \in Nat
    BY <1>3, PollTypes
  <2>3. poll' = [poll EXCEPT !.value = v, !.releases = n, !.set = set, !.clear = clear]
    BY <1>1, <2>1, <2>2 DEF PollStates
  <2>4. QED BY <1>4, <2>1, <2>2, <2>3 DEF PollStates
<1>6. CASE poll.loop.kind = "compare"
  <2>1. Differing(poll') \subseteq Differing(poll) \ {i.bit} /\ i.bit \in Differing(poll)
    <3>1. i = Register!Inferred(poll.loop, Register!Read(poll.value))
      BY DEF i
    <3>2. PICK p : p = poll'
      OBVIOUS
    <3>3. /\ p.loop = poll.loop /\ p.value = i.value
          /\ p.set = IF i.state THEN poll.set \cup {i.bit} ELSE poll.set \ {i.bit}
          /\ p.clear = IF i.state THEN poll.clear \ {i.bit} ELSE poll.clear \cup {i.bit}
      BY <1>5, <3>2 DEF set, clear
    <3>4. ~Register!Exits(poll.loop, Register!Read(poll.value))
      BY <1>1
    <3> HIDE DEF set, clear
    <3>5. Differing(p) \subseteq Differing(poll) \ {i.bit} /\ i.bit \in Differing(poll)
      BY <1>2, <1>6, <3>1, <3>3, <3>4, CompareReleased
    <3>6. QED BY <3>2, <3>5
  <2>2. Cardinality(Differing(poll')) <= Cardinality(Differing(poll) \ {i.bit})
    <3>1. IsFiniteSet(Differing(poll) \ {i.bit})
      BY <1>2, DifferingCount, FS_RemoveElement
    <3>2. QED BY <2>1, <3>1, FS_Subset
  <2>3. /\ Cardinality(Differing(poll)) \in Nat /\ Cardinality(Differing(poll')) \in Nat
        /\ Cardinality(Differing(poll) \ {i.bit}) = Cardinality(Differing(poll)) - 1
        /\ Cardinality(Differing(poll)) <= RegisterBits
    BY <1>2, <2>1, DifferingCount
  <2>4. poll.releases \in Nat /\ poll.releases + Cardinality(Differing(poll)) <= RegisterBits
    BY <1>1, <1>2, <1>6, <2>3, PollTypes DEF PollInv, Progress
  <2>5. poll'.releases + Cardinality(Differing(poll')) <= RegisterBits
    BY <1>2, <1>5, <2>2, <2>3, <2>4
  <2>6. Progress(poll')
    BY <1>3, <1>5, <1>6, <2>5 DEF Progress
  <2>7. QED BY <1>4, <1>5, <2>6 DEF PollInv
<1>7. CASE poll.loop.kind # "compare"
  <2>1. poll.releases = 0
    <3>1. ASSUME \A v \in Register!Values : ForcedRight(poll, Register!Inferred(poll.loop, v)) PROVE FALSE
      <4>1. ForcedRight(poll, i)
        BY <1>2, <3>1 DEF i
      <4>2. QED BY <1>1, <1>3, <4>1 DEF ForcedRight, Register!Supplied
    <3>2. QED BY <1>1, <1>7, <3>1 DEF PollInv, Progress
  <2>2. ASSUME NEW v \in Register!Values PROVE ForcedRight(poll', Register!Inferred(poll.loop, v))
    BY <1>3, <1>4, <1>5, <1>7 DEF ForcedRight
  <2>3. Progress(poll')
    BY <1>3, <1>5, <1>7, <2>1, <2>2 DEF Progress
  <2>4. QED BY <1>4, <1>5, <2>3 DEF PollInv
<1>8. QED BY <1>6, <1>7

LEMMA PollStep ==
  ASSUME Register!PollReleaseAssumption, PollInv, [Register!Next]_poll
  PROVE  PollInv'
<1>1. poll \in PollStates
  BY DEF PollInv
<1>2. ASSUME NEW l \in WaitLoops, Register!Enter(l) PROVE PollInv'
  <2>1. /\ poll' \in PollStates /\ poll'.set = poll.set /\ poll'.clear = poll.clear /\ poll'.releases = 0
    BY <1>1, <1>2, ReadHasBits DEF Register!Enter, PollStates
  <2>2. QED BY <2>1, PollTypes DEF PollInv, Progress
<1>3. CASE Register!Leave
  <2>1. /\ poll' \in PollStates /\ poll'.set = poll.set /\ poll'.clear = poll.clear /\ poll'.loop = Register!Idle
    BY <1>1, <1>3, ReadHasBits DEF Register!Leave, PollStates
  <2>2. QED BY <2>1, PollTypes DEF PollInv, Progress
<1>4. ASSUME NEW value \in Register!Values, Register!Written(value) PROVE PollInv'
  <2>1. /\ poll' \in PollStates /\ poll'.set = poll.set /\ poll'.clear = poll.clear /\ poll'.loop = Register!Idle
    BY <1>1, <1>4 DEF Register!Written, PollStates
  <2>2. QED BY <2>1, PollTypes DEF PollInv, Progress
<1>5. CASE UNCHANGED poll
  BY <1>5 DEF PollInv
<1>6. QED BY <1>2, <1>3, <1>4, <1>5, PollReleases DEF Register!Next

LEMMA PollEnds ==
  ASSUME Register!PollReleaseAssumption, PollInv
  PROVE  Register!ReleasesEndWait
<1> DEFINE i == Register!Inferred(poll.loop, Register!Read(poll.value))
<1>1. SUFFICES ASSUME poll.loop # Register!Idle, Register!Exact(poll.loop)
               PROVE  /\ poll.releases <= RegisterBits
                      /\ Register!Waits => ~Register!Supplied(i) /\ poll.releases < RegisterBits
  BY DEF Register!ReleasesEndWait
<1>2. poll.loop \in WaitLoops /\ RegisterBits \in Nat \ {0} /\ Register!Read(poll.value) \in Register!Values
      /\ poll.releases \in Nat
  BY <1>1, PollTypes, ReadHasBits DEF Register!PollReleaseAssumption
<1>3. Register!Supplied(i) <=> ForcedRight(poll, i)
  <2>1. i.state \in BOOLEAN
    BY <1>2, InferredFits
  <2>2. QED BY <2>1 DEF Register!Supplied, ForcedRight
<1>4. Progress(poll)
  BY DEF PollInv
<1>5. CASE poll.loop.kind = "compare"
  <2>1. Cardinality(Differing(poll)) \in Nat /\ Cardinality(Differing(poll)) <= RegisterBits
    BY <1>2, DifferingCount
  <2>2. poll.releases + Cardinality(Differing(poll)) <= RegisterBits
    BY <1>1, <1>2, <1>4, <1>5, <2>1 DEF Progress
  <2>3. ASSUME Register!Waits PROVE ~Register!Supplied(i) /\ Cardinality(Differing(poll)) # 0
    <3>1. ~Register!Exits(poll.loop, Register!Read(poll.value))
      BY <2>3 DEF Register!Waits
    <3>2. i.bit \in Differing(poll) /\ ~ForcedRight(poll, i)
      BY <1>2, <1>5, <3>1, CompareInfers
    <3>3. IsFiniteSet(Differing(poll))
      BY <1>2, DifferingCount
    <3>4. QED BY <1>3, <3>2, <3>3, FS_EmptySet
  <2>4. QED BY <1>2, <2>1, <2>2, <2>3
<1>6. CASE poll.loop.kind # "compare"
  <2>1. poll.releases = 0 \/ (poll.releases = 1 /\ ForcedRight(poll, i)
                              /\ (poll.loop.kind = "literal" => poll.value = poll.loop.expected))
    BY <1>1, <1>2, <1>4, <1>6 DEF Progress
  <2>2. ASSUME ForcedRight(poll, i) PROVE ~Register!Waits
    <3>1. poll.loop.kind = "literal" => poll.value = poll.loop.expected
      <4>1. poll.loop.kind = "literal" /\ poll.releases = 0 => poll.set \cup poll.clear = {}
        BY <1>1 DEF Register!Exact
      <4>2. poll.set \cup poll.clear # {}
        <5>1. i.state \in BOOLEAN
          BY <1>2, InferredFits
        <5>2. QED BY <2>2, <5>1 DEF ForcedRight
      <4>3. QED BY <2>1, <4>1, <4>2
    <3>2. QED BY <1>1, <1>2, <1>6, <2>2, <3>1, ForcedLeaves DEF Register!Waits
  <2>3. QED BY <1>2, <1>3, <2>1, <2>2
<1>7. QED BY <1>5, <1>6

(* _release_hardware_poll: no loop waits for ever for a register, and it   *)
(* is given at most as many releases as the register has bits.             *)
THEOREM ReleasesEndEveryWait ==
  ASSUME Register!PollReleaseAssumption
  PROVE  Register!Spec => [](Register!TypeOK /\ Register!ReleasesEndWait)
<1>1. Register!Init => PollInv
  <2>1. ASSUME NEW v \in Register!Values,
               poll = [loop |-> Register!Idle, value |-> v, set |-> {}, clear |-> {}, releases |-> 0]
        PROVE  PollInv
    BY <2>1 DEF PollInv, PollStates, Progress
  <2>2. QED BY <2>1 DEF Register!Init
<1>2. PollInv /\ [Register!Next]_poll => PollInv'
  BY PollStep
<1>3. PollInv => Register!TypeOK /\ Register!ReleasesEndWait
  BY PollEnds, PollTypes DEF Register!TypeOK
<1>4. QED BY <1>1, <1>2, <1>3, PTL DEF Register!Spec

-------------------------------------------------------------------------------
(* The serial bus.                                                         *)

CONSTANTS Writes, Reads
VARIABLE bus

Bus == INSTANCE SerialBus

Words16  == 0..Bus!MaxWord
Controls == 0..(Bus!ControlBits - 1)
Saved    == {Bus!None} \cup Words16

Buses ==
  [status : {"observing", "candidate", "accepted", "rejected"}, bootstrap : Nat,
   validation : Nat, control : Controls, started : BOOLEAN, pending : BOOLEAN,
   full : BOOLEAN, backing : Saved, polled : BOOLEAN,
   word : Words16, native : Words16]

(* The tentative answers of a candidate begin with its first status read,  *)
(* which saves the word they hide; nothing is saved at any other time.     *)
SavedWhileTentative(b) ==
  /\ b.backing # Bus!None <=> b.status = "candidate" /\ b.validation # 0
  /\ b.backing # Bus!None => b.backing = b.native
  /\ b.backing = Bus!None /\ b.status # "accepted" => b.word = b.native

AnswersWhenAccepted(b) ==
  /\ b.status # "accepted" => ~b.pending /\ ~b.full
  /\ b.pending => ~b.started

BusFine(b) ==
  /\ b \in Buses
  /\ b.bootstrap <= 6 /\ b.validation <= 3
  /\ b.status = "observing" => b.bootstrap < 6 /\ b.validation = 0
  /\ SavedWhileTentative(b) /\ AnswersWhenAccepted(b)

BusInv == BusFine(bus)

(* A word, without the range itself, which the provers would enumerate.    *)
LEMMA WordRange ==
  /\ \A n : n \in Words16 <=> n \in Nat /\ n <= Bus!MaxWord
  /\ Bus!MaxWord \in Nat /\ 65535 <= Bus!MaxWord /\ Bus!MaxWord <= 65535
<1>1. Bus!MaxWord \in Nat /\ 65535 <= Bus!MaxWord /\ Bus!MaxWord <= 65535
  BY DEF Bus!MaxWord
<1>2. QED BY <1>1 DEF Words16

LEMMA WritesFit ==
  ASSUME Bus!SerialBusAssumption, NEW w \in Writes
  PROVE  /\ w.value \in Words16
         /\ w.size = 1 => w.value <= Bus!MaxByte
<1>1. w.value \in 0..(IF w.size = 1 THEN Bus!MaxByte ELSE Bus!MaxWord)
  BY DEF Bus!SerialBusAssumption
<1>2. Bus!MaxByte \in Nat /\ Bus!MaxWord \in Nat /\ Bus!MaxByte <= Bus!MaxWord
  BY DEF Bus!MaxByte, Bus!MaxWord
<1>3. QED BY <1>1, <1>2 DEF Words16

LEMMA BusRejected ==
  ASSUME NEW b, BusFine(b), b.status = "candidate"
  PROVE  BusFine(Bus!Rejected(b)) /\ Bus!Rejected(b).backing = Bus!None
<1> DEFINE word == IF b.backing = Bus!None THEN b.word ELSE b.backing
           r == Bus!Rejected(b)
<1>1. b \in Buses /\ word = b.native
  BY DEF BusFine, SavedWhileTentative
<1>2. b.native \in Words16
  BY <1>1 DEF Buses
<1> HIDE DEF word
<1>3. r = [b EXCEPT !.word = word, !.status = "rejected", !.backing = Bus!None,
                    !.polled = FALSE, !.pending = FALSE, !.full = FALSE]
  BY <1>1 DEF Bus!Rejected, Buses, word
<1> HIDE DEF r
<1>4. /\ r \in Buses /\ r.status = "rejected" /\ r.backing = Bus!None
      /\ r.word = b.native /\ r.native = b.native
      /\ r.pending = FALSE /\ r.full = FALSE
      /\ r.bootstrap = b.bootstrap /\ r.validation = b.validation
  BY <1>1, <1>2, <1>3 DEF Buses, Saved
<1>5. BusFine(r) /\ r.backing = Bus!None
  BY <1>4 DEF BusFine, SavedWhileTentative, AnswersWhenAccepted
<1>6. QED BY <1>5 DEF r

(* What the profile makes of a write leaves the bus as it should be, and   *)
(* when it still hides a word, the write does not touch that word.         *)
LEMMA BusProfiled ==
  ASSUME NEW b, BusFine(b), NEW w
  PROVE  /\ BusFine(Bus!Profiled(b, w))
         /\ Bus!Profiled(b, w).backing # Bus!None => w.reg # "base"
<1> DEFINE p == Bus!Profiled(b, w)
<1>0. b \in Buses
  BY DEF BusFine
<1>1. CASE b.status = "observing"
  <2>1. /\ b.bootstrap \in Nat /\ b.bootstrap < 6 /\ b.validation = 0 /\ b.backing = Bus!None
        /\ b.word = b.native /\ b.pending = FALSE /\ b.full = FALSE
    BY <1>0, <1>1 DEF BusFine, SavedWhileTentative, AnswersWhenAccepted, Buses
  <2>2. Len(Bus!Bootstrap) = 6
    BY DEF Bus!Bootstrap
  <2>3. \/ p = [b EXCEPT !.bootstrap = b.bootstrap + 1, !.status = "candidate", !.polled = TRUE]
        \/ b.bootstrap + 1 # 6 /\ p = [b EXCEPT !.bootstrap = b.bootstrap + 1]
        \/ p = [b EXCEPT !.bootstrap = 1]
        \/ p = [b EXCEPT !.bootstrap = 0]
    BY <1>1, <2>2, Zenon DEF Bus!Profiled
  <2> HIDE DEF p
  <2>4. /\ p \in Buses /\ p.status \in {"observing", "candidate"}
        /\ p.status = "observing" => p.bootstrap < 6
        /\ p.bootstrap <= 6
        /\ p.validation = 0 /\ p.backing = Bus!None /\ p.word = p.native
        /\ p.pending = FALSE /\ p.full = FALSE
    <3>1. CASE p = [b EXCEPT !.bootstrap = b.bootstrap + 1, !.status = "candidate",
                             !.polled = TRUE]
      <4>1. b.bootstrap + 1 \in Nat /\ b.bootstrap + 1 <= 6
        BY <2>1
      <4>2. /\ p \in Buses /\ p.status = "candidate" /\ p.bootstrap = b.bootstrap + 1
            /\ p.validation = b.validation /\ p.backing = b.backing
            /\ p.word = b.word /\ p.native = b.native
            /\ p.pending = b.pending /\ p.full = b.full
        BY <1>0, <3>1, <4>1 DEF Buses
      <4>3. QED BY <2>1, <4>1, <4>2
    <3>2. CASE b.bootstrap + 1 # 6 /\ p = [b EXCEPT !.bootstrap = b.bootstrap + 1]
      BY <1>0, <1>1, <2>1, <3>2 DEF Buses
    <3>3. CASE p = [b EXCEPT !.bootstrap = 1]
      BY <1>0, <1>1, <2>1, <3>3 DEF Buses
    <3>4. CASE p = [b EXCEPT !.bootstrap = 0]
      BY <1>0, <1>1, <2>1, <3>4 DEF Buses
    <3>5. QED BY <2>3, <3>1, <3>2, <3>3, <3>4
  <2>5. BusFine(p) /\ p.backing = Bus!None
    BY <2>4 DEF BusFine, SavedWhileTentative, AnswersWhenAccepted
  <2>6. QED BY <2>5 DEF p
<1>2. CASE b.status = "candidate"
  <2>1. CASE b.validation = 1 /\ w = Bus!ValidationWrite
    <3>1. p = [b EXCEPT !.validation = 2]
      BY <1>2, <2>1 DEF Bus!Profiled
    <3>2. w.reg # "base"
      BY <2>1 DEF Bus!ValidationWrite, Bus!W
    <3> HIDE DEF p
    <3>3. /\ p \in Buses /\ p.status = "candidate" /\ p.validation = 2
          /\ p.backing = b.backing /\ p.native = b.native /\ p.word = b.word
          /\ p.pending = b.pending /\ p.full = b.full /\ p.bootstrap = b.bootstrap
      BY <1>0, <1>2, <3>1 DEF Buses
    <3>4. BusFine(p)
      BY <1>2, <2>1, <3>3 DEF BusFine, SavedWhileTentative, AnswersWhenAccepted
    <3>5. QED BY <3>2, <3>4 DEF p
  <2>2. CASE ~(b.validation = 1 /\ w = Bus!ValidationWrite)
    <3>1. p = Bus!Rejected(b)
      BY <1>2, <2>2 DEF Bus!Profiled
    <3>2. QED BY <1>2, <3>1, BusRejected
  <2>3. QED BY <2>1, <2>2
<1>3. CASE b.status \notin {"observing", "candidate"}
  <2>1. p = b
    BY <1>3 DEF Bus!Profiled
  <2>2. b.backing = Bus!None
    BY <1>3 DEF BusFine, SavedWhileTentative
  <2>3. QED BY <2>1, <2>2
<1>4. QED BY <1>1, <1>2, <1>3

LEMMA BusFilled ==
  ASSUME NEW b \in Buses, b.status # "accepted" => ~b.pending /\ ~b.full
  PROVE  LET f == Bus!Filled(b)
         IN /\ f \in Buses /\ AnswersWhenAccepted(f)
            /\ f = [b EXCEPT !.pending = f.pending, !.full = f.full]
BY DEF Bus!Filled, AnswersWhenAccepted, Buses

(* What a start or a request changes before the read buffer is filled.     *)
StartOrRequest(b, d) ==
  /\ d \in Buses /\ d = [b EXCEPT !.pending = d.pending, !.started = d.started]
  /\ b.status # "accepted" => d.pending = b.pending

LEMMA BusRefilled ==
  ASSUME NEW b, BusFine(b), NEW d, StartOrRequest(b, d)
  PROVE  BusFine(Bus!Filled(d)) /\ Bus!Filled(d).backing = b.backing
<1> DEFINE r == Bus!Filled(d)
<1>1. /\ b \in Buses /\ d \in Buses
      /\ d = [b EXCEPT !.pending = d.pending, !.started = d.started]
      /\ b.status # "accepted" => d.pending = b.pending
  BY DEF StartOrRequest, BusFine
<1>2. d.status # "accepted" => ~d.pending /\ ~d.full
  BY <1>1 DEF BusFine, AnswersWhenAccepted, Buses
<1>3. /\ r \in Buses /\ AnswersWhenAccepted(r)
      /\ r = [d EXCEPT !.pending = r.pending, !.full = r.full]
  BY <1>1, <1>2, BusFilled, Zenon
<1> HIDE DEF r
<1>4. /\ r.status = b.status /\ r.bootstrap = b.bootstrap
      /\ r.validation = b.validation /\ r.backing = b.backing
      /\ r.word = b.word /\ r.native = b.native
  <2>1. /\ d.status = b.status /\ d.bootstrap = b.bootstrap
        /\ d.validation = b.validation /\ d.backing = b.backing
        /\ d.word = b.word /\ d.native = b.native
    BY <1>1 DEF Buses
  <2>2. /\ r.status = d.status /\ r.bootstrap = d.bootstrap
        /\ r.validation = d.validation /\ r.backing = d.backing
        /\ r.word = d.word /\ r.native = d.native
    BY <1>1, <1>3 DEF Buses
  <2>3. QED BY <2>1, <2>2
<1>5. BusFine(r) /\ r.backing = b.backing
  BY <1>3, <1>4 DEF BusFine, SavedWhileTentative
<1>6. QED BY <1>5 DEF r

LEMMA BusRegistered ==
  ASSUME Bus!SerialBusAssumption, NEW w \in Writes, NEW b, BusFine(b)
  PROVE  LET r == Bus!Registered(b, w)
         IN BusFine(r) /\ r.backing = b.backing
<1> DEFINE r == Bus!Registered(b, w)
<1>0. b \in Buses /\ w.value \in Nat
  <2>1. Bus!MaxWord \in Nat
    BY DEF Bus!MaxWord
  <2>2. QED BY <2>1, WritesFit DEF BusFine, Words16
<1>1. ASSUME r = [b EXCEPT !.control = w.value % Bus!ControlBits] \/ r = b
      PROVE  BusFine(r) /\ r.backing = b.backing
  <2>1. w.value % Bus!ControlBits \in Controls
    <3>1. Bus!ControlBits \in Nat \ {0}
      BY DEF Bus!ControlBits
    <3>2. QED BY <1>0, <3>1 DEF Controls
  <2> HIDE DEF r
  <2>2. QED BY <1>0, <1>1, <2>1 DEF Buses, BusFine, SavedWhileTentative, AnswersWhenAccepted
<1>3. CASE w.reg = "control" /\ w.size = 2
  BY <1>1, <1>3 DEF Bus!Registered
<1>4. CASE w.reg = "data" /\ w.size = 2 /\ b.status = "accepted"
  <2> DEFINE pending == w.value >= 32768
             d == [b EXCEPT !.pending = pending]
  <2>1. d \in Buses /\ d = [b EXCEPT !.pending = d.pending, !.started = d.started]
    <3>1. pending \in BOOLEAN
      OBVIOUS
    <3> HIDE DEF pending
    <3>2. QED BY <1>0, <3>1 DEF Buses
  <2>2. r = Bus!Filled(d)
    BY <1>4 DEF Bus!Registered
  <2> HIDE DEF d
  <2>3. StartOrRequest(b, d)
    BY <1>4, <2>1 DEF StartOrRequest
  <2>4. BusFine(Bus!Filled(d)) /\ Bus!Filled(d).backing = b.backing
    BY <2>3, BusRefilled, Zenon
  <2>5. QED BY <2>2, <2>4
<1>5. CASE w.reg = "start" /\ w.size = 1
  <2> DEFINE started == w.value % 2 = 1
             d == [b EXCEPT !.started = started]
  <2>1. d \in Buses /\ d = [b EXCEPT !.pending = d.pending, !.started = d.started]
        /\ d.pending = b.pending
    <3>1. started \in BOOLEAN
      OBVIOUS
    <3> HIDE DEF started
    <3>2. QED BY <1>0, <3>1 DEF Buses
  <2>2. r = Bus!Filled(d)
    BY <1>5 DEF Bus!Registered
  <2> HIDE DEF d
  <2>3. StartOrRequest(b, d)
    BY <2>1 DEF StartOrRequest
  <2>4. BusFine(Bus!Filled(d)) /\ Bus!Filled(d).backing = b.backing
    BY <2>3, BusRefilled, Zenon
  <2>5. QED BY <2>2, <2>4
<1>6. CASE /\ ~(w.reg = "control" /\ w.size = 2)
           /\ ~(w.reg = "data" /\ w.size = 2 /\ b.status = "accepted")
           /\ ~(w.reg = "start" /\ w.size = 1)
  BY <1>1, <1>6 DEF Bus!Registered
<1>7. QED BY <1>3, <1>4, <1>5, <1>6

LEMMA BusWrites ==
  ASSUME Bus!SerialBusAssumption, BusInv, NEW w \in Writes, Bus!Write(w)
  PROVE  BusInv'
<1> DEFINE p == Bus!Profiled(bus, w)
           b == Bus!Registered(p, w)
<1>1. BusFine(p) /\ (p.backing # Bus!None => w.reg # "base")
  BY BusProfiled DEF BusInv
<1>2. BusFine(b) /\ b.backing = p.backing
  BY <1>1, BusRegistered
<1>3. b.backing # Bus!None => w.reg # "base"
  BY <1>1, <1>2
<1>4. bus' = [b EXCEPT !.word = Bus!Lands(b.word, w), !.native = Bus!Lands(b.native, w)]
  BY DEF Bus!Write
<1> HIDE DEF b, p
<1>5. b \in Buses /\ b.word \in Words16 /\ b.native \in Words16
  BY <1>2 DEF BusFine, Buses
<1>6. ASSUME NEW word \in Words16 PROVE Bus!Lands(word, w) \in Words16
  <2>1. CASE w.reg # "base"
    BY <2>1 DEF Bus!Lands
  <2>2. CASE w.reg = "base" /\ w.size # 1
    BY <2>2, WritesFit DEF Bus!Lands
  <2>3. CASE w.reg = "base" /\ w.size = 1
    <3>1. Bus!MaxByte = 255
      BY DEF Bus!MaxByte
    <3>2. word \in Nat /\ word <= 65535 /\ w.value \in Nat /\ w.value <= 255
      BY <2>3, <3>1, WritesFit, WordRange
    <3>3. /\ word - (word % 256) + w.value \in Nat
          /\ word - (word % 256) + w.value <= 65535
      BY <3>2
    <3>4. QED BY <2>3, <3>3, WordRange DEF Bus!Lands
  <2>4. QED BY <2>1, <2>2, <2>3
<1>7. /\ Bus!Lands(b.word, w) \in Words16 /\ Bus!Lands(b.native, w) \in Words16
      /\ w.reg # "base" => Bus!Lands(b.native, w) = b.native /\ Bus!Lands(b.word, w) = b.word
      /\ b.word = b.native => Bus!Lands(b.word, w) = Bus!Lands(b.native, w)
  BY <1>5, <1>6 DEF Bus!Lands
<1>8. /\ bus' \in Buses /\ bus'.status = b.status /\ bus'.bootstrap = b.bootstrap
      /\ bus'.validation = b.validation /\ bus'.backing = b.backing
      /\ bus'.pending = b.pending /\ bus'.full = b.full /\ bus'.started = b.started
      /\ bus'.word = Bus!Lands(b.word, w) /\ bus'.native = Bus!Lands(b.native, w)
  BY <1>4, <1>5, <1>7 DEF Buses
<1>9. SavedWhileTentative(bus') /\ AnswersWhenAccepted(bus')
  BY <1>2, <1>3, <1>7, <1>8 DEF BusFine, SavedWhileTentative, AnswersWhenAccepted
<1>10. BusFine(bus')
  BY <1>2, <1>8, <1>9 DEF BusFine
<1>11. QED BY <1>10 DEF BusInv

(* The status answer is a word: a byte of control bits, and four bits.     *)
LEMMA StatusIsWord ==
  ASSUME NEW b \in Buses PROVE Bus!StatusValue(b) \in Words16
<1>1. b.control \in Nat
  <2>1. Bus!ControlBits \in Nat /\ b.control \in Controls
    BY DEF Buses, Bus!ControlBits
  <2>2. QED BY <2>1 DEF Controls
<1> DEFINE high == b.control % 256
           two == (b.control \div 512) % 4
           one == (b.control \div 2048) % 2
           full == IF b.full THEN 2 ELSE 0
<1>2. /\ high \in Int /\ 0 <= high /\ high <= 255
      /\ two \in Int /\ 0 <= two /\ two <= 3
      /\ one \in Int /\ 0 <= one /\ one <= 1
      /\ full \in Int /\ 0 <= full /\ full <= 2
  BY <1>1
<1>3. Bus!StatusValue(b) = high * 256 + two * 64 + one * 32 + full
  BY DEF Bus!StatusValue
<1> HIDE DEF high, two, one, full
<1>4. /\ high * 256 + two * 64 + one * 32 + full \in Nat
      /\ high * 256 + two * 64 + one * 32 + full <= 65535
  BY <1>2
<1>5. QED BY <1>3, <1>4, WordRange

LEMMA BusReads ==
  ASSUME Bus!SerialBusAssumption, BusInv, NEW r \in Reads, Bus!Read(r)
  PROVE  BusInv'
<1>1. BusFine(bus) /\ bus \in Buses
  BY DEF BusInv, BusFine
<1> DEFINE v == Bus!Validated(bus, r)
           status == Bus!StatusValue(v)
<1>2. ASSUME bus.status # "candidate" PROVE BusFine(bus')
  <2>1. v = bus
    BY <1>2 DEF Bus!Validated
  <2>2. status \in Words16
    BY <1>1, <2>1, StatusIsWord
  <2>3. \/ bus.status = "accepted" /\ bus' = [bus EXCEPT !.word = status]
        \/ bus.status = "accepted" /\ bus' = [bus EXCEPT !.full = FALSE]
        \/ bus' = bus
    BY <1>2, <2>1 DEF Bus!Read
  <2> HIDE DEF status
  <2>4. CASE bus.status = "accepted" /\ bus' = [bus EXCEPT !.word = status]
    BY <1>1, <2>2, <2>4 DEF BusFine, Buses, SavedWhileTentative, AnswersWhenAccepted
  <2>5. CASE bus.status = "accepted" /\ bus' = [bus EXCEPT !.full = FALSE]
    BY <1>1, <2>5 DEF BusFine, Buses, SavedWhileTentative, AnswersWhenAccepted
  <2>6. QED BY <1>1, <2>3, <2>4, <2>5
<1>3. ASSUME bus.status = "candidate", v = Bus!Rejected(bus) PROVE BusFine(bus')
  <2>1. BusFine(v) /\ v.status = "rejected"
    <3>1. Bus!Rejected(bus).status = "rejected"
      BY <1>1 DEF Bus!Rejected, Buses
    <3>2. QED BY <1>1, <1>3, <3>1, BusRejected
  <2>2. bus' = v
    BY <2>1 DEF Bus!Read
  <2>3. QED BY <2>1, <2>2
<1>4. ASSUME bus.status = "candidate", r.reg = "base", r.size = 2, bus.validation = 0
      PROVE  BusFine(bus')
  <2>1. v = [bus EXCEPT !.backing = bus.word, !.validation = 1]
    BY <1>4 DEF Bus!Validated
  <2>2. bus.word = bus.native /\ bus.word \in Words16 /\ bus.word \in Saved
    BY <1>1, <1>4 DEF BusFine, SavedWhileTentative, Buses, Saved
  <2> HIDE DEF v
  <2>3. v \in Buses /\ v.status = "candidate"
    BY <1>1, <1>4, <2>1, <2>2 DEF Buses
  <2>4. status \in Words16
    BY <2>3, StatusIsWord
  <2>5. bus' = [v EXCEPT !.word = status]
    BY <1>4, <2>3 DEF Bus!Read, v
  <2> HIDE DEF status
  <2>6. /\ bus' \in Buses /\ bus'.status = "candidate" /\ bus'.validation = 1
        /\ bus'.backing = bus.native /\ bus'.native = bus.native
        /\ bus'.bootstrap = bus.bootstrap /\ bus'.started = bus.started
        /\ bus'.pending = bus.pending /\ bus'.full = bus.full
    BY <1>1, <1>4, <2>1, <2>2, <2>4, <2>5 DEF Buses, Saved
  <2>7. bus.native # Bus!None
    BY <1>1, WordRange DEF Buses, Bus!None
  <2>8. QED BY <1>1, <1>4, <2>6, <2>7 DEF BusFine, SavedWhileTentative, AnswersWhenAccepted
<1>5. ASSUME bus.status = "candidate", r.reg = "base", r.size = 2, bus.validation = 2
      PROVE  BusFine(bus')
  <2>1. v = [bus EXCEPT !.status = "accepted", !.validation = 3, !.backing = Bus!None]
    BY <1>5 DEF Bus!Validated
  <2> HIDE DEF v
  <2>2. v \in Buses /\ v.status = "accepted"
    <3>1. Bus!None \in Saved
      BY DEF Saved
    <3>2. QED BY <1>1, <2>1, <3>1 DEF Buses
  <2>3. status \in Words16
    BY <2>2, StatusIsWord
  <2>4. bus' = [v EXCEPT !.word = status]
    BY <1>5, <2>2 DEF Bus!Read, v
  <2> HIDE DEF status
  <2>5. /\ bus' \in Buses /\ bus'.status = "accepted" /\ bus'.backing = Bus!None
        /\ bus'.validation = 3 /\ bus'.bootstrap = bus.bootstrap
        /\ bus'.started = bus.started
        /\ bus'.pending = bus.pending /\ bus'.full = bus.full
    BY <1>1, <2>1, <2>3, <2>4 DEF Buses, Saved
  <2>6. QED BY <1>1, <1>5, <2>5 DEF BusFine, SavedWhileTentative, AnswersWhenAccepted
<1>6. CASE bus.status = "candidate" /\ (r.reg # "base" \/ r.size # 2)
  BY <1>3, <1>6 DEF Bus!Validated, BusInv
<1>7. CASE bus.status = "candidate" /\ r.reg = "base" /\ r.size = 2 /\ bus.validation \notin {0, 2}
  BY <1>3, <1>7 DEF Bus!Validated, BusInv
<1>8. QED BY <1>2, <1>4, <1>5, <1>6, <1>7 DEF BusInv

LEMMA BusInvariant ==
  ASSUME Bus!SerialBusAssumption PROVE Bus!Spec => []BusInv
<1>1. Bus!Init => BusInv
  <2> SUFFICES ASSUME Bus!Init PROVE BusFine(bus)
    BY DEF BusInv
  <2>1. 0 \in Words16 /\ 0 \in Controls
    <3>1. Bus!ControlBits \in Nat \ {0}
      BY DEF Bus!ControlBits
    <3>2. QED BY <3>1, WordRange DEF Controls
  <2>2. /\ bus \in Buses /\ bus.status = "observing" /\ bus.bootstrap = 0
        /\ bus.validation = 0 /\ bus.backing = Bus!None /\ bus.word = bus.native
        /\ bus.pending = FALSE /\ bus.full = FALSE
    BY <2>1 DEF Bus!Init, Buses, Saved
  <2>3. QED BY <2>2 DEF BusFine, SavedWhileTentative, AnswersWhenAccepted
<1>2. ASSUME BusInv, [Bus!Next]_bus PROVE BusInv'
  <2>1. CASE UNCHANGED bus
    BY <1>2, <2>1 DEF BusInv
  <2>2. QED BY <1>2, <2>1, BusWrites, BusReads DEF Bus!Next
<1>3. QED BY <1>1, <1>2, PTL DEF Bus!Spec

(* The bus's state keeps its shape: every word of it is a word.            *)
THEOREM BusTypeCorrect ==
  ASSUME Bus!SerialBusAssumption PROVE Bus!Spec => []Bus!TypeOK
<1>1. BusInv => Bus!TypeOK
  <2> SUFFICES ASSUME BusInv PROVE Bus!TypeOK
    OBVIOUS
  <2>1. bus \in Buses /\ bus.bootstrap <= 6 /\ bus.validation <= 3
    BY DEF BusInv, BusFine
  <2>2. Len(Bus!Bootstrap) = 6
    BY DEF Bus!Bootstrap
  <2>3. bus.bootstrap \in 0..Len(Bus!Bootstrap) /\ bus.validation \in 0..3
    BY <2>1, <2>2 DEF Buses
  <2>4. QED BY <2>1, <2>3 DEF Buses, Words16, Controls, Saved, Bus!TypeOK
<1>2. QED BY <1>1, BusInvariant, PTL

(* A firmware without the serial bus finds the register as its own writes  *)
(* left it, however far the tentative answers went, and a request of one   *)
(* that has it waits for a start and for nothing else.                     *)
THEOREM BusGivesBack ==
  ASSUME Bus!SerialBusAssumption
  PROVE  Bus!Spec => [](Bus!NativeUnlessAnswered /\ Bus!RequestsWait)
<1>1. BusInv => Bus!NativeUnlessAnswered
  BY DEF BusInv, BusFine, SavedWhileTentative, Bus!NativeUnlessAnswered
<1>2. BusInv => Bus!RequestsWait
  BY DEF BusInv, BusFine, AnswersWhenAccepted, Bus!RequestsWait
<1>3. QED BY <1>1, <1>2, BusInvariant, PTL

-------------------------------------------------------------------------------
(* The board's converter.                                                  *)

CONSTANTS Words, AdcValue, Channels, MaxDc0
VARIABLE adc

Adc == INSTANCE BoardAdc

AdcWords == 0..Adc!MaxWord
Marks    == 0..MaxDc0     \* of accesses to the second transport

Epochs == [open : BOOLEAN, word : AdcWords, starts : Seq({0, 1}), answered : BOOLEAN]

Converters ==
  [channel : {Adc!None} \cup Channels, data : AdcWords, sequence : Marks,
   control_at : Marks, control_word : AdcWords, dc0 : AdcWords, epoch : Epochs]

AdcInv == adc \in Converters /\ Adc!ReadbackIsTheAnswer

LEMMA AdcWordRange ==
  /\ \A n : n \in AdcWords <=> n \in Nat /\ n <= Adc!MaxWord
  /\ Adc!MaxWord \in Nat /\ 65535 <= Adc!MaxWord /\ Adc!MaxWord <= 65535
<1>1. Adc!MaxWord \in Nat /\ 65535 <= Adc!MaxWord /\ Adc!MaxWord <= 65535
  BY DEF Adc!MaxWord
<1>2. QED BY <1>1 DEF AdcWords

(* The answers fit: a word's low byte is replaced, or its request's.       *)
LEMMA AnswersFit ==
  ASSUME Adc!BoardAdcAssumption, NEW word \in AdcWords
  PROVE  /\ word - (word % 256) + AdcValue \in AdcWords
         /\ Adc!Request + AdcValue \in AdcWords
<1>1. AdcValue \in Nat /\ AdcValue <= 255 /\ word \in Nat /\ word <= 65535
  BY AdcWordRange DEF Adc!BoardAdcAssumption
<1>2. Adc!Request = 45568
  BY DEF Adc!Request
<1>3. word - (word % 256) + AdcValue \in Nat /\ word - (word % 256) + AdcValue <= 65535
  BY <1>1
<1>4. Adc!Request + AdcValue \in Nat /\ Adc!Request + AdcValue <= 65535
  BY <1>1, <1>2
<1>5. QED BY <1>3, <1>4, AdcWordRange

LEMMA NextMark ==
  ASSUME Adc!BoardAdcAssumption, adc \in Converters, Adc!MayAccess
  PROVE  adc.sequence + 1 \in Marks
BY DEF Adc!BoardAdcAssumption, Converters, Marks, Adc!MayAccess

LEMMA AdcInitInv == Adc!BoardAdcAssumption /\ Adc!Init => AdcInv
<1> SUFFICES ASSUME Adc!BoardAdcAssumption, Adc!Init PROVE AdcInv
  OBVIOUS
<1>1. 0 \in AdcWords /\ 0 \in Marks
  BY AdcWordRange DEF Adc!BoardAdcAssumption, Marks
<1>2. Adc!NoEpoch \in Epochs /\ Adc!NoEpoch.open = FALSE
  BY <1>1 DEF Adc!NoEpoch, Epochs
<1>3. adc \in Converters /\ adc.epoch = Adc!NoEpoch
  BY <1>1, <1>2 DEF Adc!Init, Converters
<1>4. QED BY <1>2, <1>3 DEF AdcInv, Adc!ReadbackIsTheAnswer

(* The reader's accesses leave the second transport alone.                 *)
LEMMA AdcReader ==
  ASSUME Adc!BoardAdcAssumption, AdcInv,
         \/ \E channel \in Channels, intact \in BOOLEAN : Adc!ReaderEntry(channel, intact)
         \/ Adc!DataRead
         \/ \E word \in Words : Adc!DataWrite(word)
  PROVE  AdcInv'
<1>1. adc \in Converters /\ Adc!None \in {Adc!None} \cup Channels
  BY DEF AdcInv
<1>2. ASSUME NEW channel \in {Adc!None} \cup Channels, NEW data \in AdcWords,
             adc' = [adc EXCEPT !.channel = channel, !.data = data]
      PROVE  AdcInv'
  <2>1. adc' \in Converters /\ adc'.epoch = adc.epoch /\ adc'.dc0 = adc.dc0
    BY <1>1, <1>2 DEF Converters
  <2>2. QED BY <2>1 DEF AdcInv, Adc!ReadbackIsTheAnswer
<1>3. adc.data \in AdcWords /\ adc.channel \in {Adc!None} \cup Channels
  BY <1>1 DEF Converters
<1>4. ASSUME NEW channel \in Channels, NEW intact \in BOOLEAN, Adc!ReaderEntry(channel, intact)
      PROVE  AdcInv'
  <2> DEFINE c == IF intact THEN channel ELSE Adc!None
  <2>1. adc' = [adc EXCEPT !.channel = c, !.data = adc.data]
    BY <1>1, <1>4 DEF Adc!ReaderEntry, Converters
  <2>2. QED BY <1>2, <1>3, <2>1
<1>5. CASE Adc!DataRead
  <2> DEFINE d == IF adc.channel = 2 THEN adc.data - (adc.data % 256) + AdcValue ELSE adc.data
  <2>1. adc' = [adc EXCEPT !.channel = Adc!None, !.data = d]
    BY <1>1, <1>5 DEF Adc!DataRead
  <2>2. d \in AdcWords
    BY <1>3, AnswersFit
  <2> HIDE DEF d
  <2>3. QED BY <1>1, <1>2, <2>1, <2>2
<1>6. ASSUME NEW word \in Words, Adc!DataWrite(word) PROVE AdcInv'
  <2>1. adc' = [adc EXCEPT !.channel = adc.channel, !.data = word]
    BY <1>1, <1>6 DEF Adc!DataWrite, Converters
  <2>2. word \in AdcWords
    BY DEF Adc!BoardAdcAssumption, AdcWords
  <2>3. QED BY <1>2, <1>3, <2>1, <2>2
<1>7. QED BY <1>4, <1>5, <1>6

(* A start answers at most once in an epoch, and what it answers is what   *)
(* the epoch then says.                                                    *)
LEMMA AdcStart ==
  ASSUME Adc!BoardAdcAssumption, AdcInv, NEW value \in {0, 1}, Adc!Dc0Start(value)
  PROVE  AdcInv'
<1> DEFINE starts == IF Len(adc.epoch.starts) < 4 THEN Append(adc.epoch.starts, value)
                                                  ELSE adc.epoch.starts
           answer == /\ adc.epoch.open
                     /\ Len(starts) >= 2 /\ Adc!Tail2(starts) = <<0, 1>>
                     /\ ~adc.epoch.answered
                     /\ adc.control_word = Adc!Control
                     /\ adc.control_at > 0 /\ adc.control_at = adc.sequence + 1 - 3
                     /\ adc.epoch.word = Adc!Request
           epoch == IF adc.epoch.open
                    THEN [adc.epoch EXCEPT !.starts = starts, !.answered = @ \/ answer]
                    ELSE adc.epoch
           dc0 == IF answer THEN Adc!Request + AdcValue ELSE adc.dc0
<1>1. adc \in Converters /\ adc.epoch \in Epochs /\ adc.dc0 \in AdcWords
      /\ adc.sequence + 1 \in Marks
  BY NextMark DEF AdcInv, Converters, Adc!Dc0Start
<1>2. adc' = [adc EXCEPT !.sequence = adc.sequence + 1, !.epoch = epoch, !.dc0 = dc0]
  BY <1>1 DEF Adc!Dc0Start
<1>3. starts \in Seq({0, 1}) /\ answer \in BOOLEAN
  BY <1>1 DEF Epochs
<1>4. dc0 \in AdcWords
  BY <1>1, AnswersFit
<1>5. answer => adc.epoch.open /\ ~adc.epoch.answered
  OBVIOUS
<1> HIDE DEF starts, answer
<1>6. /\ epoch \in Epochs /\ epoch.open = adc.epoch.open /\ epoch.word = adc.epoch.word
      /\ epoch.open => epoch.answered = (adc.epoch.answered \/ answer)
  BY <1>1, <1>3 DEF Epochs
<1>7. answer => dc0 = Adc!Request + AdcValue
  OBVIOUS
<1>8. ~answer => dc0 = adc.dc0
  OBVIOUS
<1> HIDE DEF epoch, dc0
<1>9. adc' \in Converters /\ adc'.epoch = epoch /\ adc'.dc0 = dc0
  BY <1>1, <1>2, <1>4, <1>6 DEF Converters
<1>10. Adc!ReadbackIsTheAnswer'
  BY <1>5, <1>6, <1>7, <1>8, <1>9 DEF AdcInv, Adc!ReadbackIsTheAnswer
<1>11. QED BY <1>9, <1>10 DEF AdcInv

LEMMA AdcTransport ==
  ASSUME Adc!BoardAdcAssumption, AdcInv,
         \/ \E word \in Words : Adc!Dc0Control(word) \/ Adc!Dc0Data(word)
         \/ Adc!Dc0StatusRead \/ Adc!Dc0DataRead
  PROVE  AdcInv'
<1>1. Adc!MayAccess /\ adc \in Converters
  BY DEF AdcInv, Adc!Dc0Control, Adc!Dc0Data, Adc!Dc0StatusRead, Adc!Dc0DataRead
<1>2. adc.sequence + 1 \in Marks
  BY <1>1, NextMark
<1>3. Adc!NoEpoch \in Epochs /\ Adc!NoEpoch.open = FALSE /\ Adc!NoEpoch.answered = FALSE
  BY AdcWordRange DEF Adc!NoEpoch, Epochs
<1>4. \A word \in Words : word \in AdcWords
  BY DEF Adc!BoardAdcAssumption, AdcWords
<1>5. ASSUME NEW word \in Words, Adc!Dc0Control(word) PROVE AdcInv'
  <2>1. adc' = [adc EXCEPT !.sequence = adc.sequence + 1, !.control_at = adc.sequence + 1,
                           !.control_word = word]
    BY <1>5 DEF Adc!Dc0Control
  <2>2. adc' \in Converters /\ adc'.epoch = adc.epoch /\ adc'.dc0 = adc.dc0
    BY <1>1, <1>2, <1>4, <2>1 DEF Converters
  <2>3. QED BY <2>2 DEF AdcInv, Adc!ReadbackIsTheAnswer
<1>6. ASSUME NEW word \in Words, Adc!Dc0Data(word) PROVE AdcInv'
  <2> DEFINE epoch == [Adc!NoEpoch EXCEPT !.open = TRUE, !.word = word]
  <2>1. adc' = [adc EXCEPT !.sequence = adc.sequence + 1, !.dc0 = word, !.epoch = epoch]
    BY <1>6 DEF Adc!Dc0Data
  <2>2. epoch \in Epochs /\ epoch.word = word /\ epoch.answered = FALSE
    BY <1>3, <1>4 DEF Epochs
  <2> HIDE DEF epoch
  <2>3. adc' \in Converters /\ adc'.epoch = epoch /\ adc'.dc0 = word
    BY <1>1, <1>2, <1>4, <2>1, <2>2 DEF Converters
  <2>4. QED BY <2>2, <2>3 DEF AdcInv, Adc!ReadbackIsTheAnswer
<1>7. CASE Adc!Dc0StatusRead
  <2>1. adc' = [adc EXCEPT !.sequence = adc.sequence + 1]
    BY <1>7 DEF Adc!Dc0StatusRead
  <2>2. adc' \in Converters /\ adc'.epoch = adc.epoch /\ adc'.dc0 = adc.dc0
    BY <1>1, <1>2, <2>1 DEF Converters
  <2>3. QED BY <2>2 DEF AdcInv, Adc!ReadbackIsTheAnswer
<1>8. CASE Adc!Dc0DataRead
  <2>1. adc' = [adc EXCEPT !.sequence = adc.sequence + 1, !.epoch = Adc!NoEpoch]
    BY <1>8 DEF Adc!Dc0DataRead
  <2>2. adc' \in Converters /\ adc'.epoch = Adc!NoEpoch
    BY <1>1, <1>2, <1>3, <2>1 DEF Converters
  <2>3. QED BY <1>3, <2>2 DEF AdcInv, Adc!ReadbackIsTheAnswer
<1>9. QED BY <1>5, <1>6, <1>7, <1>8

(* The guest reads back from the second transport the converter's answer   *)
(* in an epoch that was answered, and its own word in every other one.     *)
THEOREM ConverterAnswers ==
  ASSUME Adc!BoardAdcAssumption
  PROVE  Adc!Spec => [](Adc!TypeOK /\ Adc!ReadbackIsTheAnswer)
<1>1. ASSUME AdcInv, [Adc!Next]_adc PROVE AdcInv'
  <2>1. CASE UNCHANGED adc
    BY <1>1, <2>1 DEF AdcInv, Adc!ReadbackIsTheAnswer
  <2>2. QED BY <1>1, <2>1, AdcReader, AdcStart, AdcTransport DEF Adc!Next
<1>2. AdcInv => Adc!TypeOK /\ Adc!ReadbackIsTheAnswer
  BY DEF AdcInv, Converters, Epochs, AdcWords, Marks, Adc!TypeOK
<1>3. QED BY <1>1, <1>2, AdcInitInv, PTL DEF Adc!Spec

-------------------------------------------------------------------------------
(* The memory bus.                                                         *)

CONSTANTS Pages, Board, Values, Code, Zero, Open, MaxDynamic, MaxZero
VARIABLE memory

Memory == INSTANCE MemoryBus

Contents == [Pages -> Values \cup {Open}]

Memories ==
  [mapped : SUBSET Pages, dynamic : SUBSET Pages, content : Contents, written : Contents,
   attempted : BOOLEAN, nor : BOOLEAN, zeros : 0..MaxZero, ran : SUBSET Pages,
   fault : BOOLEAN]

(* What belongs to the board, or to a NOR once it is attached, is mapped   *)
(* from then on; a dynamic page is mapped when it is nobody's, and what    *)
(* has run is the board's or the NOR's.                                    *)
Owned(m) ==
  /\ Memory!Of("board") \subseteq m.mapped /\ m.dynamic \subseteq m.mapped
  /\ m.nor => Memory!Bank \subseteq m.mapped /\ m.dynamic \cap Memory!Bank = {}
  /\ m.dynamic \cap Memory!Of("board") = {}
  /\ \A p \in m.ran : Board[p] = "board" \/ (m.nor /\ p \in Memory!Bank)

Kept(m) == \A p \in m.dynamic : m.content[p] = m.written[p]

MemoryFine(m) ==
  /\ m \in Memories /\ Owned(m) /\ Kept(m)
  /\ ~m.fault => m.zeros < MaxZero

MemoryInv == MemoryFine(memory)

(* A change of what a page holds, that is not a dynamic one's.             *)
LEMMA ContentChanges ==
  ASSUME NEW m, MemoryFine(m), NEW page \in Pages, NEW value \in Values \cup {Open},
         NEW n,
         \/ /\ page \notin m.dynamic
            /\ n = [m EXCEPT !.content = [m.content EXCEPT ![page] = value]]
         \/ n = [m EXCEPT !.content = [m.content EXCEPT ![page] = value],
                          !.written = [m.written EXCEPT ![page] = value]]
  PROVE  MemoryFine(n)
<1> DEFINE content == [m.content EXCEPT ![page] = value]
           written == [m.written EXCEPT ![page] = value]
<1>1. m \in Memories /\ m.content \in Contents /\ m.written \in Contents
      /\ m.dynamic \subseteq Pages
  BY DEF MemoryFine, Memories
<1>2. /\ content \in Contents /\ written \in Contents
      /\ content[page] = value /\ written[page] = value
      /\ \A p \in Pages : p # page => content[p] = m.content[p] /\ written[p] = m.written[p]
  BY <1>1 DEF Contents
<1> HIDE DEF content, written
<1>3. /\ n \in Memories /\ n.content = content
      /\ (n.written = m.written /\ page \notin m.dynamic) \/ n.written = written
      /\ n.mapped = m.mapped /\ n.dynamic = m.dynamic /\ n.nor = m.nor
      /\ n.ran = m.ran /\ n.fault = m.fault /\ n.zeros = m.zeros
  <2>1. CASE page \notin m.dynamic /\ n = [m EXCEPT !.content = content]
    BY <1>1, <1>2, <2>1 DEF Memories
  <2>2. CASE n = [m EXCEPT !.content = content, !.written = written]
    BY <1>1, <1>2, <2>2 DEF Memories
  <2>3. QED BY <2>1, <2>2 DEF content, written
<1>4. Kept(n)
  BY <1>1, <1>2, <1>3 DEF MemoryFine, Kept
<1>5. Owned(n)
  BY <1>3 DEF MemoryFine, Owned
<1>6. QED BY <1>3, <1>4, <1>5 DEF MemoryFine

LEMMA NorAttaches ==
  ASSUME Memory!MemoryBusAssumption, NEW m, MemoryFine(m), Memory!Attaches(m)
  PROVE  MemoryFine(Memory!Attached(m))
<1> DEFINE n == Memory!Attached(m)
           content == [p \in Pages |-> IF p \in Memory!Bank THEN Open ELSE m.content[p]]
           written == [p \in Pages |-> IF p \in Memory!Bank THEN Open ELSE m.written[p]]
<1>1. /\ m \in Memories /\ m.content \in Contents /\ m.written \in Contents
      /\ m.dynamic \subseteq Pages /\ Memory!Bank \subseteq Pages
      /\ m.dynamic \cap Memory!Bank = {}
  BY DEF MemoryFine, Memories, Owned, Memory!Attaches, Memory!Bank, Memory!Of
<1>2. /\ content \in Contents /\ written \in Contents
      /\ \A p \in m.dynamic : content[p] = m.content[p] /\ written[p] = m.written[p]
  BY <1>1 DEF Contents
<1>3. n = [m EXCEPT !.mapped = m.mapped \cup Memory!Bank, !.nor = TRUE, !.attempted = TRUE,
                    !.content = content, !.written = written]
  BY DEF Memory!Attached
<1> HIDE DEF content, written, n
<1>4. /\ n \in Memories /\ n.mapped = m.mapped \cup Memory!Bank /\ n.nor = TRUE
      /\ n.content = content /\ n.written = written /\ n.dynamic = m.dynamic
      /\ n.ran = m.ran /\ n.fault = m.fault /\ n.zeros = m.zeros
  BY <1>1, <1>2, <1>3 DEF Memories
<1>5. Owned(n)
  BY <1>1, <1>4 DEF MemoryFine, Owned
<1>6. Kept(n)
  BY <1>2, <1>4 DEF MemoryFine, Kept
<1>7. MemoryFine(n)
  BY <1>4, <1>5, <1>6 DEF MemoryFine
<1>8. QED BY <1>7 DEF n

(* A page that nothing maps is nobody's, and may become a dynamic one.     *)
LEMMA PageMaps ==
  ASSUME Memory!MemoryBusAssumption, NEW m, MemoryFine(m), NEW page \in Pages,
         page \notin m.mapped
  PROVE  MemoryFine(Memory!Mapped(m, page))
<1> DEFINE n == Memory!Mapped(m, page)
           content == [m.content EXCEPT ![page] = Zero]
           written == [m.written EXCEPT ![page] = Zero]
<1>1. /\ m \in Memories /\ m.content \in Contents /\ m.written \in Contents
      /\ m.dynamic \subseteq Pages /\ Zero \in Values
  BY DEF MemoryFine, Memories, Memory!MemoryBusAssumption
<1>2. /\ content \in Contents /\ written \in Contents
      /\ content[page] = written[page]
      /\ \A p \in Pages : p # page => content[p] = m.content[p] /\ written[p] = m.written[p]
  BY <1>1 DEF Contents
<1>3. n = [m EXCEPT !.mapped = m.mapped \cup {page}, !.dynamic = m.dynamic \cup {page},
                    !.content = content, !.written = written]
  BY DEF Memory!Mapped
<1> HIDE DEF content, written, n
<1>4. /\ n \in Memories /\ n.mapped = m.mapped \cup {page}
      /\ n.dynamic = m.dynamic \cup {page}
      /\ n.content = content /\ n.written = written
      /\ n.nor = m.nor /\ n.ran = m.ran /\ n.fault = m.fault /\ n.zeros = m.zeros
  BY <1>1, <1>2, <1>3 DEF Memories
<1>5. Owned(n)
  BY <1>4 DEF MemoryFine, Owned
<1>6. Kept(n)
  BY <1>1, <1>2, <1>4 DEF MemoryFine, Kept
<1>7. MemoryFine(n)
  BY <1>4, <1>5, <1>6 DEF MemoryFine
<1>8. QED BY <1>7 DEF n

LEMMA UnmappedFine ==
  ASSUME Memory!MemoryBusAssumption, NEW m, MemoryFine(m), NEW page \in Pages,
         page \notin m.mapped, NEW write \in BOOLEAN, NEW unlock \in BOOLEAN
  PROVE  MemoryFine(Memory!Unmapped(m, page, write, unlock))
<1> DEFINE tries == Memory!Tries(m, page, write, unlock)
           tried == [m EXCEPT !.attempted = @ \/ tries]
           n == Memory!Unmapped(m, page, write, unlock)
<1>1. m \in Memories
  BY DEF MemoryFine
<1>2. \/ Memory!Attaches(m) /\ n = Memory!Attached(m)
      \/ n = [tried EXCEPT !.mapped = @ \cup Memory!Of("lcd")]
      \/ n = [tried EXCEPT !.fault = TRUE]
      \/ n = Memory!Mapped(tried, page)
  BY DEF Memory!Unmapped
<1>3. MemoryFine(tried) /\ page \notin tried.mapped /\ tried \in Memories
  <2>1. (m.attempted \/ tries) \in BOOLEAN
    OBVIOUS
  <2> HIDE DEF tries
  <2>2. /\ tried \in Memories /\ tried.mapped = m.mapped /\ tried.dynamic = m.dynamic
        /\ tried.content = m.content /\ tried.written = m.written /\ tried.nor = m.nor
        /\ tried.ran = m.ran /\ tried.fault = m.fault /\ tried.zeros = m.zeros
    BY <1>1, <2>1 DEF Memories
  <2> HIDE DEF tried
  <2>3. QED BY <2>2 DEF MemoryFine, Owned, Kept
<1> HIDE DEF tried, n
<1>4. CASE n = [tried EXCEPT !.mapped = @ \cup Memory!Of("lcd")]
  <2>1. Memory!Of("lcd") \subseteq Pages
    BY DEF Memory!Of
  <2>2. /\ n \in Memories /\ n.mapped = tried.mapped \cup Memory!Of("lcd")
        /\ n.dynamic = tried.dynamic /\ n.content = tried.content
        /\ n.written = tried.written /\ n.nor = tried.nor
        /\ n.ran = tried.ran /\ n.fault = tried.fault /\ n.zeros = tried.zeros
    BY <1>3, <1>4, <2>1 DEF Memories
  <2>3. MemoryFine(n)
    BY <1>3, <2>2 DEF MemoryFine, Owned, Kept
  <2>4. QED BY <2>3 DEF n
<1>5. CASE n = [tried EXCEPT !.fault = TRUE]
  <2>1. /\ n \in Memories /\ n.mapped = tried.mapped
        /\ n.dynamic = tried.dynamic /\ n.content = tried.content
        /\ n.written = tried.written /\ n.nor = tried.nor
        /\ n.ran = tried.ran /\ n.fault = TRUE
    BY <1>3, <1>5 DEF Memories
  <2>2. MemoryFine(n)
    BY <1>3, <2>1 DEF MemoryFine, Owned, Kept
  <2>3. QED BY <2>2 DEF n
<1>6. CASE Memory!Attaches(m) /\ n = Memory!Attached(m)
  BY <1>6, NorAttaches DEF n
<1>7. CASE n = Memory!Mapped(tried, page)
  BY <1>3, <1>7, PageMaps DEF n
<1>8. QED BY <1>2, <1>4, <1>5, <1>6, <1>7

LEMMA MemoryWrites ==
  ASSUME Memory!MemoryBusAssumption, MemoryInv, NEW page \in Pages, NEW value \in Values,
         NEW unlock \in BOOLEAN, Memory!Write(page, value, unlock)
  PROVE  MemoryInv'
<1> DEFINE m == Memory!Ready(page, TRUE, unlock)
<1>1. MemoryFine(m)
  <2>1. CASE page \in memory.mapped
    BY <2>1 DEF Memory!Ready, MemoryInv
  <2>2. CASE page \notin memory.mapped
    <3>1. m = Memory!Unmapped(memory, page, TRUE, unlock)
      BY <2>2 DEF Memory!Ready
    <3>2. QED BY <2>2, <3>1, UnmappedFine DEF MemoryInv
  <2>3. QED BY <2>1, <2>2
<1>2. memory' = m \/ memory' = [m EXCEPT !.content[page] = value, !.written[page] = value]
  BY DEF Memory!Write
<1> HIDE DEF m
<1>3. CASE memory' = m
  BY <1>1, <1>3 DEF MemoryInv
<1>4. CASE memory' = [m EXCEPT !.content[page] = value, !.written[page] = value]
  <2>1. value \in Values \cup {Open}
    OBVIOUS
  <2>2. memory' = [m EXCEPT !.content = [m.content EXCEPT ![page] = value],
                            !.written = [m.written EXCEPT ![page] = value]]
    BY <1>1, <1>4 DEF MemoryFine, Memories
  <2>3. MemoryFine(memory')
    BY <1>1, <2>1, <2>2, ContentChanges
  <2>4. QED BY <2>3 DEF MemoryInv
<1>5. QED BY <1>2, <1>3, <1>4

LEMMA MemoryReads ==
  ASSUME Memory!MemoryBusAssumption, MemoryInv, NEW page \in Pages, Memory!Read(page)
  PROVE  MemoryInv'
<1>1. CASE page \in memory.mapped
  <2>1. \/ memory' = memory
        \/ page \notin memory.dynamic /\ memory' = [memory EXCEPT !.content[page] = Open]
    BY <1>1 DEF Memory!Read, Memory!OpenBus
  <2>2. MemoryFine(memory')
    BY <2>1, ContentChanges DEF MemoryInv
  <2>3. QED BY <2>2 DEF MemoryInv
<1>2. CASE page \notin memory.mapped
  <2>1. memory' = Memory!Unmapped(memory, page, FALSE, FALSE)
    BY <1>2 DEF Memory!Read
  <2>2. QED BY <1>2, <2>1, UnmappedFine DEF MemoryInv
<1>3. QED BY <1>1, <1>2

LEMMA MemoryFetches ==
  ASSUME Memory!MemoryBusAssumption, MemoryInv, NEW page \in Pages, NEW primary \in BOOLEAN,
         Memory!Fetch(page, primary)
  PROVE  MemoryInv'
<1>1. /\ MemoryFine(memory) /\ memory \in Memories /\ memory.fault = FALSE
      /\ memory.zeros \in Nat /\ memory.zeros < MaxZero /\ MaxZero \in Nat \ {0}
  BY DEF MemoryInv, MemoryFine, Memories, Memory!Fetch, Memory!Runs, Memory!MemoryBusAssumption
<1>2. CASE Memory!Executable(memory, page)
  <2> DEFINE zeros == IF ~primary /\ memory.content[page] = Zero THEN memory.zeros + 1 ELSE 0
             fault == zeros = MaxZero
  <2>1. memory' = [memory EXCEPT !.zeros = zeros, !.fault = fault,
                                 !.ran = memory.ran \cup {page}]
    BY <1>2 DEF Memory!Fetch, Memory!Traced
  <2>2. zeros \in 0..MaxZero /\ fault \in BOOLEAN /\ (~fault => zeros < MaxZero)
    BY <1>1
  <2> HIDE DEF zeros, fault
  <2>3. /\ memory' \in Memories /\ memory'.mapped = memory.mapped
        /\ memory'.dynamic = memory.dynamic /\ memory'.content = memory.content
        /\ memory'.written = memory.written /\ memory'.nor = memory.nor
        /\ memory'.ran = memory.ran \cup {page} /\ memory'.fault = fault
        /\ memory'.zeros = zeros
    BY <1>1, <2>1, <2>2 DEF Memories
  <2>4. MemoryFine(memory')
    BY <1>1, <1>2, <2>2, <2>3 DEF MemoryFine, Owned, Kept, Memory!Executable
  <2>5. QED BY <2>4 DEF MemoryInv
<1>3. CASE ~Memory!Executable(memory, page)
  <2>1. memory' = [memory EXCEPT !.fault = TRUE]
    BY <1>3 DEF Memory!Fetch, Memory!Faulted
  <2>2. /\ memory' \in Memories /\ memory'.mapped = memory.mapped
        /\ memory'.dynamic = memory.dynamic /\ memory'.content = memory.content
        /\ memory'.written = memory.written /\ memory'.nor = memory.nor
        /\ memory'.ran = memory.ran /\ memory'.fault = TRUE
    BY <1>1, <2>1 DEF Memories
  <2>3. MemoryFine(memory')
    BY <1>1, <2>2 DEF MemoryFine, Owned, Kept
  <2>4. QED BY <2>3 DEF MemoryInv
<1>4. QED BY <1>2, <1>3

LEMMA MemoryInitInv == Memory!MemoryBusAssumption /\ Memory!Init => MemoryInv
<1> SUFFICES ASSUME Memory!MemoryBusAssumption, Memory!Init PROVE MemoryInv
  OBVIOUS
<1> DEFINE content == [p \in Pages |-> IF Board[p] = "board" THEN Code ELSE Zero]
           written == [p \in Pages |-> Open]
<1>1. content \in Contents /\ written \in Contents /\ 0 \in 0..MaxZero /\ 0 < MaxZero
      /\ Memory!Of("board") \subseteq Pages
  BY DEF Contents, Memory!MemoryBusAssumption, Memory!Of
<1> HIDE DEF content, written
<1>2. memory = [mapped |-> Memory!Of("board"), dynamic |-> {}, content |-> content,
                written |-> written, attempted |-> FALSE, nor |-> FALSE, zeros |-> 0,
                ran |-> {}, fault |-> FALSE]
  BY DEF Memory!Init, content, written
<1>3. memory \in Memories
  BY <1>1, <1>2 DEF Memories
<1>4. MemoryFine(memory)
  BY <1>1, <1>2, <1>3 DEF MemoryFine, Owned, Kept
<1>5. QED BY <1>4 DEF MemoryInv

(* A page that the guest uses as memory stays its own: no NOR that is      *)
(* found later covers it, the open-bus hook does not overwrite it, and it  *)
(* is never executed, nor is the LCD's.                                    *)
THEOREM PagesKeepTheirOwner ==
  ASSUME Memory!MemoryBusAssumption
  PROVE  Memory!Spec => [](Memory!TypeOK /\ Memory!PageHasOneOwner)
<1>1. ASSUME MemoryInv, [Memory!Next]_memory PROVE MemoryInv'
  <2>1. CASE UNCHANGED memory
    BY <1>1, <2>1 DEF MemoryInv
  <2>2. QED BY <1>1, <2>1, MemoryWrites, MemoryReads, MemoryFetches DEF Memory!Next
<1>2. MemoryInv => Memory!TypeOK
  BY DEF MemoryInv, MemoryFine, Memories, Contents, Memory!TypeOK
<1>3. ASSUME MemoryInv PROVE Memory!PageHasOneOwner
  <2>1. /\ memory \in Memories /\ Owned(memory) /\ Kept(memory)
        /\ memory.dynamic \subseteq Pages /\ memory.ran \subseteq Pages
    BY <1>3 DEF MemoryInv, MemoryFine, Memories
  <2>2. memory.ran \cap (memory.dynamic \cup Memory!Of("lcd")) = {}
    <3> SUFFICES ASSUME NEW p \in memory.ran
                 PROVE  p \notin memory.dynamic /\ p \notin Memory!Of("lcd")
      OBVIOUS
    <3>1. CASE Board[p] = "board"
      BY <2>1, <3>1 DEF Owned, Memory!Of
    <3>2. CASE memory.nor /\ p \in Memory!Bank
      BY <2>1, <3>2 DEF Owned, Memory!Of, Memory!Bank
    <3>3. QED BY <2>1, <3>1, <3>2 DEF Owned
  <2>3. QED BY <2>1, <2>2 DEF Owned, Kept, Memory!PageHasOneOwner
<1>4. QED BY <1>1, <1>2, <1>3, MemoryInitInv, PTL DEF Memory!Spec

-------------------------------------------------------------------------------
(* The scan of the keys.                                                   *)

CONSTANTS Keys, Profiles, Fillers, MaxEvents
VARIABLE keys

Input == INSTANCE KeyScan

KeyCells == [event : Nat, row : Nat, column : Nat] \cup {Input!NoProfile}

Queues == Seq(Nat)

AllScans ==
  [profile : Profiles, held : SUBSET Keys, cell : [Keys -> KeyCells], scanned : SUBSET Keys,
   side : SUBSET Keys, level : [Keys -> BOOLEAN], baseline : [Keys -> BOOLEAN],
   marker : Int, pending : Queues, dequeued : Int,
   sinks : Nat, enqueues : Nat, dequeues : Nat, tasks : Nat, credits : Nat,
   scan : [rows : SUBSET Int, found : SUBSET Nat, steady : BOOLEAN],
   answer : [key : Int, asserted : BOOLEAN]]

(* A cell of the matrix, whose event the firmware looks up by its column   *)
(* and row.                                                                *)
Fits(p, c) ==
  /\ c \in [event : Nat, row : Nat, column : Nat] /\ c.row < p.rows
  /\ c.event = p.events[c.column * p.rows + c.row + 1]

(* What is held: cells of a matrix, bits of a register, and nothing        *)
(* elsewhere; only a matrix is scanned.                                    *)
HeldFits(k) ==
  /\ k.scanned \subseteq k.held
  /\ k.profile.kind = "matrix" => \A b \in k.held : Fits(k.profile, k.cell[b])
  /\ k.profile.kind # "matrix" => k.scanned = {}
  /\ k.profile.kind = "register" => \A b \in k.held : k.level[b]
  /\ k.profile.kind \notin {"matrix", "register"} => k.held = {}

(* A read of a key that is held found it; the keys of a matrix cannot be   *)
(* read as bits.                                                           *)
AnswerFits(k) ==
  k.answer.key \in (IF k.profile.kind = "matrix" THEN k.side ELSE k.held) => k.answer.asserted

(* The events of the held keys whose rows were read.                       *)
Scanned(k) ==
  {k.cell[b].event : b \in {h \in k.held : \E i \in k.scan.rows : k.profile.order[i] = k.cell[h].row}}

ScanFits(k) ==
  k.profile.kind = "matrix" /\ k.scan.steady => k.scan.found = Scanned(k)

(* Each event that waits, is taken or is handled had one before it that    *)
(* no other counts on.                                                     *)
Known(x) == IF x = Input!None THEN 0 ELSE 1

EvidenceAddsUp(k) ==
  /\ k.tasks + Known(k.dequeued) <= k.dequeues
  /\ k.dequeues + Len(k.pending) <= k.enqueues + Known(k.dequeued)
  /\ k.enqueues + Known(k.marker) <= k.sinks
  /\ k.dequeued # Input!None => k.pending # <<>> /\ Head(k.pending) = k.dequeued

ScanInv ==
  /\ keys \in AllScans
  /\ HeldFits(keys) /\ AnswerFits(keys) /\ ScanFits(keys) /\ EvidenceAddsUp(keys)

LEMMA DivideWithRest ==
  ASSUME NEW i \in Nat, NEW n \in Nat \ {0}
  PROVE  /\ i % n \in Nat /\ i % n < n /\ i \div n \in Nat
         /\ (i \div n) * n + (i % n) = i
OBVIOUS

LEMMA MatrixProfile ==
  ASSUME Input!KeyScanAssumption, NEW p \in Profiles, p.kind = "matrix"
  PROVE  /\ p.events \in Seq(Nat) /\ p.rows \in Nat \ {0} /\ p.columns \in Nat \ {0}
         /\ p.senses \in Nat /\ \A q \in p.producers : q.key \in Keys /\ q.event \in Nat
         /\ \A r \in 0..(p.rows - 1) : \E i \in DOMAIN p.order : p.order[i] = r
BY DEF Input!KeyScanAssumption

LEMMA CellFits ==
  ASSUME Input!KeyScanAssumption, NEW p \in Profiles, p.kind = "matrix",
         NEW i \in Nat, i + 1 \in DOMAIN p.events
  PROVE  Fits(p, Input!CellAt(p, i))
<1> DEFINE row == i % p.rows
           column == i \div p.rows
<1>1. p.events \in Seq(Nat) /\ p.rows \in Nat \ {0}
  BY MatrixProfile
<1>2. row \in Nat /\ row < p.rows /\ column \in Nat /\ column * p.rows + row = i
  BY <1>1, DivideWithRest
<1>3. p.events[i + 1] \in Nat
  BY <1>1
<1>4. Input!CellAt(p, i) = [event |-> p.events[i + 1], row |-> row, column |-> column]
  BY DEF Input!CellAt
<1> HIDE DEF row, column
<1>5. p.events[column * p.rows + row + 1] = p.events[i + 1]
  BY <1>2
<1>6. QED BY <1>2, <1>3, <1>4, <1>5 DEF Fits

LEMMA CellsFit ==
  ASSUME Input!KeyScanAssumption, NEW p \in Profiles, p.kind = "matrix",
         NEW bit, NEW event, NEW c \in Input!CellsOf(p, bit, event)
  PROVE  Fits(p, c)
<1>1. /\ p.events \in Seq(Nat) /\ p.rows \in Nat \ {0} /\ p.columns \in Nat \ {0}
      /\ p.senses \in Nat
  BY MatrixProfile
<1>2. ASSUME NEW i \in Input!UniqueCells(p) PROVE Fits(p, Input!CellAt(p, i))
  <2>1. i \in Input!Indexes(p)
    BY DEF Input!UniqueCells
  <2> DEFINE most == Input!Least(Input!Least(Len(p.events), p.rows * p.columns), p.rows * p.senses)
  <2>2. i \in 0..(most - 1)
    BY <2>1 DEF Input!Indexes
  <2>3. p.rows * p.senses \in Int /\ p.rows * p.columns \in Int /\ Len(p.events) \in Nat
    BY <1>1
  <2>4. most \in Int /\ most <= Len(p.events)
    BY <2>3 DEF Input!Least
  <2> HIDE DEF most
  <2>5. i \in Nat /\ i + 1 \in DOMAIN p.events
    BY <1>1, <2>2, <2>4
  <2>6. QED BY <2>5, CellFits
<1>3. ASSUME NEW eventOf, NEW e \in Input!Mapped(p, eventOf) PROVE Fits(p, e[2])
  <2>1. PICK b \in DOMAIN eventOf :
          e \in {<<b, Input!CellAt(p, i)>> :
                   i \in {j \in Input!UniqueCells(p) : p.events[j + 1] = eventOf[b]}}
    BY DEF Input!Mapped
  <2>2. PICK i \in Input!UniqueCells(p) : e = <<b, Input!CellAt(p, i)>>
    BY <2>1
  <2>3. e[2] = Input!CellAt(p, i)
    BY <2>2
  <2>4. QED BY <1>2, <2>3
<1>4. ASSUME NEW e \in Input!InTableOrder(p) PROVE Fits(p, e[2])
  <2> DEFINE U == Input!UniqueCells(p)
             Place(i) == Input!Cardinality({j \in U : j < i})
             Entry(i) == <<Place(i), Input!CellAt(p, i)>>
  <2>1. e \in {Entry(i) : i \in U}
    BY DEF Input!InTableOrder
  <2> HIDE DEF Entry
  <2>2. PICK i \in U : e = Entry(i)
    BY <2>1
  <2> HIDE DEF Place
  <2>3. e[2] = Input!CellAt(p, i)
    BY <2>2 DEF Entry
  <2>4. QED BY <1>2, <2>3
<1>5. CASE event = Input!None
  <2>1. PICK e \in Input!Positions(p) : c = e[2]
    BY <1>5 DEF Input!CellsOf
  <2>2. \/ e \in Input!Mapped(p, p.provisional) \/ e \in Input!Mapped(p, p.evidenced)
        \/ e \in Input!InTableOrder(p)
    BY DEF Input!Positions
  <2>3. QED BY <1>3, <1>4, <2>1, <2>2
<1>6. CASE event # Input!None
  <2>1. c \in Input!ManualCells(p, event)
    BY <1>6 DEF Input!CellsOf
  <2>2. PICK i \in DOMAIN p.events : c = Input!CellAt(p, i - 1)
    BY <2>1 DEF Input!ManualCells
  <2>3. i - 1 \in Nat /\ (i - 1) + 1 = i
    BY <1>1
  <2>4. QED BY <2>2, <2>3, CellFits
<1>7. QED BY <1>5, <1>6

(* What a step leaves alone.                                               *)
SameEvidence(k, n) ==
  /\ n.marker = k.marker /\ n.pending = k.pending /\ n.dequeued = k.dequeued
  /\ n.sinks = k.sinks /\ n.enqueues = k.enqueues /\ n.dequeues = k.dequeues
  /\ n.tasks = k.tasks

LEMMA NobodyIsRead ==
  ASSUME Input!KeyScanAssumption, NEW n \in AllScans, n.answer = Input!NoAnswer
  PROVE  AnswerFits(n)
<1>1. ASSUME NEW b \in Keys PROVE b # Input!None
  <2>1. b \in 0..(Input!Cardinality(Keys) - 1)
    BY DEF Input!KeyScanAssumption
  <2>2. QED BY <2>1 DEF Input!None
<1>2. n.answer.key = Input!None /\ n.side \subseteq Keys /\ n.held \subseteq Keys
  BY DEF AllScans, Input!NoAnswer
<1>3. QED BY <1>1, <1>2 DEF AnswerFits

LEMMA NoAnswerIsAnswer == Input!NoAnswer \in [key : Int, asserted : BOOLEAN]
BY DEF Input!NoAnswer, Input!None

(* Bits of the registers change, and with them the sideband keys.          *)
LEMMA SidebandMoves ==
  ASSUME Input!KeyScanAssumption, ScanInv, Input!Matrix,
         NEW side \in SUBSET Keys, NEW level \in [Keys -> BOOLEAN],
         NEW baseline \in [Keys -> BOOLEAN],
         keys' = [keys EXCEPT !.side = side, !.level = level, !.baseline = baseline,
                              !.answer = Input!NoAnswer]
  PROVE  ScanInv'
<1>1. keys \in AllScans /\ keys.profile.kind = "matrix"
  BY DEF ScanInv, Input!Matrix
<1>2. /\ keys' \in AllScans /\ keys'.answer = Input!NoAnswer /\ SameEvidence(keys, keys')
      /\ keys'.profile = keys.profile /\ keys'.held = keys.held /\ keys'.cell = keys.cell
      /\ keys'.scanned = keys.scanned /\ keys'.scan = keys.scan
  BY <1>1, NoAnswerIsAnswer DEF AllScans, SameEvidence
<1>3. AnswerFits(keys')
  BY <1>2, NobodyIsRead
<1>4. HeldFits(keys') /\ ScanFits(keys') /\ EvidenceAddsUp(keys')
  BY <1>1, <1>2 DEF ScanInv, HeldFits, ScanFits, Scanned, EvidenceAddsUp, SameEvidence
<1>5. QED BY <1>2, <1>3, <1>4 DEF ScanInv

(* KeyCells are pressed or let go, and a scan does not count any more.        *)
LEMMA CellsMove ==
  ASSUME Input!KeyScanAssumption, ScanInv, Input!Matrix,
         NEW held \in SUBSET Keys, NEW cell \in [Keys -> KeyCells], NEW scanned \in SUBSET held,
         \A b \in held : Fits(keys.profile, cell[b]),
         keys' = [keys EXCEPT !.held = held, !.cell = cell, !.scanned = scanned,
                              !.scan = [keys.scan EXCEPT !.steady = FALSE],
                              !.answer = Input!NoAnswer]
  PROVE  ScanInv'
<1> DEFINE scan == [keys.scan EXCEPT !.steady = FALSE]
<1>1. keys \in AllScans /\ keys.profile.kind = "matrix"
  BY DEF ScanInv, Input!Matrix
<1>2. scan \in [rows : SUBSET Int, found : SUBSET Nat, steady : BOOLEAN] /\ ~scan.steady
  BY <1>1 DEF AllScans
<1> HIDE DEF scan
<1>3. keys' = [keys EXCEPT !.held = held, !.cell = cell, !.scanned = scanned, !.scan = scan,
                           !.answer = Input!NoAnswer]
  BY DEF scan
<1>4. /\ keys' \in AllScans /\ keys'.answer = Input!NoAnswer /\ SameEvidence(keys, keys')
      /\ keys'.profile = keys.profile /\ keys'.held = held /\ keys'.cell = cell
      /\ keys'.scanned = scanned /\ keys'.scan = scan
  <2>1. scanned \in SUBSET Keys
    OBVIOUS
  <2> DEFINE pressed == [keys EXCEPT !.held = held, !.cell = cell, !.scanned = scanned]
  <2>2. pressed \in AllScans
    BY <1>1, <2>1 DEF AllScans
  <2>3. keys' = [pressed EXCEPT !.scan = scan, !.answer = Input!NoAnswer]
    BY <1>1, <1>3 DEF AllScans
  <2> HIDE DEF pressed
  <2>4. keys' \in AllScans
    BY <1>2, <2>2, <2>3, NoAnswerIsAnswer DEF AllScans
  <2>5. QED BY <1>1, <1>3, <2>4 DEF AllScans, SameEvidence
<1>5. AnswerFits(keys')
  BY <1>4, NobodyIsRead
<1>6. HeldFits(keys') /\ ScanFits(keys') /\ EvidenceAddsUp(keys')
  BY <1>1, <1>2, <1>4 DEF ScanInv, HeldFits, ScanFits, EvidenceAddsUp, SameEvidence
<1>7. QED BY <1>4, <1>5, <1>6 DEF ScanInv

LEMMA RegisterMoves ==
  ASSUME Input!KeyScanAssumption, ScanInv, keys.profile.kind = "register",
         NEW bit \in Keys, NEW pressed \in BOOLEAN,
         keys' = [Input!SetRegister(bit, pressed) EXCEPT !.answer = Input!NoAnswer]
  PROVE  ScanInv'
<1> DEFINE held == IF pressed THEN keys.held \cup {bit} ELSE keys.held \ {bit}
           level == [keys.level EXCEPT ![bit] = IF pressed THEN TRUE ELSE keys.baseline[bit]]
           baseline == [keys.baseline EXCEPT ![bit] = IF pressed THEN keys.level[bit] ELSE FALSE]
<1>1. keys \in AllScans /\ keys.profile.kind # "matrix" /\ HeldFits(keys)
  BY DEF ScanInv
<1>2. /\ held \in SUBSET Keys /\ level \in [Keys -> BOOLEAN] /\ baseline \in [Keys -> BOOLEAN]
  BY <1>1 DEF AllScans
<1>3. \A b \in held : level[b]
  BY <1>1 DEF HeldFits, AllScans
<1>4. keys' = [keys EXCEPT !.held = held, !.level = level, !.baseline = baseline,
                           !.answer = Input!NoAnswer]
  BY <1>1 DEF Input!SetRegister, AllScans
<1> HIDE DEF held, level, baseline
<1>5. /\ keys' \in AllScans /\ keys'.answer = Input!NoAnswer /\ SameEvidence(keys, keys')
      /\ keys'.profile = keys.profile /\ keys'.held = held /\ keys'.level = level
      /\ keys'.scanned = keys.scanned
  <2>1. keys' \in AllScans
    BY <1>1, <1>2, <1>4, NoAnswerIsAnswer DEF AllScans
  <2>2. QED BY <1>1, <1>4, <2>1 DEF AllScans, SameEvidence
<1>6. AnswerFits(keys')
  BY <1>5, NobodyIsRead
<1>7. HeldFits(keys') /\ ScanFits(keys') /\ EvidenceAddsUp(keys')
  BY <1>1, <1>3, <1>5 DEF ScanInv, HeldFits, ScanFits, EvidenceAddsUp, SameEvidence
<1>8. QED BY <1>5, <1>6, <1>7 DEF ScanInv

LEMMA ScanSetKey ==
  ASSUME Input!KeyScanAssumption, ScanInv, NEW bit \in Keys, NEW pressed \in BOOLEAN, NEW event,
         Input!SetKey(bit, pressed, event)
  PROVE  ScanInv'
<1> DEFINE p == keys.profile
<1>1. PICK k \in Input!Outcomes(bit, pressed, event) : keys' = [k EXCEPT !.answer = Input!NoAnswer]
  BY DEF Input!SetKey
<1>2. /\ keys \in AllScans /\ p \in Profiles /\ HeldFits(keys)
      /\ keys.held \subseteq Keys /\ keys.side \subseteq Keys /\ keys.scanned \subseteq keys.held
      /\ keys.cell \in [Keys -> KeyCells]
      /\ keys.level \in [Keys -> BOOLEAN] /\ keys.baseline \in [Keys -> BOOLEAN]
  BY DEF ScanInv, AllScans, HeldFits
<1>3. \/ Input!Matrix /\ \E q \in Input!Producer(p, bit, event) : k = Input!PressSideband(bit, q)
      \/ Input!Matrix /\ \E q \in Input!Producer(p, bit, event) : k = Input!ReleaseSideband(bit, q)
      \/ Input!Matrix /\ \E c \in Input!CellsOf(p, bit, event) : k = Input!PressCell(bit, c)
      \/ Input!Matrix /\ k = Input!ReleaseCell(bit)
      \/ p.kind = "register" /\ k = Input!SetRegister(bit, pressed)
  BY <1>1 DEF Input!Outcomes
<1>4. \A q \in Input!Producer(p, bit, event) : Input!Matrix => q.key \in Keys
  BY <1>2, MatrixProfile DEF Input!Producer, Input!Producers, Input!Matrix
<1>5. ASSUME NEW q \in Input!Producer(p, bit, event), Input!Matrix,
             k = Input!PressSideband(bit, q)
      PROVE  ScanInv'
  <2> DEFINE side == keys.side \cup {bit}
             level == [keys.level EXCEPT ![q.key] = TRUE]
             baseline == [keys.baseline EXCEPT ![bit] = keys.level[q.key]]
  <2>1. /\ side \in SUBSET Keys /\ level \in [Keys -> BOOLEAN] /\ baseline \in [Keys -> BOOLEAN]
    BY <1>2, <1>4, <1>5
  <2>2. keys' = [keys EXCEPT !.side = side, !.level = level, !.baseline = baseline,
                             !.answer = Input!NoAnswer]
    BY <1>1, <1>2, <1>5 DEF Input!PressSideband, AllScans
  <2>3. QED BY <1>5, <2>1, <2>2, SidebandMoves
<1>6. ASSUME NEW q \in Input!Producer(p, bit, event), Input!Matrix,
             k = Input!ReleaseSideband(bit, q)
      PROVE  ScanInv'
  <2> DEFINE side == keys.side \ {bit}
             level == [keys.level EXCEPT ![q.key] = keys.baseline[bit]]
             baseline == [keys.baseline EXCEPT ![bit] = FALSE]
  <2>1. /\ side \in SUBSET Keys /\ level \in [Keys -> BOOLEAN] /\ baseline \in [Keys -> BOOLEAN]
    BY <1>2, <1>4, <1>6
  <2>2. keys' = [keys EXCEPT !.side = side, !.level = level, !.baseline = baseline,
                             !.answer = Input!NoAnswer]
    BY <1>1, <1>2, <1>6 DEF Input!ReleaseSideband, AllScans
  <2>3. QED BY <1>6, <2>1, <2>2, SidebandMoves
<1>7. ASSUME NEW c \in Input!CellsOf(p, bit, event), Input!Matrix, k = Input!PressCell(bit, c)
      PROVE  ScanInv'
  <2> DEFINE held == keys.held \cup {bit}
             cell == [keys.cell EXCEPT ![bit] = c]
             scanned == keys.scanned
  <2>1. Fits(p, c)
    BY <1>2, <1>7, CellsFit DEF Input!Matrix
  <2>2. /\ held \in SUBSET Keys /\ cell \in [Keys -> KeyCells] /\ scanned \in SUBSET held
        /\ \A b \in held : Fits(p, cell[b])
    BY <1>2, <1>7, <2>1 DEF HeldFits, Fits, KeyCells, Input!Matrix
  <2>3. keys' = [keys EXCEPT !.held = held, !.cell = cell, !.scanned = scanned,
                             !.scan = [keys.scan EXCEPT !.steady = FALSE],
                             !.answer = Input!NoAnswer]
    BY <1>1, <1>2, <1>7 DEF Input!PressCell, AllScans
  <2> HIDE DEF held, cell, scanned
  <2>4. QED BY <1>7, <2>2, <2>3, CellsMove
<1>8. ASSUME Input!Matrix, k = Input!ReleaseCell(bit) PROVE ScanInv'
  <2> DEFINE held == keys.held \ {bit}
             cell == [keys.cell EXCEPT ![bit] = Input!NoProfile]
             scanned == keys.scanned \ {bit}
  <2>1. /\ held \in SUBSET Keys /\ cell \in [Keys -> KeyCells] /\ scanned \in SUBSET held
        /\ \A b \in held : Fits(p, cell[b])
    BY <1>2, <1>8 DEF HeldFits, KeyCells, Input!Matrix
  <2>2. keys' = [keys EXCEPT !.held = held, !.cell = cell, !.scanned = scanned,
                             !.scan = [keys.scan EXCEPT !.steady = FALSE],
                             !.answer = Input!NoAnswer]
    BY <1>1, <1>2, <1>8 DEF Input!ReleaseCell, AllScans
  <2> HIDE DEF held, cell, scanned
  <2>3. QED BY <1>8, <2>1, <2>2, CellsMove
<1>9. ASSUME p.kind = "register", k = Input!SetRegister(bit, pressed) PROVE ScanInv'
  BY <1>1, <1>9, RegisterMoves
<1>10. QED BY <1>3, <1>5, <1>6, <1>7, <1>8, <1>9

(* A row adds the events of the held keys in it, and the first row starts  *)
(* a scan.                                                                 *)
LEMMA ScanScanRow ==
  ASSUME Input!KeyScanAssumption, ScanInv, NEW index \in Int, Input!ScanRow(index)
  PROVE  ScanInv'
<1> DEFINE p == keys.profile
           begin == IF index = 1 THEN [Input!NoScan EXCEPT !.steady = TRUE] ELSE keys.scan
           new == Input!Decoded(p.order[index], Input!SenseOf(index))
           scan == [rows |-> begin.rows \cup {index}, steady |-> begin.steady,
                    found |-> begin.found \cup new]
           InRow(h) == h \in keys.held /\ keys.cell[h].row = p.order[index]
<1>1. /\ keys \in AllScans /\ p \in Profiles /\ p.kind = "matrix" /\ HeldFits(keys)
      /\ ScanFits(keys) /\ EvidenceAddsUp(keys)
  BY DEF ScanInv, AllScans, Input!ScanRow, Input!Matrix
<1>2. \A b \in keys.held : Fits(p, keys.cell[b])
  BY <1>1 DEF HeldFits
<1>3. new = {keys.cell[b].event : b \in {h \in keys.held : InRow(h)}}
  <2>1. Input!SenseOf(index) = {keys.cell[b].column : b \in {h \in keys.held : InRow(h)}}
    BY DEF Input!SenseOf
  <2>2. \A b \in keys.held : InRow(b) =>
          keys.cell[b].event = p.events[keys.cell[b].column * p.rows + p.order[index] + 1]
    BY <1>2 DEF Fits
  <2>3. new = {p.events[c * p.rows + p.order[index] + 1] : c \in Input!SenseOf(index)}
    BY DEF Input!Decoded
  <2> HIDE DEF new
  <2>4. QED BY <2>1, <2>2, <2>3
<1>4. new \subseteq Nat
  BY <1>2, <1>3 DEF Fits
<1>5. begin \in [rows : SUBSET Int, found : SUBSET Nat, steady : BOOLEAN]
  BY <1>1 DEF AllScans, Input!NoScan
<1>6. begin.steady =>
        begin.found = {keys.cell[b].event :
          b \in {h \in keys.held : \E i \in begin.rows : p.order[i] = keys.cell[h].row}}
  <2>1. CASE index = 1
    <3>1. begin.found = {} /\ begin.rows = {}
      BY <2>1 DEF Input!NoScan
    <3>2. QED BY <3>1
  <2>2. CASE index # 1
    BY <1>1, <2>2 DEF ScanFits, Scanned
  <2>3. QED BY <2>1, <2>2
<1>7. keys' = [keys EXCEPT !.scanned = keys.held, !.answer = Input!NoAnswer, !.scan = scan]
  BY DEF Input!ScanRow
<1> HIDE DEF begin, new
<1>8. /\ scan \in [rows : SUBSET Int, found : SUBSET Nat, steady : BOOLEAN]
      /\ scan.rows = begin.rows \cup {index} /\ scan.steady = begin.steady
      /\ scan.found = begin.found \cup new
  BY <1>4, <1>5
<1> HIDE DEF scan
<1>9. /\ keys' \in AllScans /\ keys'.answer = Input!NoAnswer /\ SameEvidence(keys, keys')
      /\ keys'.profile = p /\ keys'.held = keys.held /\ keys'.cell = keys.cell
      /\ keys'.level = keys.level /\ keys'.scanned = keys.held /\ keys'.scan = scan
  BY <1>1, <1>7, <1>8, NoAnswerIsAnswer DEF AllScans, SameEvidence
<1>10. AnswerFits(keys')
  BY <1>9, NobodyIsRead
<1>11. HeldFits(keys') /\ EvidenceAddsUp(keys')
  BY <1>1, <1>9 DEF HeldFits, EvidenceAddsUp, SameEvidence
<1>12. ScanFits(keys')
  <2>1. SUFFICES ASSUME scan.steady PROVE scan.found = Scanned(keys')
    BY <1>9 DEF ScanFits
  <2>2. Scanned(keys') = {keys.cell[b].event :
          b \in {h \in keys.held : \E i \in scan.rows : p.order[i] = keys.cell[h].row}}
    BY <1>9 DEF Scanned
  <2>3. \A h \in keys.held : (\E i \in scan.rows : p.order[i] = keys.cell[h].row) <=>
          (\E i \in begin.rows : p.order[i] = keys.cell[h].row) \/ InRow(h)
    BY <1>8
  <2>4. QED BY <1>3, <1>6, <1>8, <2>1, <2>2, <2>3
<1>13. QED BY <1>9, <1>10, <1>11, <1>12 DEF ScanInv

(* A read asserts again what is held.                                      *)
LEMMA ScanReadSideband ==
  ASSUME Input!KeyScanAssumption, ScanInv, NEW q, Input!ReadSideband(q)
  PROVE  ScanInv'
<1> DEFINE asserted == Input!Reasserted(q)
           level == [keys.level EXCEPT ![q.key] = asserted]
           answer == [key |-> q.key, asserted |-> asserted]
<1>1. /\ keys \in AllScans /\ keys.profile \in Profiles /\ keys.profile.kind = "matrix"
      /\ q \in keys.profile.producers /\ keys.level \in [Keys -> BOOLEAN]
  BY DEF ScanInv, AllScans, Input!ReadSideband, Input!Matrix, Input!Producers
<1>2. q.key \in Keys /\ q.key \in Int
  <2>1. q.key \in Keys
    BY <1>1, MatrixProfile
  <2>2. q.key \in 0..(Input!Cardinality(Keys) - 1)
    BY <2>1 DEF Input!KeyScanAssumption
  <2>3. QED BY <2>1, <2>2
<1>3. asserted \in BOOLEAN /\ (q.key \in keys.side => asserted)
  BY <1>1, <1>2 DEF Input!Reasserted
<1>4. keys' = [keys EXCEPT !.level = level, !.answer = answer]
  BY <1>1 DEF Input!ReadSideband, AllScans
<1>5. /\ level \in [Keys -> BOOLEAN] /\ answer \in [key : Int, asserted : BOOLEAN]
      /\ answer.key = q.key /\ answer.asserted = asserted
  BY <1>1, <1>2, <1>3
<1> HIDE DEF level, answer, asserted
<1>6. /\ keys' \in AllScans /\ keys'.answer = answer /\ SameEvidence(keys, keys')
      /\ keys'.profile = keys.profile /\ keys'.held = keys.held /\ keys'.cell = keys.cell
      /\ keys'.scanned = keys.scanned /\ keys'.scan = keys.scan /\ keys'.side = keys.side
  BY <1>1, <1>4, <1>5 DEF AllScans, SameEvidence
<1>7. QED BY <1>1, <1>3, <1>5, <1>6
          DEF ScanInv, HeldFits, ScanFits, Scanned, EvidenceAddsUp, SameEvidence, AnswerFits

LEMMA ScanReadRegister ==
  ASSUME Input!KeyScanAssumption, ScanInv, NEW bit \in Keys, Input!ReadRegister(bit)
  PROVE  ScanInv'
<1> DEFINE answer == [key |-> bit, asserted |-> keys.level[bit]]
<1>1. /\ keys \in AllScans /\ keys.profile.kind = "register" /\ keys.level \in [Keys -> BOOLEAN]
  BY DEF ScanInv, AllScans, Input!ReadRegister
<1>2. bit \in Int
  <2>1. bit \in 0..(Input!Cardinality(Keys) - 1)
    BY DEF Input!KeyScanAssumption
  <2>2. QED BY <2>1
<1>3. keys' = [keys EXCEPT !.answer = answer]
  BY <1>1 DEF Input!ReadRegister
<1>4. /\ answer \in [key : Int, asserted : BOOLEAN]
      /\ answer.key = bit /\ answer.asserted = keys.level[bit]
  BY <1>1, <1>2
<1> HIDE DEF answer
<1>5. /\ keys' \in AllScans /\ keys'.answer = answer /\ SameEvidence(keys, keys')
      /\ keys'.profile = keys.profile /\ keys'.held = keys.held /\ keys'.cell = keys.cell
      /\ keys'.scanned = keys.scanned /\ keys'.scan = keys.scan /\ keys'.level = keys.level
  BY <1>1, <1>3, <1>4 DEF AllScans, SameEvidence
<1>6. QED BY <1>1, <1>4, <1>5
          DEF ScanInv, HeldFits, ScanFits, Scanned, EvidenceAddsUp, SameEvidence, AnswerFits

LEMMA ScanGuestWrites ==
  ASSUME Input!KeyScanAssumption, ScanInv, NEW q, NEW asserted \in BOOLEAN,
         Input!GuestWrites(q, asserted)
  PROVE  ScanInv'
<1> DEFINE level == [keys.level EXCEPT ![q.key] = asserted]
<1>1. /\ keys \in AllScans /\ Input!Matrix
      /\ keys.side \in SUBSET Keys /\ keys.baseline \in [Keys -> BOOLEAN]
      /\ level \in [Keys -> BOOLEAN]
  BY DEF ScanInv, AllScans, Input!GuestWrites
<1>2. keys' = [keys EXCEPT !.side = keys.side, !.level = level, !.baseline = keys.baseline,
                           !.answer = Input!NoAnswer]
  BY <1>1 DEF Input!GuestWrites, AllScans
<1> HIDE DEF level
<1>3. QED BY <1>1, <1>2, SidebandMoves

LEMMA EvidenceStaysTyped ==
  ASSUME NEW k \in AllScans, NEW marker \in Int, NEW pending \in Seq(Nat),
         NEW dequeued \in Int, NEW sinks \in Nat, NEW enqueues \in Nat, NEW dequeues \in Nat,
         NEW tasks \in Nat, NEW credits \in Nat
  PROVE  [k EXCEPT !.marker = marker, !.pending = pending, !.dequeued = dequeued,
                   !.sinks = sinks, !.enqueues = enqueues, !.dequeues = dequeues,
                   !.tasks = tasks, !.credits = credits] \in AllScans
<1> DEFINE counted == [k EXCEPT !.sinks = sinks, !.enqueues = enqueues, !.dequeues = dequeues,
                                !.tasks = tasks, !.credits = credits]
           seen == [counted EXCEPT !.marker = marker, !.dequeued = dequeued]
<1>1. counted \in AllScans
  BY DEF AllScans
<1> HIDE DEF counted
<1>2. seen \in AllScans
  BY <1>1 DEF AllScans
<1> HIDE DEF seen
<1>3. [seen EXCEPT !.pending = pending] \in AllScans
  BY <1>2 DEF AllScans, Queues
<1>4. QED BY <1>3 DEF AllScans, seen, counted

(* The observers move evidence on, and touch no key.                       *)
LEMMA EvidenceMoves ==
  ASSUME ScanInv, NEW marker \in Int, NEW pending \in Seq(Nat), NEW dequeued \in Int,
         NEW sinks \in Nat, NEW enqueues \in Nat, NEW dequeues \in Nat, NEW tasks \in Nat,
         NEW credits \in Nat,
         keys' = [keys EXCEPT !.marker = marker, !.pending = pending, !.dequeued = dequeued,
                              !.sinks = sinks, !.enqueues = enqueues, !.dequeues = dequeues,
                              !.tasks = tasks, !.credits = credits],
         tasks + Known(dequeued) <= dequeues,
         dequeues + Len(pending) <= enqueues + Known(dequeued),
         enqueues + Known(marker) <= sinks,
         dequeued # Input!None => pending # <<>> /\ Head(pending) = dequeued
  PROVE  ScanInv'
<1>1. keys \in AllScans
  BY DEF ScanInv
<1>4. keys' \in AllScans
  BY <1>1, EvidenceStaysTyped
<1>5. /\ keys'.profile = keys.profile /\ keys'.held = keys.held /\ keys'.cell = keys.cell
      /\ keys'.scanned = keys.scanned /\ keys'.scan = keys.scan /\ keys'.level = keys.level
      /\ keys'.side = keys.side /\ keys'.answer = keys.answer
  BY <1>1 DEF AllScans
<1>6. /\ keys'.marker = marker /\ keys'.pending = pending /\ keys'.dequeued = dequeued
      /\ keys'.sinks = sinks /\ keys'.enqueues = enqueues /\ keys'.dequeues = dequeues
      /\ keys'.tasks = tasks
  BY <1>1 DEF AllScans
<1>7. HeldFits(keys') /\ AnswerFits(keys') /\ ScanFits(keys')
  BY <1>5 DEF ScanInv, HeldFits, AnswerFits, ScanFits, Scanned
<1>8. EvidenceAddsUp(keys')
  BY <1>6 DEF EvidenceAddsUp
<1>9. QED BY <1>4, <1>7, <1>8 DEF ScanInv

LEMMA KnownIsOne ==
  ASSUME NEW x
  PROVE  Known(x) \in Nat /\ (Known(x) = 0 <=> x = Input!None) /\ Known(x) <= 1
BY DEF Known

LEMMA EvidenceTyped ==
  ASSUME ScanInv
  PROVE  /\ keys \in AllScans
         /\ keys.marker \in Int /\ keys.pending \in Seq(Nat) /\ keys.dequeued \in Int
         /\ keys.sinks \in Nat /\ keys.enqueues \in Nat /\ keys.dequeues \in Nat
         /\ keys.tasks \in Nat /\ keys.credits \in Nat
         /\ Len(keys.pending) \in Nat
         /\ keys.tasks + Known(keys.dequeued) <= keys.dequeues
         /\ keys.dequeues + Len(keys.pending) <= keys.enqueues + Known(keys.dequeued)
         /\ keys.enqueues + Known(keys.marker) <= keys.sinks
         /\ keys.dequeued # Input!None =>
              keys.pending # <<>> /\ Head(keys.pending) = keys.dequeued
BY DEF ScanInv, AllScans, EvidenceAddsUp, Queues

LEMMA ScanEventObserved ==
  ASSUME ScanInv, NEW event \in Nat, NEW scanner \in BOOLEAN,
         Input!EventObserved(event, scanner)
  PROVE  ScanInv'
<1> DEFINE marker == IF scanner THEN event ELSE Input!None
           sinks == keys.sinks + IF scanner THEN 1 ELSE 0
           credits == keys.credits + IF scanner /\ Input!Credited(event) THEN 1 ELSE 0
<1>1. marker \in Int /\ sinks \in Nat /\ credits \in Nat
  BY EvidenceTyped DEF Input!None
<1>2. keys' = [keys EXCEPT !.marker = marker, !.pending = keys.pending,
                 !.dequeued = keys.dequeued, !.sinks = sinks, !.enqueues = keys.enqueues,
                 !.dequeues = keys.dequeues, !.tasks = keys.tasks, !.credits = credits]
  BY EvidenceTyped DEF Input!EventObserved, AllScans
<1>3. keys.enqueues + Known(marker) <= sinks
  BY EvidenceTyped DEF Known
<1> HIDE DEF marker, sinks, credits
<1>4. QED BY <1>1, <1>2, <1>3, EvidenceTyped, EvidenceMoves

LEMMA ScanEnqueueObserved ==
  ASSUME ScanInv, NEW event \in Nat, Input!EnqueueObserved(event)
  PROVE  ScanInv'
<1> DEFINE k == keys
<1>1. CASE event # keys.marker \/ Len(keys.pending) >= keys.profile.capacity
  <2>1. keys' = [keys EXCEPT !.marker = Input!None, !.pending = keys.pending,
                   !.dequeued = keys.dequeued, !.sinks = keys.sinks, !.enqueues = keys.enqueues,
                   !.dequeues = keys.dequeues, !.tasks = keys.tasks, !.credits = keys.credits]
    BY <1>1, EvidenceTyped DEF Input!EnqueueObserved, AllScans
  <2>2. Input!None \in Int /\ keys.enqueues + Known(Input!None) <= keys.sinks
    BY EvidenceTyped DEF Input!None, Known
  <2>3. QED BY <2>1, <2>2, EvidenceTyped, EvidenceMoves
<1>2. CASE ~(event # keys.marker \/ Len(keys.pending) >= keys.profile.capacity)
  <2> DEFINE pending == Append(keys.pending, event)
             enqueues == keys.enqueues + 1
  <2>1. keys' = [keys EXCEPT !.marker = Input!None, !.pending = pending,
                   !.dequeued = keys.dequeued, !.sinks = keys.sinks, !.enqueues = enqueues,
                   !.dequeues = keys.dequeues, !.tasks = keys.tasks, !.credits = keys.credits]
    BY <1>2, EvidenceTyped DEF Input!EnqueueObserved, AllScans
  <2>2. Input!None \in Int /\ enqueues \in Nat /\ enqueues + Known(Input!None) <= keys.sinks
    BY <1>2, EvidenceTyped DEF Input!None, Known
  <2>3. pending \in Seq(Nat) /\ Len(pending) = Len(keys.pending) + 1
    BY EvidenceTyped
  <2>4. keys.dequeued # Input!None => pending # <<>> /\ Head(pending) = keys.dequeued
    <3>1. keys.pending \in Seq(Nat)
      BY EvidenceTyped
    <3>2. pending # <<>>
      BY <3>1, AppendProperties
    <3>3. Head(pending) = IF keys.pending = <<>> THEN event ELSE Head(keys.pending)
      BY <3>1, HeadTailAppend
    <3>4. QED BY <3>2, <3>3, EvidenceTyped
  <2>5. keys.dequeues + Len(pending) <= enqueues + Known(keys.dequeued)
    <3>1. keys.dequeues + Len(keys.pending) <= keys.enqueues + Known(keys.dequeued)
      BY EvidenceTyped
    <3>2. /\ keys.dequeues \in Nat /\ Len(keys.pending) \in Nat /\ keys.enqueues \in Nat
          /\ Known(keys.dequeued) \in Nat
      BY EvidenceTyped, KnownIsOne
    <3>3. QED BY <2>3, <3>1, <3>2
  <2> HIDE DEF pending, enqueues
  <2>6. QED BY <2>1, <2>2, <2>3, <2>4, <2>5, EvidenceTyped, EvidenceMoves
<1>3. QED BY <1>1, <1>2

LEMMA ScanDequeueObserved ==
  ASSUME ScanInv, NEW event \in Nat, Input!DequeueObserved(event)
  PROVE  ScanInv'
<1> DEFINE left == Input!AfterStale
           matches == left # <<>> /\ Head(left) = event
           dequeued == IF matches THEN event ELSE Input!None
           dequeues == keys.dequeues + IF matches THEN 1 ELSE 0
<1>1. /\ left \in Seq(Nat) /\ Len(left) \in Nat
      /\ keys.dequeues + Len(left) <= keys.enqueues
  BY EvidenceTyped DEF Input!AfterStale, Known
<1>2. keys.tasks <= keys.dequeues
  BY EvidenceTyped DEF Known
<1>3. keys' = [keys EXCEPT !.marker = keys.marker, !.pending = left,
                 !.dequeued = dequeued, !.sinks = keys.sinks, !.enqueues = keys.enqueues,
                 !.dequeues = dequeues, !.tasks = keys.tasks, !.credits = keys.credits]
  BY EvidenceTyped DEF Input!DequeueObserved, AllScans
<1>4. /\ dequeued \in Int /\ dequeues \in Nat
      /\ dequeued # Input!None => left # <<>> /\ Head(left) = dequeued
  BY EvidenceTyped DEF Input!None
<1>5. keys.tasks + Known(dequeued) <= dequeues
  BY <1>2, EvidenceTyped DEF Known
<1>6. dequeues + Len(left) <= keys.enqueues + Known(dequeued)
  BY <1>1, EvidenceTyped DEF Known, Input!None
<1> HIDE DEF left, dequeued, dequeues
<1>7. QED BY <1>1, <1>3, <1>4, <1>5, <1>6, EvidenceTyped, EvidenceMoves

LEMMA ScanTaskObserved ==
  ASSUME ScanInv, NEW event \in Nat, Input!TaskObserved(event)
  PROVE  ScanInv'
<1> DEFINE pending == Tail(keys.pending)
           tasks == keys.tasks + IF event = keys.dequeued THEN 1 ELSE 0
<1>1. keys.dequeued # Input!None /\ keys.pending # <<>>
  BY EvidenceTyped DEF Input!TaskObserved
<1>2. pending \in Seq(Nat) /\ Len(pending) = Len(keys.pending) - 1
  BY <1>1, EvidenceTyped
<1>3. keys' = [keys EXCEPT !.marker = keys.marker, !.pending = pending,
                 !.dequeued = Input!None, !.sinks = keys.sinks, !.enqueues = keys.enqueues,
                 !.dequeues = keys.dequeues, !.tasks = tasks, !.credits = keys.credits]
  BY EvidenceTyped DEF Input!TaskObserved, AllScans
<1>4. /\ Input!None \in Int /\ tasks \in Nat /\ tasks + Known(Input!None) <= keys.dequeues
  BY <1>1, EvidenceTyped DEF Known, Input!None
<1>5. keys.dequeues + Len(pending) <= keys.enqueues + Known(Input!None)
  BY <1>1, <1>2, EvidenceTyped DEF Known
<1> HIDE DEF pending, tasks
<1>6. QED BY <1>2, <1>3, <1>4, <1>5, EvidenceTyped, EvidenceMoves

LEMMA ScanStart ==
  ASSUME Input!KeyScanAssumption, Input!Init
  PROVE  ScanInv
<1>1. PICK p \in Profiles :
        keys = [profile |-> p, held |-> {}, cell |-> [b \in Keys |-> Input!NoProfile],
                scanned |-> {}, side |-> {},
                level |-> [b \in Keys |-> FALSE], baseline |-> [b \in Keys |-> FALSE],
                marker |-> Input!None, pending |-> <<>>, dequeued |-> Input!None,
                sinks |-> 0, enqueues |-> 0, dequeues |-> 0, tasks |-> 0, credits |-> 0,
                scan |-> Input!NoScan, answer |-> Input!NoAnswer]
  BY DEF Input!Init, Input!NoAnswer
<1> DEFINE cell == [b \in Keys |-> Input!NoProfile]
           off == [b \in Keys |-> FALSE]
<1>2. cell \in [Keys -> KeyCells] /\ off \in [Keys -> BOOLEAN]
  BY DEF KeyCells
<1>3. /\ Input!NoScan \in [rows : SUBSET Int, found : SUBSET Nat, steady : BOOLEAN]
      /\ Input!None \in Int /\ <<>> \in Queues
  BY DEF Input!NoScan, Input!None, Queues
<1> HIDE DEF cell, off
<1>4. keys \in AllScans
  BY <1>1, <1>2, <1>3, NoAnswerIsAnswer DEF AllScans, cell, off
<1>5. AnswerFits(keys)
  BY <1>1, <1>4, NobodyIsRead
<1>6. HeldFits(keys) /\ ScanFits(keys) /\ EvidenceAddsUp(keys)
  BY <1>1 DEF HeldFits, ScanFits, Input!NoScan, EvidenceAddsUp, Known
<1>7. QED BY <1>4, <1>5, <1>6 DEF ScanInv

LEMMA EventsAreNumbers ==
  ASSUME Input!KeyScanAssumption, ScanInv
  PROVE  \A event \in Input!Events : event \in Nat
<1>1. keys.profile \in Profiles
  BY DEF ScanInv, AllScans
<1>2. CASE Input!Matrix
  <2>1. /\ keys.profile.events \in Seq(Nat)
        /\ \A q \in keys.profile.producers : q.event \in Nat
    BY <1>1, <1>2, MatrixProfile DEF Input!Matrix
  <2>2. \A i \in DOMAIN keys.profile.events : keys.profile.events[i] \in Nat
    BY <2>1
  <2>3. QED BY <1>2, <2>1, <2>2 DEF Input!Events
<1>3. CASE ~Input!Matrix
  BY <1>3 DEF Input!Events
<1>4. QED BY <1>2, <1>3

LEMMA ScanSteps ==
  ASSUME Input!KeyScanAssumption, ScanInv, [Input!Next]_keys
  PROVE  ScanInv'
<1>1. CASE UNCHANGED keys
  BY <1>1 DEF ScanInv, HeldFits, AnswerFits, ScanFits, Scanned, EvidenceAddsUp
<1>2. CASE \E b \in Keys, pressed \in BOOLEAN : Input!SetKey(b, pressed, Input!None)
  BY <1>2, ScanSetKey, Zenon
<1>3. CASE \E b \in Keys : \E event \in Input!Events : Input!SetKey(b, TRUE, event)
  <2>1. TRUE \in BOOLEAN
    OBVIOUS
  <2>2. QED BY <1>3, <2>1, ScanSetKey, Zenon
<1>4. CASE \E index \in 1..Input!Cardinality(Keys) : Input!ScanRow(index)
  <2>1. \A index \in 1..Input!Cardinality(Keys) : index \in Int
    OBVIOUS
  <2>2. QED BY <1>4, <2>1, ScanScanRow, Zenon
<1>5. CASE \E q \in keys.profile.producers : Input!ReadSideband(q)
  BY <1>5, ScanReadSideband, Zenon
<1>6. CASE \E q \in keys.profile.producers, asserted \in BOOLEAN : Input!GuestWrites(q, asserted)
  BY <1>6, ScanGuestWrites, Zenon
<1>7. CASE \E b \in Keys : Input!ReadRegister(b)
  BY <1>7, ScanReadRegister, Zenon
<1>8. CASE \E event \in Input!Events, scanner \in BOOLEAN : Input!EventObserved(event, scanner)
  BY <1>8, EventsAreNumbers, ScanEventObserved, Zenon
<1>9. CASE \E event \in Input!Events : \/ Input!EnqueueObserved(event)
                                       \/ Input!DequeueObserved(event)
                                       \/ Input!TaskObserved(event)
  BY <1>9, EventsAreNumbers, ScanEnqueueObserved, ScanDequeueObserved, ScanTaskObserved, Zenon
<1>10. QED BY <1>1, <1>2, <1>3, <1>4, <1>5, <1>6, <1>7, <1>8, <1>9, Zenon DEF Input!Next

(* A scan of all rows without a press or a release finds the keys that are *)
(* held, whatever the matrix and the order of its rows; a key that is held *)
(* reads as pressed after any writes of the guest; and the counts of the   *)
(* evidence rest on each other, with a queue of any capacity               *)
(* (_direct_matrix_nibble, _direct_sideband_read, the observers of the     *)
(* event queue).                                                           *)
THEOREM ScanFindsWhatIsHeld ==
  ASSUME Input!KeyScanAssumption
  PROVE  Input!Spec => [](/\ Input!TypeOK /\ Input!ScanFindsHeldKey
                          /\ Input!HeldKeysAreRead /\ Input!EvidenceIsOrdered)
<1>1. Input!Init => ScanInv
  BY ScanStart
<1>2. ScanInv /\ [Input!Next]_keys => ScanInv'
  BY ScanSteps
<1>3. ScanInv => Input!TypeOK /\ Input!HeldKeysAreRead
  BY DEF ScanInv, AllScans, HeldFits, AnswerFits, Input!TypeOK, Input!HeldKeysAreRead,
         Input!Matrix
<1>4. ScanInv => Input!EvidenceIsOrdered
  <2>1. SUFFICES ASSUME ScanInv PROVE Input!EvidenceIsOrdered
    OBVIOUS
  <2>2. keys.dequeued # Input!None => Len(keys.pending) >= 1
    BY <2>1, EvidenceTyped, EmptySeq
  <2>3. /\ keys.tasks \in Nat /\ keys.dequeues \in Nat /\ keys.enqueues \in Nat
        /\ keys.sinks \in Nat /\ Len(keys.pending) \in Nat
        /\ keys.tasks + Known(keys.dequeued) <= keys.dequeues
        /\ keys.dequeues + Len(keys.pending) <= keys.enqueues + Known(keys.dequeued)
        /\ keys.enqueues + Known(keys.marker) <= keys.sinks
        /\ Known(keys.dequeued) \in Nat /\ Known(keys.marker) \in Nat
        /\ Known(keys.dequeued) <= 1 /\ (Known(keys.dequeued) = 0 \/ keys.dequeued # Input!None)
    BY <2>1, EvidenceTyped, KnownIsOne
  <2>4. /\ keys.tasks <= keys.dequeues /\ keys.dequeues <= keys.enqueues
        /\ keys.enqueues <= keys.sinks
    BY <2>2, <2>3
  <2>5. QED BY <2>1, <2>4, EvidenceTyped DEF Input!EvidenceIsOrdered
<1>5. ScanInv => Input!ScanFindsHeldKey
  <2>1. SUFFICES ASSUME ScanInv, Input!Matrix, keys.scan.steady,
                        keys.scan.rows = DOMAIN keys.profile.order
                 PROVE  keys.scan.found = {keys.cell[b].event : b \in keys.held}
    BY DEF Input!ScanFindsHeldKey
  <2>2. keys.profile \in Profiles /\ keys.profile.kind = "matrix"
    BY <2>1 DEF ScanInv, AllScans, Input!Matrix
  <2>3. keys.scan.found = Scanned(keys)
    BY <2>1, <2>2 DEF ScanInv, ScanFits
  <2>4. \A h \in keys.held : \E i \in keys.scan.rows : keys.profile.order[i] = keys.cell[h].row
    <3>1. TAKE h \in keys.held
    <3>2. keys.cell[h].row \in Nat /\ keys.cell[h].row < keys.profile.rows
      BY <2>1, <2>2 DEF ScanInv, HeldFits, Fits
    <3>3. keys.cell[h].row \in 0..(keys.profile.rows - 1)
      BY <2>2, <3>2, MatrixProfile
    <3>4. QED BY <2>1, <2>2, <3>3, MatrixProfile
  <2>5. QED BY <2>3, <2>4 DEF Scanned
<1>6. QED BY <1>1, <1>2, <1>3, <1>4, <1>5, PTL DEF Input!Spec

-------------------------------------------------------------------------------
(* The staged run of the boot probe.                                       *)

CONSTANTS Frames, Black, Plans, ChunkSizes, MaxPublished
VARIABLE probe

Probe == INSTANCE BootProbe

Events == {"fault", "post-splash-changing", "post-splash-stable", "boot-splash",
           "firmware-visible-unchanged", "control-sink", "display-traffic", "early-boot"}

Phases == {"fault", "runtime+display+storage", "runtime+display", "visible-frame", "control-sink",
           "preseed-frame", "display-traffic", "scheduler-active", "early-boot"}

AllProbes ==
  [stage : Probe!Stages, plan : Plans, size : ChunkSizes,
   status : {Probe!Nothing, "rejected", "fault", "budget-exhausted"},
   directory : {"own", "given", Probe!Nothing}, open : BOOLEAN, machine : Probe!Machines,
   next : Nat, left : Nat, reset : Frames, shown : Frames, saw : BOOLEAN,
   last : Probe!Machines, event : Events \cup {Probe!Nothing}, phase : Phases \cup {Probe!Nothing},
   reported : 0..MaxPublished, splashes : 0..1]

(* The last event of the timeline is about the machine as it is.           *)
EventFits(p) ==
  \E shown \in Frames, saw \in BOOLEAN : p.event = Probe!Event(p.machine, p.reset, shown, saw)

(* The run is on its way to a checkpoint of the plan, and has reached it   *)
(* when nothing is left; what the timeline counted adds up.                *)
OnPlan(p) ==
  p.stage \in {"run", "over"} /\ p.status # "rejected" =>
    /\ p.next \in 1..Len(p.plan)
    /\ p.machine.fault => p.left = 0
    /\ ~p.machine.fault => p.machine.steps + p.left = p.plan[p.next]
    /\ p.left > 0 \/ EventFits(p)

PhaseFits(p) ==
  p.phase # Probe!Nothing =>
    /\ p.stage \in {"run", "over"} /\ p.status # "rejected" /\ p.left = 0
    /\ p.phase = Probe!Phase(p.machine)

Counted(p) ==
  /\ p.saw <=> p.splashes = 1
  /\ p.stage # "raised" => p.reported = p.machine.published
  /\ p.stage = "run" => p.last = p.machine
  /\ p.stage \in {"detect", "construct"} => p.machine = Probe!Fresh
  /\ p.stage = "baseline" => p.machine.steps = 0 /\ ~p.machine.fault
  /\ p.stage \in {"detect", "construct", "baseline"} => p.next = 1 /\ p.reported = 0
  /\ p.stage # "over" => p.status = Probe!Nothing

Closed(p) ==
  /\ p.stage \in {"over", "raised"} => ~p.open /\ p.directory # "own"
  /\ p.stage \in {"detect", "construct"} => ~p.open

ProbeInv ==
  /\ probe \in AllProbes
  /\ OnPlan(probe) /\ PhaseFits(probe) /\ Counted(probe) /\ Closed(probe)

LEMMA PlanFacts ==
  ASSUME Probe!BootProbeAssumption, NEW plan \in Plans
  PROVE  /\ plan \in Seq(Nat) /\ Len(plan) \in Nat \ {0} /\ plan[1] \in Nat /\ plan[1] > 0
         /\ \A i \in 1..Len(plan) : plan[i] \in Nat
         /\ \A i \in 1..(Len(plan) - 1) : plan[i] < plan[i + 1]
<1>1. plan \in Seq(Nat) /\ plan # <<>> /\ plan[1] > 0
  BY DEF Probe!BootProbeAssumption
<1>2. Len(plan) \in Nat \ {0}
  BY <1>1, EmptySeq
<1>3. \A i \in 1..(Len(plan) - 1) : plan[i] < plan[i + 1]
  BY DEF Probe!BootProbeAssumption
<1>4. QED BY <1>1, <1>2, <1>3

LEMMA EventIsEvent ==
  ASSUME NEW m, NEW reset, NEW shown, NEW saw, saw \in BOOLEAN, m.fault \in BOOLEAN
  PROVE  Probe!Event(m, reset, shown, saw) \in Events
BY DEF Probe!Event, Events

LEMMA FreshMachine ==
  ASSUME Probe!BootProbeAssumption
  PROVE  Probe!Fresh \in Probe!Machines /\ 0 \in 0..MaxPublished
BY DEF Probe!BootProbeAssumption, Probe!Fresh, Probe!Machines

LEMMA ProbeStarts ==
  ASSUME Probe!BootProbeAssumption, Probe!Init
  PROVE  ProbeInv
<1>1. PICK plan \in Plans, size \in ChunkSizes, own \in BOOLEAN :
        probe = [stage |-> "detect", plan |-> plan, size |-> size, status |-> Probe!Nothing,
                 directory |-> IF own THEN "own" ELSE "given",
                 open |-> FALSE, machine |-> Probe!Fresh, next |-> 1, left |-> 0,
                 reset |-> Black, shown |-> Black, saw |-> FALSE, last |-> Probe!Fresh,
                 event |-> Probe!Nothing, phase |-> Probe!Nothing, reported |-> 0,
                 splashes |-> 0]
  BY DEF Probe!Init
<1>2. Probe!Fresh \in Probe!Machines /\ 0 \in 0..MaxPublished /\ Black \in Frames
  BY FreshMachine DEF Probe!BootProbeAssumption
<1>3. Probe!Fresh.published = 0
  BY DEF Probe!Fresh
<1>4. "detect" \in Probe!Stages
  BY DEF Probe!Stages
<1>5. probe \in AllProbes
  BY <1>1, <1>2, <1>4 DEF AllProbes
<1>6. QED BY <1>1, <1>3, <1>5 DEF ProbeInv, OnPlan, PhaseFits, Counted, Closed

LEMMA ProbeDetect ==
  ASSUME Probe!BootProbeAssumption, ProbeInv, Probe!Detect
  PROVE  ProbeInv'
<1>1. probe \in AllProbes /\ probe.stage = "detect"
  BY DEF ProbeInv, Probe!Detect
<1>2. CASE probe' = [probe EXCEPT !.stage = "construct"]
  <2>1. probe' \in AllProbes
    BY <1>1, <1>2 DEF AllProbes, Probe!Stages
  <2>2. QED BY <1>1, <1>2, <2>1 DEF ProbeInv, OnPlan, PhaseFits, Counted, Closed, AllProbes
<1>3. CASE probe' = [probe EXCEPT !.stage = "over", !.status = "rejected",
                                  !.directory = Probe!Nothing]
  <2>1. probe' \in AllProbes
    BY <1>1, <1>3 DEF AllProbes, Probe!Stages
  <2>2. Probe!Nothing # "own"
    BY DEF Probe!Nothing
  <2>3. QED BY <1>1, <1>3, <2>1, <2>2
            DEF ProbeInv, OnPlan, PhaseFits, Counted, Closed, AllProbes
<1>4. QED BY <1>2, <1>3 DEF Probe!Detect

(* An error closes what is open, whatever there was.                       *)
LEMMA ProbeAbandoned ==
  ASSUME Probe!BootProbeAssumption, ProbeInv, probe.phase = Probe!Nothing,
         probe.stage # "over", probe' = Probe!Abandoned
  PROVE  ProbeInv'
<1> DEFINE directory == IF probe.directory = "own" THEN Probe!Nothing ELSE probe.directory
<1>1. probe \in AllProbes
  BY DEF ProbeInv
<1>2. probe' = [probe EXCEPT !.stage = "raised", !.open = FALSE, !.directory = directory]
  BY DEF Probe!Abandoned
<1>3. directory \in {"own", "given", Probe!Nothing} /\ directory # "own"
  BY <1>1 DEF AllProbes, Probe!Nothing
<1> HIDE DEF directory
<1>4. probe' \in AllProbes
  BY <1>1, <1>2, <1>3 DEF AllProbes, Probe!Stages
<1>5. QED BY <1>1, <1>2, <1>3, <1>4
          DEF ProbeInv, OnPlan, PhaseFits, Counted, Closed, AllProbes

LEMMA ProbeConstruct ==
  ASSUME Probe!BootProbeAssumption, ProbeInv, Probe!Construct
  PROVE  ProbeInv'
<1>1. probe \in AllProbes /\ probe.stage = "construct" /\ probe.phase = Probe!Nothing
  BY DEF ProbeInv, PhaseFits, Probe!Construct
<1>2. ASSUME NEW seed \in Frames,
             probe' = [probe EXCEPT !.stage = "baseline", !.open = TRUE,
               !.machine = [Probe!Fresh EXCEPT !.seeded = seed # Black, !.frame = seed]]
      PROVE  ProbeInv'
  <2> DEFINE made == [Probe!Fresh EXCEPT !.seeded = seed # Black, !.frame = seed]
  <2>1. /\ made \in Probe!Machines /\ made.published = 0 /\ made.steps = 0
        /\ ~made.fault
    BY FreshMachine DEF Probe!Fresh, Probe!Machines
  <2> HIDE DEF made
  <2>2. probe' = [probe EXCEPT !.stage = "baseline", !.open = TRUE, !.machine = made]
    BY <1>2 DEF made
  <2>3. probe' \in AllProbes
    BY <1>1, <2>1, <2>2 DEF AllProbes, Probe!Stages
  <2>4. QED BY <1>1, <2>1, <2>2, <2>3
            DEF ProbeInv, OnPlan, PhaseFits, Counted, Closed, AllProbes
<1>3. QED BY <1>1, <1>2, ProbeAbandoned DEF Probe!Construct

LEMMA ProbeBaseline ==
  ASSUME Probe!BootProbeAssumption, ProbeInv, Probe!Baseline
  PROVE  ProbeInv'
<1> DEFINE m == probe.machine
<1>1. /\ probe \in AllProbes /\ probe.stage = "baseline" /\ m \in Probe!Machines
      /\ m.frame \in Frames /\ probe.plan \in Plans
  BY DEF ProbeInv, AllProbes, Probe!Baseline, Probe!Machines
<1>2. /\ probe.plan[1] \in Nat /\ probe.plan[1] > 0 /\ 1 \in 1..Len(probe.plan)
  BY <1>1, PlanFacts
<1>3. probe' = [probe EXCEPT !.stage = "run", !.left = probe.plan[1],
                             !.reset = m.frame, !.shown = m.frame, !.last = m]
  BY DEF Probe!Baseline
<1> HIDE DEF m
<1>4. probe' \in AllProbes
  BY <1>1, <1>2, <1>3 DEF AllProbes, Probe!Stages
<1>5. /\ probe'.stage = "run" /\ probe'.left = probe.plan[1] /\ probe'.plan = probe.plan
      /\ probe'.machine = m /\ probe'.last = m /\ probe'.next = probe.next
      /\ probe'.status = probe.status /\ probe'.phase = probe.phase
      /\ probe'.saw = probe.saw /\ probe'.splashes = probe.splashes
      /\ probe'.reported = probe.reported
  BY <1>1, <1>3 DEF AllProbes, m
<1>6. OnPlan(probe')
  BY <1>1, <1>2, <1>5 DEF ProbeInv, OnPlan, Counted, m
<1>7. PhaseFits(probe') /\ Counted(probe') /\ Closed(probe')
  BY <1>1, <1>5 DEF ProbeInv, PhaseFits, Counted, Closed, m
<1>8. QED BY <1>4, <1>6, <1>7 DEF ProbeInv

LEMMA ProbeRaise ==
  ASSUME Probe!BootProbeAssumption, ProbeInv, Probe!Raise
  PROVE  ProbeInv'
<1>1. probe.phase = Probe!Nothing
  BY DEF ProbeInv, PhaseFits, Probe!Raise
<1>2. QED BY <1>1, ProbeAbandoned DEF Probe!Raise

(* A chunk ends at its checkpoint at the latest, and its event is the one  *)
(* of the state it leaves.                                                 *)
LEMMA ProbeChunk ==
  ASSUME Probe!BootProbeAssumption, ProbeInv, Probe!Chunk
  PROVE  ProbeInv'
<1> DEFINE steps == Probe!ChunkOf(probe.left, probe.size)
           Seen(m) == Probe!Event(m, probe.reset, probe.shown, probe.saw)
           Left(m) == IF m.fault \/ probe.left <= steps THEN 0 ELSE probe.left - steps
           Saw(m) == probe.saw \/ Seen(m) = "boot-splash"
           Splashes(m) == probe.splashes + (IF Seen(m) = "boot-splash" THEN 1 ELSE 0)
           Reported(m) == probe.reported + (m.published - probe.last.published)
<1>1. PICK m \in Probe!After(probe.machine, steps) :
        probe' = [probe EXCEPT !.machine = m, !.left = Left(m), !.event = Seen(m),
                    !.saw = Saw(m), !.splashes = Splashes(m), !.reported = Reported(m),
                    !.last = m, !.shown = m.frame]
  BY DEF Probe!Chunk, Probe!LastState
<1>2. /\ probe \in AllProbes /\ probe.stage = "run" /\ probe.left \in Nat /\ probe.left > 0
      /\ probe.machine \in Probe!Machines /\ probe.size \in Nat /\ MaxPublished \in Nat
      /\ probe.plan \in Plans /\ probe.shown \in Frames /\ probe.saw \in BOOLEAN
      /\ probe.splashes \in 0..1 /\ probe.next \in 1..Len(probe.plan)
      /\ probe.last = probe.machine /\ probe.reported = probe.machine.published
      /\ probe.phase = Probe!Nothing /\ probe.status = Probe!Nothing
      /\ probe.saw <=> probe.splashes = 1
      /\ probe.machine.steps + probe.left = probe.plan[probe.next]
  BY DEF ProbeInv, AllProbes, Counted, PhaseFits, OnPlan, Probe!Chunk,
         Probe!BootProbeAssumption, Probe!Nothing
<1>3. steps \in Nat /\ steps > 0 /\ steps <= probe.left
  BY <1>2 DEF Probe!ChunkOf
<1>4. /\ m \in Probe!Machines /\ m.steps = probe.machine.steps + steps
      /\ m.frame \in Frames /\ m.published \in 0..MaxPublished /\ m.fault \in BOOLEAN
  BY <1>2, <1>3 DEF Probe!After, Probe!Machines
<1>5. Seen(m) \in Events
  BY <1>2, <1>4, EventIsEvent
<1>6. /\ Left(m) \in Nat
      /\ IF m.fault THEN Left(m) = 0 ELSE Left(m) = probe.left - steps
  BY <1>2, <1>3
<1>7. Reported(m) = m.published
  BY <1>2, <1>4 DEF Probe!Machines
<1>8. /\ Saw(m) \in BOOLEAN /\ Splashes(m) \in 0..1
      /\ Saw(m) <=> Splashes(m) = 1
  <2>1. probe.saw => Seen(m) # "boot-splash"
    BY <1>4 DEF Probe!Event
  <2>2. QED BY <1>2, <2>1
<1> DEFINE left == Left(m)
           event == Seen(m)
           saw == Saw(m)
           splashes == Splashes(m)
           reported == Reported(m)
<1>9. probe' = [probe EXCEPT !.machine = m, !.left = left, !.event = event,
                    !.saw = saw, !.splashes = splashes, !.reported = reported,
                    !.last = m, !.shown = m.frame]
  BY <1>1
<1>10. event = Probe!Event(m, probe.reset, probe.shown, probe.saw)
  OBVIOUS
<1>11. /\ left \in Nat /\ event \in Events /\ saw \in BOOLEAN /\ splashes \in 0..1
       /\ reported = m.published /\ reported \in 0..MaxPublished
       /\ saw <=> splashes = 1
       /\ IF m.fault THEN left = 0 ELSE left = probe.left - steps
  BY <1>4, <1>5, <1>6, <1>7, <1>8
<1> HIDE DEF left, event, saw, splashes, reported, steps
<1>12. probe' \in AllProbes
  BY <1>2, <1>4, <1>9, <1>11 DEF AllProbes
<1>13. /\ probe'.stage = "run" /\ probe'.left = left /\ probe'.plan = probe.plan
       /\ probe'.machine = m /\ probe'.last = m /\ probe'.next = probe.next
       /\ probe'.status = probe.status /\ probe'.phase = probe.phase
       /\ probe'.saw = saw /\ probe'.splashes = splashes /\ probe'.reset = probe.reset
       /\ probe'.reported = reported /\ probe'.event = event
  BY <1>2, <1>9 DEF AllProbes
<1>14. EventFits(probe')
  BY <1>2, <1>10, <1>13 DEF EventFits
<1>15. ~m.fault => m.steps + left = probe.plan[probe.next]
  BY <1>2, <1>3, <1>4, <1>11 DEF Probe!Machines
<1>16. OnPlan(probe')
  BY <1>2, <1>11, <1>13, <1>14, <1>15 DEF OnPlan
<1>17. PhaseFits(probe') /\ Counted(probe') /\ Closed(probe')
  BY <1>2, <1>11, <1>13 DEF PhaseFits, Counted, Closed
<1>18. QED BY <1>12, <1>16, <1>17 DEF ProbeInv

LEMMA PhaseIsPhase ==
  ASSUME NEW m, m.fault \in BOOLEAN
  PROVE  Probe!Phase(m) \in Phases /\ Probe!Phase(m) # Probe!Nothing
BY DEF Probe!Phase, Phases, Probe!Nothing

LEMMA ProbeCheckpoint ==
  ASSUME Probe!BootProbeAssumption, ProbeInv, Probe!Checkpoint
  PROVE  ProbeInv'
<1> DEFINE phase == Probe!Phase(probe.machine)
<1>1. /\ probe \in AllProbes /\ probe.stage = "run" /\ probe.left = 0
      /\ probe.machine \in Probe!Machines /\ probe.machine.fault \in BOOLEAN
      /\ probe.status # "rejected"
  BY DEF ProbeInv, AllProbes, Counted, Probe!Checkpoint, Probe!Machines, Probe!Nothing
<1>2. phase \in Phases
  BY <1>1, PhaseIsPhase
<1>3. probe' = [probe EXCEPT !.phase = phase]
  BY DEF Probe!Checkpoint
<1> HIDE DEF phase
<1>4. probe' \in AllProbes
  BY <1>1, <1>2, <1>3 DEF AllProbes
<1>5. /\ probe'.stage = "run" /\ probe'.left = 0 /\ probe'.plan = probe.plan
      /\ probe'.machine = probe.machine /\ probe'.last = probe.last /\ probe'.next = probe.next
      /\ probe'.status = probe.status /\ probe'.phase = phase
      /\ probe'.saw = probe.saw /\ probe'.splashes = probe.splashes
      /\ probe'.reset = probe.reset /\ probe'.reported = probe.reported
      /\ probe'.event = probe.event
  BY <1>1, <1>3 DEF AllProbes
<1>6. OnPlan(probe') /\ Counted(probe') /\ Closed(probe')
  BY <1>1, <1>5 DEF ProbeInv, OnPlan, Counted, Closed, EventFits
<1>7. PhaseFits(probe')
  BY <1>1, <1>5 DEF PhaseFits, phase
<1>8. QED BY <1>4, <1>6, <1>7 DEF ProbeInv

LEMMA ProbeAdvance ==
  ASSUME Probe!BootProbeAssumption, ProbeInv, Probe!Advance
  PROVE  ProbeInv'
<1>1. /\ probe \in AllProbes /\ probe.stage = "run" /\ probe.left = 0
      /\ probe.phase # Probe!Nothing /\ probe.plan \in Plans
      /\ probe.machine \in Probe!Machines /\ probe.machine.fault \in BOOLEAN
      /\ probe.machine.steps \in Nat
      /\ probe.status = Probe!Nothing /\ probe.status # "rejected"
      /\ probe.next \in 1..Len(probe.plan)
      /\ ~probe.machine.fault => probe.machine.steps = probe.plan[probe.next]
      /\ EventFits(probe)
  BY DEF ProbeInv, AllProbes, OnPlan, PhaseFits, Counted, Probe!Advance, Probe!Machines,
         Probe!Nothing
<1>2. CASE probe.machine.fault \/ probe.next = Len(probe.plan)
  <2> DEFINE directory == IF probe.directory = "own" THEN Probe!Nothing ELSE probe.directory
             status == IF probe.machine.fault THEN "fault" ELSE "budget-exhausted"
  <2>1. probe' = [probe EXCEPT !.stage = "over", !.open = FALSE, !.directory = directory,
                               !.status = status]
    BY <1>1, <1>2 DEF Probe!Advance, Probe!Abandoned, AllProbes
  <2>2. /\ directory \in {"own", "given", Probe!Nothing} /\ directory # "own"
        /\ status \in {"fault", "budget-exhausted"}
    BY <1>1 DEF AllProbes, Probe!Nothing
  <2> HIDE DEF directory, status
  <2>3. probe' \in AllProbes
    <3> DEFINE closed == [probe EXCEPT !.stage = "over", !.open = FALSE]
    <3>1. closed \in AllProbes
      BY <1>1 DEF AllProbes, Probe!Stages
    <3>2. probe' = [closed EXCEPT !.directory = directory, !.status = status]
      BY <1>1, <2>1 DEF AllProbes
    <3> HIDE DEF closed
    <3>3. QED BY <2>2, <3>1, <3>2 DEF AllProbes
  <2>4. /\ probe'.stage = "over" /\ probe'.left = 0 /\ probe'.plan = probe.plan
        /\ probe'.machine = probe.machine /\ probe'.next = probe.next
        /\ probe'.status = status /\ probe'.phase = probe.phase
        /\ probe'.saw = probe.saw /\ probe'.splashes = probe.splashes
        /\ probe'.reset = probe.reset /\ probe'.reported = probe.reported
        /\ probe'.event = probe.event /\ ~probe'.open /\ probe'.directory = directory
    BY <1>1, <2>1 DEF AllProbes
  <2>5. OnPlan(probe') /\ PhaseFits(probe')
    BY <1>1, <2>2, <2>4 DEF ProbeInv, OnPlan, PhaseFits, EventFits
  <2>6. Counted(probe') /\ Closed(probe')
    BY <1>1, <2>2, <2>4 DEF ProbeInv, Counted, Closed
  <2>7. QED BY <2>3, <2>5, <2>6 DEF ProbeInv
<1>3. CASE ~(probe.machine.fault \/ probe.next = Len(probe.plan))
  <2> DEFINE next == probe.next + 1
             left == probe.plan[probe.next + 1] - probe.plan[probe.next]
  <2>1. Len(probe.plan) \in Nat
    BY <1>1, PlanFacts
  <2>2. next \in 1..Len(probe.plan) /\ probe.next \in 1..(Len(probe.plan) - 1)
    BY <1>1, <1>3, <2>1
  <2>3. /\ probe.plan[next] \in Nat /\ probe.plan[probe.next] \in Nat
        /\ probe.plan[probe.next] < probe.plan[next]
    BY <1>1, <2>2, PlanFacts
  <2>4. left \in Nat /\ left > 0 /\ probe.machine.steps + left = probe.plan[next]
    BY <1>1, <1>3, <2>3
  <2>5. probe' = [probe EXCEPT !.next = next, !.phase = Probe!Nothing, !.left = left]
    BY <1>3 DEF Probe!Advance
  <2>6. next \in Nat
    BY <2>1, <2>2
  <2> HIDE DEF next, left
  <2>7. probe' \in AllProbes
    BY <1>1, <2>4, <2>5, <2>6 DEF AllProbes
  <2>8. /\ probe'.stage = "run" /\ probe'.left = left /\ probe'.plan = probe.plan
        /\ probe'.machine = probe.machine /\ probe'.next = next /\ probe'.last = probe.last
        /\ probe'.status = probe.status /\ probe'.phase = Probe!Nothing
        /\ probe'.saw = probe.saw /\ probe'.splashes = probe.splashes
        /\ probe'.reported = probe.reported
    BY <1>1, <2>5 DEF AllProbes
  <2>9. OnPlan(probe') /\ PhaseFits(probe')
    BY <1>1, <1>3, <2>2, <2>4, <2>8 DEF OnPlan, PhaseFits
  <2>10. Counted(probe') /\ Closed(probe')
    BY <1>1, <2>8 DEF ProbeInv, Counted, Closed
  <2>11. QED BY <2>7, <2>9, <2>10 DEF ProbeInv
<1>4. QED BY <1>2, <1>3

(* What a boot report says: the phase of a checkpoint and the events of    *)
(* the timeline are read off the same state and do not contradict each     *)
(* other, there is one splash at most, the published frames of the chunks  *)
(* add up, and a checkpoint is recorded at its own step, for every plan    *)
(* and chunk size and whatever the firmware does (probe/boot.py).          *)
THEOREM ReportsAreTrue ==
  ASSUME Probe!BootProbeAssumption
  PROVE  Probe!Spec => [](/\ Probe!TypeOK /\ Probe!ClassifiersAgree
                          /\ Probe!TimelineAddsUp /\ Probe!CheckpointsAreExact)
<1>1. Probe!Init => ProbeInv
  BY ProbeStarts
<1>2. ProbeInv /\ [Probe!Next]_probe => ProbeInv'
  <2>1. ASSUME ProbeInv, UNCHANGED probe PROVE ProbeInv'
    BY <2>1 DEF ProbeInv, OnPlan, PhaseFits, Counted, Closed, EventFits
  <2>2. QED BY <2>1, ProbeDetect, ProbeConstruct, ProbeBaseline, ProbeRaise, ProbeChunk,
               ProbeCheckpoint, ProbeAdvance, Zenon DEF Probe!Next
<1>3. ProbeInv => Probe!TypeOK
  BY DEF ProbeInv, AllProbes, Probe!TypeOK
<1>4. ProbeInv => Probe!TimelineAddsUp
  <2>1. SUFFICES ASSUME ProbeInv PROVE Probe!TimelineAddsUp
    OBVIOUS
  <2>2. probe \in AllProbes /\ Counted(probe)
    BY <2>1 DEF ProbeInv
  <2>3. QED BY <2>2 DEF AllProbes, Counted, Probe!TimelineAddsUp
<1>5. ProbeInv => Probe!CheckpointsAreExact
  <2>1. SUFFICES ASSUME ProbeInv PROVE Probe!CheckpointsAreExact
    OBVIOUS
  <2>2. /\ probe.machine.steps \in Nat
        /\ OnPlan(probe) /\ PhaseFits(probe) /\ Closed(probe)
    BY <2>1 DEF ProbeInv, AllProbes, Probe!Machines
  <2>3. QED BY <2>2 DEF OnPlan, PhaseFits, Closed, Probe!CheckpointsAreExact
<1>6. ProbeInv => Probe!ClassifiersAgree
  <2>1. SUFFICES ASSUME ProbeInv, probe.phase # Probe!Nothing PROVE Probe!ClassifiersAgree
    BY DEF Probe!ClassifiersAgree
  <2> DEFINE m == probe.machine
  <2>2. /\ m.fault \in BOOLEAN /\ m.ticks \in BOOLEAN /\ m.sink \in BOOLEAN
        /\ m.storage \in BOOLEAN /\ m.lcd \in BOOLEAN
        /\ probe.phase = Probe!Phase(m) /\ EventFits(probe)
    BY <2>1 DEF ProbeInv, AllProbes, Probe!Machines, OnPlan, PhaseFits
  <2>3. PICK shown \in Frames, saw \in BOOLEAN :
          probe.event = Probe!Event(m, probe.reset, shown, saw)
    BY <2>2 DEF EventFits
  <2> HIDE DEF m
  <2>4. m.fault => probe.phase = "fault" /\ probe.event = "fault"
    BY <2>2, <2>3 DEF Probe!Phase, Probe!Event
  <2>5. ~m.fault => probe.phase # "fault" /\ probe.event # "fault"
    BY <2>2, <2>3 DEF Probe!Phase, Probe!Event
  <2>6. ~m.fault => (probe.phase \in Probe!Displays <=> Probe!Visible(m))
    BY <2>2 DEF Probe!Phase, Probe!Displays
  <2>7. ~m.fault /\ Probe!Visible(m) => probe.event \in Probe!Shows
    BY <2>2, <2>3 DEF Probe!Event, Probe!Shows
  <2>8. probe.event \in {"boot-splash", "firmware-visible-unchanged"} => Probe!Visible(m)
    BY <2>2, <2>3 DEF Probe!Event
  <2>9. probe.event = "control-sink" => probe.phase = "control-sink"
    BY <2>2, <2>3 DEF Probe!Phase, Probe!Event
  <2>10. "fault" \notin Probe!Displays
    BY DEF Probe!Displays
  <2>11. QED BY <2>2, <2>4, <2>5, <2>6, <2>7, <2>8, <2>9, <2>10 DEF Probe!ClassifiersAgree
<1>7. QED BY <1>1, <1>2, <1>3, <1>4, <1>5, <1>6, PTL DEF Probe!Spec

-------------------------------------------------------------------------------
(* The NAND.                                                               *)

CONSTANTS NandBits, PageSize, SpareSize, PagesPerBlock, NandPages, BusWidth, LargePage, Radix,
          NandValues, Rows, MaxCycles, MaxProgram, MaxChanges
VARIABLE nand

Nand == INSTANCE NandFlash WITH
  Bits <- NandBits, Pages <- NandPages, Values <- NandValues

(* The lesser and the greater of two numbers, the first and the last of a  *)
(* row of them.                                                            *)
LEMMA LesserOfTwo ==
  ASSUME NEW a \in Int, NEW b \in Int
  PROVE  Nand!Min({a, b}) = IF a <= b THEN a ELSE b
<1> DEFINE m == IF a <= b THEN a ELSE b
<1>1. m \in {a, b} /\ \A y \in {a, b} : m <= y
  OBVIOUS
<1>2. \A x \in {a, b} : (\A y \in {a, b} : x <= y) => x = m
  OBVIOUS
<1>3. QED BY <1>1, <1>2 DEF Nand!Min

LEMMA GreaterOfTwo ==
  ASSUME NEW a \in Int, NEW b \in Int
  PROVE  Nand!Max({a, b}) = IF a <= b THEN b ELSE a
<1> DEFINE m == IF a <= b THEN b ELSE a
<1>1. m \in {a, b} /\ \A y \in {a, b} : m >= y
  OBVIOUS
<1>2. \A x \in {a, b} : (\A y \in {a, b} : x >= y) => x = m
  OBVIOUS
<1>3. QED BY <1>1, <1>2 DEF Nand!Max

-------------------------------------------------------------------------------
NandImages == [Nand!Cells -> SUBSET NandBits]
NandEntries == [kind : {"program", "erase"}, first : Nat, last : Nat, bytes : Seq(NandValues)]

(* A number of cycles is a number.                                         *)
LEMMA NumberOfCycles ==
  ASSUME Nand!NandAssumption, NEW cycles \in Seq(0..(Radix - 1))
  PROVE  Nand!Number(cycles) \in Nat
<1> DEFINE n == Len(cycles)
           step == [p \in (1..n) \X Nat |-> cycles[p[1]] + Radix * p[2]]
           pick == [s \in SUBSET (1..n) |-> Nand!Min(s)]
           Folds(h) == h = [s \in SUBSET (1..n) |->
             IF s = {} THEN 0 ELSE cycles[Nand!Min(s)] + Radix * h[s \ {Nand!Min(s)}]]
<1>1. n \in Nat /\ DOMAIN cycles = 1..n /\ Radix \in Nat /\ \A i \in 1..n : cycles[i] \in Nat
  BY DEF Nand!NandAssumption
<1>2. step \in [(1..n) \X Nat -> Nat]
  BY <1>1
<1>3. Picks(1..n, pick)
  BY <1>1, LeastOfSome DEF Picks, Least, Nand!Min
<1>4. IsFiniteSet(1..n) /\ 0 \in Nat
  BY <1>1, FS_Interval
<1>5. PICK h : IsFold(1..n, Nat, 0, step, pick, h)
  <2> HIDE DEF n, step, pick
  <2>1. QED BY <1>2, <1>3, <1>4, FoldExists
<1>6. Folds(h)
  <2>1. ASSUME NEW s \in SUBSET (1..n), s # {}
        PROVE  h[s] = cycles[Nand!Min(s)] + Radix * h[s \ {Nand!Min(s)}]
    <3>1. Nand!Min(s) \in 1..n /\ s \ {Nand!Min(s)} \in SUBSET (1..n)
      BY <1>3, <2>1 DEF Picks
    <3>2. QED BY <1>5, <2>1, <3>1 DEF IsFold
  <2>2. QED BY <1>5, <2>1 DEF IsFold
<1>7. PICK g : Folds(g) /\ Nand!Number(cycles) = g[1..n]
  <2>1. Nand!Number(cycles) = (CHOOSE g : Folds(g))[1..n]
    BY <1>1 DEF Nand!Number, Nand!FoldRight, Nand!MapThenFoldSet
  <2>2. QED BY <1>6, <2>1
<1>8. g[1..n] = h[1..n]
  <2>1. g[{}] = h[{}] /\ AgreeOn(1..n, pick, g, h)
    BY <1>6, <1>7 DEF AgreeOn
  <2>2. QED
    <3> HIDE DEF pick, n
    <3>1. QED BY <1>3, <1>4, <2>1, SameFold
<1>9. QED BY <1>5, <1>7, <1>8 DEF IsFold

(* The replay of a log runs along it.                                      *)
Replay(log) == [p \in (1..Len(log)) \X NandImages |-> Nand!ReplayEntry(log[p[1]], p[2])]

LEMMA ReplayStep ==
  ASSUME NEW entry \in NandEntries, NEW image \in NandImages
  PROVE  Nand!ReplayEntry(entry, image) \in NandImages
<1>1. entry.kind \in {"program", "erase"}
  BY DEF NandEntries
<1>2. QED BY <1>1 DEF Nand!ReplayEntry, NandImages

LEMMA ReplayedRun ==
  ASSUME NEW log \in Seq(NandEntries), NEW image \in NandImages
  PROVE  \E r : IsRun(Len(log), NandImages, image, Replay(log), r) /\ r[Len(log)] = Nand!Replayed(log, image)
<1> DEFINE n == Len(log)
           step == Replay(log)
           pick == [s \in SUBSET (1..n) |-> Nand!Max(s)]
           Folds(h) == h = [s \in SUBSET (1..n) |->
             IF s = {} THEN image ELSE Nand!ReplayEntry(log[Nand!Max(s)], h[s \ {Nand!Max(s)}])]
<1>1. n \in Nat /\ DOMAIN log = 1..n /\ \A i \in 1..n : log[i] \in NandEntries
  OBVIOUS
<1>2. /\ step \in [(1..n) \X NandImages -> NandImages]
      /\ \A i \in 1..n : \A v \in NandImages : step[<<i, v>>] = Nand!ReplayEntry(log[i], v)
  BY <1>1, ReplayStep DEF Replay
<1>3. Picks(1..n, pick)
  BY <1>1, GreatestOfSome DEF Picks, Greatest, Nand!Max
<1>4. IsFiniteSet(1..n)
  BY <1>1, FS_Interval
<1>5. PICK h : IsFold(1..n, NandImages, image, step, pick, h)
  <2> HIDE DEF n, step, pick
  <2>1. QED BY <1>2, <1>3, <1>4, FoldExists
<1>6. Folds(h)
  <2>1. ASSUME NEW s \in SUBSET (1..n), s # {}
        PROVE  h[s] = Nand!ReplayEntry(log[Nand!Max(s)], h[s \ {Nand!Max(s)}])
    <3>1. Nand!Max(s) \in 1..n /\ s \ {Nand!Max(s)} \in SUBSET (1..n)
      BY <1>3, <2>1 DEF Picks
    <3>2. h[s \ {Nand!Max(s)}] \in NandImages /\ h[s] = step[<<Nand!Max(s), h[s \ {Nand!Max(s)}]>>]
      BY <1>5, <2>1, <3>1 DEF IsFold
    <3>3. QED
      <4> HIDE DEF step
      <4>1. QED BY <1>2, <3>1, <3>2
  <2>2. h \in [SUBSET (1..n) -> NandImages] /\ h[{}] = image
    BY <1>5 DEF IsFold
  <2> HIDE DEF n
  <2>3. QED BY <2>1, <2>2
<1>7. PICK g : Folds(g) /\ Nand!Replayed(log, image) = g[1..n]
  <2>1. Nand!Replayed(log, image) = (CHOOSE g : Folds(g))[1..n]
    BY <1>1 DEF Nand!Replayed, Nand!FoldLeft, Nand!MapThenFoldSet
  <2>2. QED BY <1>6, <2>1
<1>8. g[1..n] = h[1..n]
  <2>1. g[{}] = h[{}] /\ AgreeOn(1..n, pick, g, h)
    BY <1>6, <1>7 DEF AgreeOn
  <2>2. QED
    <3> HIDE DEF pick, n
    <3>1. QED BY <1>3, <1>4, <2>1, SameFold
<1>9. \A i \in 1..n : pick[1..i] = i
  <2>1. ASSUME NEW i \in 1..n PROVE Nand!Max(1..i) = i /\ 1..i \in SUBSET (1..n)
    BY <1>1, GreatestOfRow DEF Greatest, Nand!Max
  <2>2. QED BY <2>1
<1>10. QED
  <2> HIDE DEF n, step, pick
  <2>1. \E r : IsRun(n, NandImages, image, step, r) /\ r[n] = h[1..n]
    BY <1>1, <1>5, <1>9, FoldRuns
  <2>2. QED BY <2>1, <1>7, <1>8 DEF n, step

LEMMA ReplayedAppend ==
  ASSUME NEW log \in Seq(NandEntries), NEW entry \in NandEntries, NEW image \in NandImages
  PROVE  Nand!Replayed(Append(log, entry), image) = Nand!ReplayEntry(entry, Nand!Replayed(log, image))
<1> DEFINE n == Len(log)
           longer == Append(log, entry)
<1>1. /\ n \in Nat /\ longer \in Seq(NandEntries) /\ Len(longer) = n + 1
      /\ longer[n + 1] = entry /\ \A i \in 1..n : longer[i] = log[i]
  OBVIOUS
<1>2. PICK r : IsRun(n, NandImages, image, Replay(log), r) /\ r[n] = Nand!Replayed(log, image)
  BY ReplayedRun
<1>3. PICK q : IsRun(n + 1, NandImages, image, Replay(longer), q) /\ q[n + 1] = Nand!Replayed(longer, image)
  <2> HIDE DEF longer, n
  <2>1. QED BY <1>1, ReplayedRun
<1>4. GoesOn(n, NandImages, Replay(log), Replay(longer))
  <2> HIDE DEF longer
  <2>1. QED BY <1>1 DEF Replay, GoesOn
<1>5. q[n + 1] = Replay(longer)[<<n + 1, r[n]>>] /\ r[n] \in NandImages
  <2> HIDE DEF longer, n
  <2>1. QED BY <1>1, <1>2, <1>3, <1>4, RunAppend
<1>6. Replay(longer)[<<n + 1, r[n]>>] = Nand!ReplayEntry(entry, r[n])
  <2> HIDE DEF longer, n
  <2>1. n + 1 \in 1..Len(longer)
    BY <1>1
  <2>2. QED BY <1>1, <1>5, <2>1 DEF Replay
<1>7. QED BY <1>2, <1>3, <1>5, <1>6

LEMMA ReplayedNothing ==
  ASSUME NEW image \in NandImages PROVE Nand!Replayed(<<>>, image) = image
<1>1. <<>> \in Seq(NandEntries) /\ Len(<<>>) = 0
  OBVIOUS
<1>2. PICK r : IsRun(Len(<<>>), NandImages, image, Replay(<<>>), r) /\ r[Len(<<>>)] = Nand!Replayed(<<>>, image)
  BY <1>1, ReplayedRun
<1>3. QED BY <1>1, <1>2 DEF IsRun

NandStates ==
  [mode : Nand!Modes, spare : BOOLEAN, address : Seq(0..(Radix - 1)), cursor : Nat,
   program : Seq(NandValues), image : NandImages, log : Seq(NandEntries)]

NandInv == nand \in NandStates /\ Nand!LogIsImage

LEMMA NandSizes ==
  ASSUME Nand!NandAssumption
  PROVE  /\ Nand!RawPage \in Nat \ {0} /\ Nand!End \in Nat /\ NandPages \in Nat
         /\ PageSize + 2 <= Nand!RawPage /\ PageSize \in Nat
         /\ PagesPerBlock \in Nat \ {0} /\ NandValues \subseteq SUBSET NandBits
<1>1. /\ PageSize \in Nat \ {0} /\ SpareSize \in Nat \ {0, 1} /\ NandPages \in Nat \ {0}
      /\ PagesPerBlock \in Nat \ {0} /\ NandValues \subseteq SUBSET NandBits
  BY DEF Nand!NandAssumption, Nand!Byte
<1>2. Nand!RawPage \in Nat \ {0} /\ PageSize + 2 <= Nand!RawPage
  BY <1>1 DEF Nand!RawPage
<1>3. Nand!End \in Nat
  <2>1. \A a, b \in Nat : a * b \in Nat
    OBVIOUS
  <2>2. QED BY <1>1, <1>2, <2>1 DEF Nand!End
<1>4. QED BY <1>1, <1>2, <1>3

(* What one change of the image does: the entry it logs is the change.     *)
Changes(n, m) ==
  /\ m = [n EXCEPT !.image = m.image, !.log = m.log] /\ m.image \in NandImages
  /\ \/ m.log = n.log /\ m.image = n.image
     \/ \E e \in NandEntries : m.log = Append(n.log, e) /\ m.image = Nand!ReplayEntry(e, n.image)

Clears(n, m) ==
  /\ \A c \in Nand!Cells : m.image[c] \subseteq n.image[c]
  /\ \/ m.log = n.log
     \/ \E e \in NandEntries : m.log = Append(n.log, e) /\ e.kind = "program"

LEMMA ProgramChanges ==
  ASSUME Nand!NandAssumption, NEW n \in NandStates, NEW start \in Nat, NEW bytes \in Seq(NandValues)
  PROVE  /\ Changes(n, Nand!Programmed(n, start, bytes))
         /\ Clears(n, Nand!Programmed(n, start, bytes))
<1> DEFINE most == Nand!Max({0, Nand!End - start})
           size == Nand!Min({Len(bytes), most})
           payload == SubSeq(bytes, 1, size)
           image == [c \in Nand!Cells |-> IF c - start + 1 \in DOMAIN payload
                                          THEN n.image[c] \cap payload[c - start + 1]
                                          ELSE n.image[c]]
           entry == [kind |-> "program", first |-> start, last |-> start + Len(payload), bytes |-> payload]
           log == IF payload = <<>> THEN n.log ELSE Append(n.log, entry)
           m == [n EXCEPT !.image = image, !.log = log]
<1>1. Nand!Programmed(n, start, bytes) = m
  BY DEF Nand!Programmed
<1>2. most \in Nat
  BY NandSizes, GreaterOfTwo
<1>3. size \in 0..Len(bytes)
  <2> HIDE DEF most
  <2>1. Len(bytes) \in Nat
    OBVIOUS
  <2>2. size = IF Len(bytes) <= most THEN Len(bytes) ELSE most
    BY <1>2, <2>1, LesserOfTwo
  <2>3. QED BY <1>2, <2>1, <2>2
<1>4. /\ payload \in Seq(NandValues) /\ Len(payload) = size /\ DOMAIN payload = 1..size
      /\ size = 0 => payload = <<>>
  <2> HIDE DEF size
  <2>1. Len(bytes) \in Nat /\ DOMAIN bytes = 1..Len(bytes) /\ \A i \in 1..size : bytes[i] \in NandValues
    BY <1>3
  <2>2. payload = [i \in 1..size |-> bytes[i]]
    BY <1>3, <2>1
  <2> HIDE DEF payload
  <2>3. payload \in [1..size -> NandValues] /\ size \in Nat
    BY <1>3, <2>1, <2>2
  <2>4. QED BY <2>3
<1>5. n.image \in NandImages /\ n.log \in Seq(NandEntries)
  BY DEF NandStates
<1> HIDE DEF payload, size
<1>6. entry \in NandEntries /\ entry.kind = "program"
  BY <1>3, <1>4 DEF NandEntries
<1>7. image = Nand!ReplayEntry(entry, n.image)
  <2>1. ASSUME NEW c \in Nand!Cells
        PROVE  /\ c - start + 1 \in DOMAIN payload <=> c \in entry.first..(entry.last - 1)
               /\ c - entry.first + 1 = c - start + 1 /\ entry.kind # "erase"
               /\ entry.bytes = payload
    <3>1. c \in Int /\ start \in Int /\ size \in Int
      BY <1>3, NandSizes DEF Nand!Cells
    <3>2. QED BY <1>4, <3>1
  <2> HIDE DEF entry
  <2>2. QED BY <2>1 DEF Nand!ReplayEntry
<1>8. image \in NandImages
  BY <1>5, <1>6, <1>7, ReplayStep
<1>9. payload = <<>> => image = n.image
  <2>1. payload = <<>> => DOMAIN payload = {}
    BY <1>4
  <2>2. n.image = [c \in Nand!Cells |-> n.image[c]]
    BY <1>5 DEF NandImages
  <2>3. QED BY <2>1, <2>2
<1>10. m.image = image /\ m.log = log /\ m = [n EXCEPT !.image = m.image, !.log = m.log]
  BY DEF NandStates
<1>11. Changes(n, m)
  <2> HIDE DEF image, entry, m
  <2>1. QED BY <1>6, <1>7, <1>8, <1>9, <1>10 DEF Changes
<1>12. \A c \in Nand!Cells : image[c] \subseteq n.image[c]
  OBVIOUS
<1>13. Clears(n, m)
  <2> HIDE DEF image, entry, m
  <2>1. QED BY <1>6, <1>10, <1>12 DEF Clears
<1>14. QED BY <1>1, <1>11, <1>13

LEMMA EraseChanges ==
  ASSUME Nand!NandAssumption, NEW n \in NandStates, NEW first \in Nat, NEW last \in Nat
  PROVE  /\ Changes(n, Nand!ErasedCells(n, first, last))
         /\ \A c \in Nand!Cells : Nand!ErasedCells(n, first, last).image[c] =
              IF c \in first..(last - 1) THEN NandBits ELSE n.image[c]
         /\ \/ /\ Nand!ErasedCells(n, first, last) = n
               /\ \A c \in Nand!Cells : c \notin first..(last - 1)
            \/ \E e \in NandEntries : /\ Nand!ErasedCells(n, first, last).log = Append(n.log, e)
                                  /\ e.kind = "erase"
<1> DEFINE stop == Nand!Min({Nand!End, last})
           image == [c \in Nand!Cells |-> IF c \in first..(stop - 1) THEN NandBits ELSE n.image[c]]
           entry == [kind |-> "erase", first |-> first, last |-> stop, bytes |-> <<>>]
           m == [n EXCEPT !.image = image, !.log = Append(n.log, entry)]
<1>1. stop = IF Nand!End <= last THEN Nand!End ELSE last
  BY NandSizes, LesserOfTwo
<1>2. stop \in Nat /\ n.image \in NandImages /\ n.log \in Seq(NandEntries)
  BY <1>1, NandSizes DEF NandStates
<1>3. \A c \in Nand!Cells : c \in first..(last - 1) <=> c \in first..(stop - 1)
  <2>1. \A c \in Nand!Cells : c \in Nat /\ c < Nand!End
    BY NandSizes DEF Nand!Cells
  <2>2. QED BY <1>1, <1>2, <2>1, NandSizes
<1> HIDE DEF stop
<1>4. CASE first >= stop
  <2>1. Nand!ErasedCells(n, first, last) = n
    BY <1>4 DEF Nand!ErasedCells, stop
  <2>2. \A c \in Nand!Cells : c \notin first..(last - 1)
    <3>1. first..(stop - 1) = {}
      BY <1>2, <1>4
    <3>2. QED BY <1>3, <3>1
  <2>3. n = [n EXCEPT !.image = n.image, !.log = n.log]
    BY DEF NandStates
  <2>4. QED BY <1>2, <2>1, <2>2, <2>3 DEF Changes
<1>5. CASE ~ (first >= stop)
  <2>1. Nand!ErasedCells(n, first, last) = m
    BY <1>5 DEF Nand!ErasedCells, stop
  <2>2. entry \in NandEntries /\ entry.kind = "erase"
    BY <1>2 DEF NandEntries
  <2>3. image = Nand!ReplayEntry(entry, n.image)
    BY DEF Nand!ReplayEntry
  <2>4. image \in NandImages
    BY <1>2, <2>2, <2>3, ReplayStep
  <2>5. /\ m.image = image /\ m.log = Append(n.log, entry)
        /\ m = [n EXCEPT !.image = m.image, !.log = m.log]
    BY DEF NandStates
  <2>6. \A c \in Nand!Cells : image[c] = IF c \in first..(last - 1) THEN NandBits ELSE n.image[c]
    BY <1>3
  <2> HIDE DEF m, image, entry
  <2>7. QED BY <2>1, <2>2, <2>3, <2>4, <2>5, <2>6 DEF Changes
<1>6. QED BY <1>4, <1>5

LEMMA ErasedIsImage == Nand!Erased \in NandImages
BY DEF Nand!Erased, NandImages

LEMMA ChangesKeep ==
  ASSUME NEW n \in NandStates, Nand!Replayed(n.log, Nand!Erased) = n.image, NEW m, Changes(n, m)
  PROVE  m \in NandStates /\ Nand!Replayed(m.log, Nand!Erased) = m.image
<1>1. n.image \in NandImages /\ n.log \in Seq(NandEntries)
  BY DEF NandStates
<1>2. m.log \in Seq(NandEntries) /\ Nand!Replayed(m.log, Nand!Erased) = m.image
  <2>1. CASE m.log = n.log /\ m.image = n.image
    BY <1>1, <2>1
  <2>2. ASSUME NEW e \in NandEntries, m.log = Append(n.log, e), m.image = Nand!ReplayEntry(e, n.image)
        PROVE  m.log \in Seq(NandEntries) /\ Nand!Replayed(m.log, Nand!Erased) = m.image
    <3>1. Nand!Replayed(Append(n.log, e), Nand!Erased)
            = Nand!ReplayEntry(e, Nand!Replayed(n.log, Nand!Erased))
      BY <1>1, ErasedIsImage, ReplayedAppend
    <3>2. QED BY <1>1, <2>2, <3>1
  <2>3. QED BY <2>1, <2>2 DEF Changes
<1>3. m \in NandStates
  BY <1>2 DEF Changes, NandStates
<1>4. QED BY <1>2, <1>3

(* A page of the image, and the block it is in.                            *)
LEMMA CellsOfPage ==
  ASSUME Nand!NandAssumption, NEW page \in 0..(NandPages - 1), NEW i \in 0..(Nand!RawPage - 1)
  PROVE  page * Nand!RawPage + i \in Nand!Cells
<1>1. page \in Nat /\ NandPages \in Nat /\ page + 1 <= NandPages /\ Nand!RawPage \in Nat
      /\ i \in Nat /\ i < Nand!RawPage
  BY NandSizes
<1>2. \A a, b, c \in Nat : a <= b => a * c <= b * c
  OBVIOUS
<1>3. (page + 1) * Nand!RawPage <= NandPages * Nand!RawPage
  BY <1>1, <1>2
<1>4. (page + 1) * Nand!RawPage = page * Nand!RawPage + Nand!RawPage
  BY <1>1
<1>5. page * Nand!RawPage \in Nat /\ NandPages * Nand!RawPage \in Nat
  BY <1>1
<1>6. QED BY <1>1, <1>3, <1>4, <1>5 DEF Nand!Cells, Nand!End



LEMMA BlocksOfPages ==
  ASSUME Nand!NandAssumption, NEW page \in Nat, NEW other \in Nat, NEW i \in 0..(Nand!RawPage - 1)
  PROVE  /\ Nand!BlockOf(other) \in Nat
         /\ Nand!BlockOf(page) = Nand!BlockOf(other) <=>
              page * Nand!RawPage + i \in
                Nand!BlockOf(other)..(Nand!BlockOf(other) + PagesPerBlock * Nand!RawPage - 1)
<1> DEFINE R == Nand!RawPage
           P == PagesPerBlock
           b == page \div P
           o == other \div P
<1>1. R \in Nat \ {0} /\ P \in Nat \ {0} /\ i \in Nat /\ i < R
  BY NandSizes
<1>2. b \in Nat /\ o \in Nat
  BY <1>1
<1>3. b * P <= page /\ page + 1 <= b * P + P
  BY <1>1
<1>4. /\ \A x, y, z \in Nat : x <= y => x * z <= y * z
      /\ \A x, y, z \in Nat : (x + y) * z = x * z + y * z
      /\ \A x, y \in Nat : x * y \in Nat
  OBVIOUS
<1>5. b * P \in Nat /\ o * P \in Nat /\ page * R \in Nat /\ P * R \in Nat
  BY <1>1, <1>2, <1>4
<1>6. (b * P) * R \in Nat /\ (o * P) * R \in Nat
  BY <1>1, <1>5, <1>4
<1>7. (b * P) * R <= page * R /\ page * R + R <= (b * P) * R + P * R
  <2>1. (b * P) * R <= page * R
    BY <1>1, <1>3, <1>4, <1>5
  <2>2. (page + 1) * R <= (b * P + P) * R
    BY <1>1, <1>3, <1>4, <1>5
  <2>3. (page + 1) * R = page * R + R /\ (b * P + P) * R = (b * P) * R + P * R
    BY <1>1, <1>4, <1>5
  <2>4. QED BY <2>1, <2>2, <2>3
<1>8. ASSUME NEW x \in Nat, NEW y \in Nat, x < y PROVE (x * P) * R + P * R <= (y * P) * R
  <2>1. (x + 1) * P <= y * P
    BY <1>1, <1>4, <1>8
  <2>2. (x + 1) * P = x * P + P /\ x * P \in Nat /\ y * P \in Nat
    BY <1>1, <1>4
  <2>3. (x * P + P) * R <= (y * P) * R
    BY <1>1, <1>4, <2>1, <2>2
  <2>4. (x * P + P) * R = (x * P) * R + P * R
    BY <1>1, <1>4, <2>2
  <2>5. QED BY <2>3, <2>4
<1>9. P * R > 0
  <2>1. 1 * R <= P * R
    BY <1>1, <1>4
  <2>2. QED BY <1>1, <1>5, <2>1
<1>10. Nand!BlockOf(page) = (b * P) * R /\ Nand!BlockOf(other) = (o * P) * R
  BY DEF Nand!BlockOf
<1>11. PICK c : c = page * R + i
  OBVIOUS
<1>12. c \in Nat /\ (b * P) * R <= c /\ c < (b * P) * R + P * R
  <2> HIDE DEF R, P, b
  <2>1. QED BY <1>1, <1>5, <1>6, <1>7, <1>11
<1>13. CASE b = o
  <2> HIDE DEF R, P, b, o
  <2>1. c \in (o * P) * R..((o * P) * R + P * R - 1)
    BY <1>5, <1>6, <1>12, <1>13
  <2>2. QED BY <1>6, <1>10, <1>11, <1>13, <2>1 DEF R, P
<1>14. CASE b < o
  <2>1. (b * P) * R + P * R <= (o * P) * R
    BY <1>2, <1>8, <1>14
  <2> HIDE DEF R, P, b, o
  <2>2. c \notin (o * P) * R..((o * P) * R + P * R - 1) /\ (b * P) * R # (o * P) * R
    BY <1>5, <1>6, <1>9, <1>12, <2>1
  <2>3. QED BY <1>6, <1>10, <1>11, <2>2 DEF R, P
<1>15. CASE o < b
  <2>1. (o * P) * R + P * R <= (b * P) * R
    BY <1>2, <1>8, <1>15
  <2> HIDE DEF R, P, b, o
  <2>2. c \notin (o * P) * R..((o * P) * R + P * R - 1) /\ (b * P) * R # (o * P) * R
    BY <1>5, <1>6, <1>9, <1>12, <2>1
  <2>3. QED BY <1>6, <1>10, <1>11, <2>2 DEF R, P
<1>16. QED BY <1>2, <1>13, <1>14, <1>15

(* What the guest reads of a page, and of its marks, in terms of the image.*)
LEMMA ReadOfPage ==
  ASSUME Nand!NandAssumption, NEW page \in 0..(NandPages - 1)
  PROVE  /\ \A i \in 1..Nand!RawPage :
              /\ page * Nand!RawPage + 0 + i - 1 = page * Nand!RawPage + (i - 1)
              /\ page * Nand!RawPage + (i - 1) \in Nand!Cells
              /\ i - 1 \in 0..(Nand!RawPage - 1)
         /\ \A c \in (page * Nand!RawPage + PageSize)..(page * Nand!RawPage + PageSize + 1) :
              \E i \in 0..(Nand!RawPage - 1) : c = page * Nand!RawPage + i /\ c \in Nand!Cells
<1>1. page \in Nat /\ Nand!RawPage \in Nat /\ PageSize \in Nat /\ PageSize + 2 <= Nand!RawPage
  BY NandSizes
<1>2. page * Nand!RawPage \in Nat
  <2>1. \A a, b \in Nat : a * b \in Nat
    OBVIOUS
  <2>2. QED BY <1>1, <2>1
<1>3. ASSUME NEW i \in 1..Nand!RawPage
      PROVE  /\ page * Nand!RawPage + 0 + i - 1 = page * Nand!RawPage + (i - 1)
             /\ i - 1 \in 0..(Nand!RawPage - 1)
  BY <1>1, <1>2
<1>4. ASSUME NEW c \in (page * Nand!RawPage + PageSize)..(page * Nand!RawPage + PageSize + 1)
      PROVE  c - page * Nand!RawPage \in 0..(Nand!RawPage - 1)
             /\ c = page * Nand!RawPage + (c - page * Nand!RawPage)
  BY <1>1, <1>2
<1>5. QED BY <1>3, <1>4, CellsOfPage

LEMMA BitsStayLost ==
  ASSUME Nand!NandAssumption, nand \in NandStates, nand' \in NandStates,
         NEW page \in 0..(NandPages - 1),
         \A i \in 0..(Nand!RawPage - 1) :
           nand'.image[page * Nand!RawPage + i] \subseteq nand.image[page * Nand!RawPage + i]
  PROVE  /\ \A i \in 1..Nand!RawPage :
              Nand!FastRead(page, 0, Nand!RawPage)'[i] \subseteq Nand!FastRead(page, 0, Nand!RawPage)[i]
         /\ Nand!GoodBlock(page)' => Nand!GoodBlock(page)
<1>1. \A c \in Nand!Cells : nand.image[c] \subseteq NandBits
  BY DEF NandStates, NandImages
<1>2. ASSUME NEW i \in 1..Nand!RawPage
      PROVE  Nand!FastRead(page, 0, Nand!RawPage)'[i] \subseteq Nand!FastRead(page, 0, Nand!RawPage)[i]
  <2>1. /\ Nand!FastRead(page, 0, Nand!RawPage)'[i] = nand'.image[page * Nand!RawPage + 0 + i - 1]
        /\ Nand!FastRead(page, 0, Nand!RawPage)[i] = nand.image[page * Nand!RawPage + 0 + i - 1]
    BY <1>2 DEF Nand!FastRead
  <2>2. QED BY <1>2, <2>1, ReadOfPage
<1>3. ASSUME Nand!GoodBlock(page)' PROVE Nand!GoodBlock(page)
  <2> DEFINE marker == page * Nand!RawPage + PageSize
  <2>1. /\ page < NandPages /\ marker + 2 <= Nand!End
        /\ \A c \in marker..(marker + 1) : nand'.image[c] = NandBits
    BY <1>3 DEF Nand!GoodBlock
  <2>2. ASSUME NEW c \in marker..(marker + 1) PROVE nand.image[c] = NandBits
    <3>1. PICK i \in 0..(Nand!RawPage - 1) : c = page * Nand!RawPage + i /\ c \in Nand!Cells
      BY <2>2, ReadOfPage
    <3>2. nand'.image[c] \subseteq nand.image[c]
      BY <3>1
    <3>3. QED BY <1>1, <2>1, <3>1, <3>2
  <2>3. QED BY <2>1, <2>2 DEF Nand!GoodBlock
<1>4. QED BY <1>2, <1>3

LEMMA ClearingKeeps ==
  ASSUME Nand!NandAssumption, nand \in NandStates, nand' \in NandStates,
         \A c \in Nand!Cells : nand'.image[c] \subseteq nand.image[c],
         \/ nand'.log = nand.log
         \/ \E e \in NandEntries : nand'.log = Append(nand.log, e) /\ e.kind = "program"
  PROVE  Nand!BitsComeBackByErase
<1> DEFINE erases == Len(nand'.log) > Len(nand.log) /\ nand'.log[Len(nand'.log)].kind = "erase"
<1>1. ~ erases
  <2>1. nand.log \in Seq(NandEntries)
    BY DEF NandStates
  <2>2. CASE nand'.log = nand.log
    BY <2>1, <2>2
  <2>3. ASSUME NEW e \in NandEntries, nand'.log = Append(nand.log, e), e.kind = "program" PROVE ~ erases
    BY <2>1, <2>3
  <2>4. QED BY <2>2, <2>3
<1>2. ASSUME NEW page \in 0..(NandPages - 1)
      PROVE  /\ \A i \in 1..Nand!RawPage : Nand!FastRead(page, 0, Nand!RawPage)'[i]
                                             \subseteq Nand!FastRead(page, 0, Nand!RawPage)[i]
             /\ Nand!GoodBlock(page)' => Nand!GoodBlock(page)
  BY CellsOfPage, BitsStayLost
<1>3. QED BY <1>1, <1>2 DEF Nand!BitsComeBackByErase

(* The erase of a block.                                                   *)
LEMMA ErasingKeeps ==
  ASSUME Nand!NandAssumption, nand \in NandStates, nand' \in NandStates, nand.mode = "erase",
         NEW e \in NandEntries, e.kind = "erase", nand'.log = Append(nand.log, e),
         NEW start, start = Nand!BlockOf(Nand!Number(nand.address)),
         \A c \in Nand!Cells : nand'.image[c] =
           IF c \in start..(start + PagesPerBlock * Nand!RawPage - 1) THEN NandBits ELSE nand.image[c]
  PROVE  Nand!BitsComeBackByErase
<1>1. Nand!Number(nand.address) \in Nat
  BY NumberOfCycles DEF NandStates
<1>2. ASSUME NEW page \in 0..(NandPages - 1), Nand!BlockOf(page) = start,
             NEW i \in 1..Nand!RawPage
      PROVE  Nand!FastRead(page, 0, Nand!RawPage)'[i] = NandBits
  <2>1. /\ page * Nand!RawPage + 0 + i - 1 = page * Nand!RawPage + (i - 1)
        /\ page * Nand!RawPage + (i - 1) \in Nand!Cells
        /\ i - 1 \in 0..(Nand!RawPage - 1) /\ page \in Nat
    BY <1>2, ReadOfPage, NandSizes
  <2>2. page * Nand!RawPage + (i - 1) \in start..(start + PagesPerBlock * Nand!RawPage - 1)
    BY <1>1, <1>2, <2>1, BlocksOfPages
  <2>3. Nand!FastRead(page, 0, Nand!RawPage)'[i] = nand'.image[page * Nand!RawPage + 0 + i - 1]
    BY <1>2 DEF Nand!FastRead
  <2>4. QED BY <2>1, <2>2, <2>3
<1>3. ASSUME NEW page \in 0..(NandPages - 1), Nand!BlockOf(page) # start
      PROVE  /\ \A i \in 1..Nand!RawPage : Nand!FastRead(page, 0, Nand!RawPage)'[i]
                                             \subseteq Nand!FastRead(page, 0, Nand!RawPage)[i]
             /\ Nand!GoodBlock(page)' => Nand!GoodBlock(page)
  <2>1. ASSUME NEW i \in 0..(Nand!RawPage - 1)
        PROVE  nand'.image[page * Nand!RawPage + i] \subseteq nand.image[page * Nand!RawPage + i]
    <3>1. page \in Nat
      BY NandSizes
    <3>2. page * Nand!RawPage + i \notin start..(start + PagesPerBlock * Nand!RawPage - 1)
      BY <1>1, <1>3, <3>1, BlocksOfPages
    <3>3. page * Nand!RawPage + i \in Nand!Cells
      BY CellsOfPage
    <3>4. QED BY <3>2, <3>3
  <2>2. QED BY <2>1, BitsStayLost
<1>4. Len(nand'.log) > Len(nand.log) /\ nand'.log[Len(nand'.log)].kind = "erase"
  <2>1. nand.log \in Seq(NandEntries)
    BY DEF NandStates
  <2>2. QED BY <2>1
<1>5. QED BY <1>2, <1>3, <1>4 DEF Nand!BitsComeBackByErase

NandDone ==
  /\ nand' \in NandStates /\ Nand!Replayed(nand'.log, Nand!Erased) = nand'.image
  /\ Nand!BitsComeBackByErase

(* A step that leaves image and log alone.                                 *)
LEMMA NandIdle ==
  ASSUME Nand!NandAssumption, nand \in NandStates, Nand!Replayed(nand.log, Nand!Erased) = nand.image,
         nand' \in NandStates, nand'.image = nand.image, nand'.log = nand.log
  PROVE  NandDone
BY ClearingKeeps DEF NandDone

(* A step that programs, whatever it does to the command machine.          *)
LEMMA NandPrograms ==
  ASSUME Nand!NandAssumption, nand \in NandStates, Nand!Replayed(nand.log, Nand!Erased) = nand.image,
         NEW start \in Nat, NEW bytes \in Seq(NandValues), NEW m, m = Nand!Programmed(nand, start, bytes),
         NEW mode \in Nand!Modes, NEW spare \in BOOLEAN,
         nand' = m \/ nand' = [m EXCEPT !.mode = mode, !.spare = spare]
  PROVE  NandDone
<1>1. m \in NandStates /\ Nand!Replayed(m.log, Nand!Erased) = m.image /\ Clears(nand, m)
  BY ProgramChanges, ChangesKeep
<1>2. nand' \in NandStates /\ nand'.image = m.image /\ nand'.log = m.log
  BY <1>1 DEF NandStates
<1>3. QED BY <1>1, <1>2, ClearingKeeps DEF NandDone, Clears

LEMMA NandErases ==
  ASSUME Nand!NandAssumption, nand \in NandStates, Nand!Replayed(nand.log, Nand!Erased) = nand.image,
         nand.mode = "erase", NEW m,
         m = Nand!ErasedCells(nand, Nand!BlockOf(Nand!Number(nand.address)),
               Nand!BlockOf(Nand!Number(nand.address)) + PagesPerBlock * Nand!RawPage),
         nand' = [m EXCEPT !.mode = "status"]
  PROVE  NandDone
<1> DEFINE start == Nand!BlockOf(Nand!Number(nand.address))
           stop == start + PagesPerBlock * Nand!RawPage
<1>1. start \in Nat /\ stop \in Nat /\ PagesPerBlock * Nand!RawPage \in Nat
  <2>1. Nand!Number(nand.address) \in Nat
    BY NumberOfCycles DEF NandStates
  <2>2. Nand!BlockOf(Nand!Number(nand.address)) \in Nat
    <3>1. 0 \in Nat /\ 0 \in 0..(Nand!RawPage - 1)
      BY NandSizes
    <3>2. QED BY <2>1, <3>1, BlocksOfPages
  <2>3. \A a, b \in Nat : a * b \in Nat
    OBVIOUS
  <2>4. PagesPerBlock * Nand!RawPage \in Nat
    BY <2>3, NandSizes
  <2>5. start \in Nat
    BY <2>2
  <2> HIDE DEF start
  <2>6. QED BY <2>4, <2>5
<1> HIDE DEF start, stop
<1>2. m = Nand!ErasedCells(nand, start, stop)
  BY DEF start, stop
<1>3. /\ Changes(nand, m)
      /\ \A c \in Nand!Cells : m.image[c] = IF c \in start..(stop - 1) THEN NandBits ELSE nand.image[c]
      /\ \/ m = nand /\ \A c \in Nand!Cells : c \notin start..(stop - 1)
         \/ \E e \in NandEntries : m.log = Append(nand.log, e) /\ e.kind = "erase"
  <2>1. start \in Nat /\ stop \in Nat
    BY <1>1
  <2>2. QED BY <1>2, <2>1, EraseChanges
<1>4. m \in NandStates /\ Nand!Replayed(m.log, Nand!Erased) = m.image
  BY <1>3, ChangesKeep
<1>5. nand' \in NandStates /\ nand'.image = m.image /\ nand'.log = m.log
  BY <1>4 DEF NandStates, Nand!Modes
<1>6. CASE m = nand
  BY <1>4, <1>5, <1>6, NandIdle
<1>7. ASSUME NEW e \in NandEntries, m.log = Append(nand.log, e), e.kind = "erase" PROVE NandDone
  <2>1. /\ start = Nand!BlockOf(Nand!Number(nand.address))
        /\ stop = start + PagesPerBlock * Nand!RawPage
    BY DEF start, stop
  <2>2. \A c \in Nand!Cells : nand'.image[c] =
          IF c \in start..(start + PagesPerBlock * Nand!RawPage - 1) THEN NandBits ELSE nand.image[c]
    <3>1. \A x, y, n \in Nat : y = x + n => x..(y - 1) = x..(x + n - 1)
      OBVIOUS
    <3>2. start..(stop - 1) = start..(start + PagesPerBlock * Nand!RawPage - 1)
      BY <1>1, <2>1, <3>1
    <3>3. QED BY <1>3, <1>5, <3>2
  <2>3. Nand!BitsComeBackByErase
    BY <1>5, <1>7, <2>1, <2>2, ErasingKeeps
  <2>4. QED BY <1>4, <1>5, <2>3 DEF NandDone
<1>8. QED BY <1>3, <1>6, <1>7

LEMMA NandCommands ==
  ASSUME Nand!NandAssumption, nand \in NandStates, Nand!Replayed(nand.log, Nand!Erased) = nand.image,
         Nand!Command
  PROVE  NandDone
<1>1. CASE Nand!ReadStatus \/ Nand!Reset \/ Nand!BeginProgram \/ Nand!BeginErase
           \/ \E spare \in BOOLEAN : Nand!BeginRead(spare)
  <2>1. nand' \in NandStates /\ nand'.image = nand.image /\ nand'.log = nand.log
    <3>1. <<>> \in Seq(NandValues) /\ <<>> \in Seq(0..(Radix - 1))
      OBVIOUS
    <3>2. CASE Nand!ReadStatus
      BY <3>2 DEF Nand!ReadStatus, NandStates, Nand!Modes
    <3>3. CASE Nand!Reset
      BY <3>1, <3>3 DEF Nand!Reset, NandStates, Nand!Modes
    <3>4. CASE Nand!BeginProgram
      BY <3>1, <3>4 DEF Nand!BeginProgram, NandStates, Nand!Modes
    <3>5. CASE Nand!BeginErase
      BY <3>1, <3>5 DEF Nand!BeginErase, NandStates, Nand!Modes
    <3>6. ASSUME NEW spare \in BOOLEAN, Nand!BeginRead(spare)
          PROVE  nand' \in NandStates /\ nand'.image = nand.image /\ nand'.log = nand.log
      BY <3>1, <3>6 DEF Nand!BeginRead, NandStates, Nand!Modes
    <3>7. QED BY <1>1, <3>2, <3>3, <3>4, <3>5, <3>6
  <2>2. QED BY <2>1, NandIdle
<1>2. CASE Nand!ConfirmProgram
  <2>1. PICK m : m = Nand!Programmed(nand, nand.cursor, nand.program)
    OBVIOUS
  <2>2. nand' = [m EXCEPT !.mode = "status", !.spare = FALSE]
    BY <1>2, <2>1 DEF Nand!ConfirmProgram
  <2>3. nand.cursor \in Nat /\ nand.program \in Seq(NandValues) /\ "status" \in Nand!Modes
    BY DEF NandStates, Nand!Modes
  <2>4. QED BY <2>1, <2>2, <2>3, NandPrograms
<1>3. CASE Nand!ConfirmErase
  BY <1>3, NandErases DEF Nand!ConfirmErase
<1>4. QED BY <1>1, <1>2, <1>3 DEF Nand!Command

LEMMA NandAddresses ==
  ASSUME Nand!NandAssumption, nand \in NandStates, Nand!Replayed(nand.log, Nand!Erased) = nand.image,
         NEW cycle \in 0..(Radix - 1), Nand!Address(cycle)
  PROVE  NandDone
<1> DEFINE cycles == Append(nand.address, cycle)
           Cycles == Seq(0..(Radix - 1))
<1>1. cycles \in Cycles /\ Len(cycles) \in Nat /\ nand.cursor \in Nat
  BY DEF NandStates
<1>2. /\ \A a, b \in Nat : a * b \in Nat /\ a + b \in Nat
      /\ Nand!RawPage \in Nat /\ BusWidth \in Nat /\ PageSize \in Nat /\ Nand!ColumnCycles \in {1, 2}
  BY NandSizes DEF Nand!NandAssumption, Nand!ColumnCycles
<1>3. Nand!CursorAt(cycles) \in Nat
  <2> HIDE DEF cycles
  <2>1. Nand!Number(cycles) * Nand!RawPage \in Nat
    BY <1>1, <1>2, NumberOfCycles
  <2>2. ASSUME Len(cycles) >= Nand!ColumnCycles + 2
        PROVE  /\ Nand!Number(SubSeq(cycles, Nand!ColumnCycles + 1, Len(cycles))) \in Nat
               /\ Nand!Number(SubSeq(cycles, 1, Nand!ColumnCycles)) \in Nat
    <3>1. /\ SubSeq(cycles, Nand!ColumnCycles + 1, Len(cycles)) \in Cycles
          /\ SubSeq(cycles, 1, Nand!ColumnCycles) \in Cycles
      <4>1. /\ \A i \in 1..Len(cycles) : cycles[i] \in 0..(Radix - 1)
            /\ Nand!ColumnCycles + 1 \in Int /\ Nand!ColumnCycles \in Int /\ Len(cycles) \in Int
            /\ (Nand!ColumnCycles + 1)..Len(cycles) \subseteq 1..Len(cycles)
            /\ 1..Nand!ColumnCycles \subseteq 1..Len(cycles)
        <5>1. Nand!ColumnCycles \in {1, 2} /\ Len(cycles) >= Nand!ColumnCycles /\ Len(cycles) \in Nat
          BY <1>1, <1>2, <2>2
        <5>2. (Nand!ColumnCycles + 1)..Len(cycles) \subseteq 1..Len(cycles)
              /\ 1..Nand!ColumnCycles \subseteq 1..Len(cycles)
          BY <5>1
        <5>3. \A i \in 1..Len(cycles) : cycles[i] \in 0..(Radix - 1)
          BY <1>1, ElementOfSeq
        <5>4. QED BY <5>1, <5>2, <5>3
      <4>2. QED BY <4>1, SubSeqProperties
    <3>2. QED BY <3>1, NumberOfCycles
  <2>3. CASE nand.mode = "erase"
    BY <2>1, <2>3 DEF Nand!CursorAt
  <2>4. CASE nand.mode # "erase" /\ Len(cycles) < Nand!ColumnCycles + 2
    BY <1>1, <2>4 DEF Nand!CursorAt
  <2>5. CASE nand.mode # "erase" /\ ~ (Len(cycles) < Nand!ColumnCycles + 2)
    <3>1. Len(cycles) >= Nand!ColumnCycles + 2
      BY <1>1, <1>2, <2>5
    <3> DEFINE row == Nand!Number(SubSeq(cycles, Nand!ColumnCycles + 1, Len(cycles))) * Nand!RawPage
               column == Nand!Number(SubSeq(cycles, 1, Nand!ColumnCycles)) * BusWidth
    <3>2. row \in Nat /\ column \in Nat
      BY <1>2, <2>2, <3>1
    <3>3. Nand!CursorAt(cycles) =
            row + column + (IF nand.mode \in {"read-spare", "program-spare"} THEN PageSize ELSE 0)
      BY <2>5 DEF Nand!CursorAt
    <3> HIDE DEF row, column
    <3>4. QED BY <1>2, <3>2, <3>3
  <2>6. QED BY <2>3, <2>4, <2>5
<1>4. nand' = [nand EXCEPT !.address = cycles, !.cursor = Nand!CursorAt(cycles)]
  BY DEF Nand!Address
<1>5. nand' \in NandStates /\ nand'.image = nand.image /\ nand'.log = nand.log
  <2> HIDE DEF cycles
  <2>1. QED BY <1>1, <1>3, <1>4 DEF NandStates
<1>6. QED BY <1>5, NandIdle

LEMMA WordsAreBytes == Nand!Words \subseteq Seq(NandValues)
<1>1. ASSUME NEW v \in NandValues, NEW w \in NandValues
      PROVE  <<v>> \in Seq(NandValues) /\ <<v, w>> \in Seq(NandValues)
  OBVIOUS
<1>2. ASSUME NEW x \in Nand!Words PROVE x \in Seq(NandValues)
  <2>1. (\E v \in NandValues : x = <<v>>) \/ (\E v, w \in NandValues : x = <<v, w>>)
    BY DEF Nand!Words
  <2>2. QED BY <1>1, <2>1
<1>3. QED BY <1>2

LEMMA NandData ==
  ASSUME Nand!NandAssumption, nand \in NandStates, Nand!Replayed(nand.log, Nand!Erased) = nand.image,
         \/ \E bytes \in Nand!Words : Nand!DataWrite(bytes)
         \/ \E size \in 1..2 : Nand!DataRead(size)
  PROVE  NandDone
<1>1. ASSUME NEW bytes \in Nand!Words, Nand!DataWrite(bytes) PROVE NandDone
  <2> DEFINE remaining == Nand!RawPage - (nand.cursor % Nand!RawPage)
             most == Nand!Max({0, remaining - Len(nand.program)})
             size == Nand!Min({Len(bytes), most})
             taken == SubSeq(bytes, 1, size)
  <2>1. nand' = [nand EXCEPT !.program = nand.program \o taken]
    BY <1>1 DEF Nand!DataWrite
  <2>2. bytes \in Seq(NandValues) /\ nand.program \in Seq(NandValues) /\ nand.cursor \in Nat
        /\ Len(bytes) \in Nat /\ Len(nand.program) \in Nat /\ Nand!RawPage \in Nat \ {0}
    BY WordsAreBytes, NandSizes DEF NandStates
  <2>3. most \in Nat
    <3>1. remaining \in Int
      BY <2>2
    <3> HIDE DEF remaining
    <3>2. remaining - Len(nand.program) \in Int
      BY <2>2, <3>1
    <3>3. QED BY <3>2, GreaterOfTwo
  <2>4. size \in 0..Len(bytes)
    <3> HIDE DEF most
    <3>1. size = IF Len(bytes) <= most THEN Len(bytes) ELSE most
      BY <2>2, <2>3, LesserOfTwo
    <3>2. QED BY <2>2, <2>3, <3>1
  <2> HIDE DEF size
  <2>5. taken \in Seq(NandValues)
    <3>1. Len(bytes) \in Nat /\ DOMAIN bytes = 1..Len(bytes) /\ \A i \in 1..size : bytes[i] \in NandValues
      BY <2>2, <2>4
    <3>2. taken = [i \in 1..size |-> bytes[i]]
      BY <2>2, <2>4, <3>1
    <3> HIDE DEF taken
    <3>3. taken \in [1..size -> NandValues] /\ size \in Nat
      BY <2>2, <2>4, <3>1, <3>2
    <3>4. QED BY <3>3
  <2> HIDE DEF taken
  <2>6. nand.program \o taken \in Seq(NandValues)
    BY <2>2, <2>5
  <2>7. nand' \in NandStates /\ nand'.image = nand.image /\ nand'.log = nand.log
    BY <2>1, <2>6 DEF NandStates
  <2>8. QED BY <2>7, NandIdle
<1>2. ASSUME NEW size \in 1..2, Nand!DataRead(size) PROVE NandDone
  <2>1. nand.cursor + size \in Nat
    BY DEF NandStates
  <2>2. nand' \in NandStates /\ nand'.image = nand.image /\ nand'.log = nand.log
    BY <1>2, <2>1 DEF Nand!DataRead, NandStates
  <2>3. QED BY <2>2, NandIdle
<1>3. QED BY <1>1, <1>2

LEMMA NandFastWrites ==
  ASSUME Nand!NandAssumption, nand \in NandStates, Nand!Replayed(nand.log, Nand!Erased) = nand.image,
         NEW page \in Rows, NEW column \in 0..Nand!RawPage, NEW bytes \in Nand!Words,
         Nand!FastWrite(page, column, bytes)
  PROVE  NandDone
<1> DEFINE even == IF BusWidth = 2 THEN column - (column % 2) ELSE column
           start == page * Nand!RawPage + even
<1>1. page \in Nat /\ column \in Nat /\ Nand!RawPage \in Nat /\ bytes \in Seq(NandValues)
  BY NandSizes, WordsAreBytes DEF Nand!NandAssumption
<1>2. even \in Nat
  BY <1>1
<1>3. start \in Nat
  <2>1. \A a, b \in Nat : a * b \in Nat
    OBVIOUS
  <2>2. page * Nand!RawPage \in Nat
    BY <1>1, <2>1
  <2> HIDE DEF even
  <2>3. QED BY <1>2, <2>2
<1>4. PICK m : m = Nand!Programmed(nand, start, bytes)
  OBVIOUS
<1>5. nand' = m
  BY <1>4 DEF Nand!FastWrite
<1>6. QED
  <2> HIDE DEF start
  <2>1. FALSE \in BOOLEAN /\ "status" \in Nand!Modes
    BY DEF Nand!Modes
  <2>2. QED BY <1>1, <1>3, <1>4, <1>5, <2>1, NandPrograms

LEMMA NandStep ==
  ASSUME Nand!NandAssumption, NandInv, [Nand!Next]_nand
  PROVE  NandInv' /\ Nand!BitsComeBackByErase
<1>1. nand \in NandStates /\ Nand!Replayed(nand.log, Nand!Erased) = nand.image
  BY DEF NandInv, Nand!LogIsImage
<1>2. NandDone
  <2>1. CASE UNCHANGED nand
    BY <1>1, <2>1, NandIdle
  <2>2. CASE Nand!Next
    BY <1>1, <2>2, NandCommands, NandAddresses, NandData, NandFastWrites DEF Nand!Next
  <2>3. QED BY <2>1, <2>2
<1>3. QED BY <1>2 DEF NandDone, NandInv, Nand!LogIsImage

LEMMA NandInitInv == ASSUME Nand!NandAssumption, Nand!Init PROVE NandInv
<1>1. <<>> \in Seq(NandValues) /\ <<>> \in Seq(0..(Radix - 1)) /\ <<>> \in Seq(NandEntries)
  OBVIOUS
<1>2. nand \in NandStates /\ nand.log = <<>> /\ nand.image = Nand!Erased
  BY <1>1, ErasedIsImage DEF Nand!Init, NandStates, Nand!Modes
<1>3. Nand!Replayed(<<>>, Nand!Erased) = Nand!Erased
  BY ErasedIsImage, ReplayedNothing
<1>4. QED BY <1>2, <1>3 DEF NandInv, Nand!LogIsImage

(* _nand_program_bytes, _nand_erase_bytes: the log that a save replays is  *)
(* all the guest did to the image, and bits come back only by the erase of *)
(* a block.                                                                *)
THEOREM NandLogsEveryChange ==
  ASSUME Nand!NandAssumption
  PROVE  Nand!Spec => []Nand!LogIsImage /\ [][Nand!BitsComeBackByErase]_nand
<1>1. Nand!Init => NandInv
  BY NandInitInv
<1>2. NandInv /\ [Nand!Next]_nand => NandInv' /\ Nand!BitsComeBackByErase
  BY NandStep
<1>3. NandInv => Nand!LogIsImage
  BY DEF NandInv
<1>4. QED BY <1>1, <1>2, <1>3, PTL DEF Nand!Spec

(* The command machine keeps its types, the image its size.                *)
THEOREM NandTypeCorrect ==
  ASSUME Nand!NandAssumption
  PROVE  Nand!Spec => []Nand!TypeOK
<1>1. Nand!Init => NandInv
  BY NandInitInv
<1>2. NandInv /\ [Nand!Next]_nand => NandInv'
  BY NandStep
<1>3. NandInv => Nand!TypeOK
  BY DEF NandInv, NandStates, Nand!TypeOK, NandImages, NandEntries, Nand!Byte
<1>4. QED BY <1>1, <1>2, <1>3, PTL DEF Nand!Spec

-------------------------------------------------------------------------------
(* The EEPROM.                                                             *)

CONSTANTS EepromValues, Blank, Descriptors, Unknown, EepromCapacity, StrictEnd, Files, MaxWrites
VARIABLE chip

Eeprom == INSTANCE EepromDevice WITH eeprom <- chip,
  Values <- EepromValues, Capacity <- EepromCapacity

ChipContents == Seq(EepromValues)
ChipEntries == [at : Nat, bytes : ChipContents]

(* The replay of a log runs along it.                                      *)
ChipReplay(log) ==
  [p \in (1..Len(log)) \X ChipContents |-> Eeprom!Stored(p[2], log[p[1]].at, log[p[1]].bytes)]

ChipReplayed(loaded, log) ==
  Eeprom!FoldLeft(LAMBDA latest, entry : Eeprom!Stored(latest, entry.at, entry.bytes), loaded, log)

LEMMA StoredFits ==
  ASSUME NEW e \in ChipContents, NEW at \in Nat, NEW bytes \in ChipContents
  PROVE  /\ Eeprom!Stored(e, at, bytes) \in ChipContents
         /\ Len(Eeprom!Stored(e, at, bytes)) = Len(e)
<1>1. /\ Len(e) \in Nat /\ DOMAIN e = 1..Len(e) /\ \A i \in 1..Len(e) : e[i] \in EepromValues
      /\ \A i \in DOMAIN bytes : bytes[i] \in EepromValues
  BY DEF ChipContents
<1>2. Eeprom!Stored(e, at, bytes) \in [1..Len(e) -> EepromValues]
  BY <1>1 DEF Eeprom!Stored
<1>3. QED BY <1>1, <1>2 DEF ChipContents

LEMMA ChipReplayedRun ==
  ASSUME NEW log \in Seq(ChipEntries), NEW loaded \in ChipContents
  PROVE  \E r : /\ IsRun(Len(log), ChipContents, loaded, ChipReplay(log), r)
                /\ r[Len(log)] = ChipReplayed(loaded, log)
<1> DEFINE n == Len(log)
           step == ChipReplay(log)
           pick == [s \in SUBSET (1..n) |-> Eeprom!Max(s)]
           Next(v, i) == Eeprom!Stored(v, log[i].at, log[i].bytes)
           Folds(h) == h = [s \in SUBSET (1..n) |->
             IF s = {} THEN loaded ELSE Next(h[s \ {Eeprom!Max(s)}], Eeprom!Max(s))]
<1>1. /\ n \in Nat /\ DOMAIN log = 1..n
      /\ \A i \in 1..n : log[i].at \in Nat /\ log[i].bytes \in ChipContents
  <2>1. n \in Nat /\ DOMAIN log = 1..n /\ \A i \in 1..n : log[i] \in ChipEntries
    OBVIOUS
  <2>2. \A entry \in ChipEntries : entry.at \in Nat /\ entry.bytes \in ChipContents
    BY DEF ChipEntries
  <2> HIDE DEF n
  <2>3. QED BY <2>1, <2>2
<1>2. /\ step \in [(1..n) \X ChipContents -> ChipContents]
      /\ \A i \in 1..n : \A v \in ChipContents : step[<<i, v>>] = Next(v, i)
  <2>1. ASSUME NEW i \in 1..n, NEW v \in ChipContents PROVE Next(v, i) \in ChipContents
    <3>1. log[i].at \in Nat /\ log[i].bytes \in ChipContents
      BY <1>1
    <3>2. QED BY <3>1, StoredFits
  <2>2. step = [p \in (1..n) \X ChipContents |-> Next(p[2], p[1])]
    BY DEF ChipReplay
  <2>3. ASSUME NEW p \in (1..n) \X ChipContents PROVE Next(p[2], p[1]) \in ChipContents
    <3> HIDE DEF Next, n
    <3>1. p[1] \in 1..n /\ p[2] \in ChipContents
      OBVIOUS
    <3>2. QED BY <2>1, <3>1
  <2> HIDE DEF Next, n, step
  <2>4. QED BY <2>1, <2>2, <2>3
<1>3. Picks(1..n, pick)
  BY <1>1, GreatestOfSome DEF Picks, Greatest, Eeprom!Max
<1>4. IsFiniteSet(1..n)
  BY <1>1, FS_Interval
<1>5. PICK h : IsFold(1..n, ChipContents, loaded, step, pick, h)
  <2> HIDE DEF n, step, pick
  <2>1. QED BY <1>2, <1>3, <1>4, FoldExists
<1>6. Folds(h)
  <2>1. ASSUME NEW s \in SUBSET (1..n), s # {}
        PROVE  h[s] = Next(h[s \ {Eeprom!Max(s)}], Eeprom!Max(s))
    <3>1. Eeprom!Max(s) \in 1..n /\ s \ {Eeprom!Max(s)} \in SUBSET (1..n)
      BY <1>3, <2>1 DEF Picks
    <3>2. h[s \ {Eeprom!Max(s)}] \in ChipContents /\ h[s] = step[<<Eeprom!Max(s), h[s \ {Eeprom!Max(s)}]>>]
      BY <1>5, <2>1, <3>1 DEF IsFold
    <3>3. QED
      <4> HIDE DEF step, Next
      <4>1. QED BY <1>2, <3>1, <3>2
  <2>2. h \in [SUBSET (1..n) -> ChipContents] /\ h[{}] = loaded
    BY <1>5 DEF IsFold
  <2> HIDE DEF n, Next
  <2>3. QED BY <2>1, <2>2
<1>7. PICK g : Folds(g) /\ ChipReplayed(loaded, log) = g[1..n]
  <2>1. ChipReplayed(loaded, log) = (CHOOSE g : Folds(g))[1..n]
    BY <1>1 DEF ChipReplayed, Eeprom!FoldLeft, Eeprom!MapThenFoldSet
  <2>2. QED BY <1>6, <2>1
<1>8. g[1..n] = h[1..n]
  <2>1. g[{}] = h[{}] /\ AgreeOn(1..n, pick, g, h)
    <3> HIDE DEF Next
    <3>1. QED BY <1>6, <1>7 DEF AgreeOn
  <2>2. QED
    <3> HIDE DEF pick, n
    <3>1. QED BY <1>3, <1>4, <2>1, SameFold
<1>9. \A i \in 1..n : pick[1..i] = i
  <2>1. ASSUME NEW i \in 1..n PROVE Eeprom!Max(1..i) = i /\ 1..i \in SUBSET (1..n)
    BY <1>1, GreatestOfRow DEF Greatest, Eeprom!Max
  <2>2. QED BY <2>1
<1>10. QED
  <2> HIDE DEF n, step, pick
  <2>1. \E r : IsRun(n, ChipContents, loaded, step, r) /\ r[n] = h[1..n]
    BY <1>1, <1>5, <1>9, FoldRuns
  <2>2. QED BY <2>1, <1>7, <1>8 DEF n, step

LEMMA ChipReplayedAppend ==
  ASSUME NEW log \in Seq(ChipEntries), NEW entry \in ChipEntries, NEW loaded \in ChipContents
  PROVE  ChipReplayed(loaded, Append(log, entry)) =
           Eeprom!Stored(ChipReplayed(loaded, log), entry.at, entry.bytes)
<1> DEFINE n == Len(log)
           longer == Append(log, entry)
<1>1. /\ n \in Nat /\ longer \in Seq(ChipEntries) /\ Len(longer) = n + 1
      /\ longer[n + 1] = entry /\ \A i \in 1..n : longer[i] = log[i]
  OBVIOUS
<1> HIDE DEF longer, n
<1>2. PICK r : IsRun(n, ChipContents, loaded, ChipReplay(log), r) /\ r[n] = ChipReplayed(loaded, log)
  BY ChipReplayedRun DEF n
<1>3. PICK q : /\ IsRun(n + 1, ChipContents, loaded, ChipReplay(longer), q)
               /\ q[n + 1] = ChipReplayed(loaded, longer)
  BY <1>1, ChipReplayedRun
<1>4. GoesOn(n, ChipContents, ChipReplay(log), ChipReplay(longer))
  BY <1>1 DEF ChipReplay, GoesOn, n
<1>5. q[n + 1] = ChipReplay(longer)[<<n + 1, r[n]>>] /\ r[n] \in ChipContents
  BY <1>1, <1>2, <1>3, <1>4, RunAppend
<1>6. ChipReplay(longer)[<<n + 1, r[n]>>] = Eeprom!Stored(r[n], entry.at, entry.bytes)
  <2>1. n + 1 \in 1..Len(longer)
    BY <1>1
  <2>2. QED BY <1>1, <1>5, <2>1 DEF ChipReplay
<1>7. QED BY <1>2, <1>3, <1>5, <1>6 DEF longer

LEMMA ChipReplayedNothing ==
  ASSUME NEW loaded \in ChipContents PROVE ChipReplayed(loaded, <<>>) = loaded
<1>1. <<>> \in Seq(ChipEntries) /\ Len(<<>>) = 0
  OBVIOUS
<1>2. PICK r : IsRun(Len(<<>>), ChipContents, loaded, ChipReplay(<<>>), r) /\ r[Len(<<>>)] = ChipReplayed(loaded, <<>>)
  BY <1>1, ChipReplayedRun
<1>3. QED BY <1>1, <1>2 DEF IsRun

ChipStates ==
  [descriptor : Descriptors, file : Files, data : ChipContents, loaded : ChipContents,
   log : Seq(ChipEntries), failed : BOOLEAN, result : Eeprom!Results]

(* Before the image is loaded there is nothing to save; then it keeps its  *)
(* size, which is the file's if there is one.                              *)
ChipHas(c) ==
  /\ c \in ChipStates
  /\ ChipReplayed(c.loaded, c.log) = c.data
  /\ c.data = <<>> => c.loaded = <<>> /\ c.log = <<>>
  /\ c.data # <<>> => Len(c.file) \in {0, Len(c.data)}

LEMMA ChipLoads ==
  ASSUME Eeprom!EepromAssumption, ChipHas(chip), Eeprom!Ready
  PROVE  ChipHas(Eeprom!Ensured) /\ Eeprom!Ensured.data # <<>>
<1> DEFINE cap == EepromCapacity[chip.descriptor]
           fresh == IF chip.file = <<>> THEN [i \in 1..cap |-> Blank] ELSE chip.file
           e == Eeprom!Ensured
<1>1. chip \in ChipStates /\ chip.descriptor \in Descriptors \ {Unknown} /\ cap \in Nat \ {0}
      /\ chip.file \in ChipContents /\ Blank \in EepromValues
  BY DEF ChipHas, Eeprom!Ready, Eeprom!Known, Eeprom!EepromAssumption, ChipStates, ChipContents
<1>2. CASE chip.data # <<>>
  <2>1. e = [chip EXCEPT !.failed = FALSE]
    BY <1>2 DEF Eeprom!Ensured
  <2>2. /\ e \in ChipStates /\ e.data = chip.data /\ e.loaded = chip.loaded /\ e.log = chip.log
        /\ e.file = chip.file
    BY <1>1, <2>1 DEF ChipStates
  <2> HIDE DEF e
  <2>3. QED BY <1>2, <2>2 DEF ChipHas, e
<1>3. CASE chip.data = <<>>
  <2>1. e = [chip EXCEPT !.data = fresh, !.loaded = fresh, !.failed = FALSE]
    BY <1>3 DEF Eeprom!Ensured
  <2>2. fresh \in ChipContents /\ fresh # <<>> /\ Len(chip.file) \in {0, Len(fresh)}
    <3>1. CASE chip.file = <<>>
      <4>1. fresh = [i \in 1..cap |-> Blank]
        BY <3>1
      <4> HIDE DEF cap, fresh
      <4>2. fresh \in [1..cap -> EepromValues] /\ DOMAIN fresh = 1..cap /\ 1 \in 1..cap
        BY <1>1, <4>1
      <4>3. fresh \in ChipContents /\ fresh # <<>>
        BY <1>1, <4>2 DEF ChipContents
      <4>4. QED BY <3>1, <4>3
    <3>2. CASE chip.file # <<>>
      BY <1>1, <3>2 DEF ChipContents
    <3>3. QED BY <3>1, <3>2
  <2> HIDE DEF fresh
  <2>3. /\ e \in ChipStates /\ e.data = fresh /\ e.loaded = fresh /\ e.log = chip.log
        /\ e.file = chip.file
    BY <1>1, <2>1, <2>2 DEF ChipStates
  <2>4. e.log = <<>> /\ ChipReplayed(fresh, <<>>) = fresh
    BY <1>3, <2>2, <2>3, ChipReplayedNothing DEF ChipHas
  <2> HIDE DEF e
  <2>5. QED BY <2>2, <2>3, <2>4 DEF ChipHas, e
<1>4. QED BY <1>2, <1>3

(* A write that is in range is in the log and in the image.                *)
LEMMA ChipWrites ==
  ASSUME NEW c, ChipHas(c), c.data # <<>>, NEW at \in Nat, NEW bytes \in ChipContents, NEW result \in Eeprom!Results
  PROVE  ChipHas([c EXCEPT !.result = result, !.data = Eeprom!Stored(c.data, at, bytes),
                           !.log = Append(@, [at |-> at, bytes |-> bytes])])
<1> DEFINE entry == [at |-> at, bytes |-> bytes]
           data == Eeprom!Stored(c.data, at, bytes)
           d == [c EXCEPT !.result = result, !.data = data, !.log = Append(c.log, entry)]
<1>1. /\ c \in ChipStates /\ c.data \in ChipContents /\ c.log \in Seq(ChipEntries) /\ c.loaded \in ChipContents
      /\ ChipReplayed(c.loaded, c.log) = c.data /\ Len(c.file) \in {0, Len(c.data)}
  BY DEF ChipHas, ChipStates
<1>2. entry \in ChipEntries /\ entry.at = at /\ entry.bytes = bytes
  BY DEF ChipEntries
<1>3. data \in ChipContents /\ Len(data) = Len(c.data)
  BY <1>1, StoredFits
<1>4. data # <<>>
  BY <1>1, <1>3 DEF ChipContents
<1>5. ChipReplayed(c.loaded, Append(c.log, entry)) = data
  <2> HIDE DEF entry, data
  <2>1. QED BY <1>1, <1>2, ChipReplayedAppend DEF data
<1>6. Append(c.log, entry) \in Seq(ChipEntries)
  BY <1>1, <1>2
<1>7. /\ d \in ChipStates /\ d.loaded = c.loaded /\ d.log = Append(c.log, entry)
      /\ d.data = data /\ d.file = c.file
  <2> HIDE DEF entry, data
  <2>1. QED BY <1>1, <1>3, <1>6 DEF ChipStates
<1>8. ChipHas(d)
  <2> HIDE DEF d, entry, data
  <2>1. QED BY <1>1, <1>3, <1>4, <1>5, <1>7 DEF ChipHas
<1>9. QED BY <1>8

LEMMA ChipAnswers ==
  ASSUME NEW c, ChipHas(c), NEW result \in Eeprom!Results, NEW failed \in BOOLEAN
  PROVE  ChipHas([c EXCEPT !.result = result]) /\ ChipHas([c EXCEPT !.failed = failed, !.result = result])
<1>1. c \in ChipStates
  BY DEF ChipHas
<1>2. ASSUME NEW d, d = [c EXCEPT !.result = result] \/ d = [c EXCEPT !.failed = failed, !.result = result]
      PROVE  ChipHas(d)
  <2>1. d \in ChipStates /\ d.data = c.data /\ d.loaded = c.loaded /\ d.log = c.log /\ d.file = c.file
    BY <1>1, <1>2 DEF ChipStates
  <2>2. QED BY <2>1 DEF ChipHas
<1>3. QED BY <1>2

LEMMA ChipInit == ASSUME Eeprom!EepromAssumption, Eeprom!Init PROVE ChipHas(chip)
<1>1. PICK file \in Files, descriptor \in Descriptors :
        chip = [descriptor |-> descriptor, file |-> file, data |-> <<>>,
                loaded |-> <<>>, log |-> <<>>, failed |-> FALSE, result |-> "none"]
  BY DEF Eeprom!Init
<1>2. <<>> \in ChipContents /\ <<>> \in Seq(ChipEntries)
  BY DEF ChipContents
<1>3. chip \in ChipStates /\ chip.data = <<>> /\ chip.loaded = <<>> /\ chip.log = <<>>
  BY <1>1, <1>2 DEF ChipStates, Eeprom!Results
<1>4. QED BY <1>2, <1>3, ChipReplayedNothing DEF ChipHas

LEMMA ChipStep ==
  ASSUME Eeprom!EepromAssumption, ChipHas(chip), [Eeprom!Next]_chip
  PROVE  ChipHas(chip')
<1>1. ASSUME NEW descriptor \in Descriptors, Eeprom!Redescribe(descriptor) PROVE ChipHas(chip')
  <2>1. /\ chip' \in ChipStates /\ chip'.data = chip.data /\ chip'.loaded = chip.loaded
        /\ chip'.log = chip.log /\ chip'.file = chip.file
    BY <1>1 DEF Eeprom!Redescribe, ChipHas, ChipStates, Eeprom!Results
  <2>2. QED BY <2>1 DEF ChipHas
<1>2. {"ok", "error", "native"} \subseteq Eeprom!Results
  BY DEF Eeprom!Results
<1>3. ASSUME NEW offset \in Eeprom!Offsets, NEW hosted \in BOOLEAN, NEW length \in 0..2,
             Eeprom!Read(offset, length, hosted)
      PROVE  ChipHas(chip')
  <2>1. CASE ~ Eeprom!Ready
    <3>1. chip' = [chip EXCEPT !.failed = TRUE, !.result = "native"]
      BY <1>3, <2>1 DEF Eeprom!Read, Eeprom!Refused
    <3>2. QED BY <1>2, <3>1, ChipAnswers
  <2>2. CASE Eeprom!Ready
    <3>1. PICK e : e = Eeprom!Ensured
      OBVIOUS
    <3>2. ChipHas(e)
      BY <2>2, <3>1, ChipLoads
    <3>3. \/ chip' = [e EXCEPT !.result = "native"]
          \/ chip' = [e EXCEPT !.result = "ok"]
          \/ chip' = [e EXCEPT !.result = "error"]
      BY <1>3, <2>2, <3>1 DEF Eeprom!Read
    <3>4. ASSUME NEW result \in Eeprom!Results PROVE ChipHas([e EXCEPT !.result = result])
      BY <3>2, ChipAnswers
    <3>5. QED BY <1>2, <3>3, <3>4
  <2>3. QED BY <2>1, <2>2
<1>4. ASSUME NEW offset \in Eeprom!Offsets, NEW hosted \in BOOLEAN, NEW bytes \in Eeprom!Payloads,
             Eeprom!Write(offset, bytes, hosted)
      PROVE  ChipHas(chip')
  <2>1. CASE ~ Eeprom!Ready
    <3>1. chip' = [chip EXCEPT !.failed = TRUE, !.result = "native"]
      BY <1>4, <2>1 DEF Eeprom!Write, Eeprom!Refused
    <3>2. QED BY <1>2, <3>1, ChipAnswers
  <2>2. CASE Eeprom!Ready
    <3>1. PICK e : e = Eeprom!Ensured
      OBVIOUS
    <3>2. ChipHas(e) /\ e.data # <<>>
      BY <2>2, <3>1, ChipLoads
    <3>3. \/ chip' = [e EXCEPT !.result = "native"]
          \/ chip' = [e EXCEPT !.result = "ok"]
          \/ chip' = [e EXCEPT !.result = "error"]
          \/ chip' = [e EXCEPT !.result = "ok", !.data = Eeprom!Stored(e.data, offset, bytes),
                               !.log = Append(@, [at |-> offset, bytes |-> bytes])]
      BY <1>4, <2>2, <3>1 DEF Eeprom!Write
    <3>4. offset \in Nat /\ bytes \in ChipContents /\ "ok" \in Eeprom!Results
      <4>1. ASSUME NEW v \in EepromValues, NEW w \in EepromValues
            PROVE  <<v>> \in ChipContents /\ <<v, w>> \in ChipContents
        BY DEF ChipContents
      <4>2. bytes = <<>> \/ (\E v \in EepromValues : bytes = <<v>>) \/ (\E v, w \in EepromValues : bytes = <<v, w>>)
        BY DEF Eeprom!Payloads
      <4>3. <<>> \in ChipContents
        BY DEF ChipContents
      <4>4. bytes \in ChipContents
        <5>1. CASE \E v \in EepromValues : bytes = <<v>>
          BY <4>1, <5>1, Zenon
        <5>2. CASE \E v, w \in EepromValues : bytes = <<v, w>>
          BY <4>1, <5>2, Zenon
        <5>3. QED BY <4>2, <4>3, <5>1, <5>2, Zenon
      <4>5. offset \in Nat
        BY DEF Eeprom!Offsets
      <4>6. QED BY <1>2, <4>4, <4>5
    <3>5. ASSUME NEW result \in Eeprom!Results PROVE ChipHas([e EXCEPT !.result = result])
      BY <3>2, ChipAnswers
    <3>6. ChipHas([e EXCEPT !.result = "ok", !.data = Eeprom!Stored(e.data, offset, bytes),
                            !.log = Append(@, [at |-> offset, bytes |-> bytes])])
      BY <3>2, <3>4, ChipWrites
    <3>7. QED BY <1>2, <3>3, <3>5, <3>6
  <2>3. QED BY <2>1, <2>2
<1>5. CASE UNCHANGED chip
  BY <1>5
<1>6. QED BY <1>1, <1>3, <1>4, <1>5 DEF Eeprom!Next

(* The EEPROM: what a save will write explains what the guest sees, and    *)
(* the image keeps the size it was loaded with.                            *)
THEOREM EepromLogsEveryWrite ==
  ASSUME Eeprom!EepromAssumption
  PROVE  Eeprom!Spec => [](Eeprom!TypeOK /\ Eeprom!LogIsImage)
<1>1. Eeprom!Init => ChipHas(chip)
  BY ChipInit
<1>2. ChipHas(chip) /\ [Eeprom!Next]_chip => ChipHas(chip)'
  BY ChipStep
<1>3. ChipHas(chip) => Eeprom!TypeOK /\ Eeprom!LogIsImage
  BY DEF ChipHas, ChipStates, ChipEntries, ChipContents, ChipReplayed, Eeprom!TypeOK, Eeprom!LogIsImage
<1>4. QED BY <1>1, <1>2, <1>3, PTL DEF Eeprom!Spec

-------------------------------------------------------------------------------
(* The saves of close, and the two files of the NAND.                      *)

CONSTANTS Sessions, Seeds, SeedImage, GuestOps, Absent, Cells, Bits, Nobody
VARIABLES files, disk, lock, nor, eeprom, pc, seed, image, log, rewrite, torn

Save == INSTANCE NandSave

Holding == {"locked", "merged", "written"} \cup Save!MidSave

(* The holder of the lock is in its save, and nobody else is.              *)
HolderSaves == \A s \in Sessions : pc[s] \in Holding => lock = s

Started == \A s \in Sessions : pc[s] # "off" => seed[s] \in Seeds

Pair(f) == IF f.bin = Absent THEN f.json = Absent
           ELSE f.json # Absent /\ f.from = {f.json}

(* What the two files are while a session replaces or removes them.        *)
HalfWay(s) ==
  /\ pc[s] \in {"binReplaced", "binWritten", "jsonReplaced"} =>
       /\ files.bin # Absent /\ files.from = {seed[s]}
       /\ pc[s] = "jsonReplaced" => files.json = seed[s]
  /\ pc[s] \in {"binUnlinked", "binGone", "jsonUnlinked"} =>
       /\ files.bin = Absent
       /\ pc[s] = "jsonUnlinked" => files.json = Absent
  /\ pc[s] = "merged" /\ files.bin # Absent => files.json = seed[s]

(* A change of the files waits for the directory's fsync.                  *)
Unsynced == {"binReplaced", "jsonReplaced", "binUnlinked", "jsonUnlinked"}

PairFits ==
  ~torn =>
    /\ (\A s \in Sessions : pc[s] \notin Save!MidSave) => Pair(files)
    /\ (\A s \in Sessions : pc[s] \notin Unsynced) => disk = {files}
    /\ \A s \in Sessions : HalfWay(s)

(* Where a session is, and which media have its log.                       *)
Before == {"off", "running", "closing", "skipped"}
Unwritten == Before \cup {"norSaved", "eepromSaved", "locked", "merged"}
Behind == {"binWritten", "jsonReplaced", "binGone", "jsonUnlinked", "written", "closed"}

LogsSoFar(s) ==
  /\ \A d \in disk : s \in d.by => s \in eeprom
  /\ s \in eeprom => s \in nor
  /\ pc[s] \in Before => s \notin nor
  /\ pc[s] = "norSaved" => s \in nor
  /\ pc[s] \in {"eepromSaved", "closed"} \cup Holding => s \in eeprom
  /\ pc[s] \in Unwritten => \A d \in disk : s \notin d.by
  /\ pc[s] \in Behind /\ s \in files.by => \A d \in disk : s \in d.by
  /\ pc[s] = "closed" => log[s] = Save!NoEffect

SaveInv ==
  /\ Save!TypeOK /\ files \in disk
  /\ HolderSaves /\ Started /\ PairFits
  /\ \A s \in Sessions : LogsSoFar(s)

LEMMA EffectsAreEffects ==
  /\ Save!NoEffect \in Save!Effect
  /\ Save!Blank \in Save!Image
  /\ \A op \in Save!Operation : Save!EffectOf(op) \in Save!Effect
  /\ \A e \in Save!Effect, f \in Save!Effect : Save!Then(e, f) \in Save!Effect
  /\ \A e \in Save!Effect, i \in Save!Image : Save!Apply(e, i) \in Save!Image
  /\ \A op \in Save!Operation, i \in Save!Image : Save!ApplyOperation(op, i) \in Save!Image
<1>1. Save!NoEffect \in Save!Effect
  BY DEF Save!NoEffect, Save!Effect, Save!ByteEffect, Save!Byte
<1>2. Save!Blank \in Save!Image
  BY DEF Save!Blank, Save!Image, Save!Byte
<1>3. ASSUME NEW op \in Save!Operation PROVE Save!EffectOf(op) \in Save!Effect
  <2>1. op.byte \in Save!Byte /\ Save!ApplyToByte(op, {}) \in Save!Byte
    BY DEF Save!Operation, Save!ApplyToByte, Save!Byte
  <2>2. Bits \in Save!Byte /\ {} \in Save!Byte
    BY DEF Save!Byte
  <2>3. QED BY <2>1, <2>2 DEF Save!EffectOf, Save!Effect, Save!ByteEffect
<1>4. ASSUME NEW e \in Save!Effect, NEW f \in Save!Effect
      PROVE  Save!Then(e, f) \in Save!Effect
  BY DEF Save!Then, Save!Effect, Save!ByteEffect, Save!Byte
<1>5. ASSUME NEW e \in Save!Effect, NEW i \in Save!Image
      PROVE  Save!Apply(e, i) \in Save!Image
  BY DEF Save!Apply, Save!Effect, Save!ByteEffect, Save!Byte, Save!Image
<1>6. ASSUME NEW op \in Save!Operation, NEW i \in Save!Image
      PROVE  Save!ApplyOperation(op, i) \in Save!Image
  <2>1. \A old \in Save!Byte : Save!ApplyToByte(op, old) \in Save!Byte
    BY DEF Save!Operation, Save!ApplyToByte, Save!Byte
  <2>2. QED BY <2>1 DEF Save!ApplyOperation, Save!Image
<1>7. QED BY <1>1, <1>2, <1>3, <1>4, <1>5, <1>6

(* One session goes from one place to another, the files stay.             *)
LEMMA SaveMoves ==
  ASSUME SaveInv, NEW s \in Sessions, NEW label \in Save!PCs,
         pc' = [pc EXCEPT ![s] = label],
         Save!TypeOK', UNCHANGED <<files, disk, seed, torn>>,
         nor \subseteq nor', eeprom \subseteq eeprom',
         \A t \in Sessions \ {s} : (t \in nor' <=> t \in nor) /\ (t \in eeprom' <=> t \in eeprom)
                                   /\ log'[t] = log[t],
         s \in eeprom' => s \in nor',
         label \in Before => s \notin nor',
         label = "norSaved" => s \in nor',
         label \in {"eepromSaved", "closed"} \cup Holding => s \in eeprom',
         label = "closed" => log'[s] = Save!NoEffect,
         label # "off", seed[s] \in Seeds,
         label \in Unwritten => pc[s] \in Unwritten,
         label \in Behind => pc[s] \in Behind \cup Unwritten,
         label \in Holding => lock' = s,
         \A t \in Sessions \ {s} : pc[t] \in Holding => lock' = t,
         ~torn => /\ pc[s] \in Save!MidSave =>
                       label \in Save!MidSave \/ Pair(files)
                  /\ label \notin Unsynced /\ pc[s] \notin Unsynced
                  /\ label \notin {"binReplaced", "binWritten", "jsonReplaced"}
                  /\ label \in {"binUnlinked", "binGone", "jsonUnlinked"} => files.bin = Absent
                  /\ label = "merged" /\ files.bin # Absent => files.json = seed[s]
  PROVE  SaveInv'
<1>1. /\ pc \in [Sessions -> Save!PCs] /\ pc'[s] = label
      /\ \A t \in Sessions \ {s} : pc'[t] = pc[t]
  BY DEF SaveInv, Save!TypeOK
<1>2. HolderSaves' /\ Started' /\ (files \in disk)'
  BY <1>1 DEF SaveInv, HolderSaves, Started
<1>3. PairFits'
  <2>1. SUFFICES ASSUME ~torn PROVE PairFits'
    BY DEF PairFits
  <2>2. /\ (\A t \in Sessions : pc[t] \notin Save!MidSave) => Pair(files)
        /\ (\A t \in Sessions : pc[t] \notin Unsynced) => disk = {files}
        /\ \A t \in Sessions : HalfWay(t)
    BY <2>1 DEF SaveInv, PairFits
  <2>3. ASSUME \A t \in Sessions : pc'[t] \notin Save!MidSave PROVE Pair(files)
    BY <1>1, <2>1, <2>2, <2>3
  <2>4. ASSUME \A t \in Sessions : pc'[t] \notin Unsynced PROVE disk = {files}
    BY <1>1, <2>1, <2>2, <2>4
  <2>5. ASSUME NEW t \in Sessions PROVE HalfWay(t)'
    <3>1. CASE t = s
      BY <1>1, <2>1, <3>1 DEF HalfWay, Unsynced
    <3>2. CASE t # s
      BY <1>1, <2>2, <3>2 DEF HalfWay
    <3>3. QED BY <3>1, <3>2
  <2>6. QED BY <2>3, <2>4, <2>5 DEF PairFits, Pair
<1>4. ASSUME NEW t \in Sessions PROVE LogsSoFar(t)'
  <2>1. LogsSoFar(t)
    BY DEF SaveInv
  <2>2. CASE t = s
    BY <1>1, <2>1, <2>2 DEF SaveInv, LogsSoFar
  <2>3. CASE t # s
    BY <1>1, <2>1, <2>3 DEF LogsSoFar
  <2>4. QED BY <2>2, <2>3
<1>5. QED BY <1>2, <1>3, <1>4 DEF SaveInv

LEMMA OnlyHolderSaves ==
  ASSUME Save!NandSaveAssumption, SaveInv, NEW s \in Sessions, pc[s] \in Holding
  PROVE  lock = s /\ lock # Nobody /\ \A t \in Sessions \ {s} : pc[t] \notin Holding
BY DEF SaveInv, HolderSaves, Save!NandSaveAssumption

LEMMA SessionSeed ==
  ASSUME SaveInv, NEW s \in Sessions, pc[s] # "off"
  PROVE  seed[s] \in Seeds
BY DEF SaveInv, Started

LEMMA SaveStart ==
  ASSUME Save!NandSaveAssumption, SaveInv, NEW s \in Sessions, NEW configured \in Seeds,
         Save!Start(s, configured)
  PROVE  SaveInv'
<1>1. /\ pc[s] = "off" /\ pc' = [pc EXCEPT ![s] = "running"]
      /\ seed' = [seed EXCEPT ![s] = configured]
      /\ UNCHANGED <<files, disk, nor, eeprom, lock, log, torn>>
  BY DEF Save!Start, Save!Goto, Save!media
<1>2. Save!TypeOK /\ pc \in [Sessions -> Save!PCs]
  BY DEF SaveInv, Save!TypeOK
<1>3. /\ pc'[s] = "running" /\ seed'[s] = configured
      /\ \A t \in Sessions \ {s} : pc'[t] = pc[t] /\ seed'[t] = seed[t]
  BY <1>1, <1>2 DEF Save!TypeOK
<1>4. Save!TypeOK'
  <2> DEFINE begun == IF files.bin = Absent THEN SeedImage[configured] ELSE files.bin
             legacy == files.bin # Absent /\ files.json = Absent
  <2>1. begun \in Save!Image /\ legacy \in BOOLEAN
    BY <1>2 DEF Save!TypeOK, Save!Files, Save!NandSaveAssumption
  <2>2. image' = [image EXCEPT ![s] = begun] /\ rewrite' = [rewrite EXCEPT ![s] = legacy]
    BY DEF Save!Start
  <2> HIDE DEF begun, legacy
  <2>3. "running" \in Save!PCs
    BY DEF Save!PCs
  <2>4. QED BY <1>1, <1>2, <2>1, <2>2, <2>3 DEF Save!TypeOK
<1>5. HolderSaves' /\ Started' /\ (files \in disk)'
  BY <1>1, <1>3 DEF SaveInv, HolderSaves, Started, Holding, Save!MidSave
<1>6. PairFits'
  <2>1. \A t \in Sessions : HalfWay(t) => HalfWay(t)'
    BY <1>1, <1>3 DEF HalfWay
  <2>2. \A t \in Sessions : /\ pc'[t] \in Save!MidSave <=> pc[t] \in Save!MidSave
                            /\ pc'[t] \in Unsynced <=> pc[t] \in Unsynced
    BY <1>1, <1>3 DEF Save!MidSave, Unsynced
  <2>3. QED BY <1>1, <2>1, <2>2 DEF SaveInv, PairFits, Pair
<1>7. ASSUME NEW t \in Sessions PROVE LogsSoFar(t)'
  <2>1. LogsSoFar(t)
    BY DEF SaveInv
  <2>2. CASE t = s
    BY <1>1, <1>3, <2>1, <2>2 DEF LogsSoFar, Before, Unwritten, Behind, Holding, Save!MidSave
  <2>3. CASE t # s
    BY <1>1, <1>3, <2>1, <2>3 DEF LogsSoFar
  <2>4. QED BY <2>2, <2>3
<1>8. QED BY <1>4, <1>5, <1>6, <1>7 DEF SaveInv

LEMMA SaveOperate ==
  ASSUME Save!NandSaveAssumption, SaveInv, NEW s \in Sessions, NEW op \in GuestOps,
         Save!Operate(s, op)
  PROVE  SaveInv'
<1>1. /\ pc[s] = "running"
      /\ UNCHANGED <<files, disk, nor, eeprom, lock, pc, seed, rewrite, torn>>
      /\ op \in Save!Operation /\ Save!TypeOK /\ seed[s] \in Seeds
  BY SessionSeed DEF SaveInv, Save!Operate, Save!media, Save!NandSaveAssumption
<1> DEFINE operated == Save!ApplyOperation(op, image[s])
           logged == Save!Then(log[s], Save!EffectOf(op))
<1>2. /\ image' = [image EXCEPT ![s] = operated] /\ operated \in Save!Image
      /\ log' = [log EXCEPT ![s] = logged] /\ logged \in Save!Effect
  BY <1>1, EffectsAreEffects DEF Save!Operate, Save!TypeOK
<1> HIDE DEF operated, logged
<1>3. Save!TypeOK'
  BY <1>1, <1>2 DEF Save!TypeOK
<1>4. \A t \in Sessions \ {s} : log'[t] = log[t]
  BY <1>1, <1>2 DEF Save!TypeOK
<1>5. pc' = [pc EXCEPT ![s] = "running"] /\ "running" \in Save!PCs
  BY <1>1 DEF Save!TypeOK, Save!PCs
<1>6. LogsSoFar(s) /\ HolderSaves
  BY DEF SaveInv
<1>7. QED BY <1>1, <1>3, <1>4, <1>5, <1>6, SaveMoves
          DEF LogsSoFar, HolderSaves, Holding, Save!MidSave, Before, Unwritten, Behind, Unsynced

LEMMA SaveClose ==
  ASSUME Save!NandSaveAssumption, SaveInv, NEW s \in Sessions, Save!Close(s)
  PROVE  SaveInv'
<1>1. PICK label \in {"skipped", "closing"} : pc' = [pc EXCEPT ![s] = label]
  BY DEF Save!Close, Save!Goto
<1>2. /\ pc[s] = "running" /\ label \in Save!PCs
      /\ UNCHANGED <<files, disk, nor, eeprom, lock, seed, image, log, rewrite, torn>>
      /\ Save!TypeOK /\ seed[s] \in Seeds
  BY SessionSeed DEF SaveInv, Save!Close, Save!media, Save!session, Save!PCs
<1>3. Save!TypeOK'
  BY <1>1, <1>2 DEF Save!TypeOK
<1>4. LogsSoFar(s) /\ HolderSaves
  BY DEF SaveInv
<1>5. QED BY <1>1, <1>2, <1>3, <1>4, SaveMoves
          DEF LogsSoFar, HolderSaves, Holding, Save!MidSave, Before, Unwritten, Behind, Unsynced

LEMMA SaveSaveNor ==
  ASSUME Save!NandSaveAssumption, SaveInv, NEW s \in Sessions, Save!SaveNor(s)
  PROVE  SaveInv'
<1>1. PICK label \in {"norSaved", "failed"} :
        /\ pc' = [pc EXCEPT ![s] = label] /\ nor' \in {nor, nor \cup {s}}
        /\ label = "norSaved" => s \in nor'
  BY DEF Save!SaveNor, Save!Goto
<1>2. /\ pc[s] = "closing" /\ label \in Save!PCs
      /\ UNCHANGED <<files, disk, eeprom, lock, seed, image, log, rewrite, torn>>
      /\ Save!TypeOK /\ seed[s] \in Seeds
  BY SessionSeed DEF SaveInv, Save!SaveNor, Save!session, Save!PCs
<1>3. Save!TypeOK'
  BY <1>1, <1>2 DEF Save!TypeOK
<1>4. LogsSoFar(s) /\ HolderSaves
  BY DEF SaveInv
<1>5. s \notin eeprom
  BY <1>2, <1>4 DEF LogsSoFar, Before
<1>6. QED BY <1>1, <1>2, <1>3, <1>4, <1>5, SaveMoves
          DEF HolderSaves, Holding, Save!MidSave, Before, Unwritten, Behind, Unsynced

LEMMA SaveSaveEeprom ==
  ASSUME Save!NandSaveAssumption, SaveInv, NEW s \in Sessions, Save!SaveEeprom(s)
  PROVE  SaveInv'
<1>1. PICK label \in {"eepromSaved", "failed"} :
        /\ pc' = [pc EXCEPT ![s] = label] /\ eeprom' \in {eeprom, eeprom \cup {s}}
        /\ label = "eepromSaved" => s \in eeprom'
  BY DEF Save!SaveEeprom, Save!Goto
<1>2. /\ pc[s] = "norSaved" /\ label \in Save!PCs
      /\ UNCHANGED <<files, disk, nor, lock, seed, image, log, rewrite, torn>>
      /\ Save!TypeOK /\ seed[s] \in Seeds
  BY SessionSeed DEF SaveInv, Save!SaveEeprom, Save!session, Save!PCs
<1>3. Save!TypeOK'
  BY <1>1, <1>2 DEF Save!TypeOK
<1>4. HolderSaves /\ s \in nor
  BY <1>2 DEF SaveInv, LogsSoFar
<1>5. QED BY <1>1, <1>2, <1>3, <1>4, SaveMoves
          DEF HolderSaves, Holding, Save!MidSave, Before, Unwritten, Behind, Unsynced

LEMMA SaveNothingToSave ==
  ASSUME Save!NandSaveAssumption, SaveInv, NEW s \in Sessions, Save!NothingToSave(s)
  PROVE  SaveInv'
<1>1. /\ pc[s] = "eepromSaved" /\ pc' = [pc EXCEPT ![s] = "closed"] /\ "closed" \in Save!PCs
      /\ UNCHANGED <<files, disk, nor, eeprom, lock, seed, image, log, rewrite, torn>>
      /\ Save!TypeOK /\ seed[s] \in Seeds /\ log[s] = Save!NoEffect
  BY SessionSeed DEF SaveInv, Save!NothingToSave, Save!media, Save!session, Save!PCs, Save!Goto
<1>2. Save!TypeOK'
  BY <1>1 DEF Save!TypeOK
<1>3. HolderSaves /\ LogsSoFar(s)
  BY DEF SaveInv
<1>4. QED BY <1>1, <1>2, <1>3, SaveMoves
          DEF LogsSoFar, HolderSaves, Holding, Save!MidSave, Before, Unwritten, Behind, Unsynced

LEMMA SaveLock ==
  ASSUME Save!NandSaveAssumption, SaveInv, NEW s \in Sessions, Save!Lock(s)
  PROVE  SaveInv'
<1>1. PICK label \in {"locked", "failed"} :
        /\ pc' = [pc EXCEPT ![s] = label]
        /\ label = "locked" => lock = Nobody /\ lock' = s
        /\ label = "failed" => lock' = lock
  BY DEF Save!Lock, Save!Goto
<1>2. /\ pc[s] = "eepromSaved" /\ label \in Save!PCs
      /\ UNCHANGED <<files, disk, nor, eeprom, seed, image, log, rewrite, torn>>
      /\ Save!TypeOK /\ seed[s] \in Seeds
  BY SessionSeed DEF SaveInv, Save!Lock, Save!media, Save!session, Save!PCs
<1>3. Save!TypeOK'
  BY <1>1, <1>2 DEF Save!TypeOK
<1>4. HolderSaves /\ LogsSoFar(s) /\ Nobody \notin Sessions
  BY DEF SaveInv, Save!NandSaveAssumption
<1>5. QED BY <1>1, <1>2, <1>3, <1>4, SaveMoves
          DEF LogsSoFar, HolderSaves, Holding, Save!MidSave, Before, Unwritten, Behind, Unsynced

(* The metadata of an image that lies there were checked again.            *)
LEMMA SaveMerge ==
  ASSUME Save!NandSaveAssumption, SaveInv, NEW s \in Sessions, Save!Merge(s)
  PROVE  SaveInv'
<1>1. /\ pc[s] = "locked" /\ pc' = [pc EXCEPT ![s] = "merged"] /\ "merged" \in Save!PCs
      /\ UNCHANGED <<files, disk, nor, eeprom, lock, seed, log, rewrite, torn>>
      /\ Save!TypeOK /\ seed[s] \in Seeds
  BY SessionSeed DEF SaveInv, Save!Merge, Save!media, Save!PCs, Save!Goto
<1> DEFINE latest == IF files.bin = Absent THEN SeedImage[seed[s]] ELSE files.bin
           merged == Save!Apply(log[s], latest)
<1>2. Save!TypeOK'
  <2>1. latest \in Save!Image
    BY <1>1 DEF Save!TypeOK, Save!Files, Save!NandSaveAssumption
  <2>2. merged \in Save!Image
    BY <1>1, <2>1, EffectsAreEffects DEF Save!TypeOK
  <2>3. image' = [image EXCEPT ![s] = merged]
    BY DEF Save!Merge
  <2> HIDE DEF merged
  <2>4. QED BY <1>1, <2>2, <2>3 DEF Save!TypeOK
<1>3. HolderSaves /\ LogsSoFar(s) /\ lock = s /\ \A t \in Sessions \ {s} : pc[t] \notin Holding
  BY <1>1, OnlyHolderSaves DEF SaveInv, Holding
<1>4. ~torn /\ files.bin # Absent => files.json = seed[s]
  <2>1. SUFFICES ASSUME ~torn, files.bin # Absent PROVE files.json = seed[s]
    OBVIOUS
  <2>2. \A t \in Sessions : pc[t] \notin Save!MidSave
    BY <1>1, <1>3 DEF Holding, Save!MidSave
  <2>3. Pair(files)
    BY <2>1, <2>2 DEF SaveInv, PairFits
  <2>4. QED BY <2>1, <2>3 DEF Pair, Save!Merge, Save!MetadataFits
<1>5. QED BY <1>1, <1>2, <1>3, <1>4, SaveMoves
          DEF LogsSoFar, Holding, Save!MidSave, Before, Unwritten, Behind, Unsynced

LEMMA SaveNothingToUnlink ==
  ASSUME Save!NandSaveAssumption, SaveInv, NEW s \in Sessions, Save!NothingToUnlink(s)
  PROVE  SaveInv'
<1>1. /\ UNCHANGED <<files, disk, nor, eeprom, lock, seed, image, log, rewrite, torn>>
      /\ Save!TypeOK /\ HolderSaves /\ LogsSoFar(s)
  BY DEF SaveInv, Save!NothingToUnlink, Save!media, Save!session
<1>2. CASE pc[s] = "merged" /\ files.bin = Absent /\ pc' = [pc EXCEPT ![s] = "binGone"]
  <2>1. seed[s] \in Seeds /\ lock = s /\ (\A t \in Sessions \ {s} : pc[t] \notin Holding)
    BY <1>2, SessionSeed, OnlyHolderSaves DEF Holding
  <2>2. "binGone" \in Save!PCs
    BY DEF Save!PCs, Save!MidSave
  <2>3. Save!TypeOK'
    BY <1>1, <1>2, <2>2 DEF Save!TypeOK
  <2>4. QED BY <1>1, <1>2, <2>1, <2>2, <2>3, SaveMoves
            DEF LogsSoFar, Holding, Save!MidSave, Before, Unwritten, Behind, Unsynced
<1>3. CASE pc[s] = "binGone" /\ files.json = Absent /\ pc' = [pc EXCEPT ![s] = "written"]
  <2>1. seed[s] \in Seeds /\ lock = s /\ (\A t \in Sessions \ {s} : pc[t] \notin Holding)
    BY <1>3, SessionSeed, OnlyHolderSaves DEF Holding, Save!MidSave
  <2>2. "written" \in Save!PCs
    BY DEF Save!PCs
  <2>3. Save!TypeOK'
    BY <1>1, <1>3, <2>2 DEF Save!TypeOK
  <2>4. ~torn => Pair(files)
    BY <1>3 DEF SaveInv, PairFits, HalfWay, Pair
  <2>5. QED BY <1>1, <1>3, <2>1, <2>2, <2>3, <2>4, SaveMoves
            DEF LogsSoFar, Holding, Save!MidSave, Before, Unwritten, Behind, Unsynced
<1>4. QED BY <1>2, <1>3 DEF Save!NothingToUnlink, Save!Goto

LEMMA SaveAdopt ==
  ASSUME Save!NandSaveAssumption, SaveInv, NEW s \in Sessions, Save!Adopt(s)
  PROVE  SaveInv'
<1>1. /\ pc[s] = "written" /\ pc' = [pc EXCEPT ![s] = "closed"] /\ "closed" \in Save!PCs
      /\ UNCHANGED <<files, disk, nor, eeprom, seed, image, torn>> /\ lock' = Nobody
      /\ log' = [log EXCEPT ![s] = Save!NoEffect] /\ rewrite' = [rewrite EXCEPT ![s] = FALSE]
      /\ Save!TypeOK /\ seed[s] \in Seeds /\ LogsSoFar(s)
  BY SessionSeed DEF SaveInv, Save!Adopt, Save!media, Save!PCs, Save!Goto
<1>2. Save!TypeOK'
  BY <1>1, EffectsAreEffects DEF Save!TypeOK
<1>3. lock = s /\ \A t \in Sessions \ {s} : pc[t] \notin Holding
  BY <1>1, OnlyHolderSaves DEF Holding
<1>4. log'[s] = Save!NoEffect /\ \A t \in Sessions \ {s} : log'[t] = log[t]
  BY <1>1 DEF Save!TypeOK
<1>5. QED BY <1>1, <1>2, <1>3, <1>4, SaveMoves
          DEF LogsSoFar, Holding, Save!MidSave, Before, Unwritten, Behind, Unsynced

-------------------------------------------------------------------------------
(* A replaced or removed file: what it was stays possible until the fsync. *)
LEMMA SaveStores ==
  ASSUME Save!NandSaveAssumption, SaveInv, NEW s \in Sessions, NEW f \in Save!Files,
         NEW label \in Unsynced, pc[s] \in Holding, Save!Store(f),
         pc' = [pc EXCEPT ![s] = label],
         UNCHANGED <<nor, eeprom, lock, seed, image, log, rewrite, torn>>,
         f.by \in {files.by, files.by \cup {s}},
         label \in Behind => f.by = files.by /\ pc[s] \in Behind,
         ~torn => HalfWay(s)'
  PROVE  SaveInv'
<1>1. /\ pc \in [Sessions -> Save!PCs] /\ pc'[s] = label /\ Save!TypeOK
      /\ \A t \in Sessions \ {s} : pc'[t] = pc[t]
      /\ files' = f /\ disk' = disk \cup {f}
  BY DEF SaveInv, Save!TypeOK, Save!Store
<1>2. label \in Save!PCs /\ label \in Save!MidSave
  BY DEF Unsynced, Save!PCs, Save!MidSave
<1>3. Save!TypeOK'
  <2>1. pc' \in [Sessions -> Save!PCs]
    BY <1>1, <1>2
  <2>2. QED BY <1>1, <2>1 DEF Save!TypeOK
<1>4. lock = s /\ \A t \in Sessions \ {s} : pc[t] \notin Holding
  BY OnlyHolderSaves
<1>5. HolderSaves' /\ Started' /\ (files \in disk)'
  <2>1. pc[s] # "off"
    BY DEF Holding, Save!MidSave
  <2>2. QED BY <1>1, <1>4, <2>1 DEF SaveInv, HolderSaves, Started
<1>6. PairFits'
  <2>1. SUFFICES ASSUME ~torn PROVE PairFits'
    BY DEF PairFits
  <2>2. ASSUME NEW t \in Sessions \ {s} PROVE HalfWay(t)'
    BY <1>1, <1>4 DEF HalfWay, Holding, Save!MidSave
  <2>3. QED BY <1>1, <1>2, <2>1, <2>2 DEF PairFits
<1>7. ASSUME NEW t \in Sessions PROVE LogsSoFar(t)'
  <2>1. LogsSoFar(t)
    BY DEF SaveInv
  <2>2. files \in disk
    BY DEF SaveInv
  <2>3. CASE t = s
    <3>1. s \in eeprom /\ s \in nor
      BY <2>1, <2>3 DEF LogsSoFar
    <3>2. label \notin Before /\ label \notin Unwritten /\ label \notin {"norSaved", "closed"}
      BY DEF Unsynced, Before, Unwritten
    <3>3. label \in Behind /\ s \in f.by => \A d \in disk' : s \in d.by
      BY <1>1, <2>1, <2>2, <2>3 DEF LogsSoFar
    <3>4. QED BY <1>1, <2>3, <3>1, <3>2, <3>3 DEF LogsSoFar
  <2>4. CASE t # s
    <3>1. pc'[t] = pc[t] /\ (t \in f.by <=> t \in files.by)
      BY <1>1, <2>4
    <3>2. \A d \in disk' : d \in disk \/ d = f
      BY <1>1
    <3>3. QED BY <1>1, <2>1, <2>2, <3>1, <3>2 DEF LogsSoFar
  <2>5. QED BY <2>3, <2>4
<1>8. QED BY <1>3, <1>5, <1>6, <1>7 DEF SaveInv

LEMMA GrownFiles ==
  ASSUME Save!NandSaveAssumption, SaveInv, NEW s \in Sessions, pc[s] = "merged",
         NEW bin \in Save!Image \cup {Absent}
  PROVE  /\ Save!Grown(s, bin) \in Save!Files
         /\ Save!Grown(s, bin).bin = bin /\ Save!Grown(s, bin).json = files.json
         /\ Save!Grown(s, bin).by = files.by \cup {s}
         /\ ~torn => Save!Grown(s, bin).from = {seed[s]}
<1>1. files \in Save!Files /\ seed[s] \in Seeds /\ lock = s
      /\ \A t \in Sessions \ {s} : pc[t] \notin Holding
  BY SessionSeed, OnlyHolderSaves DEF SaveInv, Save!TypeOK, Holding
<1> DEFINE from == (IF files.bin = Absent THEN {} ELSE files.from) \cup {seed[s]}
           by == files.by \cup {s}
<1>2. from \in SUBSET Seeds /\ by \in SUBSET Sessions
  BY <1>1 DEF Save!Files
<1>3. ~torn => from = {seed[s]}
  <2>1. SUFFICES ASSUME ~torn, files.bin # Absent PROVE from = {seed[s]}
    OBVIOUS
  <2>2. files.json = seed[s]
    BY <2>1 DEF SaveInv, PairFits, HalfWay
  <2>3. \A t \in Sessions : pc[t] \notin Save!MidSave
    BY <1>1 DEF Holding, Save!MidSave
  <2>4. QED BY <2>1, <2>2, <2>3 DEF SaveInv, PairFits, Pair
<1>4. Save!Grown(s, bin) = [files EXCEPT !.bin = bin, !.from = from, !.by = by]
  BY DEF Save!Grown
<1> HIDE DEF from, by
<1>5. QED BY <1>1, <1>2, <1>3, <1>4 DEF by, Save!Files

LEMMA SaveReplaceBin ==
  ASSUME Save!NandSaveAssumption, SaveInv, NEW s \in Sessions, Save!ReplaceBin(s)
  PROVE  SaveInv'
<1>1. /\ pc[s] = "merged" /\ pc' = [pc EXCEPT ![s] = "binReplaced"]
      /\ UNCHANGED <<nor, eeprom, lock, seed, image, log, rewrite, torn>>
      /\ Save!Store(Save!Grown(s, image[s]))
      /\ image[s] \in Save!Image /\ image[s] # Absent
  BY DEF SaveInv, Save!TypeOK, Save!ReplaceBin, Save!Goto, Save!session,
         Save!NandSaveAssumption
<1> DEFINE f == Save!Grown(s, image[s])
<1>2. /\ f \in Save!Files /\ f.bin = image[s] /\ f.by = files.by \cup {s}
      /\ ~torn => f.from = {seed[s]}
  BY <1>1, GrownFiles
<1>3. files' = f /\ Save!Store(f)
  BY <1>1 DEF Save!Store
<1> HIDE DEF f
<1>4. pc'[s] = "binReplaced"
  BY <1>1 DEF SaveInv, Save!TypeOK
<1>5. ~torn => HalfWay(s)'
  BY <1>1, <1>2, <1>3, <1>4 DEF HalfWay
<1>6. "binReplaced" \in Unsynced /\ "binReplaced" \notin Behind /\ pc[s] \in Holding
  BY <1>1 DEF Unsynced, Behind, Holding
<1>7. QED BY <1>1, <1>2, <1>3, <1>5, <1>6, SaveStores

LEMMA SaveUnlinkBin ==
  ASSUME Save!NandSaveAssumption, SaveInv, NEW s \in Sessions, Save!UnlinkBin(s)
  PROVE  SaveInv'
<1>1. /\ pc[s] = "merged" /\ pc' = [pc EXCEPT ![s] = "binUnlinked"]
      /\ UNCHANGED <<nor, eeprom, lock, seed, image, log, rewrite, torn>>
      /\ Save!Store(Save!Grown(s, Absent))
  BY DEF Save!UnlinkBin, Save!Goto, Save!session
<1> DEFINE f == Save!Grown(s, Absent)
<1>2. f \in Save!Files /\ f.bin = Absent /\ f.by = files.by \cup {s}
  BY <1>1, GrownFiles
<1>3. files' = f /\ Save!Store(f)
  BY <1>1 DEF Save!Store
<1> HIDE DEF f
<1>4. pc'[s] = "binUnlinked"
  BY <1>1 DEF SaveInv, Save!TypeOK
<1>5. ~torn => HalfWay(s)'
  BY <1>1, <1>2, <1>3, <1>4 DEF HalfWay
<1>6. "binUnlinked" \in Unsynced /\ "binUnlinked" \notin Behind /\ pc[s] \in Holding
  BY <1>1 DEF Unsynced, Behind, Holding
<1>7. QED BY <1>1, <1>2, <1>3, <1>5, <1>6, SaveStores

LEMMA SaveReplaceJson ==
  ASSUME Save!NandSaveAssumption, SaveInv, NEW s \in Sessions, Save!ReplaceJson(s)
  PROVE  SaveInv'
<1> DEFINE f == [files EXCEPT !.json = seed[s]]
<1>1. /\ pc[s] = "binWritten" /\ pc' = [pc EXCEPT ![s] = "jsonReplaced"]
      /\ UNCHANGED <<nor, eeprom, lock, seed, image, log, rewrite, torn>>
      /\ Save!Store(f) /\ files' = f
  BY DEF Save!ReplaceJson, Save!Goto, Save!session, Save!Store
<1>2. /\ f \in Save!Files /\ f.by = files.by /\ f.bin = files.bin
      /\ f.json = seed[s] /\ f.from = files.from
  BY <1>1, SessionSeed DEF SaveInv, Save!TypeOK, Save!Files
<1> HIDE DEF f
<1>3. pc'[s] = "jsonReplaced"
  BY <1>1 DEF SaveInv, Save!TypeOK
<1>4. ~torn => HalfWay(s)
  BY DEF SaveInv, PairFits
<1>5. ~torn => HalfWay(s)'
  BY <1>1, <1>2, <1>3, <1>4 DEF HalfWay
<1>6. "jsonReplaced" \in Unsynced /\ pc[s] \in Behind /\ pc[s] \in Holding
  BY <1>1 DEF Unsynced, Behind, Holding, Save!MidSave
<1>7. QED BY <1>1, <1>2, <1>5, <1>6, SaveStores

LEMMA SaveUnlinkJson ==
  ASSUME Save!NandSaveAssumption, SaveInv, NEW s \in Sessions, Save!UnlinkJson(s)
  PROVE  SaveInv'
<1> DEFINE f == [files EXCEPT !.json = Absent]
<1>1. /\ pc[s] = "binGone" /\ pc' = [pc EXCEPT ![s] = "jsonUnlinked"]
      /\ UNCHANGED <<nor, eeprom, lock, seed, image, log, rewrite, torn>>
      /\ Save!Store(f) /\ files' = f
  BY DEF Save!UnlinkJson, Save!Goto, Save!session, Save!Store
<1>2. f \in Save!Files /\ f.by = files.by /\ f.bin = files.bin /\ f.json = Absent
  BY DEF SaveInv, Save!TypeOK, Save!Files
<1> HIDE DEF f
<1>3. pc'[s] = "jsonUnlinked"
  BY <1>1 DEF SaveInv, Save!TypeOK
<1>4. ~torn => HalfWay(s)
  BY DEF SaveInv, PairFits
<1>5. ~torn => HalfWay(s)'
  BY <1>1, <1>2, <1>3, <1>4 DEF HalfWay
<1>6. "jsonUnlinked" \in Unsynced /\ pc[s] \in Behind /\ pc[s] \in Holding
  BY <1>1 DEF Unsynced, Behind, Holding, Save!MidSave
<1>7. QED BY <1>1, <1>2, <1>5, <1>6, SaveStores

(* After the fsync only what a reader finds can be there.                  *)
LEMMA SaveSyncDirectory ==
  ASSUME Save!NandSaveAssumption, SaveInv, NEW s \in Sessions, Save!SyncDirectory(s)
  PROVE  SaveInv'
<1> DEFINE label == CASE pc[s] = "binReplaced" -> "binWritten"
                      [] pc[s] = "binUnlinked" -> "binGone"
                      [] OTHER -> "written"
<1>1. /\ pc[s] \in Unsynced /\ pc' = [pc EXCEPT ![s] = label] /\ disk' = {files}
      /\ UNCHANGED <<files, nor, eeprom, lock, seed, image, log, rewrite, torn>>
  BY DEF Save!SyncDirectory, Save!Goto, Save!session, Unsynced
<1>2. /\ pc[s] = "binReplaced" => label = "binWritten"
      /\ pc[s] = "binUnlinked" => label = "binGone"
      /\ pc[s] \in {"jsonReplaced", "jsonUnlinked"} => label = "written"
  OBVIOUS
<1>3. label \in {"binWritten", "binGone", "written"}
  OBVIOUS
<1> HIDE DEF label
<1>4. /\ pc \in [Sessions -> Save!PCs] /\ pc'[s] = label /\ Save!TypeOK /\ files \in disk
      /\ \A t \in Sessions \ {s} : pc'[t] = pc[t]
  BY <1>1 DEF SaveInv, Save!TypeOK
<1>5. Save!TypeOK'
  <2>1. label \in Save!PCs
    BY <1>3 DEF Save!PCs, Save!MidSave
  <2>2. pc' \in [Sessions -> Save!PCs]
    BY <1>1, <1>4, <2>1
  <2>3. QED BY <1>1, <1>4, <2>2 DEF Save!TypeOK
<1>6. pc[s] \in Holding /\ pc[s] # "off"
  BY <1>1 DEF Unsynced, Holding, Save!MidSave
<1>7. lock = s /\ \A t \in Sessions \ {s} : pc[t] \notin Holding
  BY <1>6, OnlyHolderSaves
<1>8. HolderSaves' /\ Started' /\ (files \in disk)'
  BY <1>1, <1>4, <1>6, <1>7 DEF SaveInv, HolderSaves, Started
<1>9. PairFits'
  <2>1. SUFFICES ASSUME ~torn PROVE PairFits'
    BY <1>1 DEF PairFits
  <2>2. HalfWay(s) /\ seed[s] \in Seeds
    BY <1>6, <2>1, SessionSeed DEF SaveInv, PairFits
  <2>3. ASSUME NEW t \in Sessions PROVE HalfWay(t)'
    <3>1. CASE t = s
      BY <1>1, <1>2, <1>3, <1>4, <2>2, <3>1 DEF HalfWay, Unsynced
    <3>2. CASE t # s
      BY <1>4, <1>7, <3>2 DEF HalfWay, Holding, Save!MidSave
    <3>3. QED BY <3>1, <3>2
  <2>4. ASSUME \A t \in Sessions : pc'[t] \notin Save!MidSave PROVE Pair(files)
    <3>1. pc[s] \in {"jsonReplaced", "jsonUnlinked"}
      BY <1>1, <1>2, <1>4, <2>4 DEF Unsynced, Save!MidSave
    <3>2. Absent \notin Seeds
      BY DEF Save!NandSaveAssumption
    <3>3. QED BY <2>2, <3>1, <3>2 DEF HalfWay, Pair
  <2>5. QED BY <1>1, <2>3, <2>4 DEF PairFits, Pair
<1>10. ASSUME NEW t \in Sessions PROVE LogsSoFar(t)'
  <2>1. LogsSoFar(t)
    BY DEF SaveInv
  <2>2. CASE t = s
    BY <1>1, <1>3, <1>4, <1>6, <2>1, <2>2 DEF LogsSoFar, Before, Unwritten
  <2>3. CASE t # s
    BY <1>1, <1>4, <2>1, <2>3 DEF LogsSoFar
  <2>4. QED BY <2>2, <2>3
<1>11. QED BY <1>5, <1>8, <1>9, <1>10 DEF SaveInv

(* A session that ends, in the middle of its save or elsewhere.            *)
LEMMA SaveEnds ==
  ASSUME Save!NandSaveAssumption, SaveInv, NEW s \in Sessions, pc[s] # "off",
         pc' = [pc EXCEPT ![s] = "failed"],
         UNCHANGED <<files, disk, nor, eeprom, seed, image, log, rewrite>>,
         torn' = (torn \/ pc[s] \in Save!MidSave),
         lock' \in Sessions \cup {Nobody},
         \A t \in Sessions \ {s} : pc[t] \in Holding => lock' = t
  PROVE  SaveInv'
<1>1. Save!TypeOK /\ "failed" \in Save!PCs /\ torn' \in BOOLEAN
  BY DEF SaveInv, Save!TypeOK, Save!PCs
<1>2. Save!TypeOK'
  <2>1. pc' \in [Sessions -> Save!PCs]
    BY <1>1 DEF Save!TypeOK
  <2>2. QED BY <1>1, <2>1 DEF Save!TypeOK
<1>3. CASE pc[s] \notin Save!MidSave
  <2>1. torn' = torn /\ seed[s] \in Seeds /\ LogsSoFar(s)
    BY <1>1, <1>3, SessionSeed DEF SaveInv, Save!TypeOK
  <2>2. QED BY <1>1, <1>2, <1>3, <2>1, SaveMoves
            DEF LogsSoFar, Holding, Save!MidSave, Before, Unwritten, Behind, Unsynced
<1>4. CASE pc[s] \in Save!MidSave
  <2>1. /\ pc'[s] = "failed" /\ torn' = TRUE
        /\ \A t \in Sessions \ {s} : pc'[t] = pc[t]
    BY <1>1, <1>4 DEF Save!TypeOK
  <2>2. HolderSaves' /\ Started' /\ (files \in disk)'
    BY <2>1 DEF SaveInv, HolderSaves, Started, Holding, Save!MidSave
  <2>3. PairFits'
    BY <2>1 DEF PairFits
  <2>4. ASSUME NEW t \in Sessions PROVE LogsSoFar(t)'
    <3>1. LogsSoFar(t)
      BY DEF SaveInv
    <3>2. CASE t = s
      BY <2>1, <3>1, <3>2 DEF LogsSoFar, Before, Unwritten, Behind, Holding, Save!MidSave
    <3>3. CASE t # s
      BY <2>1, <3>1, <3>3 DEF LogsSoFar
    <3>4. QED BY <3>2, <3>3
  <2>5. QED BY <1>2, <2>2, <2>3, <2>4 DEF SaveInv
<1>5. QED BY <1>3, <1>4

LEMMA SaveNandFails ==
  ASSUME Save!NandSaveAssumption, SaveInv, NEW s \in Sessions, Save!NandFails(s)
  PROVE  SaveInv'
<1>1. /\ pc[s] \in Holding /\ pc[s] # "off" /\ pc' = [pc EXCEPT ![s] = "failed"]
      /\ UNCHANGED <<files, disk, nor, eeprom, seed, image, log, rewrite>>
      /\ torn' = (torn \/ pc[s] \in Save!MidSave) /\ lock' = Nobody
  BY DEF Save!NandFails, Save!Goto, Save!media, Save!session, Holding, Save!MidSave
<1>2. \A t \in Sessions \ {s} : pc[t] \notin Holding
  BY <1>1, OnlyHolderSaves
<1>3. QED BY <1>1, <1>2, SaveEnds

LEMMA SaveCrash ==
  ASSUME Save!NandSaveAssumption, SaveInv, NEW s \in Sessions, Save!Crash(s)
  PROVE  SaveInv'
<1>1. /\ pc[s] # "off" /\ pc' = [pc EXCEPT ![s] = "failed"]
      /\ UNCHANGED <<files, disk, nor, eeprom, seed, image, log, rewrite>>
      /\ torn' = (torn \/ pc[s] \in Save!MidSave)
      /\ lock' = IF lock = s THEN Nobody ELSE lock
  BY DEF Save!Crash, Save!Goto, Save!media, Save!session
<1>2. lock \in Sessions \cup {Nobody} /\ \A t \in Sessions : pc[t] \in Holding => lock = t
  BY DEF SaveInv, Save!TypeOK, HolderSaves
<1>3. /\ lock' \in Sessions \cup {Nobody}
      /\ \A t \in Sessions \ {s} : pc[t] \in Holding => lock' = t
  BY <1>1, <1>2
<1>4. QED BY <1>1, <1>3, SaveEnds

(* What is left after a loss of power is one of the values on the disk;    *)
(* when nobody was between the two files, there is only one.               *)
LEMMA SavePowerLoss ==
  ASSUME Save!NandSaveAssumption, SaveInv, Save!PowerLoss
  PROVE  SaveInv'
<1>1. /\ files' \in disk /\ disk' = {files'} /\ lock' = Nobody
      /\ UNCHANGED <<nor, eeprom, seed, image, log, rewrite>>
      /\ torn' = (torn \/ \E s \in Sessions : pc[s] \in Save!MidSave)
      /\ pc' = [s \in Sessions |-> IF pc[s] \in {"off", "closed", "skipped"}
                                   THEN pc[s] ELSE "failed"]
      /\ Save!TypeOK
  BY DEF SaveInv, Save!PowerLoss, Save!session
<1>2. ASSUME NEW s \in Sessions
      PROVE  /\ pc'[s] \in {"off", "closed", "skipped", "failed"}
             /\ pc'[s] # "failed" => pc'[s] = pc[s]
             /\ pc'[s] = "failed" => pc[s] # "off"
  BY <1>1
<1>3. Save!TypeOK'
  <2>1. pc' \in [Sessions -> Save!PCs]
    BY <1>1 DEF Save!TypeOK, Save!PCs
  <2>2. files' \in Save!Files /\ disk' \subseteq Save!Files /\ torn' \in BOOLEAN
    BY <1>1 DEF Save!TypeOK
  <2>3. QED BY <1>1, <2>1, <2>2 DEF Save!TypeOK
<1>4. HolderSaves' /\ Started' /\ (files \in disk)'
  BY <1>1, <1>2 DEF SaveInv, HolderSaves, Started, Holding, Save!MidSave
<1>5. PairFits'
  <2>1. SUFFICES ASSUME ~torn' PROVE PairFits'
    BY DEF PairFits
  <2>2. ~torn /\ \A s \in Sessions : pc[s] \notin Save!MidSave
    BY <1>1, <2>1
  <2>3. \A s \in Sessions : pc[s] \notin Unsynced
    BY <2>2 DEF Unsynced, Save!MidSave
  <2>4. Pair(files) /\ disk = {files}
    BY <2>2, <2>3 DEF SaveInv, PairFits
  <2>5. files' = files
    BY <1>1, <2>4
  <2>6. \A s \in Sessions : HalfWay(s)'
    BY <1>2 DEF HalfWay
  <2>7. QED BY <1>1, <2>4, <2>5, <2>6 DEF PairFits, Pair
<1>6. ASSUME NEW s \in Sessions PROVE LogsSoFar(s)'
  <2>1. LogsSoFar(s)
    BY DEF SaveInv
  <2>2. QED BY <1>1, <1>2, <2>1 DEF LogsSoFar, Before, Unwritten, Behind, Holding, Save!MidSave
<1>7. QED BY <1>3, <1>4, <1>5, <1>6 DEF SaveInv

LEMMA SaveInit ==
  ASSUME Save!NandSaveAssumption, Save!Init
  PROVE  SaveInv
<1>1. Save!TypeOK
  <2>1. files \in Save!Files
    BY DEF Save!Init, Save!Files
  <2>2. QED BY <2>1, EffectsAreEffects DEF Save!Init, Save!TypeOK, Save!PCs
<1>2. /\ files.bin = Absent /\ files.json = Absent /\ files.by = {} /\ disk = {files}
      /\ nor = {} /\ eeprom = {} /\ \A s \in Sessions : pc[s] = "off"
  BY DEF Save!Init
<1>3. HolderSaves /\ Started /\ files \in disk
  BY <1>2 DEF HolderSaves, Started, Holding, Save!MidSave
<1>4. PairFits
  BY <1>2 DEF PairFits, Pair, HalfWay
<1>5. \A s \in Sessions : LogsSoFar(s)
  BY <1>2 DEF LogsSoFar, Before, Unwritten, Behind, Holding, Save!MidSave
<1>6. QED BY <1>1, <1>3, <1>4, <1>5 DEF SaveInv

LEMMA SaveStep ==
  ASSUME Save!NandSaveAssumption, SaveInv, [Save!Next]_(Save!vars)
  PROVE  SaveInv'
<1>1. CASE Save!PowerLoss
  BY <1>1, SavePowerLoss
<1>2. ASSUME NEW s \in Sessions,
             \/ \E configured \in Seeds : Save!Start(s, configured)
             \/ \E op \in GuestOps : Save!Operate(s, op)
             \/ Save!Close(s) \/ Save!Crash(s)
      PROVE  SaveInv'
  BY <1>2, SaveStart, SaveOperate, SaveClose, SaveCrash
<1>3. ASSUME NEW s \in Sessions, Save!Save(s)
      PROVE  SaveInv'
  BY <1>3, SaveSaveNor, SaveSaveEeprom, SaveNothingToSave, SaveLock, SaveMerge,
     SaveReplaceBin, SaveReplaceJson, SaveUnlinkBin, SaveUnlinkJson, SaveNothingToUnlink,
     SaveSyncDirectory, SaveAdopt, SaveNandFails DEF Save!Save
<1>4. CASE UNCHANGED Save!vars
  BY <1>4 DEF Save!vars, Save!media, Save!session, SaveInv, Save!TypeOK, HolderSaves,
              Started, PairFits, Pair, HalfWay, LogsSoFar
<1>5. QED BY <1>1, <1>2, <1>3, <1>4 DEF Save!Next

(* The image of the NAND and the JSON beside it belong to one seed unless  *)
(* a save ended between them, and close saves a prefix: a log is in the    *)
(* NAND only when it is in the EEPROM and the NOR, and what a close that   *)
(* returned has written survives every loss of power.                      *)
THEOREM SavesArePairedAndPrefix ==
  ASSUME Save!NandSaveAssumption
  PROVE  Save!Spec => [](Save!TypeOK /\ Save!PairBelongs /\ Save!ClosePrefix)
<1>1. SaveInv => Save!PairBelongs
  <2>1. SUFFICES ASSUME SaveInv, ~torn, lock = Nobody PROVE Pair(files)
    BY DEF Save!PairBelongs, Pair
  <2>2. \A s \in Sessions : pc[s] \notin Holding
    BY <2>1 DEF SaveInv, HolderSaves, Save!NandSaveAssumption
  <2>3. QED BY <2>1, <2>2 DEF SaveInv, PairFits, Holding
<1>2. SaveInv => Save!ClosePrefix
  <2>1. SUFFICES ASSUME SaveInv, NEW s \in Sessions
                 PROVE  /\ s \in files.by => s \in eeprom
                        /\ s \in eeprom => s \in nor
                        /\ pc[s] = "skipped" => s \notin nor
                        /\ pc[s] = "closed" => s \in eeprom /\ log[s] = Save!NoEffect
                        /\ pc[s] = "closed" /\ s \in files.by => \A d \in disk : s \in d.by
    BY DEF Save!ClosePrefix
  <2>2. LogsSoFar(s) /\ files \in disk
    BY <2>1 DEF SaveInv
  <2>3. QED BY <2>2 DEF LogsSoFar, Before, Behind
<1>3. SaveInv => Save!TypeOK
  BY DEF SaveInv
<1>4. QED BY <1>1, <1>2, <1>3, SaveInit, SaveStep, PTL DEF Save!Spec

-------------------------------------------------------------------------------
(* The observer of direct ID probes of the flash.                          *)

CONSTANTS Accesses, MaxProbes
VARIABLE watch

Watch == INSTANCE NorProbe

(* The accesses of a probe so far are the last ones of the device: its     *)
(* begin and reads of two words.                                           *)
Watches ==
  [pending : Seq(Accesses), probes : 0..MaxProbes, recent : Seq(Accesses), noted : BOOLEAN]

Pending(p) ==
  /\ Len(p) <= 3
  /\ p # <<>> => Watch!Begins(p[1])
  /\ \A i \in 2..Len(p) :
       /\ p[i].op = "read" /\ p[i].halfword /\ p[i].page = p[1].page
       /\ p[i].offset \in {0, 2}
  /\ Len(p) = 3 => p[2].offset # p[3].offset

(* The sequence p is the end of r.                                         *)
Ends(p, r) ==
  /\ Len(p) <= Len(r)
  /\ \A i \in 1..Len(p) : p[i] = r[i + (Len(r) - Len(p))]

WatchInv ==
  /\ watch \in Watches
  /\ Pending(watch.pending) /\ Ends(watch.pending, watch.recent)
  /\ Watch!ProbesAreComplete

(* The last n of a sequence and one element more.                          *)
LEMMA LastOfAppended ==
  ASSUME NEW r \in Seq(Accesses), NEW a \in Accesses
  PROVE  LET l == Watch!Last(Append(r, a), 4)
         IN /\ l \in Seq(Accesses) /\ Len(l) \in 1..4 /\ l[Len(l)] = a
            /\ Len(l) = IF Len(r) < 4 THEN Len(r) + 1 ELSE 4
            /\ \A i \in 1..(Len(l) - 1) : l[i] = r[i + (Len(r) + 1 - Len(l))]
<1> DEFINE s == Append(r, a)
           l == Watch!Last(s, 4)
           n == Len(r)
           m == Len(s)
           Goal == /\ l \in Seq(Accesses) /\ Len(l) \in 1..4 /\ l[Len(l)] = a
                   /\ Len(l) = IF n < 4 THEN n + 1 ELSE 4
                   /\ \A i \in 1..(Len(l) - 1) : l[i] = r[i + (n + 1 - Len(l))]
<1> SUFFICES Goal
  OBVIOUS
<1>1. n \in Nat /\ m = n + 1 /\ m \in Nat
  OBVIOUS
<1>2. /\ s \in Seq(Accesses) /\ s[n + 1] = a
      /\ \A i \in 1..n : s[i] = r[i]
  OBVIOUS
<1>3. l = SubSeq(s, IF m > 4 THEN m - 4 + 1 ELSE 1, m)
  BY DEF Watch!Last
<1> HIDE DEF s, l, n
<1>4. ASSUME NEW from \in 1..m, l = SubSeq(s, from, m)
      PROVE  /\ l \in Seq(Accesses) /\ Len(l) = m - from + 1 /\ l[Len(l)] = a
             /\ \A i \in 1..(Len(l) - 1) : l[i] = r[i + (n + 1 - Len(l))]
  <2>1. /\ l \in Seq(Accesses) /\ Len(l) = m - from + 1
        /\ \A i \in 1..(m - from + 1) : l[i] = s[i + from - 1]
    BY <1>1, <1>2, <1>4
  <2> HIDE DEF m
  <2>2. l[Len(l)] = s[m]
    <3>1. Len(l) \in 1..(m - from + 1) /\ Len(l) + from - 1 = m
      BY <1>1, <2>1
    <3>2. QED BY <2>1, <3>1
  <2>3. ASSUME NEW i \in 1..(Len(l) - 1) PROVE l[i] = r[i + (n + 1 - Len(l))]
    <3>1. i \in 1..(m - from + 1) /\ i + from - 1 = i + (n + 1 - Len(l))
          /\ i + from - 1 \in 1..n
      BY <1>1, <2>1
    <3>2. QED BY <1>2, <2>1, <3>1
  <2>4. QED BY <1>1, <1>2, <2>1, <2>2, <2>3
<1> HIDE DEF m
<1>5. CASE n < 4
  <2>1. 1 \in 1..m /\ ~(m > 4)
    BY <1>1, <1>5
  <2>2. l = SubSeq(s, 1, m)
    BY <1>3, <2>1
  <2>3. m - 1 + 1 = n + 1 /\ n + 1 \in 1..4
    BY <1>1, <1>5
  <2>4. QED BY <1>4, <1>5, <2>1, <2>2, <2>3
<1>6. CASE ~(n < 4)
  <2> DEFINE from == m - 4 + 1
  <2>1. m > 4 /\ from \in 1..m /\ m - from + 1 = 4
    BY <1>1, <1>6
  <2>2. l = SubSeq(s, from, m)
    BY <1>3, <2>1
  <2> HIDE DEF from
  <2>3. /\ l \in Seq(Accesses) /\ Len(l) = 4 /\ l[Len(l)] = a
        /\ \A i \in 1..(Len(l) - 1) : l[i] = r[i + (n + 1 - Len(l))]
    BY <1>4, <2>1, <2>2
  <2>4. 4 \in 1..4
    OBVIOUS
  <2>5. QED BY <1>6, <2>3, <2>4
<1>7. QED BY <1>5, <1>6

LEMMA WatchStep ==
  ASSUME Watch!NorProbeAssumption, WatchInv, NEW a \in Accesses, Watch!Access(a)
  PROVE  WatchInv'
<1> DEFINE p == watch.pending
           r == watch.recent
           q == Watch!Observed(p, a)
           l == Watch!Last(Append(r, a), 4)
           done == Watch!Completes(p, a)
           count == IF done /\ watch.probes < MaxProbes THEN watch.probes + 1 ELSE watch.probes
<1>1. /\ watch \in Watches /\ p \in Seq(Accesses) /\ r \in Seq(Accesses)
      /\ Pending(p) /\ Ends(p, r) /\ Len(p) \in Nat /\ Len(r) \in Nat
      /\ watch.probes \in 0..MaxProbes /\ MaxProbes \in Nat
  BY DEF WatchInv, Watches, Watch!NorProbeAssumption
<1>2. /\ l \in Seq(Accesses) /\ Len(l) \in 1..4 /\ l[Len(l)] = a
      /\ Len(l) = IF Len(r) < 4 THEN Len(r) + 1 ELSE 4
      /\ \A i \in 1..(Len(l) - 1) : l[i] = r[i + (Len(r) + 1 - Len(l))]
  BY <1>1, LastOfAppended
<1>3. count \in 0..MaxProbes /\ done \in BOOLEAN
  BY <1>1 DEF Watch!Completes
<1>4. watch' = [watch EXCEPT !.pending = q, !.noted = done, !.probes = count, !.recent = l]
  BY <1>1 DEF Watch!Access, Watches
<1> HIDE DEF p, r, q, l, done, count
<1>5. q \in Seq(Accesses) /\ Pending(q) /\ Ends(q, l)
  <2>1. CASE q = <<>>
    BY <1>2, <2>1 DEF Pending, Ends
  <2>2. CASE Watch!Begins(a)
    <3>1. q = <<a>>
      BY <2>2 DEF q, Watch!Observed
    <3>2. Len(q) = 1 /\ q[1] = a /\ q \in Seq(Accesses)
      BY <3>1
    <3>3. Pending(q)
      BY <2>2, <3>2 DEF Pending
    <3>4. QED BY <1>2, <3>2, <3>3 DEF Ends
  <2>3. CASE ~Watch!Begins(a) /\ Watch!Reads(p, a)
    <3>1. q = Append(p, a)
      BY <2>3 DEF q, Watch!Observed
    <3>2. /\ p # <<>> /\ a.op = "read" /\ a.halfword /\ a.page = p[1].page
          /\ a.offset \in {0, 2} /\ \A i \in 2..Len(p) : p[i].offset # a.offset
      BY <2>3 DEF Watch!Reads
    <3>3. /\ q \in Seq(Accesses) /\ Len(q) = Len(p) + 1 /\ q[Len(p) + 1] = a
          /\ \A i \in 1..Len(p) : q[i] = p[i]
      BY <1>1, <3>1
    <3>4. Len(p) # 0 /\ Len(p) \in Nat /\ Len(q) = Len(p) + 1
      BY <1>1, <3>2, <3>3
    <3>5. Len(p) < 3
      <4>1. ASSUME Len(p) = 3 PROVE FALSE
        <5>1. p[2].offset \in {0, 2} /\ p[3].offset \in {0, 2} /\ p[2].offset # p[3].offset
          BY <1>1, <4>1 DEF Pending
        <5>2. p[2].offset # a.offset /\ p[3].offset # a.offset
          BY <3>2, <4>1
        <5>3. QED BY <3>2, <5>1, <5>2
      <4>2. Len(p) <= 3
        BY <1>1 DEF Pending
      <4>3. QED BY <3>4, <4>1, <4>2
    <3>6. Pending(q)
      <4>1. Len(q) <= 3 /\ q[1] = p[1] /\ Watch!Begins(q[1])
        BY <1>1, <3>2, <3>3, <3>4, <3>5 DEF Pending
      <4>2. ASSUME NEW i \in 2..Len(q)
            PROVE  /\ q[i].op = "read" /\ q[i].halfword /\ q[i].page = q[1].page
                   /\ q[i].offset \in {0, 2}
        <5>1. CASE i = Len(q)
          BY <1>1, <3>2, <3>3, <4>1, <5>1
        <5>2. CASE i # Len(q)
          <6>1. i \in 2..Len(p) /\ q[i] = p[i]
            BY <1>1, <3>3, <5>2
          <6>2. QED BY <1>1, <4>1, <6>1 DEF Pending
        <5>3. QED BY <5>1, <5>2
      <4>3. Len(q) = 3 => q[2].offset # q[3].offset
        <5>1. SUFFICES ASSUME Len(q) = 3 PROVE q[2].offset # q[3].offset
          OBVIOUS
        <5>2. Len(p) = 2
          <6>1. \A k, n \in Nat : n = k + 1 /\ n = 3 => k = 2
            OBVIOUS
          <6>2. QED BY <3>4, <5>1, <6>1, Zenon
        <5>3. q[2] = p[2] /\ q[3] = a /\ p[2].offset # a.offset
          BY <3>2, <3>3, <5>2
        <5>4. QED BY <5>3
      <4>4. QED BY <4>1, <4>2, <4>3 DEF Pending
    <3>7. Ends(q, l)
      <4>1. Len(p) <= Len(r) /\ \A i \in 1..Len(p) : p[i] = r[i + (Len(r) - Len(p))]
        BY <1>1 DEF Ends
      <4>2. Len(q) <= Len(l)
        BY <1>1, <1>2, <3>3, <3>5, <4>1
      <4>3. ASSUME NEW i \in 1..Len(q) PROVE q[i] = l[i + (Len(l) - Len(q))]
        <5>1. CASE i = Len(q)
          <6>1. i + (Len(l) - Len(q)) = Len(l)
            <7>1. Len(l) \in Nat /\ Len(q) \in Nat
              BY <1>2, <3>4
            <7>2. QED BY <5>1, <7>1
          <6>2. QED BY <1>2, <3>3, <5>1, <6>1
        <5>2. CASE i # Len(q)
          <6> DEFINE k == i + (Len(l) - Len(q))
          <6>1. i \in 1..Len(p) /\ q[i] = p[i]
            BY <1>1, <3>3, <5>2
          <6>2. k \in 1..(Len(l) - 1)
            BY <1>1, <1>2, <3>3, <4>2, <5>2
          <6>3. k + (Len(r) + 1 - Len(l)) = i + (Len(r) - Len(p))
            <7>1. Len(l) \in Nat /\ Len(q) = Len(p) + 1
              BY <1>2, <3>3
            <7>2. QED BY <1>1, <7>1
          <6> HIDE DEF k
          <6>4. l[k] = r[i + (Len(r) - Len(p))]
            BY <1>2, <6>2, <6>3
          <6>5. QED BY <4>1, <6>1, <6>4 DEF k
        <5>3. QED BY <5>1, <5>2
      <4>4. QED BY <4>2, <4>3 DEF Ends
    <3>8. QED BY <3>3, <3>6, <3>7
  <2>4. QED BY <2>1, <2>2, <2>3 DEF q, Watch!Observed
<1>6. done => Watch!IsProbe(l)
  <2>1. SUFFICES ASSUME done PROVE Watch!IsProbe(l)
    OBVIOUS
  <2>2. /\ Len(p) = 3 /\ a.op = "write" /\ a.halfword /\ a.command = "array"
        /\ a.page = p[1].page /\ a.offset = 0
    BY <2>1 DEF done, Watch!Completes
  <2>3. Len(r) >= 3 /\ Len(l) = 4 /\ l[4] = a
    BY <1>1, <1>2, <2>2 DEF Ends
  <2>4. ASSUME NEW i \in 1..3 PROVE l[i] = p[i]
    <3>1. p[i] = r[i + (Len(r) - 3)]
      BY <1>1, <2>2 DEF Ends
    <3>2. l[i] = r[i + (Len(r) + 1 - 4)]
      <4>1. i \in 1..(Len(l) - 1)
        BY <2>3
      <4>2. QED BY <1>2, <2>3, <4>1
    <3>3. i + (Len(r) - 3) = i + (Len(r) + 1 - 4)
      BY <1>1
    <3>4. QED BY <3>1, <3>2, <3>3
  <2>5. l[1] = p[1] /\ l[2] = p[2] /\ l[3] = p[3]
    BY <2>4
  <2>6. /\ Watch!Begins(p[1]) /\ p[2].op = "read" /\ p[3].op = "read"
        /\ p[2].halfword /\ p[3].halfword /\ p[2].page = p[1].page /\ p[3].page = p[1].page
        /\ p[2].offset \in {0, 2} /\ p[3].offset \in {0, 2} /\ p[2].offset # p[3].offset
    <3>1. p # <<>> /\ 2 \in 2..Len(p) /\ 3 \in 2..Len(p)
      <4>1. 2 \in 2..3 /\ 3 \in 2..3
        OBVIOUS
      <4>2. p # <<>>
        <5>1. Len(<<>>) # 3
          OBVIOUS
        <5>2. QED BY <2>2, <5>1, Zenon
      <4>3. 2..Len(p) = 2..3
        BY <2>2
      <4>4. QED BY <4>1, <4>2, <4>3
    <3>2. QED BY <1>1, <2>2, <3>1 DEF Pending
  <2>7. p[1].halfword
    BY <2>6 DEF Watch!Begins
  <2>8. {l[2].offset, l[3].offset} = {0, 2}
    BY <2>5, <2>6
  <2>9. \A i \in 1..4 : l[i].halfword /\ l[i].page = l[1].page
    <3>1. \A i \in 1..4 : i \in {1, 2, 3, 4}
      OBVIOUS
    <3>2. QED BY <2>2, <2>3, <2>5, <2>6, <2>7, <3>1
  <2>10. QED BY <2>2, <2>3, <2>5, <2>6, <2>8, <2>9 DEF Watch!IsProbe
<1>7. /\ watch' \in Watches /\ watch'.pending = q /\ watch'.recent = l /\ watch'.noted = done
  BY <1>1, <1>2, <1>3, <1>4, <1>5 DEF Watches
<1>8. QED BY <1>5, <1>6, <1>7 DEF WatchInv, Watch!ProbesAreComplete

(* A probe is recorded exactly after its accesses, in their order, without *)
(* another access to the device between them.                              *)
THEOREM RecordedProbesAreComplete ==
  ASSUME Watch!NorProbeAssumption
  PROVE  Watch!Spec => [](Watch!TypeOK /\ Watch!ProbesAreComplete)
<1>1. Watch!Init => WatchInv
  <2>1. SUFFICES ASSUME Watch!Init PROVE WatchInv
    OBVIOUS
  <2>2. <<>> \in Seq(Accesses) /\ Len(<<>>) = 0 /\ 0 \in 0..MaxProbes
    BY DEF Watch!NorProbeAssumption
  <2>3. QED BY <2>1, <2>2
            DEF Watch!Init, WatchInv, Watches, Pending, Ends, Watch!ProbesAreComplete
<1>2. WatchInv /\ [Watch!Next]_watch => WatchInv'
  <2>1. CASE UNCHANGED watch
    BY <2>1 DEF WatchInv, Watch!ProbesAreComplete
  <2>2. CASE Watch!Next
    BY <2>2, WatchStep DEF Watch!Next
  <2>3. QED BY <2>1, <2>2
<1>3. WatchInv => Watch!TypeOK /\ Watch!ProbesAreComplete
  BY DEF WatchInv, Watches, Watch!TypeOK
<1>4. QED BY <1>1, <1>2, <1>3, PTL DEF Watch!Spec

-------------------------------------------------------------------------------
(* The download of the DSP, whose end a hook shows the guest.              *)

CONSTANTS Width, Counter, Codes, Source
VARIABLE call

Calls == INSTANCE HleCalls

CallFields ==
  {"hook", "code", "at", "arg", "result", "start", "completion", "pending", "phase",
   "starts", "completions"}

(* A completion is pending only while its own start is waited for.         *)
CallInv ==
  /\ call = [f \in CallFields |-> call[f]]
  /\ call.pending \in BOOLEAN /\ call.phase \in {"idle", "waits"}
  /\ call.starts \in Nat /\ call.completions \in Nat
  /\ call.completions <= call.starts
  /\ call.pending => call.phase = "waits" /\ call.starts = 1 /\ call.completions = 0

(* A call, its hook and its code leave the download alone.                 *)
LEMMA CallGoesOn ==
  ASSUME CallInv, call' = [f \in CallFields |-> call'[f]],
         call'.pending = call.pending, call'.phase = call.phase,
         call'.starts = call.starts, call'.completions = call.completions
  PROVE  CallInv'
BY DEF CallInv

LEMMA CallStarts ==
  ASSUME CallInv, NEW exact \in BOOLEAN, Calls!DmdStart(exact)
  PROVE  CallInv'
<1>1. /\ DOMAIN call = CallFields /\ call.phase = "idle" /\ call.pending = FALSE
      /\ call = [f \in CallFields |-> call[f]]
  BY DEF CallInv, Calls!DmdStart
<1>2. CASE exact
  <2> DEFINE armed == call.pending \/ Calls!Armed(exact)
  <2>1. armed \in BOOLEAN
    BY <1>1 DEF Calls!Armed
  <2> HIDE DEF armed
  <2>2. call' = [call EXCEPT !.pending = armed, !.start = "zero", !.phase = "waits",
                             !.starts = 1, !.completions = 0]
    BY <1>1, <1>2 DEF Calls!DmdStart, CallFields, armed
  <2>3. /\ call'.pending = armed /\ call'.phase = "waits" /\ call'.starts = 1
        /\ call'.completions = 0 /\ call' = [f \in CallFields |-> call'[f]]
    BY <1>1, <2>2 DEF CallFields
  <2>4. QED BY <2>1, <2>3 DEF CallInv
<1>3. CASE ~exact
  <2>1. /\ call'.pending = (call.pending \/ Calls!Armed(exact)) /\ call'.phase = "idle"
        /\ call'.starts = call.starts /\ call'.completions = call.completions
        /\ call' = [f \in CallFields |-> call'[f]]
    BY <1>1, <1>3 DEF Calls!DmdStart, CallFields
  <2>2. call'.pending = FALSE
    BY <1>1, <1>3, <2>1 DEF Calls!Armed
  <2>3. QED BY <1>1, <2>1, <2>2, CallGoesOn
<1>4. QED BY <1>2, <1>3

LEMMA CallPolls ==
  ASSUME CallInv, Calls!DmdPoll
  PROVE  CallInv'
<1> DEFINE shown == IF call.pending THEN "ones" ELSE call.completion
           left == IF shown = "ones" THEN "zero" ELSE call.completion
           count == call.completions + (IF call.pending THEN 1 ELSE 0)
           phase == IF shown = "ones" THEN "idle" ELSE "waits"
<1>1. DOMAIN call = CallFields /\ call = [f \in CallFields |-> call[f]]
  BY DEF CallInv
<1>2. count \in Nat /\ count <= call.starts /\ phase \in {"idle", "waits"}
  BY DEF CallInv
<1>3. call' = [call EXCEPT !.completion = left, !.pending = FALSE, !.completions = count,
                           !.phase = phase]
  BY <1>1 DEF Calls!DmdPoll, Calls!PendingAfter, CallFields
<1> HIDE DEF shown, left, count, phase
<1>4. /\ call'.pending = FALSE /\ call'.phase = phase /\ call'.starts = call.starts
      /\ call'.completions = count /\ call' = [f \in CallFields |-> call'[f]]
  BY <1>1, <1>3 DEF CallFields
<1>5. QED BY <1>2, <1>4 DEF CallInv

(* A poll of the download sees a completion only for the start before it,  *)
(* and none is left for a later one (the hooks of device_calls.py).        *)
THEOREM CompletionsAnswerStarts == Calls!Spec => []Calls!CompletionAnswersStart
<1>1. Calls!Init => CallInv
  BY DEF Calls!Init, CallInv, CallFields
<1>2. CallInv /\ [Calls!Next]_call => CallInv'
  <2>1. SUFFICES ASSUME CallInv, [Calls!Next]_call PROVE CallInv'
    OBVIOUS
  <2>2. DOMAIN call = CallFields /\ call = [f \in CallFields |-> call[f]]
    BY <2>1 DEF CallInv
  <2>3. ASSUME NEW arg \in Calls!Signed, Calls!Call(arg) PROVE CallInv'
    <3>1. call' = [call EXCEPT !.at = "entry", !.arg = arg, !.result = Calls!Ready]
      BY <2>3 DEF Calls!Call
    <3>2. QED BY <2>1, <2>2, <3>1, CallGoesOn DEF CallFields
  <2>4. CASE Calls!Hook
    <3>1. CASE Calls!Answers
      <4>1. PICK result : call' = [call EXCEPT !.at = "caller", !.result = result]
        BY <2>4, <3>1 DEF Calls!Hook
      <4>2. QED BY <2>1, <2>2, <4>1, CallGoesOn DEF CallFields
    <3>2. CASE ~Calls!Answers
      <4>1. call' = [call EXCEPT !.at = "inside"]
        BY <2>4, <3>2 DEF Calls!Hook
      <4>2. QED BY <2>1, <2>2, <4>1, CallGoesOn DEF CallFields
    <3>3. QED BY <3>1, <3>2
  <2>5. CASE Calls!Return
    <3>1. PICK result : call' = [call EXCEPT !.at = "caller", !.result = result]
      BY <2>5 DEF Calls!Return
    <3>2. QED BY <2>1, <2>2, <3>1, CallGoesOn DEF CallFields
  <2>6. ASSUME NEW code \in Codes, Calls!LoadCode(code) PROVE CallInv'
    <3>1. call' = [call EXCEPT !.code = code, !.result = Calls!Ready]
      BY <2>6 DEF Calls!LoadCode
    <3>2. QED BY <2>1, <2>2, <3>1, CallGoesOn DEF CallFields
  <2>7. ASSUME NEW start, NEW completion, Calls!DmdWritten(start, completion) PROVE CallInv'
    <3>1. call' = [call EXCEPT !.start = start, !.completion = completion]
      BY <2>7 DEF Calls!DmdWritten
    <3>2. QED BY <2>1, <2>2, <3>1, CallGoesOn DEF CallFields
  <2>8. CASE UNCHANGED call
    BY <2>1, <2>8 DEF CallInv
  <2>9. QED BY <2>1, <2>3, <2>4, <2>5, <2>6, <2>7, <2>8, CallStarts, CallPolls
            DEF Calls!Next
<1>3. CallInv => Calls!CompletionAnswersStart
  BY DEF CallInv, Calls!CompletionAnswersStart
<1>4. QED BY <1>1, <1>2, <1>3, PTL DEF Calls!Spec

(* Cutting a number to some bits again changes nothing.                    *)
LEMMA CutAgain ==
  ASSUME NEW m \in Nat \ {0}, NEW x \in Int
  PROVE  x % m \in 0..(m - 1) /\ (x \in 0..(m - 1) => x % m = x)
OBVIOUS

(* The routine of the CRC and its hook go over as many bytes.              *)
LEMMA BytesAreLength ==
  ASSUME Counter \in Nat \ {0}, NEW arg \in Int
  PROVE  Calls!Bytes(arg) = Calls!Length(arg)
<1>1. PICK m \in Nat \ {0} : m = 2^Counter
  BY PowerIsPositive
<1> DEFINE Runs(f) == f = [n \in 0..m |-> IF n = 0 THEN arg ELSE (f[n - 1] - 1) % m]
           Expires(f, n) == f[n] <= 0 /\ \A k \in 0..(n - 1) : f[k] > 0
           step == [p \in (1..m) \X Int |-> (p[2] - 1) % m]
           length == IF arg <= 0 THEN 0 ELSE ((arg - 1) % m) + 1
<1>2. PICK h : IsRun(m, Int, arg, step, h)
  <2>1. \A p \in (1..m) \X Int : (p[2] - 1) % m \in Int
    OBVIOUS
  <2>2. step \in [(1..m) \X Int -> Int]
    BY <2>1
  <2> HIDE DEF step
  <2>3. QED BY <2>2, RunExists
<1>3. Runs(h)
  <2>1. h \in [0..m -> Int] /\ h[0] = arg /\ \A i \in 1..m : h[i] = step[<<i, h[i - 1]>>]
    BY <1>2 DEF IsRun
  <2>2. ASSUME NEW i \in 1..m PROVE h[i] = (h[i - 1] - 1) % m
    <3>1. i - 1 \in 0..m
      OBVIOUS
    <3>2. h[i - 1] \in Int
      BY <2>1, <3>1
    <3>3. QED BY <2>1, <3>2
  <2>3. \A i \in 0..m : i = 0 \/ i \in 1..m
    OBVIOUS
  <2>4. QED BY <2>1, <2>2, <2>3
<1>4. PICK left : Runs(left) /\ Calls!Bytes(arg) = CHOOSE n \in 0..m : Expires(left, n)
  <2>1. Calls!Bytes(arg) = CHOOSE n \in 0..m : Expires(CHOOSE f : Runs(f), n)
    BY <1>1 DEF Calls!Bytes
  <2> HIDE DEF Runs, Ends
  <2>2. QED BY <1>3, <2>1
<1>5. length \in 0..m /\ length = Calls!Length(arg)
  <2>1. (arg - 1) % m \in 0..(m - 1)
    BY CutAgain
  <2>2. length \in 0..m
    <3>1. PICK c \in 0..(m - 1) : c = (arg - 1) % m
      BY <2>1
    <3>2. QED BY <3>1
  <2>3. QED BY <1>1, <2>2 DEF Calls!Length
<1>6. left[0] = arg /\ \A i \in 1..m : left[i] = (left[i - 1] - 1) % m
  <2>1. (\A i \in 1..m : i \in 0..m /\ i # 0) /\ 0 \in 0..m
    OBVIOUS
  <2>2. QED BY <1>4, <2>1
<1>7. CASE arg <= 0
  <2>1. length = 0
    BY <1>7
  <2>2. \A n \in 0..m : Expires(left, n) <=> n = length
    BY <1>6, <1>7, <2>1
  <2> HIDE DEF Ends, length
  <2>3. (CHOOSE n \in 0..m : Expires(left, n)) = length
    BY <1>5, <2>2
  <2>4. QED BY <1>4, <1>5, <2>3
<1>8. CASE arg > 0
  <2>1. length \in 1..m /\ length - 1 = (arg - 1) % m
    <3>1. PICK c \in 0..(m - 1) : c = (arg - 1) % m
      BY CutAgain
    <3>2. length = c + 1
      BY <1>8, <3>1
    <3> HIDE DEF length
    <3>3. QED BY <3>1, <3>2
  <2> HIDE DEF length
  <2> DEFINE good == {k \in 0..(length - 1) : left[k + 1] = length - (k + 1)}
  <2>2. 0 \in good
    BY <1>6, <2>1
  <2>3. ASSUME NEW k \in 1..(length - 1), k - 1 \in good PROVE k \in good
    <3>1. k + 1 \in 1..m /\ (k + 1) - 1 = k /\ (k - 1) + 1 = k
      BY <2>1
    <3>2. left[k] = length - k /\ left[k + 1] = (left[k] - 1) % m
      BY <1>6, <2>3, <3>1
    <3>3. length - k - 1 \in 0..(m - 1)
      BY <2>1
    <3>4. (length - k - 1) % m = length - k - 1
      BY <3>3, CutAgain
    <3>5. left[k] - 1 = length - k - 1 /\ k \in 0..(length - 1) /\ length - k - 1 = length - (k + 1)
      BY <2>1, <3>2
    <3>6. QED BY <3>2, <3>4, <3>5
  <2>4. 0..(length - 1) \subseteq good
    <3> HIDE DEF good
    <3>1. length - 1 \in Nat
      BY <2>1
    <3>2. QED BY <2>2, <2>3, <3>1, NumbersUpTo
  <2>5. ASSUME NEW n \in 1..length PROVE left[n] = length - n
    <3>1. n - 1 \in good /\ (n - 1) + 1 = n
      BY <2>1, <2>4
    <3>2. QED BY <3>1
  <2>6. Expires(left, length)
    <3>1. left[length] = 0
      BY <2>1, <2>5
    <3>2. ASSUME NEW k \in 0..(length - 1) PROVE left[k] > 0
      BY <1>6, <1>8, <2>1, <2>5
    <3>3. QED BY <3>1, <3>2
  <2>7. ASSUME NEW n \in 0..m, Expires(left, n) PROVE n = length
    <3>1. ~(n < length)
      <4>1. CASE n = 0
        BY <1>6, <1>8, <2>7, <4>1
      <4>2. CASE n \in 1..(length - 1)
        BY <2>1, <2>5, <2>7, <4>2
      <4>3. QED BY <2>1, <4>1, <4>2
    <3>2. ~(n > length)
      <4>1. SUFFICES ASSUME n > length PROVE FALSE
        OBVIOUS
      <4>2. length \in 0..(n - 1)
        BY <2>1, <4>1
      <4>3. left[length] > 0
        BY <2>7, <4>2
      <4>4. QED BY <2>1, <2>5, <4>3
    <3>3. QED BY <2>1, <3>1, <3>2
  <2> HIDE DEF Ends
  <2>8. (CHOOSE n \in 0..m : Expires(left, n)) = length
    BY <1>5, <2>6, <2>7
  <2>9. QED BY <1>4, <1>5, <2>8
<1>9. QED BY <1>7, <1>8

(* A call is between its routines, and what its caller got is what the     *)
(* code would have given.                                                  *)
CallAnswered ==
  /\ call = [f \in CallFields |-> call[f]]
  /\ Calls!TypeOK
  /\ Calls!CallsAnswerAsNative

(* A step that touches none of it.                                         *)
LEMMA CallStays ==
  ASSUME CallAnswered, call' = [f \in CallFields |-> call'[f]],
         call'.pending \in BOOLEAN, call'.start \in {"zero", "ones"}, call'.completion \in {"zero", "ones"},
         call'.hook = call.hook, call'.code = call.code, call'.at = call.at, call'.arg = call.arg,
         call'.result = call.result
  PROVE  CallAnswered'
BY DEF CallAnswered, Calls!TypeOK, Calls!CallsAnswerAsNative

LEMMA CallHooked ==
  ASSUME Calls!HleCallsAssumption, CallAnswered, Calls!Hook
  PROVE  CallAnswered'
<1>1. DOMAIN call = CallFields /\ call.arg \in Calls!Signed /\ call.hook \in Calls!Routines
  BY DEF CallAnswered, Calls!TypeOK
<1>2. CASE Calls!Answers
  <2>1. PICK result : /\ result = [code |-> call.hook, value |-> Calls!Answer]
                      /\ call' = [call EXCEPT !.at = "caller", !.result = result]
    BY <1>2 DEF Calls!Hook
  <2>2. /\ call'.result = result /\ call'.at = "caller" /\ call'.arg = call.arg
        /\ call'.hook = call.hook /\ call'.code = call.code /\ call'.pending = call.pending
        /\ call'.start = call.start /\ call'.completion = call.completion
        /\ call' = [f \in CallFields |-> call'[f]]
    BY <1>1, <2>1 DEF CallFields
  <2>3. ~(call.hook = "delay" /\ call.arg <= 0) => result = Calls!Native(call.code, call.arg)
    <3>1. call.code = call.hook
      BY <1>2 DEF Calls!Answers, Calls!Matches
    <3>2. call.arg \in Int
      <4>1. Width - 1 \in Nat
        BY DEF Calls!HleCallsAssumption
      <4>2. PICK m \in Nat : m = 2^(Width - 1)
        BY <4>1, PowerIsPositive
      <4>3. QED BY <1>1, <4>2 DEF Calls!Signed
    <3>3. CASE call.hook = "crc"
      <4>1. Calls!Bytes(call.arg) = Calls!Length(call.arg)
        BY <3>2, BytesAreLength DEF Calls!HleCallsAssumption
      <4>2. QED BY <2>1, <3>1, <3>3, <4>1 DEF Calls!Answer, Calls!Native
    <3>4. CASE call.hook = "delay"
      BY <2>1, <3>1, <3>2, <3>4 DEF Calls!Answer, Calls!Native, Calls!DelayEnd
    <3>5. CASE call.hook \notin {"crc", "delay"}
      BY <2>1, <3>1, <3>5 DEF Calls!Answer, Calls!Native
    <3>6. QED BY <3>3, <3>4, <3>5
  <2>4. QED BY <2>2, <2>3 DEF CallAnswered, Calls!TypeOK, Calls!CallsAnswerAsNative
<1>3. CASE ~Calls!Answers
  <2>1. call' = [call EXCEPT !.at = "inside"]
    BY <1>3 DEF Calls!Hook
  <2>2. /\ call'.at = "inside" /\ call'.arg = call.arg /\ call'.hook = call.hook
        /\ call'.code = call.code /\ call'.pending = call.pending /\ call'.start = call.start
        /\ call'.completion = call.completion /\ call' = [f \in CallFields |-> call'[f]]
    BY <1>1, <2>1 DEF CallFields
  <2>3. QED BY <2>2 DEF CallAnswered, Calls!TypeOK, Calls!CallsAnswerAsNative
<1>4. QED BY <1>2, <1>3

LEMMA CallInitAnswered ==
  ASSUME Calls!HleCallsAssumption, Calls!Init PROVE CallAnswered
<1>1. 0 \in Calls!Signed
  <2>1. Width - 1 \in Nat
    BY DEF Calls!HleCallsAssumption
  <2>2. PICK m \in Nat \ {0} : m = 2^(Width - 1)
    BY <2>1, PowerIsPositive
  <2>3. QED BY <2>2 DEF Calls!Signed
<1>2. PICK hook \in Calls!Routines :
        call = [hook |-> hook, code |-> hook, at |-> "caller", arg |-> 0,
                result |-> Calls!Ready, start |-> "ones", completion |-> "zero", pending |-> FALSE,
                phase |-> "idle", starts |-> 0, completions |-> 0]
  BY DEF Calls!Init
<1>3. /\ call.hook = hook /\ call.code = hook /\ call.at = "caller" /\ call.arg = 0
      /\ call.result = Calls!Ready /\ call.start = "ones" /\ call.completion = "zero"
      /\ call.pending = FALSE /\ call = [f \in CallFields |-> call[f]]
  BY <1>2 DEF CallFields
<1>4. hook \in Codes
  BY DEF Calls!HleCallsAssumption
<1>5. QED BY <1>1, <1>3, <1>4 DEF CallAnswered, Calls!TypeOK, Calls!CallsAnswerAsNative

LEMMA CallStepAnswered ==
  ASSUME Calls!HleCallsAssumption, CallAnswered, [Calls!Next]_call PROVE CallAnswered'
<1>1. DOMAIN call = CallFields /\ call = [f \in CallFields |-> call[f]] /\ Calls!TypeOK
  BY DEF CallAnswered
<1>2. ASSUME NEW arg \in Calls!Signed, Calls!Call(arg) PROVE CallAnswered'
  <2>1. call' = [call EXCEPT !.at = "entry", !.arg = arg, !.result = Calls!Ready]
    BY <1>2 DEF Calls!Call
  <2>2. /\ call'.at = "entry" /\ call'.arg = arg /\ call'.hook = call.hook
        /\ call'.code = call.code /\ call'.pending = call.pending /\ call'.start = call.start
        /\ call'.completion = call.completion /\ call' = [f \in CallFields |-> call'[f]]
    BY <1>1, <2>1 DEF CallFields
  <2>3. QED BY <1>1, <2>2 DEF CallAnswered, Calls!TypeOK, Calls!CallsAnswerAsNative
<1>3. CASE Calls!Return
  <2>1. PICK result : /\ result = Calls!Native(call.code, call.arg)
                      /\ call' = [call EXCEPT !.at = "caller", !.result = result]
    BY <1>3 DEF Calls!Return
  <2>2. /\ call'.at = "caller" /\ call'.arg = call.arg /\ call'.hook = call.hook /\ call'.result = result
        /\ call'.code = call.code /\ call'.pending = call.pending /\ call'.start = call.start
        /\ call'.completion = call.completion /\ call' = [f \in CallFields |-> call'[f]]
    BY <1>1, <2>1 DEF CallFields
  <2>3. QED BY <1>1, <2>1, <2>2 DEF CallAnswered, Calls!TypeOK, Calls!CallsAnswerAsNative
<1>4. ASSUME NEW code \in Codes, Calls!LoadCode(code) PROVE CallAnswered'
  <2>1. call' = [call EXCEPT !.code = code, !.result = Calls!Ready]
    BY <1>4 DEF Calls!LoadCode
  <2>2. /\ call'.at = call.at /\ call'.arg = call.arg /\ call'.hook = call.hook
        /\ call'.result = Calls!Ready
        /\ call'.code = code /\ call'.pending = call.pending /\ call'.start = call.start
        /\ call'.completion = call.completion /\ call' = [f \in CallFields |-> call'[f]]
    BY <1>1, <2>1 DEF CallFields
  <2>3. QED BY <1>1, <2>2 DEF CallAnswered, Calls!TypeOK, Calls!CallsAnswerAsNative
<1>5. ASSUME NEW exact \in BOOLEAN, Calls!DmdStart(exact) PROVE CallAnswered'
  <2>1. PICK pending, phase, starts, completions :
          /\ pending = (call.pending \/ Calls!Armed(exact))
          /\ call' = [call EXCEPT !.pending = pending, !.start = "zero", !.phase = phase,
                                  !.starts = starts, !.completions = completions]
    BY <1>5 DEF Calls!DmdStart
  <2>2. pending \in BOOLEAN
    BY <1>1, <2>1 DEF Calls!TypeOK, Calls!Armed
  <2>3. /\ call'.at = call.at /\ call'.arg = call.arg /\ call'.hook = call.hook
        /\ call'.result = call.result /\ call'.code = call.code /\ call'.pending = pending
        /\ call'.start = "zero" /\ call'.completion = call.completion
        /\ call' = [f \in CallFields |-> call'[f]]
    BY <1>1, <2>1 DEF CallFields
  <2>4. QED BY <1>1, <2>2, <2>3, CallStays DEF Calls!TypeOK
<1>6. CASE Calls!DmdPoll
  <2> DEFINE shown == IF call.pending THEN "ones" ELSE call.completion
             completion == IF shown = "ones" THEN "zero" ELSE call.completion
             completions == call.completions + (IF call.pending THEN 1 ELSE 0)
             phase == IF shown = "ones" THEN "idle" ELSE "waits"
  <2>1. /\ completion \in {"zero", call.completion}
        /\ call' = [call EXCEPT !.completion = completion, !.pending = FALSE,
                                !.completions = completions, !.phase = phase]
    BY <1>1, <1>6 DEF Calls!DmdPoll, Calls!PendingAfter, CallFields
  <2> HIDE DEF shown, completion, completions, phase
  <2>2. /\ call'.at = call.at /\ call'.arg = call.arg /\ call'.hook = call.hook
        /\ call'.result = call.result /\ call'.code = call.code /\ call'.pending = FALSE
        /\ call'.start = call.start /\ call'.completion = completion
        /\ call' = [f \in CallFields |-> call'[f]]
    BY <1>1, <2>1 DEF CallFields
  <2>3. QED BY <1>1, <2>1, <2>2, CallStays DEF Calls!TypeOK
<1>7. ASSUME NEW start \in {"zero", "ones"}, NEW completion \in {"zero", "ones"},
             Calls!DmdWritten(start, completion)
      PROVE  CallAnswered'
  <2>1. call' = [call EXCEPT !.start = start, !.completion = completion]
    BY <1>7 DEF Calls!DmdWritten
  <2>2. /\ call'.at = call.at /\ call'.arg = call.arg /\ call'.hook = call.hook
        /\ call'.result = call.result /\ call'.code = call.code /\ call'.pending = call.pending
        /\ call'.start = start /\ call'.completion = completion
        /\ call' = [f \in CallFields |-> call'[f]]
    BY <1>1, <2>1 DEF CallFields
  <2>3. QED BY <1>1, <2>2, CallStays DEF Calls!TypeOK
<1>8. CASE UNCHANGED call
  BY <1>8 DEF CallAnswered, Calls!TypeOK, Calls!CallsAnswerAsNative
<1>9. QED BY <1>2, <1>3, <1>4, <1>5, <1>6, <1>7, <1>8, CallHooked DEF Calls!Next

(* A hook that answers for a routine gives what the routine would give.    *)
THEOREM HooksAnswerAsNative ==
  ASSUME Calls!HleCallsAssumption
  PROVE  Calls!Spec => [](Calls!TypeOK /\ Calls!CallsAnswerAsNative)
<1>1. Calls!Init => CallAnswered
  BY CallInitAnswered
<1>2. CallAnswered /\ [Calls!Next]_call => CallAnswered'
  BY CallStepAnswered
<1>3. CallAnswered => Calls!TypeOK /\ Calls!CallsAnswerAsNative
  BY DEF CallAnswered
<1>4. QED BY <1>1, <1>2, <1>3, PTL DEF Calls!Spec

-------------------------------------------------------------------------------
(* The routines for the second NOR whose work a hook does.                 *)

CONSTANTS Capacity, RamSize, Base, MaxLog

VARIABLE second

Second == INSTANCE NorCalls WITH nor <- second

NorFields == {"data", "memory", "seed", "log", "bypass", "ram", "call"}
NorEntries == [at : Int, values : Seq(Second!Bit)]

(* The guest's memory shows the image, and the last call did its work on   *)
(* what was there before.                                                  *)
NorInv ==
  /\ second = [f \in NorFields |-> second[f]]
  /\ second.data \in [Second!Offsets -> Second!Bit] /\ second.memory = second.data
  /\ second.ram \in [0..(RamSize - 1) -> Second!Bit] /\ second.bypass \in BOOLEAN
  /\ second.log \in Seq(NorEntries) /\ Len(second.log) <= MaxLog
  /\ Second!CallsDoTheirWork

LEMMA NorFits ==
  ASSUME Second!NorCallsAssumption, NEW start \in Int, NEW length \in 0..2
  PROVE  Second!Fits(start, length) <=> length > 0 /\ 0 <= start /\ start + length <= Capacity
<1>1. Capacity \in Nat
  BY DEF Second!NorCallsAssumption
<1>2. CASE length = 0
  BY <1>2 DEF Second!Fits
<1>3. CASE length > 0
  <2>1. start \in Second!Range(start, length) /\ start + length - 1 \in Second!Range(start, length)
    BY <1>3 DEF Second!Range
  <2>2. QED BY <1>1, <1>3, <2>1 DEF Second!Fits, Second!Range, Second!Offsets
<1>4. QED BY <1>2, <1>3

LEMMA NorReads ==
  ASSUME Second!NorCallsAssumption, NorInv, NEW destination \in 0..RamSize,
         NEW offset \in 0..Capacity, NEW length \in 0..2,
         Second!ReadFast(destination, offset, length)
  PROVE  NorInv'
<1>1. /\ Capacity \in Nat /\ RamSize \in Nat /\ Base \in Nat /\ Base >= Capacity
      /\ DOMAIN second = NorFields /\ DOMAIN second.ram = 0..(RamSize - 1)
  BY DEF Second!NorCallsAssumption, NorInv
<1> DEFINE ram == Second!Delivered(destination, offset, length)
           called(answer) == [routine |-> "read", buffer |-> destination, at |-> offset, length |-> length,
                              answer |-> answer, data |-> second.data, ram |-> second.ram]
<1>2. \A a \in 0..(RamSize - 1) :
        ram[a] = IF a \in Second!Range(destination, length) THEN second.data[offset + a - destination]
                 ELSE second.ram[a]
  BY <1>1 DEF Second!Delivered
<1>3. ASSUME Second!Fits(offset, length) PROVE ram \in [0..(RamSize - 1) -> Second!Bit]
  <2>1. \A a \in Second!Range(destination, length) : offset + a - destination \in Second!Offsets
    BY <1>1, <1>3, NorFits DEF Second!Range, Second!Offsets
  <2>2. \A a \in 0..(RamSize - 1) : second.ram[a] \in Second!Bit
    BY DEF NorInv
  <2>3. \A o \in Second!Offsets : second.data[o] \in Second!Bit
    BY DEF NorInv
  <2>4. ram = [a \in 0..(RamSize - 1) |-> ram[a]]
    BY <1>1 DEF Second!Delivered
  <2> HIDE DEF ram
  <2>5. \A a \in 0..(RamSize - 1) : ram[a] \in Second!Bit
    BY <1>2, <2>1, <2>2, <2>3
  <2>6. QED BY <2>4, <2>5
<1>4. \/ second' = [second EXCEPT !.call = called("native")]
      \/ second' = [second EXCEPT !.call = called("error")] /\ ~Second!Fits(offset, length)
      \/ second' = [second EXCEPT !.ram = ram, !.call = called("done")] /\ Second!Fits(offset, length)
  BY <1>1 DEF Second!ReadFast, Second!Called, NorFields
<1> HIDE DEF ram
<1>5. CASE second' = [second EXCEPT !.call = called("native")]
  BY <1>1, <1>5 DEF NorInv, NorFields, Second!CallsDoTheirWork
<1>6. CASE second' = [second EXCEPT !.call = called("error")] /\ ~Second!Fits(offset, length)
  BY <1>1, <1>6 DEF NorInv, NorFields, Second!CallsDoTheirWork
<1>7. CASE second' = [second EXCEPT !.ram = ram, !.call = called("done")] /\ Second!Fits(offset, length)
  <2>1. /\ second' = [f \in NorFields |-> second'[f]] /\ second'.call = called("done") /\ second'.ram = ram
        /\ second'.data = second.data /\ second'.memory = second.memory /\ second'.log = second.log
        /\ second'.bypass = second.bypass
    BY <1>1, <1>7 DEF NorInv, NorFields
  <2>2. Second!CallsDoTheirWork'
    BY <1>2, <2>1 DEF Second!CallsDoTheirWork
  <2>3. second'.ram \in [0..(RamSize - 1) -> Second!Bit]
    BY <1>3, <1>7, <2>1
  <2>4. /\ second'.data \in [Second!Offsets -> Second!Bit] /\ second'.memory = second'.data
        /\ second'.bypass \in BOOLEAN /\ second'.log \in Seq(NorEntries) /\ Len(second'.log) <= MaxLog
    BY <2>1 DEF NorInv
  <2> HIDE DEF called
  <2>5. QED BY <2>1, <2>2, <2>3, <2>4 DEF NorInv
<1>8. QED BY <1>4, <1>5, <1>6, <1>7

(* What a program leaves in the cells, and in the others.                  *)
LEMMA NorCleared ==
  ASSUME Second!NorCallsAssumption, NEW data \in [Second!Offsets -> Second!Bit],
         NEW offset \in Int, NEW values \in Seq(Second!Bit)
  PROVE  /\ Second!Cleared(data, offset, values) \in [Second!Offsets -> Second!Bit]
         /\ \A i \in 1..Len(values) : offset + i - 1 \in Second!Offsets =>
              Second!Cleared(data, offset, values)[offset + i - 1]
                = Second!And(data[offset + i - 1], values[i])
<1>1. Len(values) \in Nat /\ Capacity \in Nat /\ \A i \in 1..Len(values) : values[i] \in {0, 1}
  BY DEF Second!NorCallsAssumption, Second!Bit
<1>2. \A o \in Second!Offsets : o \in Int /\ data[o] \in {0, 1}
  BY <1>1 DEF Second!Offsets, Second!Bit
<1>3. \A o \in Second!Offsets : o \in Second!Range(offset, Len(values)) =>
        Second!And(data[o], values[o - offset + 1]) \in {0, 1}
  <2>1. SUFFICES ASSUME NEW o \in Second!Offsets, o \in Second!Range(offset, Len(values))
                 PROVE  Second!And(data[o], values[o - offset + 1]) \in {0, 1}
    OBVIOUS
  <2>2. o - offset + 1 \in 1..Len(values)
    BY <1>1, <1>2, <2>1 DEF Second!Range
  <2>3. data[o] \in {0, 1} /\ values[o - offset + 1] \in {0, 1}
    BY <1>1, <1>2, <2>2
  <2>4. \A x, y \in {0, 1} : Second!And(x, y) \in {0, 1}
    BY DEF Second!And
  <2>5. QED BY <2>3, <2>4
<1>4. Second!Cleared(data, offset, values) \in [Second!Offsets -> Second!Bit]
  BY <1>2, <1>3 DEF Second!Cleared, Second!Bit
<1>5. ASSUME NEW i \in 1..Len(values), offset + i - 1 \in Second!Offsets
      PROVE  Second!Cleared(data, offset, values)[offset + i - 1]
               = Second!And(data[offset + i - 1], values[i])
  <2>1. offset + i - 1 \in Second!Range(offset, Len(values)) /\ (offset + i - 1) - offset + 1 = i
    BY <1>1 DEF Second!Range
  <2>2. QED BY <1>5, <2>1 DEF Second!Cleared
<1>6. QED BY <1>4, <1>5

(* What is programmed where a writer may program.                          *)
LEMMA NorProgrammed ==
  ASSUME Second!NorCallsAssumption, NorInv, NEW offset \in Int, NEW source \in Nat,
         NEW length \in 1..2, Second!Fits(offset, length), Second!InRam(source, length),
         Len(second.log) < MaxLog, NEW n, n = Second!Programmed(second, offset, Second!Incoming(source, length))
  PROVE  /\ n = [f \in NorFields |-> n[f]] /\ n.data \in [Second!Offsets -> Second!Bit]
         /\ n.memory = n.data /\ n.ram = second.ram /\ n.bypass = second.bypass
         /\ n.log \in Seq(NorEntries) /\ Len(n.log) <= MaxLog
         /\ \A i \in 0..(length - 1) :
              n.data[offset + i] = Second!And(second.data[offset + i], second.ram[source + i])
         /\ \A o \in Second!Offsets \ Second!Range(offset, length) : n.data[o] = second.data[o]
<1>1. Capacity \in Nat /\ RamSize \in Nat /\ MaxLog \in Nat /\ DOMAIN second = NorFields
  BY DEF Second!NorCallsAssumption, NorInv
<1> DEFINE values == Second!Incoming(source, length)
<1>2. /\ values \in Seq(Second!Bit) /\ Len(values) = length
      /\ \A i \in 1..length : values[i] = second.ram[source + i - 1]
  <2>1. \A i \in 1..length : source + i - 1 \in 0..(RamSize - 1)
    BY <1>1 DEF Second!InRam
  <2>2. \A i \in 1..length : second.ram[source + i - 1] \in Second!Bit
    BY <2>1 DEF NorInv
  <2>3. values = [i \in 1..length |-> second.ram[source + i - 1]]
    BY DEF Second!Incoming
  <2> HIDE DEF values
  <2>4. length \in Nat /\ DOMAIN values = 1..length /\ values \in [1..length -> Second!Bit]
    BY <2>2, <2>3
  <2>5. values \in Seq(Second!Bit) /\ Len(values) = length
    BY <2>4
  <2>6. QED BY <2>3, <2>5
<1> DEFINE data == Second!Cleared(second.data, offset, values)
           entry == [at |-> offset, values |-> values]
<1> HIDE DEF values
<1>3. \A i \in 1..length : offset + i - 1 \in Second!Offsets
  <2>1. 0 <= offset /\ offset + length <= Capacity
    BY NorFits
  <2>2. QED BY <1>1, <2>1 DEF Second!Offsets
<1>4. /\ data \in [Second!Offsets -> Second!Bit]
      /\ \A i \in 1..length : data[offset + i - 1] = Second!And(second.data[offset + i - 1], values[i])
  BY <1>2, <1>3, NorCleared DEF NorInv
<1>5. [o \in Second!Offsets |-> IF o \in Second!Range(offset, Len(values)) THEN data[o]
                                ELSE second.memory[o]] = data
  <2>1. \A o \in Second!Offsets \ Second!Range(offset, Len(values)) : data[o] = second.memory[o]
    BY DEF Second!Cleared, NorInv
  <2>2. QED BY <1>4, <2>1
<1>51. \A o \in Second!Offsets \ Second!Range(offset, length) : data[o] = second.data[o]
  <2>1. \A o \in Second!Offsets \ Second!Range(offset, Len(values)) : data[o] = second.data[o]
    BY DEF Second!Cleared
  <2> HIDE DEF data
  <2>2. QED BY <1>2, <2>1
<1>6. entry \in NorEntries
  BY <1>2 DEF NorEntries
<1> DEFINE shown == [o \in Second!Offsets |-> IF o \in Second!Range(offset, Len(values))
                                               THEN data[o] ELSE second.memory[o]]
<1>7. n = [second EXCEPT !.data = data, !.log = Append(@, entry), !.memory = shown]
  BY DEF Second!Programmed, values
<1> HIDE DEF data, entry, shown
<1>8. /\ Append(second.log, entry) \in Seq(NorEntries)
      /\ Len(Append(second.log, entry)) <= MaxLog
  BY <1>1, <1>6 DEF NorInv
<1>9. /\ n = [f \in NorFields |-> n[f]] /\ n.data = data /\ n.memory = shown /\ n.ram = second.ram
      /\ n.bypass = second.bypass /\ n.log = Append(second.log, entry)
  BY <1>1, <1>7 DEF NorFields
<1>10. \A i \in 0..(length - 1) : data[offset + i] = Second!And(second.data[offset + i], second.ram[source + i])
  <2>1. SUFFICES ASSUME NEW i \in 0..(length - 1)
                 PROVE  data[offset + i] = Second!And(second.data[offset + i], second.ram[source + i])
    OBVIOUS
  <2>2. i + 1 \in 1..length /\ offset + (i + 1) - 1 = offset + i /\ source + (i + 1) - 1 = source + i
    OBVIOUS
  <2>3. QED BY <1>2, <1>4, <2>2
<1>11. shown = data
  BY <1>5 DEF shown
<1>12. QED BY <1>4, <1>51, <1>8, <1>9, <1>10, <1>11

(* What a writer answers, and when.                                        *)
LEMMA NorAnswers ==
  ASSUME NEW routine \in Second!Routines \ {"read"}, NEW source, NEW destination,
         NEW length \in Nat, NEW odd \in BOOLEAN
  PROVE  LET answer == Second!WriteAnswer(routine, source, destination, length, odd)
             offset == Second!OffsetOf(routine, destination)
         IN /\ answer \in {"native", "error", "done"}
            /\ answer = "error" /\ routine # "bulk" => ~Second!Fits(offset, length)
            /\ answer = "done" /\ length > 0 =>
                 Second!Fits(offset, length) /\ Second!InRam(source, length)
            /\ answer = "done" /\ length > 0 /\ routine = "bulk" =>
                 Second!BulkMay(offset, Second!Incoming(source, length))
<1> DEFINE answer == Second!WriteAnswer(routine, source, destination, length, odd)
           offset == Second!OffsetOf(routine, destination)
           values == Second!Incoming(source, length)
<1>1. CASE routine = "perWord"
  <2>1. answer = "native"
    BY <1>1 DEF Second!WriteAnswer
  <2>2. QED BY <2>1
<1>2. CASE routine = "bulk" /\ (odd \/ length = 0)
  <2>1. answer = "error" \/ (answer = "done" /\ length = 0)
    BY <1>2 DEF Second!WriteAnswer
  <2>2. QED BY <1>2, <2>1
<1>3. CASE ~(routine = "perWord") /\ ~(routine = "bulk" /\ (odd \/ length = 0))
  <2>1. answer = IF ~Second!InRam(source, length) THEN "native"
                 ELSE IF routine = "bulk" /\ ~Second!Fits(offset, length) THEN "native"
                 ELSE IF ~Second!Fits(offset, length) THEN "error"
                 ELSE IF routine = "bulk" /\ ~Second!BulkMay(offset, values) THEN "native"
                 ELSE "done"
    BY <1>3 DEF Second!WriteAnswer
  <2> HIDE DEF answer, offset, values
  <2>2. /\ answer \in {"native", "error", "done"}
        /\ answer = "error" => ~Second!Fits(offset, length)
        /\ answer = "done" => /\ Second!Fits(offset, length) /\ Second!InRam(source, length)
                              /\ routine = "bulk" => Second!BulkMay(offset, values)
    BY <2>1
  <2>3. QED BY <2>2 DEF answer, offset, values
<1>4. QED BY <1>1, <1>2, <1>3

LEMMA NorWrites ==
  ASSUME Second!NorCallsAssumption, NorInv, NEW routine \in Second!Routines \ {"read"},
         NEW source \in 0..RamSize, NEW destination \in (0..Capacity) \cup (Base..(Base + Capacity)),
         NEW length \in 0..2, NEW odd \in BOOLEAN,
         Second!WriteFast(routine, source, destination, length, odd)
  PROVE  NorInv'
<1>1. /\ Capacity \in Nat /\ RamSize \in Nat /\ Base \in Nat /\ MaxLog \in Nat
      /\ Base >= Capacity /\ DOMAIN second = NorFields
  BY DEF Second!NorCallsAssumption, NorInv
<1>2. PICK answer, offset, at, record, n :
        /\ answer = Second!WriteAnswer(routine, source, destination, length, odd)
        /\ offset = Second!OffsetOf(routine, destination)
        /\ at = IF destination >= Base THEN destination - Base ELSE destination
        /\ record = [routine |-> routine, buffer |-> source, at |-> destination, length |-> length,
                     answer |-> answer, data |-> second.data, ram |-> second.ram]
        /\ n = IF answer = "done" /\ length > 0
               THEN Second!Programmed(second, offset, Second!Incoming(source, length)) ELSE second
  OBVIOUS
<1>3. /\ Len(second.log) < MaxLog
      /\ second' = Second!Called(n, routine, source, destination, length, answer)
  BY <1>2 DEF Second!WriteFast
<1>4. second' = [n EXCEPT !.call = record]
  BY <1>2, <1>3 DEF Second!Called
<1>5. source \in Nat /\ destination \in Int /\ length \in Nat /\ offset \in Int /\ at \in Int
  BY <1>1, <1>2 DEF Second!OffsetOf
<1>6. /\ Second!Fits(offset, length) => offset = at
      /\ ~Second!Fits(offset, length) /\ routine # "bulk" => ~Second!Fits(at, length)
  BY <1>1, <1>2, <1>5, NorFits DEF Second!OffsetOf, Second!Range
<1>7. /\ answer \in {"native", "error", "done"}
      /\ answer = "error" /\ routine # "bulk" => ~Second!Fits(offset, length)
      /\ answer = "done" /\ length > 0 => Second!Fits(offset, length) /\ Second!InRam(source, length)
      /\ answer = "done" /\ length > 0 /\ routine = "bulk" =>
           Second!BulkMay(offset, Second!Incoming(source, length))
  BY <1>2, <1>5, NorAnswers
<1>8. routine \in {"legacy", "bulk", "perWord"}
  BY DEF Second!Routines
<1>9. at = IF destination >= Base THEN destination - Base ELSE destination
  BY <1>2
<1>10. record = [routine |-> routine, buffer |-> source, at |-> destination, length |-> length,
                 answer |-> answer, data |-> second.data, ram |-> second.ram]
  BY <1>2
<1>11. answer \in {"native", "error", "done"}
  BY <1>7
<1>12. ASSUME n = [f \in NorFields |-> n[f]], n.data \in [Second!Offsets -> Second!Bit],
             n.memory = n.data, n.ram = second.ram, n.bypass = second.bypass,
             n.log \in Seq(NorEntries), Len(n.log) <= MaxLog,
             answer \in {"native", "error"} => n.data = second.data,
             answer = "error" /\ routine # "bulk" => ~Second!Fits(at, length),
             answer = "done" => \A i \in 0..(length - 1) :
               /\ routine = "legacy" => n.data[at + i] = Second!And(second.data[at + i], second.ram[source + i])
               /\ routine = "bulk" => n.data[at + i] = second.ram[source + i],
             \A o \in Second!Offsets \ Second!Range(at, length) : n.data[o] = second.data[o]
      PROVE  NorInv'
  <2>1. DOMAIN n = NorFields
    BY <1>12
  <2>2. /\ second' = [f \in NorFields |-> second'[f]] /\ second'.call = record /\ second'.ram = n.ram
        /\ second'.bypass = n.bypass /\ second'.data = n.data /\ second'.memory = n.memory /\ second'.log = n.log
    BY <1>4, <1>12, <2>1 DEF NorFields
  <2>3. /\ record.routine = routine /\ record.at = destination /\ record.length = length
        /\ record.answer = answer /\ record.data = second.data /\ record.ram = second.ram /\ record.buffer = source
    BY <1>10
  <2>4. at = IF record.routine # "read" /\ record.at >= Base THEN record.at - Base ELSE record.at
    BY <1>8, <1>9, <2>3
  <2>5. Second!CallsDoTheirWork'
    <3>1. CASE answer = "native"
      BY <1>12, <2>2, <2>3, <3>1 DEF Second!CallsDoTheirWork
    <3>2. CASE answer = "error"
      <4>1. routine # "bulk" => ~Second!Fits(at, length)
        BY <1>12, <3>2
      <4>2. n.data = second.data
        BY <1>12, <3>2
      <4>3. /\ record.answer = "error" /\ n.ram = record.ram /\ n.data = record.data
            /\ record.routine # "bulk" => ~Second!Fits(at, record.length)
        BY <1>12, <2>3, <3>2, <4>1, <4>2
      <4>4. LET c == record
                place == IF c.routine # "read" /\ c.at >= Base THEN c.at - Base ELSE c.at
            IN /\ c.answer \in {"native", "error"} => n.data = c.data /\ n.ram = c.ram
               /\ c.answer = "error" /\ c.routine # "bulk" => ~Second!Fits(place, c.length)
               /\ c.answer = "done" /\ c.routine = "read" =>
                    /\ n.data = c.data
                    /\ \A a \in 0..(RamSize - 1) :
                         n.ram[a] = IF a \in Second!Range(c.buffer, c.length)
                                    THEN c.data[place + a - c.buffer] ELSE c.ram[a]
               /\ c.answer = "done" /\ c.routine = "bulk" =>
                    \A i \in 0..(c.length - 1) : n.memory[place + i] = c.ram[c.buffer + i]
               /\ c.answer = "done" /\ c.routine = "legacy" =>
                    \A i \in 0..(c.length - 1) :
                      n.memory[place + i] = Second!And(c.data[place + i], c.ram[c.buffer + i])
               /\ c.answer = "done" /\ c.routine # "read" =>
                    /\ n.ram = c.ram
                    /\ \A o \in Second!Offsets \ Second!Range(place, c.length) : n.memory[o] = c.data[o]
        BY ONLY <2>4, <4>3
      <4>5. second'.call = record /\ second'.ram = n.ram /\ second'.data = n.data /\ second'.memory = n.memory
        BY <2>2
      <4>6. QED BY ONLY <4>4, <4>5 DEF Second!CallsDoTheirWork
    <3>3. CASE answer = "done"
      <4>1. \A i \in 0..(length - 1) :
              /\ routine = "legacy" => n.memory[at + i] = Second!And(second.data[at + i], second.ram[source + i])
              /\ routine = "bulk" => n.memory[at + i] = second.ram[source + i]
        BY <1>12, <3>3
      <4>2. record.routine = "bulk" => \A i \in 0..(record.length - 1) :
              n.memory[at + i] = record.ram[record.buffer + i]
        BY <2>3, <4>1
      <4>3. record.routine = "legacy" => \A i \in 0..(record.length - 1) :
              n.memory[at + i] = Second!And(record.data[at + i], record.ram[record.buffer + i])
        BY <2>3, <4>1
      <4>4. /\ record.answer = "done" /\ record.routine # "read" /\ n.ram = record.ram
            /\ \A o \in Second!Offsets \ Second!Range(at, record.length) : n.memory[o] = record.data[o]
        BY <1>8, <1>12, <2>3, <3>3
      <4>5. LET c == record
                place == IF c.routine # "read" /\ c.at >= Base THEN c.at - Base ELSE c.at
            IN /\ c.answer \in {"native", "error"} => n.data = c.data /\ n.ram = c.ram
               /\ c.answer = "error" /\ c.routine # "bulk" => ~Second!Fits(place, c.length)
               /\ c.answer = "done" /\ c.routine = "read" =>
                    /\ n.data = c.data
                    /\ \A a \in 0..(RamSize - 1) :
                         n.ram[a] = IF a \in Second!Range(c.buffer, c.length)
                                    THEN c.data[place + a - c.buffer] ELSE c.ram[a]
               /\ c.answer = "done" /\ c.routine = "bulk" =>
                    \A i \in 0..(c.length - 1) : n.memory[place + i] = c.ram[c.buffer + i]
               /\ c.answer = "done" /\ c.routine = "legacy" =>
                    \A i \in 0..(c.length - 1) :
                      n.memory[place + i] = Second!And(c.data[place + i], c.ram[c.buffer + i])
               /\ c.answer = "done" /\ c.routine # "read" =>
                    /\ n.ram = c.ram
                    /\ \A o \in Second!Offsets \ Second!Range(place, c.length) : n.memory[o] = c.data[o]
        BY ONLY <2>4, <4>2, <4>3, <4>4
      <4>6. second'.call = record /\ second'.ram = n.ram /\ second'.data = n.data /\ second'.memory = n.memory
        BY <2>2
      <4>7. QED BY ONLY <4>5, <4>6 DEF Second!CallsDoTheirWork
    <3>4. QED BY <1>11, <3>1, <3>2, <3>3
  <2>6. QED BY <1>12, <2>2, <2>5 DEF NorInv
<1>13. CASE answer = "done" /\ length > 0
  <2>1. n = Second!Programmed(second, offset, Second!Incoming(source, length))
    BY <1>2, <1>13
  <2>2. /\ length \in 1..2 /\ Second!Fits(offset, length) /\ Second!InRam(source, length) /\ offset = at
    BY <1>6, <1>7, <1>13
  <2>3. /\ n = [f \in NorFields |-> n[f]] /\ n.data \in [Second!Offsets -> Second!Bit]
        /\ n.memory = n.data /\ n.ram = second.ram /\ n.bypass = second.bypass
        /\ n.log \in Seq(NorEntries) /\ Len(n.log) <= MaxLog
        /\ \A i \in 0..(length - 1) : n.data[at + i] = Second!And(second.data[at + i], second.ram[source + i])
        /\ \A o \in Second!Offsets \ Second!Range(at, length) : n.data[o] = second.data[o]
    BY <1>3, <1>5, <2>1, <2>2, NorProgrammed
  <2>4. ASSUME routine = "bulk", NEW i \in 0..(length - 1)
        PROVE  n.data[at + i] = second.ram[source + i]
    <3> DEFINE values == Second!Incoming(source, length)
    <3>1. i + 1 \in DOMAIN values /\ values[i + 1] = second.ram[source + i]
      <4>1. i + 1 \in 1..length /\ source + (i + 1) - 1 = source + i
        BY <1>5
      <4>2. QED BY <4>1 DEF Second!Incoming
    <3>2. offset + (i + 1) - 1 = at + i
      BY <1>5, <2>2
    <3> HIDE DEF values
    <3>3. Second!And(second.data[at + i], values[i + 1]) = values[i + 1]
      BY <1>7, <1>13, <2>4, <3>1, <3>2 DEF Second!BulkMay, values
    <3>4. QED BY <2>3, <3>1, <3>3
  <2>5. \A i \in 0..(length - 1) :
          /\ routine = "legacy" => n.data[at + i] = Second!And(second.data[at + i], second.ram[source + i])
          /\ routine = "bulk" => n.data[at + i] = second.ram[source + i]
    BY <2>3, <2>4
  <2>6. /\ answer \in {"native", "error"} => n.data = second.data
        /\ answer = "error" /\ routine # "bulk" => ~Second!Fits(at, length)
        /\ answer = "done" => \A i \in 0..(length - 1) :
             /\ routine = "legacy" => n.data[at + i] = Second!And(second.data[at + i], second.ram[source + i])
             /\ routine = "bulk" => n.data[at + i] = second.ram[source + i]
    BY <1>13, <2>5
  <2>7. QED BY ONLY <2>6, <2>3, <1>12
<1>14. CASE ~(answer = "done" /\ length > 0)
  <2>1. n = second
    BY <1>2, <1>14
  <2>2. answer = "done" => 0..(length - 1) = {}
    BY <1>5, <1>14
  <2>3. /\ n = [f \in NorFields |-> n[f]] /\ n.data \in [Second!Offsets -> Second!Bit]
        /\ n.memory = n.data /\ n.ram = second.ram /\ n.bypass = second.bypass
        /\ n.log \in Seq(NorEntries) /\ Len(n.log) <= MaxLog /\ n.data = second.data
    BY <2>1 DEF NorInv
  <2>4. /\ answer \in {"native", "error"} => n.data = second.data
        /\ answer = "error" /\ routine # "bulk" => ~Second!Fits(at, length)
        /\ answer = "done" => \A i \in 0..(length - 1) :
             /\ routine = "legacy" => n.data[at + i] = Second!And(second.data[at + i], second.ram[source + i])
             /\ routine = "bulk" => n.data[at + i] = second.ram[source + i]
    BY <1>6, <1>7, <2>2, <2>3
  <2>5. QED BY ONLY <2>4, <2>3, <1>12
<1>15. QED BY <1>13, <1>14

(* What a save writes is what the guest did.                               *)
NorImages == [Second!Offsets -> Second!Bit]

(* One program of a log after another.                                     *)
NorReplay(entries) ==
  [p \in (1..Len(entries)) \X NorImages |->
     Second!Cleared(p[2], entries[p[1]].at, entries[p[1]].values)]

NorReplayed(from, entries, to) ==
  \E r : IsRun(Len(entries), NorImages, from, NorReplay(entries), r) /\ r[Len(entries)] = to

(* The log leads from the seed to the image.                               *)
NorLogged ==
  /\ second.seed \in NorImages
  /\ NorReplayed(second.seed, second.log, second.data)

LEMMA NorReplayFits ==
  ASSUME Second!NorCallsAssumption, NEW entries \in Seq(NorEntries)
  PROVE  NorReplay(entries) \in [(1..Len(entries)) \X NorImages -> NorImages]
<1>1. \A entry \in NorEntries : entry.at \in Int /\ entry.values \in Seq(Second!Bit)
  BY DEF NorEntries
<1>2. \A i \in 1..Len(entries) : entries[i] \in NorEntries
  OBVIOUS
<1>3. ASSUME NEW p \in (1..Len(entries)) \X NorImages
      PROVE  Second!Cleared(p[2], entries[p[1]].at, entries[p[1]].values) \in NorImages
  <2>1. p[1] \in 1..Len(entries) /\ p[2] \in NorImages
    OBVIOUS
  <2>2. entries[p[1]].at \in Int /\ entries[p[1]].values \in Seq(Second!Bit)
    BY <1>1, <1>2, <2>1
  <2>3. QED BY <2>1, <2>2, NorCleared DEF NorImages
<1>4. QED BY <1>3 DEF NorReplay

LEMMA NorReplayedNone ==
  ASSUME NEW from \in NorImages
  PROVE  NorReplayed(from, <<>>, from)
<1>1. Len(<<>>) = 0 /\ NorReplay(<<>>) \in [(1..0) \X NorImages -> NorImages]
  BY DEF NorReplay
<1>2. PICK r : IsRun(0, NorImages, from, NorReplay(<<>>), r)
  <2> HIDE DEF NorReplay
  <2>1. QED BY <1>1, RunExists
<1>3. r[0] = from
  BY <1>2 DEF IsRun
<1>4. QED BY <1>1, <1>2, <1>3 DEF NorReplayed

LEMMA NorReplayedMore ==
  ASSUME Second!NorCallsAssumption, NEW entries \in Seq(NorEntries), NEW entry \in NorEntries,
         NEW from \in NorImages, NEW to, NorReplayed(from, entries, to)
  PROVE  NorReplayed(from, Append(entries, entry), Second!Cleared(to, entry.at, entry.values))
<1> DEFINE n == Len(entries)
           longer == Append(entries, entry)
<1>1. /\ n \in Nat /\ longer \in Seq(NorEntries) /\ Len(longer) = n + 1
      /\ longer[n + 1] = entry /\ \A i \in 1..n : longer[i] = entries[i]
  OBVIOUS
<1> HIDE DEF longer, n
<1>2. PICK r : IsRun(n, NorImages, from, NorReplay(entries), r) /\ r[n] = to
  BY DEF NorReplayed, n
<1>3. PICK q : IsRun(n + 1, NorImages, from, NorReplay(longer), q)
  <2>1. NorReplay(longer) \in [(1..Len(longer)) \X NorImages -> NorImages]
    BY <1>1, NorReplayFits
  <2> HIDE DEF NorReplay
  <2>2. n + 1 \in Nat /\ NorReplay(longer) \in [(1..(n + 1)) \X NorImages -> NorImages]
    BY <1>1, <2>1
  <2>3. QED BY <2>2, RunExists
<1>4. GoesOn(n, NorImages, NorReplay(entries), NorReplay(longer))
  BY <1>1 DEF NorReplay, GoesOn, n
<1>5. q[n + 1] = NorReplay(longer)[<<n + 1, r[n]>>] /\ r[n] \in NorImages
  BY <1>1, <1>2, <1>3, <1>4, RunAppend
<1>6. NorReplay(longer)[<<n + 1, r[n]>>] = Second!Cleared(r[n], entry.at, entry.values)
  <2>1. n + 1 \in 1..Len(longer)
    BY <1>1
  <2>2. <<n + 1, r[n]>> \in (1..Len(longer)) \X NorImages
    BY <1>5, <2>1
  <2>3. QED BY <1>1, <2>2 DEF NorReplay
<1>7. QED BY <1>1, <1>2, <1>3, <1>5, <1>6 DEF NorReplayed, longer

(* A step leaves the log and the image, or adds a program to both.         *)
LEMMA NorStepLogs ==
  ASSUME Second!NorCallsAssumption, NorInv, [Second!Next]_second
  PROVE  /\ second'.seed = second.seed
         /\ \/ second'.data = second.data /\ second'.log = second.log
            \/ \E entry \in NorEntries :
                 /\ second'.data = Second!Cleared(second.data, entry.at, entry.values)
                 /\ second'.log = Append(second.log, entry)
<1>1. DOMAIN second = NorFields
  BY DEF NorInv
<1>2. ASSUME NEW destination, NEW offset, NEW length, Second!ReadFast(destination, offset, length)
      PROVE  second'.seed = second.seed /\ second'.data = second.data /\ second'.log = second.log
  <2> DEFINE ram == Second!Delivered(destination, offset, length)
             called(answer) == [routine |-> "read", buffer |-> destination, at |-> offset,
                                length |-> length, answer |-> answer, data |-> second.data,
                                ram |-> second.ram]
  <2>1. \/ second' = [second EXCEPT !.call = called("native")]
        \/ second' = [second EXCEPT !.call = called("error")]
        \/ second' = [second EXCEPT !.ram = ram, !.call = called("done")]
    BY <1>1, <1>2 DEF Second!ReadFast, Second!Called, NorFields
  <2> HIDE DEF ram, called
  <2>2. QED BY <1>1, <2>1 DEF NorFields
<1>3. ASSUME NEW routine \in Second!Routines \ {"read"}, NEW source \in 0..RamSize,
             NEW destination \in (0..Capacity) \cup (Base..(Base + Capacity)),
             NEW length \in 0..2, NEW odd \in BOOLEAN,
             Second!WriteFast(routine, source, destination, length, odd)
      PROVE  /\ second'.seed = second.seed
             /\ \/ second'.data = second.data /\ second'.log = second.log
                \/ \E entry \in NorEntries :
                     /\ second'.data = Second!Cleared(second.data, entry.at, entry.values)
                     /\ second'.log = Append(second.log, entry)
  <2>1. PICK answer, offset, values, record, n :
          /\ answer = Second!WriteAnswer(routine, source, destination, length, odd)
          /\ offset = Second!OffsetOf(routine, destination)
          /\ values = Second!Incoming(source, length)
          /\ record = [routine |-> routine, buffer |-> source, at |-> destination, length |-> length,
                       answer |-> answer, data |-> second.data, ram |-> second.ram]
          /\ n = IF answer = "done" /\ length > 0
                 THEN Second!Programmed(second, offset, Second!Incoming(source, length)) ELSE second
    OBVIOUS
  <2>2. second' = [n EXCEPT !.call = record]
    BY <1>3, <2>1 DEF Second!WriteFast, Second!Called
  <2>3. CASE answer = "done" /\ length > 0
    <3> DEFINE entry == [at |-> offset, values |-> values]
               data == Second!Cleared(second.data, offset, values)
               shown == [o \in Second!Offsets |-> IF o \in Second!Range(offset, Len(values))
                                                  THEN data[o] ELSE second.memory[o]]
    <3>1. n = [second EXCEPT !.data = data, !.log = Append(second.log, entry), !.memory = shown]
      BY <1>1, <2>1, <2>3 DEF Second!Programmed, NorFields
    <3>2. entry \in NorEntries
      <4>1. Capacity \in Nat /\ RamSize \in Nat /\ Base \in Nat
        BY DEF Second!NorCallsAssumption
      <4>2. offset \in Int /\ length \in Nat /\ source \in Nat
        BY <2>1, <4>1 DEF Second!OffsetOf
      <4>3. Second!InRam(source, length)
        <5>1. /\ Second!WriteAnswer(routine, source, destination, length, odd) = "done"
              /\ length > 0
          BY <2>1, <2>3
        <5>2. QED BY <4>2, <5>1, NorAnswers
      <4>4. \A i \in 1..length : source + i - 1 \in 0..(RamSize - 1)
        BY <4>1, <4>2, <4>3 DEF Second!InRam
      <4>5. \A i \in 1..length : second.ram[source + i - 1] \in Second!Bit
        BY <4>4 DEF NorInv
      <4>6. values = [i \in 1..length |-> second.ram[source + i - 1]]
        BY <2>1 DEF Second!Incoming
      <4>7. values \in Seq(Second!Bit)
        BY <4>2, <4>5, <4>6
      <4>8. QED BY <4>2, <4>7 DEF NorEntries
    <3> HIDE DEF data, shown
    <3>3. /\ second'.seed = second.seed /\ second'.data = data /\ second'.log = Append(second.log, entry)
      <4> HIDE DEF entry
      <4>1. QED BY <1>1, <2>2, <3>1 DEF NorFields
    <3>4. entry.at = offset /\ entry.values = values
      OBVIOUS
    <3> HIDE DEF entry
    <3>5. QED BY <3>2, <3>3, <3>4 DEF data
  <2>4. CASE ~(answer = "done" /\ length > 0)
    <3>1. n = second
      BY <2>1, <2>4
    <3>2. QED BY <1>1, <2>2, <3>1 DEF NorFields
  <2>5. QED BY <2>3, <2>4
<1>4. ASSUME NEW address, NEW bit, Second!GuestStores(address, bit)
      PROVE  second'.seed = second.seed /\ second'.data = second.data /\ second'.log = second.log
  <2>1. second' = [second EXCEPT !.ram = [second.ram EXCEPT ![address] = bit]]
    BY <1>4 DEF Second!GuestStores
  <2>2. QED BY <1>1, <2>1 DEF NorFields
<1>5. ASSUME Second!GuestBypasses \/ Second!GuestReturns \/ UNCHANGED second
      PROVE  second'.seed = second.seed /\ second'.data = second.data /\ second'.log = second.log
  BY <1>1, <1>5 DEF Second!GuestBypasses, Second!GuestReturns, NorFields
<1>6. QED BY <1>2, <1>3, <1>4, <1>5 DEF Second!Next

LEMMA NorKeepsLogged ==
  ASSUME Second!NorCallsAssumption, NorInv, NorLogged, [Second!Next]_second
  PROVE  NorLogged'
<1>1. second.log \in Seq(NorEntries)
  BY DEF NorInv
<1>2. QED BY <1>1, NorStepLogs, NorReplayedMore DEF NorLogged

LEMMA NorReplayedIsImage ==
  ASSUME Second!NorCallsAssumption, NorInv, NorLogged
  PROVE  Second!LogIsImage
<1> DEFINE n == Len(second.log)
           Runs(h) == h = [i \in 0..n |-> IF i = 0 THEN second.seed
                                          ELSE Second!Cleared(h[i - 1], second.log[i].at, second.log[i].values)]
<1>1. n \in Nat
  BY DEF NorInv
<1>2. PICK r : IsRun(n, NorImages, second.seed, NorReplay(second.log), r) /\ r[n] = second.data
  BY DEF NorLogged, NorReplayed
<1>3. Runs(r)
  <2>1. r \in [0..n -> NorImages] /\ r[0] = second.seed
        /\ \A i \in 1..n : r[i] = NorReplay(second.log)[<<i, r[i - 1]>>]
    BY <1>2 DEF IsRun
  <2>2. ASSUME NEW i \in 1..n PROVE r[i] = Second!Cleared(r[i - 1], second.log[i].at, second.log[i].values)
    <3>1. i - 1 \in 0..n
      BY <1>1
    <3>2. r[i - 1] \in NorImages
      BY <2>1, <3>1
    <3>3. QED BY <2>1, <3>2 DEF NorReplay
  <2>3. \A i \in 0..n : i = 0 \/ i \in 1..n
    BY <1>1
  <2> HIDE DEF n
  <2>4. QED BY <2>1, <2>2, <2>3
<1>4. PICK g : Runs(g) /\ g = CHOOSE h : Runs(h)
  BY <1>3
<1>5. g[n] = r[n]
  <2>1. g[0] = r[0] /\ \A i \in 1..n : g[i - 1] = r[i - 1] => g[i] = r[i]
    <3>1. (\A i \in 1..n : i \in 0..n /\ i # 0) /\ 0 \in 0..n
      BY <1>1
    <3>2. ASSUME NEW h, Runs(h)
          PROVE  /\ h[0] = second.seed
                 /\ \A i \in 1..n :
                      h[i] = Second!Cleared(h[i - 1], second.log[i].at, second.log[i].values)
      <4> HIDE DEF n
      <4>1. QED BY <3>1, <3>2
    <3> HIDE DEF n, Runs
    <3>3. QED BY <1>3, <1>4, <3>2
  <2> HIDE DEF n, Runs
  <2>2. \A i \in 0..n : g[i] = r[i]
    BY <1>1, <2>1, SameRun
  <2>3. QED BY <1>1, <2>2
<1>6. second.memory = second.data
  BY DEF NorInv
<1>7. QED BY <1>2, <1>4, <1>5, <1>6 DEF Second!LogIsImage

(* _secondary_flash_read_fast, _secondary_flash_write_fast: a call that    *)
(* reports success did what the firmware asked, one that does not changed  *)
(* nothing, and the device only refuses what it does not have.  The log    *)
(* leads from the seed to the image.                                       *)
THEOREM NorCallsDoTheirWork ==
  ASSUME Second!NorCallsAssumption
  PROVE  Second!Spec => [](Second!TypeOK /\ Second!CallsDoTheirWork /\ Second!LogIsImage)
<1>1. Second!Init => NorInv /\ NorLogged
  <2>1. SUFFICES ASSUME Second!Init PROVE NorInv /\ NorLogged
    OBVIOUS
  <2>2. \A a \in 0..(RamSize - 1) : a % 2 \in Second!Bit
    BY DEF Second!Bit
  <2>3. MaxLog \in Nat
    BY DEF Second!NorCallsAssumption
  <2> DEFINE ram == [a \in 0..(RamSize - 1) |-> a % 2]
  <2>4. ram \in [0..(RamSize - 1) -> Second!Bit]
    BY <2>2
  <2> HIDE DEF ram
  <2>5. PICK first \in [Second!Offsets -> Second!Bit] :
          second = [data |-> first, memory |-> first, seed |-> first, log |-> <<>>, bypass |-> FALSE,
                 ram |-> ram, call |-> Second!NoCall]
    BY <2>1 DEF Second!Init, ram
  <2>6. <<>> \in Seq(NorEntries) /\ Len(<<>>) = 0
    OBVIOUS
  <2>7. NorInv
    BY <2>3, <2>4, <2>5, <2>6 DEF NorInv, NorFields, Second!CallsDoTheirWork, Second!NoCall
  <2>8. second.seed = first /\ second.log = <<>> /\ second.data = first /\ first \in NorImages
    BY <2>5 DEF NorImages
  <2>9. NorReplayed(first, <<>>, first)
    BY <2>8, NorReplayedNone
  <2>10. QED BY <2>7, <2>8, <2>9 DEF NorLogged
<1>2. NorInv /\ [Second!Next]_second => NorInv'
  <2>1. SUFFICES ASSUME NorInv, [Second!Next]_second PROVE NorInv'
    OBVIOUS
  <2>2. DOMAIN second = NorFields
    BY <2>1 DEF NorInv
  <2>21. ASSUME second'.call.answer = "none" PROVE Second!CallsDoTheirWork'
    BY <2>21 DEF Second!CallsDoTheirWork
  <2>22. Second!NoCall.answer = "none"
    BY DEF Second!NoCall
  <2>3. ASSUME NEW address \in 0..(RamSize - 1), NEW bit \in Second!Bit,
               Second!GuestStores(address, bit)
        PROVE  NorInv'
    <3>1. second.call = Second!NoCall /\ second' = [second EXCEPT !.ram = [second.ram EXCEPT ![address] = bit]]
      BY <2>3 DEF Second!GuestStores
    <3>2. second'.call = Second!NoCall
      BY <2>2, <3>1 DEF NorFields
    <3>3. Second!CallsDoTheirWork'
      BY <2>21, <2>22, <3>2
    <3>4. QED BY <2>1, <2>2, <3>1, <3>3 DEF NorInv, NorFields
  <2>4. CASE Second!GuestBypasses
    <3>1. second.call = Second!NoCall /\ second' = [second EXCEPT !.bypass = ~second.bypass]
      BY <2>4 DEF Second!GuestBypasses
    <3>2. second'.call = Second!NoCall
      BY <2>2, <3>1 DEF NorFields
    <3>3. Second!CallsDoTheirWork'
      BY <2>21, <2>22, <3>2
    <3>4. QED BY <2>1, <2>2, <3>1, <3>3 DEF NorInv, NorFields
  <2>5. CASE Second!GuestReturns
    <3>1. second' = [second EXCEPT !.call = Second!NoCall]
      BY <2>5 DEF Second!GuestReturns
    <3>2. second'.call = Second!NoCall
      BY <2>2, <3>1 DEF NorFields
    <3>3. Second!CallsDoTheirWork'
      BY <2>21, <2>22, <3>2
    <3>4. QED BY <2>1, <2>2, <3>1, <3>3 DEF NorInv, NorFields
  <2>6. CASE UNCHANGED second
    BY <2>1, <2>6 DEF NorInv, Second!CallsDoTheirWork
  <2>7. QED BY <2>1, <2>3, <2>4, <2>5, <2>6, NorReads, NorWrites DEF Second!Next
<1>3. NorInv /\ NorLogged /\ [Second!Next]_second => NorLogged'
  BY NorKeepsLogged
<1>4. NorInv /\ NorLogged => Second!TypeOK /\ Second!CallsDoTheirWork /\ Second!LogIsImage
  BY NorReplayedIsImage DEF NorInv, Second!TypeOK
<1>5. QED BY <1>1, <1>2, <1>3, <1>4, PTL DEF Second!Spec

===============================================================================
