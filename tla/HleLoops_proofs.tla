---------------------------- MODULE HleLoops_proofs ----------------------------
(***************************************************************************)
(* Proofs about HleLoops: the chain of spans a boot may write, and that a  *)
(* loop leaves what it would have left, wherever a hook takes over.  They  *)
(* rest on induction over the numbers, as the least counterexample, which  *)
(* Board_proofs uses too.                                                  *)
(***************************************************************************)
EXTENDS Integers, Sequences, SequenceTheorems, FiniteSetTheorems, WellFoundedInduction, TLAPS

-------------------------------------------------------------------------------
(* Induction over the numbers as the least counterexample, and what it     *)
(* shows of the recursive functions of the components.                     *)

Below == {p \in Nat \X Nat : p[1] < p[2]}

LEMMA BelowWellFounded == IsWellFoundedOn(Below, Nat)
<1>1. Below = OpToRel(<, Nat)
  BY DEF Below, OpToRel
<1>2. QED BY <1>1, NatLessThanWellFounded

LEMMA LeastNumber ==
  ASSUME NEW S \in SUBSET Nat, S # {}
  PROVE  \E x \in S : \A y \in S : x <= y
<1>1. PICK x \in S : \A y \in S : <<y, x>> \notin Below
  BY BelowWellFounded, WFMin
<1>2. ASSUME NEW y \in S PROVE x <= y
  <2>1. <<y, x>> \notin Below /\ <<y, x>> \in Nat \X Nat /\ x \in Int /\ y \in Int
    BY <1>1
  <2>2. ~ (y < x)
    BY <2>1 DEF Below
  <2>3. QED BY <2>1, <2>2
<1>3. QED BY <1>2

(* A set of numbers that has 0, and each number's successor up to n, has   *)
(* the numbers up to n.                                                    *)
LEMMA NumbersUpTo ==
  ASSUME NEW n \in Nat, NEW S, 0 \in S, \A i \in 1..n : i - 1 \in S => i \in S
  PROVE  0..n \subseteq S
<1> DEFINE missing == {i \in 0..n : i \notin S}
<1>1. SUFFICES ASSUME missing # {} PROVE FALSE
  OBVIOUS
<1>2. PICK i \in missing : \A j \in missing : i <= j
  <2>1. missing \in SUBSET Nat
    OBVIOUS
  <2> HIDE DEF missing
  <2>2. QED BY <1>1, <2>1, LeastNumber
<1>3. i \in 0..n /\ i # 0 /\ i \notin S
  BY <1>2
<1>4. i \in 1..n /\ i - 1 \in 0..n /\ ~ (i <= i - 1)
  BY <1>3
<1>5. i - 1 \in S
  BY <1>2, <1>4
<1>6. QED BY <1>3, <1>4, <1>5

(* A recursive function over the numbers up to n has a value.              *)
IsRun(n, T, base, step, h) ==
  h \in [0..n -> T] /\ h[0] = base /\ \A i \in 1..n : h[i] = step[<<i, h[i - 1]>>]

LEMMA RunExists ==
  ASSUME NEW n \in Nat, NEW T, NEW base \in T, NEW step \in [(1..n) \X T -> T]
  PROVE  \E h : IsRun(n, T, base, step, h)
<1> USE DEF IsRun
<1> DEFINE Runs(k, h) == h[0] = base /\ \A i \in 1..k : h[i] = step[<<i, h[i - 1]>>]
           good == {k \in Nat : \E h \in [0..k -> T] : Runs(k, h)}
<1>1. 0 \in good
  <2> DEFINE h == [i \in 0..0 |-> base]
  <2>1. h \in [0..0 -> T] /\ Runs(0, h)
    OBVIOUS
  <2>2. QED BY <2>1
<1>2. ASSUME NEW k \in 1..n, k - 1 \in good PROVE k \in good
  <2>1. PICK h \in [0..(k - 1) -> T] : Runs(k - 1, h)
    BY <1>2
  <2> DEFINE more == [i \in 0..k |-> IF i = k THEN step[<<k, h[k - 1]>>] ELSE h[i]]
  <2>2. h[k - 1] \in T /\ step[<<k, h[k - 1]>>] \in T
    BY <2>1
  <2>3. more \in [0..k -> T]
    BY <2>2
  <2>4. more[0] = base
    BY <2>1
  <2>5. ASSUME NEW i \in 1..k PROVE more[i] = step[<<i, more[i - 1]>>]
    <3>1. CASE i = k
      <4>1. k - 1 \in 0..k /\ k - 1 # k
        OBVIOUS
      <4>2. more[k - 1] = h[k - 1] /\ more[k] = step[<<k, h[k - 1]>>]
        BY <4>1
      <4>3. QED BY <3>1, <4>2
    <3>2. CASE i # k
      <4>1. i \in 1..(k - 1) /\ i - 1 \in 0..k /\ i - 1 # k
        BY <3>2
      <4>2. more[i] = h[i] /\ more[i - 1] = h[i - 1]
        BY <4>1
      <4>3. QED BY <2>1, <4>1, <4>2
    <3>3. QED BY <3>1, <3>2
  <2>6. QED
    <3> HIDE DEF more
    <3>1. Runs(k, more) /\ k \in Nat
      BY <2>4, <2>5
    <3>2. QED BY <2>3, <3>1
<1>3. n \in good
  <2> HIDE DEF good
  <2>1. QED BY <1>1, <1>2, NumbersUpTo
<1>4. QED BY <1>3

(* Functions that begin alike and go on alike are alike.                   *)
LEMMA SameRun ==
  ASSUME NEW n \in Nat, NEW f, NEW g, f[0] = g[0],
         \A i \in 1..n : f[i - 1] = g[i - 1] => f[i] = g[i]
  PROVE  \A i \in 0..n : f[i] = g[i]
<1> DEFINE same == {i \in 0..n : f[i] = g[i]}
<1>1. 0 \in same /\ \A i \in 1..n : i - 1 \in same => i \in same
  OBVIOUS
<1>2. 0..n \subseteq same
  <2> HIDE DEF same
  <2>1. QED BY <1>1, NumbersUpTo
<1>3. QED BY <1>2

(* Division, for the loops and for the bits of a register.                 *)
LEMMA DivisionIs ==
  ASSUME NEW d \in Nat \ {0}, NEW q \in Nat, NEW r \in 0..(d - 1), NEW x \in Nat, x = d * q + r
  PROVE  x \div d = q
<1>1. x \div d \in Int /\ x % d \in 0..(d - 1) /\ x = d * (x \div d) + (x % d)
  OBVIOUS
<1>2. PICK p \in Int, s \in 0..(d - 1) : p = x \div d /\ x = d * p + s
  BY <1>1
<1>3. d * (p - q) = r - s
  BY <1>2
<1>4. ~(p - q >= 1)
  <2>1. p - q >= 1 => d * (p - q) >= d
    OBVIOUS
  <2>2. QED BY <1>3, <2>1
<1>5. ~(p - q <= -1)
  <2>1. p - q <= -1 => d * (p - q) <= -d
    OBVIOUS
  <2>2. QED BY <1>3, <2>1
<1>6. QED BY <1>2, <1>4, <1>5

-------------------------------------------------------------------------------
(* The loops a hook completes, and the chain of spans a boot may write.    *)

CONSTANTS Word, Chunk, Unrolled, Period, Ramp, RamBase, RamEnd, IramBase, IramEnd,
          RomBase, RomEnd, AddressSpace, DataTarget, BssEnd, Slack, Scripts
VARIABLE block

Block == INSTANCE HleLoops WITH loop <- block

BlockFields ==
  {"script", "run", "mem", "idle", "strobes", "bus", "port", "early", "fast", "dataEnd", "romEnd",
   "bssEnd", "bssComplete", "iramEnd", "leases", "entry", "promise"}

Spans == [stage : {"data", "open", "continue", "iram"}, first : Nat, stop : Nat]
Entered == {r \in Block!Runs : r.kind \in Block!Kinds}
MaybeEnds == Nat \cup {Block!Unset}

(* The loop's own state, and what the host remembers of the boot.          *)
BlockRuns(s) == s = [f \in BlockFields |-> s[f]] /\ s.run \in Block!Runs

SameBoot(s, t) ==
  /\ t.run.kind = s.run.kind
  /\ t.script = s.script /\ t.dataEnd = s.dataEnd /\ t.romEnd = s.romEnd /\ t.bssEnd = s.bssEnd
  /\ t.bssComplete = s.bssComplete /\ t.iramEnd = s.iramEnd /\ t.leases = s.leases

(* The chain: the data segment, the BSS behind it, and the internal RAM    *)
(* once a span came to the end of the BSS.                                 *)
Chained(leases, dataEnd, bssEnd) ==
  \A i \in 1..Len(leases) :
    /\ leases[i].stage = "data" <=> i = 1
    /\ leases[i].stage = "open" <=> i = 2
    /\ leases[i].stage \in {"open", "continue"} => leases[i].first >= dataEnd
    /\ leases[i].stage = "iram" => \E j \in 2..(i - 1) : leases[j].stop = bssEnd

(* The ends the host remembers are those of the spans it wrote.            *)
BootInv(s) ==
  /\ s.script \in Seq(Entered)
  /\ s.dataEnd \in MaybeEnds /\ s.romEnd \in MaybeEnds /\ s.bssEnd \in MaybeEnds /\ s.iramEnd \in MaybeEnds
  /\ s.bssComplete \in BOOLEAN /\ s.leases \in Seq(Spans)
  /\ s.dataEnd = Block!Unset <=> Len(s.leases) = 0
  /\ Len(s.leases) > 0 => s.leases[1].stage = "data" /\ s.leases[1].stop = s.dataEnd
  /\ s.bssEnd = Block!Unset <=> Len(s.leases) <= 1
  /\ s.bssComplete => \E j \in 2..Len(s.leases) : s.leases[j].stop = s.bssEnd
  /\ Chained(s.leases, s.dataEnd, s.bssEnd)

BlockInv ==
  /\ BlockRuns(block) /\ BootInv(block)
  /\ block.run = Block!NoLoop \/ block.run.kind \in Block!Kinds

BlockNumbers ==
  /\ Word \in Nat \ {0} /\ Chunk \in Nat \ {0} /\ Unrolled \in Nat \ {0} /\ Period \in Nat \ {0}
  /\ Ramp \in Nat \ {0}
  /\ RamBase \in Nat /\ RamEnd \in Nat /\ IramBase \in Nat /\ IramEnd \in Nat

(* What a store leaves of the registers: they move, and nothing else.      *)
LEMMA BlockStored ==
  ASSUME NEW s, BlockRuns(s), NEW n \in Int, s.run.dst + n >= 0, NEW value
  PROVE  /\ BlockRuns(Block!Stored(s, n, value)) /\ SameBoot(s, Block!Stored(s, n, value))
         /\ Block!Stored(s, n, value).run = [s.run EXCEPT !.dst = s.run.dst + n]
<1> DEFINE t == Block!Stored(s, n, value)
<1>1. DOMAIN s = BlockFields
  BY DEF BlockRuns
<1>2. /\ t = [f \in BlockFields |-> t[f]] /\ t.run = [s.run EXCEPT !.dst = s.run.dst + n]
      /\ SameBoot(s, t)
  BY <1>1 DEF Block!Stored, BlockFields, SameBoot, BlockRuns, Block!Runs
<1>3. [s.run EXCEPT !.dst = s.run.dst + n] \in Block!Runs
  BY DEF BlockRuns, Block!Runs
<1> HIDE DEF t
<1>4. BlockRuns(t) /\ SameBoot(s, t) /\ t.run = [s.run EXCEPT !.dst = s.run.dst + n]
  BY <1>2, <1>3 DEF BlockRuns
<1>5. QED BY <1>4 DEF t

LEMMA BlockCopiedUnit ==
  ASSUME NEW s, BlockRuns(s), NEW n \in Nat
  PROVE  BlockRuns(Block!CopyUnit(s, n)) /\ SameBoot(s, Block!CopyUnit(s, n))
<1> DEFINE t == Block!CopyUnit(s, n)
<1> DEFINE value == [i \in 0..(n - 1) |-> Block!Loaded(s, s.run.src + i)]
           u == Block!Stored(s, n, value)
           waits == u.bus + IF Block!Plain(s, s.run.src) THEN 0 ELSE 1
<1>1. s.run.dst \in Nat
  BY DEF BlockRuns, Block!Runs
<1>2. BlockRuns(u) /\ SameBoot(s, u)
  <2>1. n \in Int /\ s.run.dst + n >= 0
    BY <1>1
  <2>2. QED BY <2>1, BlockStored, Zenon
<1>3. t = [u EXCEPT !.run.src = u.run.src + n, !.bus = waits]
  BY DEF Block!CopyUnit
<1> HIDE DEF u, waits
<1>4. /\ DOMAIN u = BlockFields /\ [u.run EXCEPT !.src = u.run.src + n] \in Block!Runs
      /\ [u.run EXCEPT !.src = u.run.src + n].kind = u.run.kind
  BY <1>2 DEF BlockRuns, Block!Runs
<1>5. t = [f \in BlockFields |-> t[f]] /\ t.run = [u.run EXCEPT !.src = u.run.src + n] /\ SameBoot(u, t)
  BY <1>3, <1>4 DEF BlockFields, SameBoot
<1> HIDE DEF t
<1>6. BlockRuns(t) /\ SameBoot(s, t)
  BY <1>2, <1>4, <1>5 DEF BlockRuns, SameBoot
<1>7. QED BY <1>6 DEF t

(* An iteration of the guest moves the registers, and nothing else.        *)
LEMMA BlockTurns ==
  ASSUME Block!HleLoopsAssumption, NEW s, BlockRuns(s), s.run.kind \in Block!Kinds,
         NEW t, t = Block!Turned(s)
  PROVE  BlockRuns(t) /\ SameBoot(s, t)
<1>1. BlockNumbers
  BY DEF Block!HleLoopsAssumption, BlockNumbers
<1> DEFINE i == Block!Iterated(s)
<1>2. s.run.dst \in Nat /\ s.run.end \in Int /\ DOMAIN s = BlockFields
  BY DEF BlockRuns, Block!Runs
<1>10. ASSUME NEW n \in Nat, NEW value
       PROVE  BlockRuns(Block!Stored(s, n, value)) /\ SameBoot(s, Block!Stored(s, n, value))
  <2>1. n \in Int /\ s.run.dst + n >= 0
    BY <1>2
  <2>2. QED BY <2>1, BlockStored, Zenon
<1>3. ASSUME NEW u, BlockRuns(u), NEW strobes
      PROVE  BlockRuns([u EXCEPT !.strobes = strobes]) /\ SameBoot(u, [u EXCEPT !.strobes = strobes])
  <2>1. DOMAIN u = BlockFields
    BY <1>3 DEF BlockRuns
  <2>2. QED BY <1>3, <2>1 DEF BlockRuns, BlockFields, SameBoot
<1>4. BlockRuns(i) /\ SameBoot(s, i)
  <2>1. CASE s.run.kind = "ramp"
    <3>1. i = [s EXCEPT !.run.end = s.run.end - Ramp, !.port = 1]
      BY <2>1 DEF Block!Iterated
    <3>2. /\ [s.run EXCEPT !.end = s.run.end - Ramp] \in Block!Runs
          /\ [s.run EXCEPT !.end = s.run.end - Ramp].kind = s.run.kind
      BY <1>1, <1>2 DEF BlockRuns, Block!Runs, BlockNumbers
    <3>3. /\ i = [f \in BlockFields |-> i[f]] /\ i.run = [s.run EXCEPT !.end = s.run.end - Ramp]
          /\ SameBoot(s, i)
      BY <1>2, <3>1, <3>2 DEF BlockFields, SameBoot
    <3>4. QED BY <3>2, <3>3 DEF BlockRuns
  <2>2. CASE s.run.kind = "unrolled"
    BY <1>1, <1>10, <2>2 DEF Block!Iterated, BlockNumbers
  <2>3. CASE s.run.kind = "copy"
    BY <1>1, <2>3, BlockCopiedUnit DEF Block!Iterated, BlockNumbers
  <2>4. CASE s.run.kind = "call"
    BY <2>4, BlockCopiedUnit DEF Block!Iterated
  <2>5. CASE s.run.kind = "clear"
    BY <1>1, <1>10, <2>5 DEF Block!Iterated, BlockNumbers
  <2>6. CASE s.run.kind = "progress"
    <3> DEFINE u == Block!Stored(s, Word, Block!Zeros(Word))
    <3>1. i = [u EXCEPT !.strobes = u.strobes + IF s.run.dst % Period = 0 THEN 1 ELSE 0]
      BY <2>6 DEF Block!Iterated
    <3>2. BlockRuns(u) /\ SameBoot(s, u)
      BY <1>1, <1>10 DEF BlockNumbers
    <3> HIDE DEF u, i
    <3>3. BlockRuns(i) /\ SameBoot(u, i)
      BY <1>3, <3>1, <3>2
    <3>4. QED BY <3>2, <3>3 DEF SameBoot
  <2>7. CASE s.run.kind = "segment" /\ s.run.end - s.run.dst < Chunk
    <3>1. i = Block!Stored(s, Word, Block!Zeros(Word))
      <4>1. ~(s.run.end - s.run.dst >= Chunk)
        BY <1>1, <1>2, <2>7 DEF BlockNumbers
      <4>2. QED BY <2>7, <4>1 DEF Block!Iterated
    <3> HIDE DEF i
    <3>2. QED BY <1>1, <1>10, <3>1 DEF BlockNumbers
  <2>8. CASE s.run.kind = "segment" /\ s.run.end - s.run.dst >= Chunk
    <3> DEFINE u == Block!Stored(s, Chunk, Block!Zeros(Chunk))
    <3>1. i = [u EXCEPT !.strobes =
                 u.strobes + IF (s.run.end - s.run.dst) % Period < Chunk THEN 1 ELSE 0]
      BY <1>1, <1>2, <2>8 DEF Block!Iterated, BlockNumbers
    <3>2. BlockRuns(u) /\ SameBoot(s, u)
      BY <1>1, <1>10 DEF BlockNumbers
    <3> HIDE DEF u, i
    <3>3. BlockRuns(i) /\ SameBoot(u, i)
      BY <1>3, <3>1, <3>2
    <3>4. QED BY <3>2, <3>3 DEF SameBoot
  <2>9. QED BY <1>1, <1>2, <2>1, <2>2, <2>3, <2>4, <2>5, <2>6, <2>7, <2>8 DEF Block!Kinds, BlockNumbers
<1> DEFINE p == Block!Pass(s)
<1>5. BlockRuns(p) /\ SameBoot(s, p)
  <2>1. p = i \/ p = [i EXCEPT !.strobes = i.strobes + 1]
    BY DEF Block!Pass
  <2> HIDE DEF i, p
  <2>2. BlockRuns(p) /\ SameBoot(i, p)
    <3>1. CASE p = i
      BY <1>4, <3>1 DEF SameBoot
    <3>2. CASE p = [i EXCEPT !.strobes = i.strobes + 1]
      BY <1>3, <1>4, <3>2
    <3>3. QED BY <2>1, <3>1, <3>2
  <2>3. QED BY <1>4, <2>2 DEF SameBoot
<1>6. t = s \/ t = [p EXCEPT !.run.turned = TRUE]
  BY DEF Block!Turned
<1> HIDE DEF p
<1>7. CASE t = s
  BY <1>7 DEF SameBoot
<1>8. CASE t = [p EXCEPT !.run.turned = TRUE]
  <2>1. /\ DOMAIN p = BlockFields /\ [p.run EXCEPT !.turned = TRUE] \in Block!Runs
        /\ [p.run EXCEPT !.turned = TRUE].kind = p.run.kind
    BY <1>5 DEF BlockRuns, Block!Runs
  <2>2. t = [f \in BlockFields |-> t[f]] /\ t.run = [p.run EXCEPT !.turned = TRUE] /\ SameBoot(p, t)
    BY <1>8, <2>1 DEF BlockFields, SameBoot
  <2>3. QED BY <1>5, <2>1, <2>2 DEF BlockRuns, SameBoot
<1>9. QED BY <1>6, <1>7, <1>8

(* A step that moves the registers keeps the chain.                        *)
LEMMA BlockKeeps ==
  ASSUME BlockInv, block.run.kind \in Block!Kinds, BlockRuns(block'), SameBoot(block, block')
  PROVE  BlockInv'
BY DEF BlockInv, BootInv, SameBoot

(* The span a hook wrote comes last in the chain.                          *)
LEMMA BlockAppends ==
  ASSUME BlockInv, NEW stage \in {"data", "open", "continue", "iram"}, NEW first \in Nat, NEW stop \in Nat
  PROVE  LET leases == Append(block.leases, [stage |-> stage, first |-> first, stop |-> stop]) IN
         /\ leases \in Seq(Spans) /\ Len(block.leases) \in Nat /\ Len(leases) = Len(block.leases) + 1
         /\ \A i \in 1..Len(block.leases) : leases[i] = block.leases[i]
         /\ leases[Len(leases)].stage = stage /\ leases[Len(leases)].first = first
         /\ leases[Len(leases)].stop = stop
<1>1. [stage |-> stage, first |-> first, stop |-> stop] \in Spans /\ block.leases \in Seq(Spans)
  BY DEF Spans, BlockInv, BootInv
<1>2. QED BY <1>1

(* Such a span is one behind the first two.                                *)
LEMMA ChainGrows ==
  ASSUME NEW leases \in Seq(Spans), NEW longer \in Seq(Spans), NEW N \in Nat, N = Len(leases), N >= 2,
         Len(longer) = N + 1, \A i \in 1..N : longer[i] = leases[i],
         NEW dataEnd, NEW bssEnd, Chained(leases, dataEnd, bssEnd),
         longer[N + 1].stage \in {"continue", "iram"},
         longer[N + 1].stage = "continue" => longer[N + 1].first >= dataEnd,
         longer[N + 1].stage = "iram" => \E j \in 2..N : leases[j].stop = bssEnd
  PROVE  Chained(longer, dataEnd, bssEnd)
<1> SUFFICES ASSUME NEW i \in 1..(N + 1)
             PROVE  /\ longer[i].stage = "data" <=> i = 1
                    /\ longer[i].stage = "open" <=> i = 2
                    /\ longer[i].stage \in {"open", "continue"} => longer[i].first >= dataEnd
                    /\ longer[i].stage = "iram" => \E j \in 2..(i - 1) : longer[j].stop = bssEnd
  BY DEF Chained
<1>1. CASE i \in 1..N
  <2>1. longer[i] = leases[i] /\ \A j \in 2..(i - 1) : longer[j] = leases[j]
    BY <1>1
  <2>2. /\ leases[i].stage = "data" <=> i = 1
        /\ leases[i].stage = "open" <=> i = 2
        /\ leases[i].stage \in {"open", "continue"} => leases[i].first >= dataEnd
        /\ leases[i].stage = "iram" => \E j \in 2..(i - 1) : leases[j].stop = bssEnd
    BY <1>1 DEF Chained
  <2>3. QED BY <2>1, <2>2
<1>2. CASE i = N + 1
  <2>1. longer[i].stage = "iram" => \E j \in 2..(i - 1) : longer[j].stop = bssEnd
    BY <1>2
  <2>2. QED BY <1>2, <2>1
<1>3. QED BY <1>1, <1>2

LEMMA BlockEnters ==
  ASSUME BlockInv, Block!Enter
  PROVE  BlockInv'
<1> DEFINE begun == [block EXCEPT !.run = Head(block.script), !.script = Tail(block.script), !.strobes = 0,
                                 !.bus = 0, !.port = 0, !.fast = FALSE, !.entry = Head(block.script)]
           promise == Block!Native(begun)
<1>1. block' = [begun EXCEPT !.promise = promise] /\ block.script # <<>>
  BY DEF Block!Enter
<1> HIDE DEF promise
<1>2. DOMAIN block = BlockFields /\ block.script \in Seq(Entered)
  BY DEF BlockInv, BlockRuns, BootInv
<1>3. Head(block.script) \in Entered /\ Tail(block.script) \in Seq(Entered)
  BY <1>1, <1>2
<1>4. /\ block' = [f \in BlockFields |-> block'[f]] /\ block'.run = Head(block.script)
      /\ block'.script = Tail(block.script) /\ block'.dataEnd = block.dataEnd /\ block'.romEnd = block.romEnd
      /\ block'.bssEnd = block.bssEnd /\ block'.bssComplete = block.bssComplete
      /\ block'.iramEnd = block.iramEnd /\ block'.leases = block.leases
  BY <1>1, <1>2 DEF BlockFields
<1>5. BlockRuns(block') /\ block'.run.kind \in Block!Kinds
  BY <1>3, <1>4 DEF BlockRuns, Entered
<1>6. BootInv(block')
  BY <1>3, <1>4 DEF BlockInv, BootInv
<1>7. QED BY <1>5, <1>6 DEF BlockInv

LEMMA BlockCopied ==
  ASSUME NEW s, BlockRuns(s), s.run.dst <= s.run.end
  PROVE  BlockRuns(Block!Copied(s)) /\ SameBoot(s, Block!Copied(s))
<1> DEFINE length == s.run.end - s.run.dst
           value == [i \in 0..(length - 1) |-> s.mem[s.run.src + i]]
           u == Block!Stored(s, length, value)
           t == Block!Copied(s)
<1>1. s.run.dst \in Nat /\ s.run.end \in Int /\ s.run.src \in Nat
  BY DEF BlockRuns, Block!Runs
<1>2. t = [u EXCEPT !.run.src = u.run.src + length]
  BY DEF Block!Copied
<1>3. length \in Int /\ s.run.dst + length >= 0 /\ length \in Nat
  BY <1>1
<1> HIDE DEF length, value
<1>4. BlockRuns(u) /\ SameBoot(s, u)
  BY <1>3, BlockStored, Zenon
<1> HIDE DEF u, t
<1>5. DOMAIN u = BlockFields /\ [u.run EXCEPT !.src = u.run.src + length] \in Block!Runs
  BY <1>3, <1>4 DEF BlockRuns, Block!Runs
<1>6. t = [f \in BlockFields |-> t[f]] /\ t.run = [u.run EXCEPT !.src = u.run.src + length] /\ SameBoot(u, t)
  BY <1>2, <1>4, <1>5 DEF BlockFields, SameBoot, BlockRuns, Block!Runs
<1>7. BlockRuns(t) /\ SameBoot(s, t)
  BY <1>4, <1>5, <1>6 DEF BlockRuns, SameBoot
<1>8. QED BY <1>7 DEF t

LEMMA BlockCleared ==
  ASSUME NEW s, BlockRuns(s), NEW stop \in Nat
  PROVE  BlockRuns(Block!Cleared(s, stop)) /\ SameBoot(s, Block!Cleared(s, stop))
<1>1. s.run.dst \in Nat
  BY DEF BlockRuns, Block!Runs
<1>2. stop - s.run.dst \in Int /\ s.run.dst + (stop - s.run.dst) >= 0
  BY <1>1
<1>3. BlockRuns(Block!Stored(s, stop - s.run.dst, Block!Zeros(stop - s.run.dst)))
      /\ SameBoot(s, Block!Stored(s, stop - s.run.dst, Block!Zeros(stop - s.run.dst)))
  BY <1>2, BlockStored, Zenon
<1>4. QED BY <1>3 DEF Block!Cleared

(* The data segment, the internal RAM, or a span that is declared.         *)
LEMMA BlockHotCopy ==
  ASSUME Block!HleLoopsAssumption, BlockInv, Block!HotCopy
  PROVE  BlockInv'
<1> DEFINE r == block.run
           length == r.end - r.dst
           stage == Block!CopyStage
           c == Block!Copied(block)
           leases == Block!Leased(stage, r.dst, r.end)
           dataEnd == IF stage = "data" THEN r.end ELSE block.dataEnd
           romEnd == IF stage = "data" THEN r.src + length ELSE block.romEnd
           iramEnd == IF stage = "iram" THEN r.end ELSE block.iramEnd
<1>1. BlockNumbers
  BY DEF Block!HleLoopsAssumption, BlockNumbers
<1>2. r.dst \in Nat /\ r.src \in Nat /\ r.end \in Int /\ r.kind = "copy" /\ length > 0
  BY DEF BlockInv, BlockRuns, Block!Runs, Block!HotCopy, Block!Whole
<1>3. BlockRuns(c) /\ SameBoot(block, c)
  BY <1>2, BlockCopied DEF BlockInv
<1>4. /\ stage \in {"none", "data", "iram"}
      /\ stage = "data" => block.dataEnd = Block!Unset
      /\ stage = "iram" => block.bssComplete
  BY DEF Block!CopyStage
<1>5. /\ Block!IsDeclared(r.dst, r.end) \/ stage # "none"
      /\ block' = [c EXCEPT !.dataEnd = IF stage = "data" THEN r.end ELSE c.dataEnd,
                           !.romEnd = IF stage = "data" THEN r.src + length ELSE c.romEnd,
                           !.iramEnd = IF stage = "iram" THEN r.end ELSE c.iramEnd, !.leases = leases]
  BY DEF Block!HotCopy
<1> HIDE DEF c, stage, leases
<1>6. /\ block' = [f \in BlockFields |-> block'[f]] /\ block'.run = c.run /\ block'.script = block.script
      /\ block'.dataEnd = dataEnd /\ block'.romEnd = romEnd /\ block'.iramEnd = iramEnd
      /\ block'.bssEnd = block.bssEnd /\ block'.bssComplete = block.bssComplete /\ block'.leases = leases
  <2>1. DOMAIN c = BlockFields
    BY <1>3 DEF BlockRuns
  <2>2. QED BY <1>3, <1>5, <2>1 DEF BlockFields, SameBoot
<1>7. BlockRuns(block') /\ block'.run.kind \in Block!Kinds
  BY <1>2, <1>3, <1>6 DEF BlockRuns, SameBoot, Block!Kinds
<1>8. r.end \in Nat /\ r.src + length \in Nat
  BY <1>2
<1>9. CASE stage = "none"
  <2>1. leases = block.leases
    BY <1>5, <1>9 DEF Block!Leased, leases
  <2>2. BootInv(block')
    BY <1>6, <1>9, <2>1 DEF BlockInv, BootInv
  <2>3. QED BY <1>7, <2>2 DEF BlockInv
<1>10. ASSUME stage # "none"
       PROVE  /\ leases \in Seq(Spans) /\ Len(block.leases) \in Nat /\ Len(leases) = Len(block.leases) + 1
              /\ \A i \in 1..Len(block.leases) : leases[i] = block.leases[i]
              /\ leases[Len(leases)].stage = stage /\ leases[Len(leases)].first = r.dst
              /\ leases[Len(leases)].stop = r.end
  <2>1. leases = Append(block.leases, [stage |-> stage, first |-> r.dst, stop |-> r.end])
    BY <1>10 DEF Block!Leased, leases
  <2>2. stage \in {"data", "open", "continue", "iram"}
    BY <1>4, <1>10
  <2>3. QED BY <1>2, <1>8, <2>1, <2>2, BlockAppends
<1>11. CASE stage = "data"
  <2>1. Len(block.leases) = 0
    BY <1>4, <1>11 DEF BlockInv, BootInv
  <2>2. Len(leases) = 1
    BY <1>10, <1>11, <2>1
  <2>3. leases \in Seq(Spans) /\ leases[1].stage = "data" /\ leases[1].stop = r.end
    BY <1>10, <1>11, <2>2
  <2>4. block.bssEnd = Block!Unset /\ ~block.bssComplete
    BY <2>1 DEF BlockInv, BootInv
  <2>5. dataEnd = r.end /\ romEnd \in Nat /\ iramEnd = block.iramEnd /\ r.end # Block!Unset
    BY <1>8, <1>11 DEF Block!Unset
  <2>6. Chained(leases, r.end, block.bssEnd)
    BY <2>2, <2>3 DEF Chained
  <2> HIDE DEF dataEnd, romEnd, iramEnd
  <2>7. BootInv(block')
    BY <1>6, <1>8, <2>2, <2>3, <2>4, <2>5, <2>6 DEF BlockInv, BootInv, MaybeEnds
  <2>8. QED BY <1>7, <2>7 DEF BlockInv
<1>12. CASE stage = "iram"
  <2> DEFINE N == Len(block.leases)
  <2>1. PICK j \in 2..N : block.leases[j].stop = block.bssEnd
    BY <1>4, <1>12 DEF BlockInv, BootInv
  <2>2. N \in Nat /\ N >= 2 /\ Len(leases) = N + 1 /\ leases \in Seq(Spans)
        /\ (\A i \in 1..N : leases[i] = block.leases[i]) /\ leases[N + 1].stage = "iram"
    BY <1>10, <1>12, <2>1
  <2>3. Chained(leases, block.dataEnd, block.bssEnd)
    <3>1. block.leases \in Seq(Spans) /\ Chained(block.leases, block.dataEnd, block.bssEnd)
      BY DEF BlockInv, BootInv
    <3>2. QED BY <2>1, <2>2, <3>1, ChainGrows
  <2>4. \E k \in 2..(N + 1) : leases[k].stop = block.bssEnd
    BY <2>1, <2>2
  <2>5. leases[1] = block.leases[1]
    BY <2>2
  <2>6. iramEnd \in Nat /\ dataEnd = block.dataEnd /\ romEnd = block.romEnd
    BY <1>8, <1>12
  <2> HIDE DEF dataEnd, romEnd, iramEnd
  <2>7. BootInv(block')
    BY <1>6, <2>2, <2>3, <2>4, <2>5, <2>6 DEF BlockInv, BootInv, MaybeEnds
  <2>8. QED BY <1>7, <2>7 DEF BlockInv
<1>13. QED BY <1>4, <1>9, <1>11, <1>12

(* The BSS, from its first span to its last, or a span that is declared.   *)
LEMMA BlockHotClear ==
  ASSUME Block!HleLoopsAssumption, BlockInv, Block!HotClear
  PROVE  BlockInv'
<1> DEFINE r == block.run
           stop == IF r.kind = "progress" THEN Block!Boundary(r) ELSE r.end
           stage == Block!ClearStage(stop)
           c == Block!Cleared(block, stop)
           bssEnd == IF stage = "open" THEN r.end ELSE block.bssEnd
           complete == block.bssComplete \/ Block!Completes(stage, stop, bssEnd)
           leases == Block!Leased(stage, r.dst, stop)
           N == Len(block.leases)
<1>1. BlockNumbers
  BY DEF Block!HleLoopsAssumption, BlockNumbers
<1>2. r.dst \in Nat /\ r.end \in Int /\ r.kind \in {"clear", "progress"} /\ stop - r.dst > 0
  BY DEF BlockInv, BlockRuns, Block!Runs, Block!HotClear, Block!Whole
<1>3. stop \in Int
  BY <1>1, <1>2 DEF Block!Boundary, Block!Least, BlockNumbers
<1>4. /\ stage \in {"none", "open", "continue"}
      /\ stage = "open" => /\ block.dataEnd # Block!Unset /\ block.bssEnd = Block!Unset
                           /\ block.dataEnd <= r.dst /\ stop <= r.end
      /\ stage = "continue" => /\ block.dataEnd # Block!Unset /\ r.end = block.bssEnd
                               /\ block.dataEnd <= r.dst /\ stop <= block.bssEnd
  BY DEF Block!ClearStage
<1>5. /\ Block!IsDeclared(r.dst, stop) \/ stage # "none"
      /\ block' = [c EXCEPT !.bssEnd = bssEnd, !.bssComplete = c.bssComplete \/ Block!Completes(stage, stop, bssEnd),
                           !.leases = leases]
  BY DEF Block!HotClear
<1> HIDE DEF stop
<1>6. stop \in Nat /\ stop > r.dst
  BY <1>2, <1>3
<1>7. BlockRuns(c) /\ SameBoot(block, c)
  BY <1>6, BlockCleared DEF BlockInv
<1> HIDE DEF c, stage, leases
<1>8. /\ block' = [f \in BlockFields |-> block'[f]] /\ block'.run = c.run /\ block'.script = block.script
      /\ block'.dataEnd = block.dataEnd /\ block'.romEnd = block.romEnd /\ block'.iramEnd = block.iramEnd
      /\ block'.bssEnd = bssEnd /\ block'.bssComplete = complete /\ block'.leases = leases
  <2>1. DOMAIN c = BlockFields
    BY <1>7 DEF BlockRuns
  <2>2. QED BY <1>5, <1>7, <2>1 DEF BlockFields, SameBoot
<1>9. BlockRuns(block') /\ block'.run.kind \in Block!Kinds
  BY <1>2, <1>7, <1>8 DEF BlockRuns, SameBoot, Block!Kinds
<1>10. /\ N \in Nat /\ block.dataEnd \in MaybeEnds /\ block.bssEnd \in MaybeEnds /\ block.bssComplete \in BOOLEAN
       /\ block.dataEnd = Block!Unset <=> N = 0
       /\ block.bssEnd = Block!Unset <=> N <= 1
       /\ block.leases \in Seq(Spans) /\ Chained(block.leases, block.dataEnd, block.bssEnd)
       /\ N > 0 => block.leases[1].stage = "data" /\ block.leases[1].stop = block.dataEnd
       /\ block.bssComplete => \E j \in 2..N : block.leases[j].stop = block.bssEnd
  <2>1. block.leases \in Seq(Spans)
    BY DEF BlockInv, BootInv
  <2>2. N \in Nat
    BY <2>1
  <2>3. QED BY <2>1, <2>2 DEF BlockInv, BootInv
<1> HIDE DEF N
<1>11. ASSUME stage # "none"
       PROVE  /\ leases \in Seq(Spans) /\ Len(leases) = N + 1
              /\ \A i \in 1..N : leases[i] = block.leases[i]
              /\ leases[N + 1].stage = stage /\ leases[N + 1].first = r.dst
              /\ leases[N + 1].stop = stop
  <2>1. leases = Append(block.leases, [stage |-> stage, first |-> r.dst, stop |-> stop])
    BY <1>11 DEF Block!Leased, leases
  <2>2. stage \in {"data", "open", "continue", "iram"}
    BY <1>4, <1>11
  <2>3. QED BY <1>2, <1>6, <2>1, <2>2, BlockAppends DEF N
<1>12. CASE stage = "none"
  <2>1. leases = block.leases /\ bssEnd = block.bssEnd /\ complete = block.bssComplete
    BY <1>5, <1>10, <1>12 DEF Block!Leased, leases, Block!Completes
  <2> HIDE DEF bssEnd, complete
  <2>2. BootInv(block')
    BY <1>8, <2>1 DEF BlockInv, BootInv
  <2>3. QED BY <1>9, <2>2 DEF BlockInv
<1>13. CASE stage = "open"
  <2>1. N = 1 /\ Len(leases) = 2 /\ leases \in Seq(Spans) /\ leases[1] = block.leases[1]
        /\ leases[2].stage = "open" /\ leases[2].first = r.dst /\ leases[2].stop = stop
    BY <1>4, <1>10, <1>11, <1>13
  <2>2. leases[1].stage = "data" /\ leases[1].stop = block.dataEnd /\ ~block.bssComplete
    BY <1>10, <2>1
  <2>3. bssEnd = r.end /\ bssEnd \in Nat /\ bssEnd # Block!Unset
    BY <1>2, <1>4, <1>6, <1>13 DEF Block!Unset
  <2>4. complete \in BOOLEAN /\ (complete => stop = bssEnd)
    BY <1>10, <2>2 DEF Block!Completes
  <2>5. Chained(leases, block.dataEnd, bssEnd)
    BY <1>4, <1>13, <2>1, <2>2 DEF Chained
  <2>6. complete => \E j \in 2..Len(leases) : leases[j].stop = bssEnd
    BY <2>1, <2>4
  <2> HIDE DEF bssEnd, complete
  <2>7. BootInv(block')
    BY <1>4, <1>8, <1>10, <1>13, <2>1, <2>2, <2>3, <2>4, <2>5, <2>6 DEF BlockInv, BootInv, MaybeEnds
  <2>8. QED BY <1>9, <2>7 DEF BlockInv
<1>14. CASE stage = "continue"
  <2>1. block.bssEnd # Block!Unset /\ bssEnd = block.bssEnd
    BY <1>2, <1>4, <1>6, <1>14 DEF Block!Unset
  <2>2. N >= 2 /\ Len(leases) = N + 1 /\ leases \in Seq(Spans) /\ leases[1] = block.leases[1]
        /\ leases[N + 1].stage = "continue" /\ leases[N + 1].first = r.dst /\ leases[N + 1].stop = stop
    BY <1>10, <1>11, <1>14, <2>1
  <2>3. Chained(leases, block.dataEnd, block.bssEnd)
    BY <1>4, <1>10, <1>11, <1>14, <2>2, ChainGrows DEF N
  <2>4. complete \in BOOLEAN /\ (complete => \E j \in 2..Len(leases) : leases[j].stop = bssEnd)
    <3>1. complete => block.bssComplete \/ stop = bssEnd
      BY DEF Block!Completes
    <3>2. ASSUME NEW j \in 2..N, block.leases[j].stop = bssEnd
          PROVE  \E k \in 2..Len(leases) : leases[k].stop = bssEnd
      BY <1>10, <1>11, <1>14, <2>2, <3>2
    <3>3. QED BY <1>10, <2>1, <2>2, <3>1, <3>2 DEF Block!Completes
  <2> HIDE DEF bssEnd, complete
  <2>5. BootInv(block')
    BY <1>4, <1>8, <1>10, <1>14, <2>1, <2>2, <2>3, <2>4 DEF BlockInv, BootInv, MaybeEnds
  <2>6. QED BY <1>9, <2>5 DEF BlockInv
<1>15. QED BY <1>4, <1>12, <1>13, <1>14

LEMMA BlockSegment ==
  ASSUME Block!HleLoopsAssumption, BlockInv, Block!HotSegment
  PROVE  BlockInv'
<1> DEFINE r == block.run
           remaining == r.end - r.dst
           rest == Block!Segment(remaining)
<1>1. Period \in Nat \ {0}
  BY DEF Block!HleLoopsAssumption
<1>2. r.dst \in Nat /\ r.end \in Int /\ r.kind = "segment" /\ r.dst < r.end
  BY DEF BlockInv, BlockRuns, Block!Runs, Block!HotSegment
<1>3. remaining \in Nat
  BY <1>2
<1> HIDE DEF remaining
<1>4. rest \in Nat /\ rest <= remaining
  BY <1>1, <1>3 DEF Block!Segment
<1>5. r.end - rest \in Nat
  <2> HIDE DEF rest
  <2>1. QED BY <1>2, <1>4 DEF remaining
<1>6. block' = Block!Cleared(block, r.end - rest)
  BY DEF Block!HotSegment, remaining
<1>7. BlockRuns(block') /\ SameBoot(block, block')
  BY <1>5, <1>6, BlockCleared DEF BlockInv
<1>8. QED BY <1>2, <1>7, BlockKeeps DEF Block!Kinds

(* What is done at the address of a loop moves its registers, too.         *)
LEMMA BlockFast ==
  ASSUME BlockInv, NEW u, BlockRuns(u), SameBoot(block, u), block.run.kind \in Block!Kinds,
         \/ block' = [u EXCEPT !.fast = TRUE]
         \/ block' = [u EXCEPT !.fast = TRUE, !.run.turned = TRUE]
  PROVE  BlockInv'
<1>1. /\ DOMAIN u = BlockFields /\ [u.run EXCEPT !.turned = TRUE] \in Block!Runs
      /\ [u.run EXCEPT !.turned = TRUE].kind = u.run.kind /\ u.run \in Block!Runs
  BY DEF BlockRuns, Block!Runs
<1>2. /\ block' = [f \in BlockFields |-> block'[f]] /\ SameBoot(u, block')
      /\ block'.run = u.run \/ block'.run = [u.run EXCEPT !.turned = TRUE]
  <2>1. CASE block' = [u EXCEPT !.fast = TRUE]
    BY <1>1, <2>1 DEF BlockFields, SameBoot
  <2>2. CASE block' = [u EXCEPT !.fast = TRUE, !.run.turned = TRUE]
    BY <1>1, <2>2 DEF BlockFields, SameBoot
  <2>3. QED BY <2>1, <2>2
<1>3. BlockRuns(block') /\ SameBoot(block, block')
  BY <1>1, <1>2 DEF BlockRuns, SameBoot
<1>4. QED BY <1>3, BlockKeeps

LEMMA BlockInductive ==
  ASSUME Block!HleLoopsAssumption, BlockInv, [Block!Next]_block
  PROVE  BlockInv'
<1>1. BlockNumbers
  BY DEF Block!HleLoopsAssumption, BlockNumbers
<1>2. /\ DOMAIN block = BlockFields /\ block.run \in Block!Runs
      /\ block.run # Block!NoLoop => block.run.kind \in Block!Kinds
  BY DEF BlockInv, BlockRuns
<1>3. CASE Block!Iterate
  <2>1. block' = Block!Turned(block) /\ block.run.kind \in Block!Kinds
    BY <1>2, <1>3 DEF Block!Iterate
  <2>2. BlockRuns(block') /\ SameBoot(block, block')
    BY <2>1, BlockTurns DEF BlockInv
  <2>3. QED BY <2>1, <2>2, BlockKeeps
<1>4. CASE Block!Leave
  <2>1. block' = [block EXCEPT !.run = Block!NoLoop]
    BY <1>4 DEF Block!Leave
  <2>2. Block!NoLoop \in Block!Runs
    BY DEF Block!NoLoop, Block!Runs
  <2>3. /\ block' = [f \in BlockFields |-> block'[f]] /\ block'.run = Block!NoLoop
        /\ block'.script = block.script /\ block'.dataEnd = block.dataEnd /\ block'.romEnd = block.romEnd
        /\ block'.bssEnd = block.bssEnd /\ block'.bssComplete = block.bssComplete
        /\ block'.iramEnd = block.iramEnd /\ block'.leases = block.leases
    BY <1>2, <2>1 DEF BlockFields
  <2>4. QED BY <2>2, <2>3 DEF BlockInv, BlockRuns, BootInv
<1>5. ASSUME NEW f \in {"idle", "early"}, NEW value, block' = [block EXCEPT ![f] = value]
      PROVE  BlockInv'
  <2>1. /\ block' = [g \in BlockFields |-> block'[g]] /\ block'.run = block.run
        /\ block'.script = block.script /\ block'.dataEnd = block.dataEnd /\ block'.romEnd = block.romEnd
        /\ block'.bssEnd = block.bssEnd /\ block'.bssComplete = block.bssComplete
        /\ block'.iramEnd = block.iramEnd /\ block'.leases = block.leases
    BY <1>2, <1>5 DEF BlockFields
  <2>2. QED BY <2>1 DEF BlockInv, BlockRuns, BootInv
<1>6. CASE Block!NorChanges \/ Block!BootEnds
  BY <1>5, <1>6 DEF Block!NorChanges, Block!BootEnds
<1>7. CASE Block!FastClear
  <2>1. /\ block.run.kind \in Block!Kinds /\ block.run.end \in Nat
        /\ block' = [Block!Cleared(block, block.run.end) EXCEPT !.fast = TRUE, !.run.turned = TRUE]
    BY <1>1, <1>2, <1>7 DEF Block!FastClear, Block!Within, Block!Kinds, Block!Runs, BlockNumbers
  <2> DEFINE u == Block!Cleared(block, block.run.end)
  <2>2. BlockRuns(u) /\ SameBoot(block, u)
    BY <2>1, BlockCleared DEF BlockInv
  <2> HIDE DEF u
  <2>3. block' = [u EXCEPT !.fast = TRUE, !.run.turned = TRUE]
    BY <2>1 DEF u
  <2>4. QED BY <2>1, <2>2, <2>3, BlockFast
<1>8. CASE Block!FastCopy
  <2>1. /\ block.run.kind \in Block!Kinds /\ block.run.dst <= block.run.end
        /\ block' = [Block!Copied(block) EXCEPT !.fast = TRUE]
    BY <1>8 DEF Block!FastCopy, Block!Within, Block!IsRam, Block!Kinds
  <2> DEFINE u == Block!Copied(block)
  <2>2. BlockRuns(u) /\ SameBoot(block, u)
    BY <2>1, BlockCopied DEF BlockInv
  <2> HIDE DEF u
  <2>3. block' = [u EXCEPT !.fast = TRUE]
    BY <2>1 DEF u
  <2>4. QED BY <2>1, <2>2, <2>3, BlockFast
<1>9. CASE Block!FastRamp
  <2> DEFINE left == Block!RampLeft(block.run.end)
             run == [block.run EXCEPT !.end = left, !.turned = FALSE]
  <2>1. /\ block.run.kind = "ramp"
        /\ block' = [block EXCEPT !.port = 1, !.run.end = left, !.run.turned = FALSE]
    BY <1>9 DEF Block!FastRamp
  <2>2. left \in Int
    BY <1>1, <1>2 DEF Block!RampLeft, Block!Runs, BlockNumbers
  <2> HIDE DEF left
  <2>3. run \in Block!Runs /\ run.kind = block.run.kind
    BY <1>2, <2>2 DEF Block!Runs
  <2>4. block' = [f \in BlockFields |-> block'[f]] /\ block'.run = run
    BY <1>2, <2>1 DEF BlockFields
  <2>5. SameBoot(block, block')
    BY <1>2, <2>1, <2>3, <2>4 DEF BlockFields, SameBoot
  <2> HIDE DEF run
  <2>6. QED BY <2>1, <2>3, <2>4, <2>5, BlockKeeps DEF BlockRuns, Block!Kinds
<1>10. CASE UNCHANGED block
  BY <1>10 DEF BlockInv, BlockRuns, BootInv
<1>11. QED
  BY <1>3, <1>4, <1>6, <1>7, <1>8, <1>9, <1>10, BlockEnters, BlockHotCopy, BlockHotClear, BlockSegment
     DEF Block!Next

LEMMA BlockStarts ==
  ASSUME Block!HleLoopsAssumption
  PROVE  Block!Init => BlockInv
<1>1. SUFFICES ASSUME Block!Init PROVE BlockInv
  OBVIOUS
<1> DEFINE mem == [a \in Block!Cells |-> a + 1]
<1> HIDE DEF mem
<1>2. PICK script \in Scripts :
        block = [script |-> script, run |-> Block!NoLoop, mem |-> mem, idle |-> TRUE,
                strobes |-> 0, bus |-> 0, port |-> 0, early |-> TRUE, fast |-> FALSE,
                dataEnd |-> Block!Unset, romEnd |-> Block!Unset, bssEnd |-> Block!Unset,
                bssComplete |-> FALSE, iramEnd |-> Block!Unset, leases |-> <<>>,
                entry |-> Block!NoLoop, promise |-> Block!NoLoop]
  BY <1>1 DEF Block!Init, mem
<1>3. script \in Seq(Entered)
  <2>1. script \in Seq(Block!Runs) /\ \A i \in DOMAIN script : script[i].kind \in Block!Kinds
    BY DEF Block!HleLoopsAssumption
  <2>2. Len(script) \in Nat /\ DOMAIN script = 1..Len(script) /\ script \in [1..Len(script) -> Entered]
    BY <2>1 DEF Entered
  <2>3. QED BY <2>1, <2>2
<1>4. Block!NoLoop \in Block!Runs
  BY DEF Block!NoLoop, Block!Runs
<1>5. BlockRuns(block)
  BY <1>2, <1>4 DEF BlockRuns, BlockFields
<1>6. Chained(<<>>, Block!Unset, Block!Unset) /\ <<>> \in Seq(Spans) /\ Len(<<>>) = 0
  BY DEF Chained
<1>7. BootInv(block)
  BY <1>2, <1>3, <1>6 DEF BootInv, MaybeEnds
<1>8. QED BY <1>2, <1>5, <1>7 DEF BlockInv

(* hle/bootstrap.py, _bootstrap_copy_stage, _bootstrap_clear_stage and     *)
(* what _complete_hot_copy, _complete_hot_clear record: RAM that no linker *)
(* declared is written for the guest by one chain only, the data segment,  *)
(* the BSS behind it up to its end, and the internal RAM.                  *)
THEOREM LoopLeasesInOrder ==
  ASSUME Block!HleLoopsAssumption
  PROVE  Block!Spec => [](Block!TypeOK /\ Block!LeasesInOrder)
<1>1. Block!Init => BlockInv
  BY BlockStarts
<1>2. BlockInv /\ [Block!Next]_block => BlockInv'
  BY BlockInductive
<1>3. BlockInv => Block!TypeOK /\ Block!LeasesInOrder
  <2>1. SUFFICES ASSUME BlockInv PROVE Block!TypeOK /\ Block!LeasesInOrder
    OBVIOUS
  <2>2. block.leases \in Seq(Spans) /\ DOMAIN block.leases = 1..Len(block.leases) /\ Len(block.leases) \in Nat
    BY <2>1 DEF BlockInv, BootInv
  <2>3. Block!TypeOK
    BY <2>1, <2>2 DEF BlockInv, BlockRuns, BootInv, Block!TypeOK, MaybeEnds
  <2>4. \A i \in 1..Len(block.leases) :
          /\ block.leases[i].stage \in {"data", "open", "continue", "iram"}
          /\ block.leases[i].stage = "data" <=> i = 1
          /\ block.leases[i].stage = "open" <=> i = 2
          /\ block.leases[i].stage \in {"open", "continue"} => block.leases[i].first >= block.leases[1].stop
          /\ block.leases[i].stage = "iram" => \E j \in 2..(i - 1) : block.leases[j].stop = block.bssEnd
    <3>1. SUFFICES ASSUME NEW i \in 1..Len(block.leases)
                   PROVE  /\ block.leases[i].stage \in {"data", "open", "continue", "iram"}
                          /\ block.leases[i].stage = "data" <=> i = 1
                          /\ block.leases[i].stage = "open" <=> i = 2
                          /\ block.leases[i].stage \in {"open", "continue"} =>
                               block.leases[i].first >= block.leases[1].stop
                          /\ block.leases[i].stage = "iram" =>
                               \E j \in 2..(i - 1) : block.leases[j].stop = block.bssEnd
      OBVIOUS
    <3>2. block.leases[i] \in Spans
      BY <2>2
    <3>3. Chained(block.leases, block.dataEnd, block.bssEnd) /\ block.leases[1].stop = block.dataEnd
      BY <2>1, <2>2 DEF BlockInv, BootInv
    <3>4. QED BY <3>2, <3>3 DEF Chained, Spans
  <2>5. QED BY <2>2, <2>3, <2>4 DEF Block!LeasesInOrder
<1>4. QED BY <1>1, <1>2, <1>3, PTL DEF Block!Spec

-------------------------------------------------------------------------------
(* What a loop leaves.                                                     *)

Bounded == {r \in Entered : r.end <= AddressSpace}
Moving == {"run", "mem", "strobes", "bus", "port"}
Still(s, t) == \A f \in BlockFields \ Moving : t[f] = s[f]
IsState(s) == s = [f \in BlockFields |-> s[f]]

(* A state in which a loop runs.                                           *)
Walks(s) ==
  /\ IsState(s) /\ s.run \in Bounded /\ s.mem \in [Block!Cells -> Int]
  /\ s.strobes \in Int /\ s.bus \in Int /\ s.port \in Int

(* An iteration: how far it goes, how often it strobes, what it stores and *)
(* how often it waits for the bus.                                         *)
Copying(r) == r.kind = "copy" \/ r.kind = "call"

Unit(r) ==
  IF r.kind = "ramp" THEN 0
  ELSE IF r.kind = "unrolled" THEN Unrolled
  ELSE IF r.kind = "call" THEN 1
  ELSE IF r.kind = "segment" /\ r.end - r.dst >= Chunk THEN Chunk ELSE Word

Beat(r) ==
  IF \/ r.kind = "progress" /\ r.dst % Period = 0
     \/ r.kind = "segment" /\ r.end - r.dst >= Chunk /\ (r.end - r.dst) % Period < Chunk
  THEN 1 ELSE 0

Beats(r) == Beat(r) + IF r.pristine THEN 0 ELSE 1

Given(s, i) == IF Copying(s.run) THEN Block!Loaded(s, s.run.src + i) ELSE 0

Overwritten(s, n, value) ==
  [a \in Block!Cells |-> IF s.run.dst <= a /\ a < s.run.dst + n /\ Block!Writable(a)
                         THEN value[a - s.run.dst] ELSE s.mem[a]]
Written(s, n) ==
  [a \in Block!Cells |-> IF s.run.dst <= a /\ a < s.run.dst + n /\ Block!Writable(a)
                         THEN Given(s, a - s.run.dst) ELSE s.mem[a]]

Waits(s) ==
  (IF s.run.kind = "ramp" \/ Block!Writable(s.run.dst) THEN 0 ELSE 1)
    + (IF Copying(s.run) /\ ~Block!Plain(s, s.run.src) THEN 1 ELSE 0)

(* The registers behind n cells.                                           *)
IsRun7(q) ==
  q = [kind |-> q.kind, dst |-> q.dst, src |-> q.src, end |-> q.end, turned |-> q.turned,
       pristine |-> q.pristine, leaves |-> q.leaves]
Ahead(r, n, q) ==
  /\ IsRun7(q) /\ q.kind = r.kind /\ q.pristine = r.pristine /\ q.leaves = r.leaves
  /\ q.dst = r.dst + n /\ q.src = IF Copying(r) THEN r.src + n ELSE r.src

TurnsTo(s, t) ==
  /\ IsState(t) /\ Still(s, t)
  /\ Ahead(s.run, Unit(s.run), t.run) /\ t.run.turned = TRUE
  /\ t.run.end = IF s.run.kind = "ramp" THEN s.run.end - Ramp ELSE s.run.end
  /\ t.mem = Written(s, Unit(s.run))
  /\ t.strobes = s.strobes + Beats(s.run) /\ t.bus = s.bus + Waits(s)
  /\ t.port = IF s.run.kind = "ramp" THEN 1 ELSE s.port

LEMMA RunsAre ==
  ASSUME NEW r \in Bounded
  PROVE  /\ IsRun7(r)
         /\ r.kind \in Block!Kinds /\ r.dst \in Nat /\ r.src \in Nat /\ r.end \in Int /\ r.end <= AddressSpace
         /\ r.turned \in BOOLEAN /\ r.pristine \in BOOLEAN /\ r.leaves \in {"strobe", "code"}
BY DEF Bounded, Entered, Block!Runs, IsRun7

LEMMA BoundedRun ==
  ASSUME NEW r, IsRun7(r), r.kind \in Block!Kinds, r.dst \in Nat, r.src \in Nat, r.end \in Int,
         r.end <= AddressSpace, r.turned \in BOOLEAN, r.pristine \in BOOLEAN, r.leaves \in {"strobe", "code"}
  PROVE  r \in Bounded
BY DEF Bounded, Entered, Block!Runs, IsRun7

(* What a store changes.                                                   *)
StoresTo(s, n, value, t) ==
  /\ IsState(t) /\ Still(s, t) /\ t.run = [s.run EXCEPT !.dst = s.run.dst + n]
  /\ t.mem = Overwritten(s, n, value) /\ t.strobes = s.strobes /\ t.port = s.port
  /\ t.bus = s.bus + IF n = 0 \/ Block!Writable(s.run.dst) THEN 0 ELSE 1

LEMMA StoreFacts ==
  ASSUME NEW s, IsState(s), NEW n, NEW value
  PROVE  StoresTo(s, n, value, Block!Stored(s, n, value))
<1> DEFINE t == Block!Stored(s, n, value)
<1>1. /\ t = [f \in BlockFields |-> t[f]] /\ Still(s, t)
      /\ t.run = [s.run EXCEPT !.dst = s.run.dst + n]
      /\ t.mem = Overwritten(s, n, value) /\ t.strobes = s.strobes /\ t.port = s.port
      /\ t.bus = s.bus + IF n = 0 \/ Block!Writable(s.run.dst) THEN 0 ELSE 1
  BY DEF Block!Stored, BlockFields, Still, Moving, Overwritten, IsState
<1> HIDE DEF t
<1>2. StoresTo(s, n, value, t)
  BY <1>1 DEF StoresTo, IsState
<1>3. QED BY <1>2 DEF t

(* What is stored by a unit of the loop.                                   *)
LEMMA UnitStored ==
  ASSUME NEW s, Walks(s), NEW n \in Nat, NEW value, \A i \in 0..(n - 1) : value[i] = Given(s, i)
  PROVE  Overwritten(s, n, value) = Written(s, n)
<1>1. s.run.dst \in Nat
  BY RunsAre DEF Walks
<1>2. ASSUME NEW a \in Block!Cells, s.run.dst <= a, a < s.run.dst + n
      PROVE  value[a - s.run.dst] = Given(s, a - s.run.dst)
  <2>1. a \in Int
    BY DEF Block!Cells
  <2>2. a - s.run.dst \in 0..(n - 1)
    BY <1>1, <1>2, <2>1
  <2>3. QED BY <2>2
<1>3. \A a \in Block!Cells : s.run.dst <= a /\ a < s.run.dst + n => value[a - s.run.dst] = Given(s, a - s.run.dst)
  BY <1>2
<1>4. QED BY <1>3 DEF Overwritten, Written

(* A unit of a loop that clears, and one of a loop that copies.            *)
LEMMA ClearUnit ==
  ASSUME NEW s, Walks(s), ~Copying(s.run), NEW n \in Nat \ {0}, NEW u, u = Block!Stored(s, n, Block!Zeros(n))
  PROVE  /\ IsState(u) /\ Still(s, u) /\ Ahead(s.run, n, u.run) /\ u.run.end = s.run.end
         /\ u.run.turned = s.run.turned /\ u.mem = Written(s, n) /\ u.strobes = s.strobes
         /\ u.port = s.port /\ u.bus = s.bus + IF Block!Writable(s.run.dst) THEN 0 ELSE 1
<1>1. IsRun7(s.run) /\ IsState(s)
  BY RunsAre DEF Walks
<1>2. StoresTo(s, n, Block!Zeros(n), u)
  BY <1>1, StoreFacts
<1>3. \A j \in 0..(n - 1) : Block!Zeros(n)[j] = Given(s, j)
  BY DEF Block!Zeros, Given
<1>4. Overwritten(s, n, Block!Zeros(n)) = Written(s, n)
  BY <1>3, UnitStored
<1>5. QED BY <1>1, <1>2, <1>4 DEF StoresTo, Ahead, IsRun7

LEMMA CopyUnit ==
  ASSUME NEW s, Walks(s), Copying(s.run), NEW n \in Nat \ {0}, NEW u, u = Block!CopyUnit(s, n)
  PROVE  /\ IsState(u) /\ Still(s, u) /\ Ahead(s.run, n, u.run) /\ u.run.end = s.run.end
         /\ u.run.turned = s.run.turned /\ u.mem = Written(s, n) /\ u.strobes = s.strobes
         /\ u.port = s.port /\ u.bus = s.bus + Waits(s)
<1> DEFINE value == [j \in 0..(n - 1) |-> Block!Loaded(s, s.run.src + j)]
           v == Block!Stored(s, n, value)
<1>1. IsRun7(s.run) /\ IsState(s) /\ s.bus \in Int
  BY RunsAre DEF Walks
<1>2. Overwritten(s, n, value) = Written(s, n)
  <2>1. \A j \in 0..(n - 1) : value[j] = Given(s, j)
    BY DEF Given
  <2> HIDE DEF value
  <2>2. QED BY <2>1, UnitStored
<1>3. u = [v EXCEPT !.run.src = v.run.src + n, !.bus = v.bus + IF Block!Plain(s, s.run.src) THEN 0 ELSE 1]
  BY DEF Block!CopyUnit
<1> HIDE DEF value
<1>4. StoresTo(s, n, value, v)
  BY <1>1, StoreFacts
<1> HIDE DEF v
<1>5. /\ u = [f \in BlockFields |-> u[f]] /\ Still(v, u) /\ u.run = [v.run EXCEPT !.src = v.run.src + n]
      /\ u.mem = v.mem /\ u.strobes = v.strobes /\ u.port = v.port
      /\ u.bus = v.bus + IF Block!Plain(s, s.run.src) THEN 0 ELSE 1
  BY <1>3, <1>4 DEF BlockFields, Still, Moving, StoresTo, IsState
<1>6. Ahead(s.run, n, u.run) /\ u.run.end = s.run.end /\ u.run.turned = s.run.turned
  BY <1>1, <1>4, <1>5 DEF StoresTo, Ahead, IsRun7
<1>7. v.bus = s.bus + IF Block!Writable(s.run.dst) THEN 0 ELSE 1
  BY <1>4 DEF StoresTo
<1>8. u.bus = s.bus + Waits(s)
  BY <1>1, <1>5, <1>7 DEF Waits, Copying
<1>9. QED BY <1>2, <1>4, <1>5, <1>6, <1>8 DEF StoresTo, Still, IsState

(* An iteration, but for its strobes.                                      *)
IteratesTo(s, u) ==
  /\ IsState(u) /\ Still(s, u) /\ Ahead(s.run, Unit(s.run), u.run) /\ u.run.turned = s.run.turned
  /\ u.run.end = (IF s.run.kind = "ramp" THEN s.run.end - Ramp ELSE s.run.end)
  /\ u.mem = Written(s, Unit(s.run)) /\ u.bus = s.bus + Waits(s)
  /\ u.port = (IF s.run.kind = "ramp" THEN 1 ELSE s.port)

LEMMA IterationFacts ==
  ASSUME Block!HleLoopsAssumption, NEW s, Walks(s), NEW i, i = Block!Iterated(s)
  PROVE  IteratesTo(s, i) /\ i.strobes = s.strobes + Beat(s.run)
<1> DEFINE r == s.run
<1>1. BlockNumbers
  BY DEF Block!HleLoopsAssumption, BlockNumbers
<1>2. /\ r.kind \in Block!Kinds /\ r.dst \in Nat /\ r.src \in Nat /\ r.end \in Int /\ r.pristine \in BOOLEAN
      /\ IsRun7(r) /\ IsState(s) /\ s.strobes \in Int /\ s.bus \in Int
  BY RunsAre DEF Walks
<1>3. Beat(r) \in Int
  BY DEF Beat
<1>4. CASE r.kind = "ramp"
  <2>1. i = [s EXCEPT !.run.end = r.end - Ramp, !.port = 1]
    BY <1>4 DEF Block!Iterated
  <2>2. Unit(r) = 0 /\ ~Copying(r) /\ Beat(r) = 0 /\ Waits(s) = 0
    BY <1>4 DEF Unit, Copying, Beat, Waits
  <2>3. Written(s, 0) = s.mem
    <3>1. \A a \in Block!Cells : ~(r.dst <= a /\ a < r.dst + 0)
      BY <1>2 DEF Block!Cells
    <3>2. s.mem \in [Block!Cells -> Int]
      BY DEF Walks
    <3>3. QED BY <3>1, <3>2 DEF Written
  <2>4. /\ i = [f \in BlockFields |-> i[f]] /\ Still(s, i) /\ i.run = [r EXCEPT !.end = r.end - Ramp]
        /\ i.mem = s.mem /\ i.strobes = s.strobes /\ i.bus = s.bus /\ i.port = 1
    BY <1>2, <2>1 DEF BlockFields, Still, Moving, IsState
  <2>5. Ahead(r, 0, i.run) /\ i.run.end = r.end - Ramp /\ i.run.turned = r.turned
    BY <1>2, <2>2, <2>4 DEF Ahead, IsRun7
  <2>6. IteratesTo(s, i) /\ i.strobes = s.strobes + Beat(r)
    BY <1>2, <1>4, <2>2, <2>3, <2>4, <2>5 DEF IsState, IteratesTo
  <2>7. QED BY <2>6
<1>5. CASE Copying(r)
  <2>1. /\ i = Block!CopyUnit(s, Unit(r)) /\ Beat(r) = 0 /\ Unit(r) \in Nat \ {0} /\ r.kind # "ramp"
    BY <1>1, <1>5 DEF Copying, Unit, Beat, Block!Iterated, BlockNumbers
  <2>2. IteratesTo(s, i) /\ i.strobes = s.strobes
    BY <1>5, <2>1, CopyUnit DEF IteratesTo
  <2>3. i.strobes = s.strobes + Beat(r)
    BY <1>2, <2>1, <2>2
  <2>4. QED BY <2>2, <2>3
<1>6. ASSUME r.kind # "ramp", ~Copying(r), NEW u, u = Block!Stored(s, Unit(r), Block!Zeros(Unit(r))),
             Unit(r) \in Nat \ {0}, (i = u /\ Beat(r) = 0) \/ i = [u EXCEPT !.strobes = u.strobes + Beat(r)]
      PROVE  IteratesTo(s, i) /\ i.strobes = s.strobes + Beat(r)
  <2>1. IteratesTo(s, u) /\ u.strobes = s.strobes
    <3>1. Waits(s) = IF Block!Writable(r.dst) THEN 0 ELSE 1
      BY <1>6 DEF Waits
    <3>2. QED BY <1>6, <3>1, ClearUnit DEF IteratesTo
  <2>2. CASE i = u /\ Beat(r) = 0
    BY <1>2, <2>1, <2>2
  <2>3. CASE i = [u EXCEPT !.strobes = u.strobes + Beat(r)]
    <3>1. /\ i = [f \in BlockFields |-> i[f]] /\ Still(u, i) /\ i.run = u.run /\ i.mem = u.mem
          /\ i.bus = u.bus /\ i.port = u.port /\ i.strobes = s.strobes + Beat(r)
      BY <2>1, <2>3 DEF BlockFields, Still, Moving, IsState, IteratesTo
    <3>2. QED BY <2>1, <3>1 DEF IsState, Still, IteratesTo
  <2>4. QED BY <1>6, <2>2, <2>3
<1>7. CASE r.kind \in {"unrolled", "clear"}
  <2>1. /\ Beat(r) = 0 /\ Unit(r) \in Nat \ {0} /\ r.kind # "ramp" /\ ~Copying(r)
        /\ i = Block!Stored(s, Unit(r), Block!Zeros(Unit(r)))
    BY <1>1, <1>7 DEF Copying, Unit, Beat, Block!Iterated, BlockNumbers
  <2>2. QED BY <1>6, <2>1
<1>8. CASE r.kind = "progress"
  <2>1. /\ Unit(r) = Word /\ Word \in Nat \ {0} /\ r.kind # "ramp" /\ ~Copying(r)
        /\ Beat(r) = IF r.dst % Period = 0 THEN 1 ELSE 0
    BY <1>1, <1>8 DEF Copying, Unit, Beat, BlockNumbers
  <2>2. i = [Block!Stored(s, Word, Block!Zeros(Word)) EXCEPT
               !.strobes = Block!Stored(s, Word, Block!Zeros(Word)).strobes + Beat(r)]
    BY <1>8, <2>1 DEF Block!Iterated
  <2>3. QED BY <1>6, <2>1, <2>2
<1>9. CASE r.kind = "segment" /\ ~(r.end - r.dst >= Chunk)
  <2>1. /\ Beat(r) = 0 /\ Unit(r) = Word /\ Word \in Nat \ {0} /\ r.kind # "ramp" /\ ~Copying(r)
    BY <1>1, <1>9 DEF Copying, Unit, Beat, BlockNumbers
  <2>2. i = Block!Stored(s, Word, Block!Zeros(Word))
    <3>1. r.end - r.dst < Chunk
      BY <1>1, <1>2, <1>9 DEF BlockNumbers
    <3>2. QED BY <1>9, <3>1 DEF Block!Iterated
  <2>3. QED BY <1>6, <2>1, <2>2
<1>10. CASE r.kind = "segment" /\ r.end - r.dst >= Chunk
  <2>1. /\ Unit(r) = Chunk /\ Chunk \in Nat \ {0} /\ r.kind # "ramp" /\ ~Copying(r)
        /\ Beat(r) = IF (r.end - r.dst) % Period < Chunk THEN 1 ELSE 0
    BY <1>1, <1>10 DEF Copying, Unit, Beat, BlockNumbers
  <2>2. i = [Block!Stored(s, Chunk, Block!Zeros(Chunk)) EXCEPT
               !.strobes = Block!Stored(s, Chunk, Block!Zeros(Chunk)).strobes + Beat(r)]
    <3>1. ~(r.end - r.dst < Chunk)
      BY <1>1, <1>2, <1>10 DEF BlockNumbers
    <3>2. QED BY <1>10, <2>1, <3>1 DEF Block!Iterated
  <2>3. QED BY <1>6, <2>1, <2>2
<1>11. QED BY <1>2, <1>4, <1>5, <1>7, <1>8, <1>9, <1>10 DEF Block!Kinds, Copying

LEMMA TurnFacts ==
  ASSUME Block!HleLoopsAssumption, NEW s, Walks(s), ~Block!Done(s), NEW t, t = Block!Turned(s)
  PROVE  TurnsTo(s, t)
<1>1. PICK i : i = Block!Iterated(s)
  OBVIOUS
<1>2. PICK p : p = Block!Pass(s)
  OBVIOUS
<1>3. p = IF s.run.pristine THEN i ELSE [i EXCEPT !.strobes = i.strobes + 1]
  BY <1>1, <1>2 DEF Block!Pass
<1>4. PICK yes : yes = TRUE /\ t = [p EXCEPT !.run = [p.run EXCEPT !.turned = yes]]
  BY <1>2 DEF Block!Turned
<1>5. IteratesTo(s, i) /\ i.strobes = s.strobes + Beat(s.run)
  BY <1>1, IterationFacts
<1>6. s.run.pristine \in BOOLEAN /\ s.strobes \in Int /\ Beat(s.run) \in Int
  BY RunsAre DEF Walks, Beat
<1>7. IteratesTo(s, p) /\ p.strobes = s.strobes + Beats(s.run)
  <2>1. CASE s.run.pristine
    BY <1>3, <1>5, <1>6, <2>1 DEF Beats
  <2>2. CASE ~s.run.pristine
    <3>1. /\ p = [f \in BlockFields |-> p[f]] /\ Still(i, p) /\ p.run = i.run /\ p.mem = i.mem
          /\ p.bus = i.bus /\ p.port = i.port /\ p.strobes = i.strobes + 1
      BY <1>3, <1>5, <2>2 DEF BlockFields, Still, Moving, IsState, IteratesTo
    <3>2. p.strobes = s.strobes + Beats(s.run)
      BY <1>5, <1>6, <2>2, <3>1 DEF Beats
    <3>3. QED BY <1>5, <3>1, <3>2 DEF IsState, Still, IteratesTo
  <2>3. QED BY <1>6, <2>1, <2>2
<1>8. /\ t = [f \in BlockFields |-> t[f]] /\ Still(p, t) /\ t.run = [p.run EXCEPT !.turned = yes]
      /\ t.mem = p.mem /\ t.bus = p.bus /\ t.port = p.port /\ t.strobes = p.strobes
  BY <1>4, <1>7 DEF BlockFields, Still, Moving, IsState, IteratesTo
<1>9. Ahead(s.run, Unit(s.run), t.run) /\ t.run.end = p.run.end /\ t.run.turned = yes
  BY <1>7, <1>8 DEF Ahead, IsRun7, IteratesTo
<1>10. QED BY <1>4, <1>7, <1>8, <1>9 DEF TurnsTo, IsState, Still, IteratesTo

LEMMA TurnWalks ==
  ASSUME Block!HleLoopsAssumption, NEW s, Walks(s), NEW t, TurnsTo(s, t)
  PROVE  Walks(t)
<1> DEFINE r == s.run
           n == Unit(r)
<1>1. BlockNumbers
  BY DEF Block!HleLoopsAssumption, BlockNumbers
<1>2. /\ r.kind \in Block!Kinds /\ r.dst \in Nat /\ r.src \in Nat /\ r.end \in Int /\ r.end <= AddressSpace
      /\ r.pristine \in BOOLEAN /\ r.leaves \in {"strobe", "code"} /\ AddressSpace \in Nat
  BY RunsAre DEF Walks, Block!HleLoopsAssumption
<1>3. n \in Nat /\ Beats(r) \in Int /\ Waits(s) \in Int
  BY <1>1 DEF Unit, Beats, Beat, Waits, BlockNumbers
<1>4. t.run \in Bounded
  <2>1. /\ t.run.kind = r.kind /\ t.run.dst \in Nat /\ t.run.src \in Nat /\ t.run.turned \in BOOLEAN
        /\ t.run.pristine = r.pristine /\ t.run.leaves = r.leaves /\ IsRun7(t.run)
    <3> HIDE DEF n
    <3>1. Ahead(r, n, t.run) /\ t.run.turned = TRUE
      BY DEF TurnsTo, n
    <3>2. t.run.src = r.src \/ t.run.src = r.src + n
      BY <3>1 DEF Ahead
    <3>3. PICK yes : yes = TRUE /\ t.run.turned = yes
      BY <3>1
    <3>4. t.run.kind = r.kind /\ t.run.dst = r.dst + n /\ t.run.pristine = r.pristine /\ t.run.leaves = r.leaves /\ IsRun7(t.run)
      BY <3>1 DEF Ahead
    <3> HIDE DEF r
    <3>5. QED BY <1>2, <1>3, <3>2, <3>3, <3>4
  <2>2. t.run.end \in Int /\ t.run.end <= AddressSpace
    BY <1>1, <1>2 DEF TurnsTo, BlockNumbers
  <2> HIDE DEF r
  <2>3. QED BY <1>2, <2>1, <2>2, BoundedRun
<1>5. t.mem \in [Block!Cells -> Int]
  <2>1. s.mem \in [Block!Cells -> Int]
    BY DEF Walks
  <2>2. \A i : Given(s, i) \in Int
    BY <2>1 DEF Given, Block!Loaded
  <2>3. QED BY <2>1, <2>2 DEF TurnsTo, Written
<1>6. s.strobes \in Int /\ s.bus \in Int /\ s.port \in Int
  BY DEF Walks
<1>7. QED BY <1>3, <1>4, <1>5, <1>6 DEF Walks, TurnsTo

(* How far it is at most to the end of the loop.                           *)
TurnsLeft(r) ==
  IF r.kind = "ramp" THEN (IF r.end > Ramp THEN r.end ELSE IF r.turned THEN 0 ELSE 1)
  ELSE IF r.dst < r.end THEN r.end - r.dst
  ELSE IF r.kind = "unrolled" /\ ~r.turned THEN 1 ELSE 0

LEMMA LeftFalls ==
  ASSUME Block!HleLoopsAssumption, NEW s, Walks(s)
  PROVE  /\ TurnsLeft(s.run) \in 0..AddressSpace /\ (Block!Done(s) <=> TurnsLeft(s.run) = 0)
         /\ \A t : ~Block!Done(s) /\ TurnsTo(s, t) => TurnsLeft(t.run) < TurnsLeft(s.run)
<1>1. BlockNumbers /\ AddressSpace \in Nat \ {0}
  BY DEF Block!HleLoopsAssumption, BlockNumbers
<1>2. /\ s.run.kind \in Block!Kinds /\ s.run.dst \in Nat /\ s.run.end \in Int /\ s.run.end <= AddressSpace
      /\ s.run.turned \in BOOLEAN
  BY RunsAre DEF Walks
<1>3. TurnsLeft(s.run) \in 0..AddressSpace /\ (Block!Done(s) <=> TurnsLeft(s.run) = 0)
  <2>1. CASE s.run.kind = "ramp"
    BY <1>1, <1>2, <2>1 DEF TurnsLeft, Block!Done, BlockNumbers
  <2>2. CASE s.run.kind = "unrolled"
    BY <1>1, <1>2, <2>2 DEF TurnsLeft, Block!Done, BlockNumbers
  <2>3. CASE s.run.kind # "ramp" /\ s.run.kind # "unrolled"
    BY <1>1, <1>2, <2>3 DEF TurnsLeft, Block!Done, BlockNumbers
  <2>4. QED BY <2>1, <2>2, <2>3
<1>4. ASSUME NEW t, ~Block!Done(s), TurnsTo(s, t)
      PROVE  TurnsLeft(t.run) < TurnsLeft(s.run)
  <2>1. /\ t.run.kind = s.run.kind /\ t.run.turned = TRUE /\ t.run.dst = s.run.dst + Unit(s.run)
        /\ t.run.end = IF s.run.kind = "ramp" THEN s.run.end - Ramp ELSE s.run.end
    BY <1>4 DEF TurnsTo, Ahead
  <2>2. Unit(s.run) \in Nat /\ (s.run.kind # "ramp" => Unit(s.run) > 0)
    BY <1>1 DEF Unit, BlockNumbers
  <2>3. TurnsLeft(s.run) > 0
    BY <1>3, <1>4
  <2>4. CASE s.run.kind = "ramp"
    BY <1>1, <1>2, <2>1, <2>3, <2>4 DEF TurnsLeft, BlockNumbers
  <2>5. CASE s.run.kind # "ramp"
    BY <1>1, <1>2, <2>1, <2>2, <2>3, <2>5 DEF TurnsLeft, BlockNumbers
  <2>6. QED BY <2>4, <2>5
<1>5. QED BY <1>3, <1>4

(* The states of a loop that no hook interferes with, and what it leaves.  *)
Path(x, h) ==
  /\ h[0] = x /\ \A i \in 1..AddressSpace : h[i] = Block!Turned(h[i - 1])
  /\ \A i \in 0..AddressSpace : Walks(h[i])

LoopSeen(s) ==
  [run |-> [s.run EXCEPT !.turned = TRUE], mem |-> s.mem, strobes |-> s.strobes, bus |-> s.bus,
   port |-> s.port]

LEMMA PathExists ==
  ASSUME Block!HleLoopsAssumption, NEW x, Walks(x)
  PROVE  \E h : Path(x, h) /\ Block!Native(x) = LoopSeen(h[AddressSpace])
<1> DEFINE N == AddressSpace
           U == Bounded \cup [Block!Cells -> Int] \cup Int \cup {x[f] : f \in BlockFields}
           T == {s \in [BlockFields -> U] : Walks(s) /\ Still(x, s)}
           step == [p \in (1..N) \X T |-> Block!Turned(p[2])]
           Runs(f) == f = [n \in 0..N |-> IF n = 0 THEN x ELSE Block!Turned(f[n - 1])]
<1>1. N \in Nat
  BY DEF Block!HleLoopsAssumption
<1>2. ASSUME NEW s, Walks(s), Still(x, s) PROVE s \in T
  <2>1. s = [f \in BlockFields |-> s[f]]
    BY <1>2 DEF Walks, IsState
  <2>2. ASSUME NEW f \in BlockFields PROVE s[f] \in U
    <3>1. CASE f \in Moving
      BY <1>2, <3>1 DEF Walks, Moving
    <3>2. CASE f \notin Moving
      BY <1>2, <3>2 DEF Still
    <3>3. QED BY <3>1, <3>2
  <2> HIDE DEF U
  <2>3. s \in [BlockFields -> U]
    BY <2>1, <2>2
  <2>4. QED BY <1>2, <2>3
<1>3. ASSUME NEW s \in T PROVE Block!Turned(s) \in T
  <2>1. Walks(s) /\ Still(x, s)
    OBVIOUS
  <2> HIDE DEF T
  <2>2. CASE Block!Done(s)
    <3>1. Block!Turned(s) = s
      BY <2>2 DEF Block!Turned
    <3>2. QED BY <3>1
  <2>3. CASE ~Block!Done(s)
    <3>1. PICK t : t = Block!Turned(s)
      OBVIOUS
    <3>2. TurnsTo(s, t)
      BY <2>1, <2>3, <3>1, TurnFacts
    <3>3. Walks(t) /\ Still(x, t)
      BY <2>1, <3>2, TurnWalks DEF TurnsTo, Still
    <3>4. QED BY <1>2, <3>1, <3>3
  <2>4. QED BY <2>2, <2>3
<1>4. x \in T
  BY <1>2 DEF Still
<1>5. \A s \in T : Walks(s)
  OBVIOUS
<1> HIDE DEF T
<1>6. PICK h : IsRun(N, T, x, step, h)
  <2>1. step \in [(1..N) \X T -> T]
    BY <1>3
  <2> HIDE DEF step, N
  <2>2. QED BY <1>1, <1>4, <2>1, RunExists
<1>7. /\ h \in [0..N -> T] /\ h[0] = x
      /\ \A i \in 1..N : h[i] = Block!Turned(h[i - 1])
  <2>1. h \in [0..N -> T] /\ h[0] = x /\ \A i \in 1..N : h[i] = step[<<i, h[i - 1]>>]
    BY <1>6 DEF IsRun
  <2>2. ASSUME NEW i \in 1..N PROVE h[i] = Block!Turned(h[i - 1])
    <3>1. i - 1 \in 0..N
      BY <1>1
    <3>2. <<i, h[i - 1]>> \in (1..N) \X T
      BY <2>1, <3>1
    <3>3. QED BY <2>1, <3>2
  <2>3. QED BY <2>1, <2>2
<1>8. Path(x, h)
  BY <1>5, <1>7 DEF Path
<1>9. Runs(h)
  <2>1. \A n \in 0..N : h[n] = IF n = 0 THEN x ELSE Block!Turned(h[n - 1])
    <3>1. \A n \in 0..N : n # 0 => n \in 1..N
      BY <1>1
    <3>2. QED BY <1>7, <3>1
  <2>2. QED BY <1>7, <2>1
<1>10. PICK g : Runs(g) /\ Block!Native(x) = LoopSeen(g[N])
  <2>1. Block!Native(x) = LoopSeen((CHOOSE f : Runs(f))[N])
    BY DEF Block!Native, LoopSeen
  <2>2. Runs(CHOOSE f : Runs(f))
    <3> HIDE DEF Runs
    <3>1. QED BY <1>9
  <2>3. QED BY <2>1, <2>2
<1>11. h[N] = g[N]
  <2>1. g[0] = x /\ \A i \in 1..N : g[i] = Block!Turned(g[i - 1])
    BY <1>1, <1>10
  <2>2. h[0] = g[0] /\ \A i \in 1..N : h[i - 1] = g[i - 1] => h[i] = g[i]
    BY <1>7, <2>1
  <2>3. N \in 0..N
    BY <1>1
  <2> HIDE DEF N
  <2>4. QED BY <1>1, <2>2, <2>3, SameRun
<1>12. QED BY <1>8, <1>10, <1>11

(* Two results of a loop that differ by k strobes.                         *)
IsSeen(a) ==
  /\ a = [run |-> a.run, mem |-> a.mem, strobes |-> a.strobes, bus |-> a.bus, port |-> a.port]
  /\ a.strobes \in Int
Gap(a, b, k) ==
  /\ IsSeen(a) /\ IsSeen(b) /\ a.run = b.run /\ a.mem = b.mem /\ a.bus = b.bus /\ a.port = b.port
  /\ a.strobes = b.strobes + k

LEMMA GapRules ==
  /\ \A a : IsSeen(a) => Gap(a, a, 0)
  /\ \A a, b : Gap(a, b, 0) => a = b
  /\ \A a, b, c : \A j, k \in Int : Gap(a, b, j) /\ Gap(b, c, k) => Gap(a, c, j + k)
BY DEF IsSeen, Gap

LEMMA SeenIs ==
  ASSUME NEW s, s.strobes \in Int
  PROVE  IsSeen(LoopSeen(s))
BY DEF LoopSeen, IsSeen

(* A loop that is done stays as it is.                                     *)
LEMMA PathEnds ==
  ASSUME Block!HleLoopsAssumption, NEW x, NEW h, Path(x, h)
  PROVE  Block!Done(h[AddressSpace])
<1> DEFINE N == AddressSpace
           good == {i \in 0..N : TurnsLeft(h[i].run) <= N - i}
<1>1. N \in Nat
  BY DEF Block!HleLoopsAssumption
<1>2. \A i \in 0..N : TurnsLeft(h[i].run) \in 0..N /\ (Block!Done(h[i]) <=> TurnsLeft(h[i].run) = 0)
  BY LeftFalls DEF Path
<1>3. 0 \in good
  BY <1>1, <1>2
<1>4. ASSUME NEW i \in 1..N, i - 1 \in good PROVE i \in good
  <2>1. i \in 0..N /\ i - 1 \in 0..N /\ TurnsLeft(h[i - 1].run) <= N - (i - 1)
    BY <1>1, <1>4
  <2>2. Walks(h[i - 1]) /\ h[i] = Block!Turned(h[i - 1])
    BY <2>1 DEF Path
  <2>3. CASE Block!Done(h[i - 1])
    <3>1. h[i] = h[i - 1]
      BY <2>2, <2>3 DEF Block!Turned
    <3>2. TurnsLeft(h[i].run) = 0
      BY <1>2, <2>1, <2>3, <3>1
    <3>3. QED BY <1>1, <2>1, <3>2
  <2>4. CASE ~Block!Done(h[i - 1])
    <3>1. TurnsTo(h[i - 1], h[i])
      BY <2>2, <2>4, TurnFacts
    <3>2. TurnsLeft(h[i].run) < TurnsLeft(h[i - 1].run)
      BY <2>2, <2>4, <3>1, LeftFalls
    <3>3. QED BY <1>1, <1>2, <2>1, <3>2
  <2>5. QED BY <2>3, <2>4
<1>5. 0..N \subseteq good
  <2> HIDE DEF good
  <2>1. QED BY <1>1, <1>3, <1>4, NumbersUpTo
<1>6. N \in good
  BY <1>1, <1>5
<1>7. QED BY <1>1, <1>2, <1>6

LEMMA NativeSeen ==
  ASSUME Block!HleLoopsAssumption, NEW x, Walks(x)
  PROVE  IsSeen(Block!Native(x))
<1>1. PICK h : Path(x, h) /\ Block!Native(x) = LoopSeen(h[AddressSpace])
  BY PathExists
<1>2. AddressSpace \in 0..AddressSpace
  BY DEF Block!HleLoopsAssumption
<1>3. h[AddressSpace].strobes \in Int
  BY <1>1, <1>2 DEF Path, Walks
<1>4. QED BY <1>1, <1>3, SeenIs

(* A turn changes nothing of what a loop leaves.                           *)
LEMMA NativeTurns ==
  ASSUME Block!HleLoopsAssumption, NEW x, Walks(x), NEW t, t = Block!Turned(x), Walks(t)
  PROVE  Block!Native(x) = Block!Native(t)
<1> DEFINE N == AddressSpace
           k == N - 1
<1>1. N \in Nat \ {0} /\ k \in Nat
  BY DEF Block!HleLoopsAssumption
<1>2. PICK h : Path(x, h) /\ Block!Native(x) = LoopSeen(h[N])
  BY PathExists
<1>3. PICK g : Path(t, g) /\ Block!Native(t) = LoopSeen(g[N])
  BY PathExists
<1> DEFINE later == [i \in 0..k |-> h[i + 1]]
<1>4. \A i \in 0..k : later[i] = g[i]
  <2>1. later[0] = g[0]
    <3>1. 1 \in 1..N /\ 0 \in 0..k
      BY <1>1
    <3>2. h[1] = Block!Turned(h[0])
      <4>1. 1 - 1 = 0
        OBVIOUS
      <4>2. QED BY <1>2, <3>1, <4>1 DEF Path
    <3>3. QED BY <1>2, <1>3, <3>1, <3>2 DEF Path
  <2>2. ASSUME NEW i \in 1..k, later[i - 1] = g[i - 1] PROVE later[i] = g[i]
    <3>1. i + 1 \in 1..N /\ i \in 1..N /\ i - 1 \in 0..k /\ i \in 0..k /\ (i - 1) + 1 = i /\ (i + 1) - 1 = i
      BY <1>1
    <3>2. h[i + 1] = Block!Turned(h[i]) /\ g[i] = Block!Turned(g[i - 1])
      BY <1>2, <1>3, <3>1 DEF Path
    <3>3. later[i] = h[i + 1] /\ later[i - 1] = h[i]
      BY <3>1
    <3>4. QED BY <2>2, <3>2, <3>3
  <2> HIDE DEF later, k
  <2>3. QED BY <1>1, <2>1, <2>2, SameRun
<1>5. h[N] = g[k]
  BY <1>1, <1>4
<1>6. g[N] = Block!Turned(g[k])
  BY <1>1, <1>3 DEF Path
<1>7. Block!Done(g[k])
  <2>1. Block!Done(h[N])
    BY <1>2, PathEnds
  <2>2. QED BY <1>5, <2>1
<1>8. g[N] = g[k]
  BY <1>6, <1>7 DEF Block!Turned
<1>9. QED BY <1>2, <1>3, <1>5, <1>8

(* States that go on alike.                                                *)
SameWay(c, d) ==
  /\ c.mem = d.mem /\ c.bus = d.bus /\ c.port = d.port /\ c.idle = d.idle
  /\ c.run.kind = d.run.kind /\ c.run.dst = d.run.dst /\ c.run.src = d.run.src /\ c.run.end = d.run.end
  /\ c.run.pristine = d.run.pristine /\ c.run.leaves = d.run.leaves
  /\ c.run.kind \in {"unrolled", "ramp"} => c.run.turned = d.run.turned
Alike(c, d, k) == Walks(c) /\ Walks(d) /\ SameWay(c, d) /\ c.strobes = d.strobes + k

LEMMA AlikeTurns ==
  ASSUME Block!HleLoopsAssumption, NEW k \in Int, NEW c, NEW d, Alike(c, d, k)
  PROVE  Alike(Block!Turned(c), Block!Turned(d), k)
<1>1. Walks(c) /\ Walks(d) /\ SameWay(c, d) /\ c.strobes = d.strobes + k
  BY DEF Alike
<1>2. Block!Done(c) <=> Block!Done(d)
  BY <1>1 DEF SameWay, Block!Done
<1>3. CASE Block!Done(c)
  <2>1. Block!Turned(c) = c /\ Block!Turned(d) = d
    BY <1>2, <1>3 DEF Block!Turned
  <2>2. QED BY <2>1
<1>4. CASE ~Block!Done(c)
  <2>1. PICK a : a = Block!Turned(c)
    OBVIOUS
  <2>2. PICK b : b = Block!Turned(d)
    OBVIOUS
  <2>3. TurnsTo(c, a) /\ TurnsTo(d, b)
    BY <1>1, <1>2, <1>4, <2>1, <2>2, TurnFacts
  <2>4. Walks(a) /\ Walks(b)
    BY <1>1, <2>3, TurnWalks
  <2>5. /\ Unit(c.run) = Unit(d.run) /\ Beats(c.run) = Beats(d.run) /\ Waits(c) = Waits(d)
        /\ Copying(c.run) = Copying(d.run)
    <3>1. Copying(c.run) = Copying(d.run)
      BY <1>1 DEF SameWay, Copying
    <3>2. Unit(c.run) = Unit(d.run)
      BY <1>1 DEF SameWay, Unit
    <3>3. Beats(c.run) = Beats(d.run)
      BY <1>1 DEF SameWay, Beats, Beat
    <3>4. Waits(c) = Waits(d)
      BY <1>1, <3>1 DEF SameWay, Waits, Block!Plain
    <3>5. QED BY <3>1, <3>2, <3>3, <3>4
  <2>6. a.mem = b.mem
    <3>1. \A i : Given(c, i) = Given(d, i)
      BY <1>1, <2>5 DEF SameWay, Given, Block!Loaded
    <3>2. Written(c, Unit(c.run)) = Written(d, Unit(d.run))
      BY <1>1, <2>5, <3>1 DEF SameWay, Written
    <3>3. QED BY <2>3, <3>2 DEF TurnsTo
  <2>7. a.bus = b.bus /\ a.port = b.port
    BY <1>1, <2>3, <2>5 DEF TurnsTo, SameWay
  <2>8. a.idle = b.idle
    <3>1. "idle" \in BlockFields \ Moving
      BY DEF BlockFields, Moving
    <3>2. a.idle = c.idle /\ b.idle = d.idle
      BY <2>3, <3>1 DEF TurnsTo, Still
    <3>3. QED BY <1>1, <3>2 DEF SameWay
  <2>9. a.strobes = b.strobes + k
    <3>1. c.strobes \in Int /\ d.strobes \in Int /\ Beats(c.run) \in Int
      BY <1>1 DEF Walks, Beats, Beat
    <3>2. QED BY <1>1, <2>3, <2>5, <3>1 DEF TurnsTo
  <2>10. /\ a.run.kind = b.run.kind /\ a.run.dst = b.run.dst /\ a.run.src = b.run.src /\ a.run.end = b.run.end
         /\ a.run.pristine = b.run.pristine /\ a.run.leaves = b.run.leaves /\ a.run.turned = b.run.turned
    <3>1. Ahead(c.run, Unit(c.run), a.run) /\ Ahead(d.run, Unit(c.run), b.run)
      BY <2>3, <2>5 DEF TurnsTo
    <3>2. a.run.turned = b.run.turned /\ a.run.end = b.run.end
      BY <1>1, <2>3 DEF TurnsTo, SameWay
    <3>3. QED BY <1>1, <2>5, <3>1, <3>2 DEF Ahead, SameWay
  <2>11. QED BY <2>1, <2>2, <2>4, <2>6, <2>7, <2>8, <2>9, <2>10 DEF Alike, SameWay
<1>5. QED BY <1>3, <1>4

LEMMA NativeAlike ==
  ASSUME Block!HleLoopsAssumption, NEW k \in Int, NEW c, NEW d, Alike(c, d, k)
  PROVE  Gap(Block!Native(c), Block!Native(d), k)
<1> DEFINE N == AddressSpace
<1>1. N \in Nat
  BY DEF Block!HleLoopsAssumption
<1>2. PICK h : Path(c, h) /\ Block!Native(c) = LoopSeen(h[N])
  BY PathExists DEF Alike
<1>3. PICK g : Path(d, g) /\ Block!Native(d) = LoopSeen(g[N])
  BY PathExists DEF Alike
<1> DEFINE good == {i \in 0..N : Alike(h[i], g[i], k)}
<1>4. 0 \in good
  BY <1>1, <1>2, <1>3 DEF Path
<1>5. ASSUME NEW i \in 1..N, i - 1 \in good PROVE i \in good
  <2>1. Alike(h[i - 1], g[i - 1], k) /\ i \in 0..N
    BY <1>5
  <2>2. h[i] = Block!Turned(h[i - 1]) /\ g[i] = Block!Turned(g[i - 1])
    BY <1>2, <1>3 DEF Path
  <2>3. Alike(h[i], g[i], k)
    BY <2>1, <2>2, AlikeTurns
  <2>4. QED BY <2>1, <2>3
<1>6. 0..N \subseteq good
  <2> HIDE DEF good
  <2>1. QED BY <1>1, <1>4, <1>5, NumbersUpTo
<1>7. Alike(h[N], g[N], k)
  BY <1>1, <1>6
<1>8. PICK a : a = h[N]
  OBVIOUS
<1>9. PICK b : b = g[N]
  OBVIOUS
<1>10. Alike(a, b, k)
  BY <1>7, <1>8, <1>9
<1>11. a.strobes \in Int /\ b.strobes \in Int /\ IsRun7(a.run) /\ IsRun7(b.run)
  BY <1>10, RunsAre DEF Alike, Walks
<1>12. PICK yes : yes = TRUE
  OBVIOUS
<1>13. [a.run EXCEPT !.turned = yes] = [b.run EXCEPT !.turned = yes]
  BY <1>10, <1>11 DEF Alike, SameWay, IsRun7
<1>14. LoopSeen(a).run = LoopSeen(b).run
  BY <1>12, <1>13 DEF LoopSeen
<1>15. Gap(LoopSeen(a), LoopSeen(b), k)
  BY <1>10, <1>11, <1>14, SeenIs DEF Gap, LoopSeen, Alike, SameWay
<1>16. QED BY <1>2, <1>3, <1>8, <1>9, <1>15

-------------------------------------------------------------------------------
(* A block operation.                                                      *)

Multiple(n, d) == \E q \in Nat : n = d * q

LEMMA MultipleRules ==
  ASSUME NEW d \in Nat \ {0}
  PROVE  /\ Multiple(d, d)
         /\ \A n \in Nat : n % d = 0 => Multiple(n, d)
         /\ \A n \in Nat : Multiple(n, d) /\ n > 0 => d <= n
         /\ \A a, b \in Nat : Multiple(a, d) /\ Multiple(b, d) /\ b <= a => Multiple(a - b, d)
<1>1. Multiple(d, d)
  <2>1. 1 \in Nat /\ d = d * 1
    OBVIOUS
  <2>2. QED BY <2>1 DEF Multiple
<1>2. ASSUME NEW n \in Nat, n % d = 0 PROVE Multiple(n, d)
  <2>1. n \div d \in Nat /\ n = d * (n \div d)
    BY <1>2
  <2>2. QED BY <2>1 DEF Multiple
<1>3. ASSUME NEW n \in Nat, Multiple(n, d), n > 0 PROVE d <= n
  <2>1. PICK q \in Nat : n = d * q
    BY <1>3 DEF Multiple
  <2>2. q >= 1
    BY <1>3, <2>1
  <2>3. d * q >= d
    BY <2>2
  <2>4. QED BY <2>1, <2>3
<1>4. ASSUME NEW a \in Nat, NEW b \in Nat, Multiple(a, d), Multiple(b, d), b <= a
      PROVE  Multiple(a - b, d)
  <2>1. PICK p \in Nat : a = d * p
    BY <1>4 DEF Multiple
  <2>2. PICK q \in Nat : b = d * q
    BY <1>4 DEF Multiple
  <2>3. a - b = d * (p - q)
    BY <2>1, <2>2
  <2>4. p - q \in Nat
    <3>1. CASE p < q
      <4>1. d * (q - p) > 0
        BY <3>1
      <4>2. d * (q - p) = b - a
        BY <2>1, <2>2
      <4>3. QED BY <1>4, <4>1, <4>2
    <3>2. QED BY <3>1
  <2>5. QED BY <2>3, <2>4 DEF Multiple
<1>5. QED BY <1>1, <1>2, <1>3, <1>4

(* The strobes of a segment: one where a multiple of the period remains.   *)
LEMMA SegmentBeat ==
  ASSUME NEW p \in Nat \ {0}, NEW c \in 1..p, NEW n \in Nat, n >= c
  PROVE  n \div p = ((n - c) \div p) + IF n % p < c THEN 1 ELSE 0
<1> DEFINE q == n \div p
           r == n % p
<1>1. q \in Nat /\ r \in 0..(p - 1) /\ n = p * q + r
  OBVIOUS
<1>2. CASE r < c
  <2>1. q >= 1
    <3>1. CASE q = 0
      <4>1. p * q = 0
        BY <3>1
      <4>2. n = r
        BY <1>1, <4>1
      <4>3. QED BY <1>2, <4>2
    <3>2. QED BY <1>1, <3>1
  <2>2. p * q = p * (q - 1) + p
    BY <1>1
  <2> DEFINE m == n - c
             s == r + p - c
             o == q - 1
  <2>3. m = p * o + s /\ m \in Nat /\ s \in 0..(p - 1) /\ o \in Nat
    BY <1>1, <1>2, <2>1, <2>2
  <2> HIDE DEF m, s, o
  <2>4. m \div p = o
    BY <2>3, DivisionIs
  <2>5. QED BY <1>2, <2>4 DEF m, o
<1>3. CASE ~(r < c)
  <2> DEFINE m == n - c
             s == r - c
  <2>1. m = p * q + s /\ m \in Nat /\ s \in 0..(p - 1)
    BY <1>1, <1>3
  <2> HIDE DEF m, s, q
  <2>2. m \div p = q
    BY <1>1, <2>1, DivisionIs
  <2>3. QED BY <1>1, <1>3, <2>2 DEF m, q
<1>4. QED BY <1>2, <1>3

OpenSpan(r, n) == \A i \in 0..(n - 1) : Block!Writable(r.dst + i)
Apart(r, n) == r.src = r.dst \/ r.dst + n <= r.src \/ r.src + n <= r.dst
LoopFits(r, n) ==
  /\ r.kind \in {"copy", "clear", "progress", "segment"} => Multiple(n, Word)
  /\ r.kind = "unrolled" => Multiple(n, Unrolled) /\ (r.turned \/ n > 0)
  /\ r.kind = "segment" => r.dst + n = r.end

(* The next n cells may be written at once.                                *)
Ready(s, n) ==
  /\ Walks(s) /\ s.run.pristine /\ s.run.kind # "ramp" /\ s.run.dst + n <= s.run.end
  /\ OpenSpan(s.run, n) /\ LoopFits(s.run, n)
  /\ Copying(s.run) => Apart(s.run, n) /\ \A i \in 0..(n - 1) : Block!Plain(s, s.run.src + i)

(* They were.                                                              *)
Leapt(s, n, t) ==
  /\ Walks(t) /\ Ahead(s.run, n, t.run) /\ t.run.end = s.run.end
  /\ t.mem = Written(s, n) /\ t.bus = s.bus /\ t.port = s.port /\ t.idle = s.idle
  /\ s.run.kind = "unrolled" => t.run.turned

(* How often the loop would have strobed.                                  *)
Missed(r, n, k) ==
  /\ k \in Int
  /\ r.kind = "segment" => k = (r.end - r.dst) \div Period
  /\ r.kind = "progress" => k = 0 \/ \E i \in 0..(n - 1) : (r.dst + i) % Period = 0
  /\ r.kind \notin {"segment", "progress"} => k = 0

(* The unit of a loop is one of what is left.                              *)
LEMMA UnitFits ==
  ASSUME Block!HleLoopsAssumption, NEW s, NEW n \in Nat \ {0}, Ready(s, n)
  PROVE  Unit(s.run) \in 1..n
<1> DEFINE r == s.run
<1>1. BlockNumbers /\ Chunk % Word = 0
  BY DEF Block!HleLoopsAssumption, BlockNumbers
<1>2. /\ r.kind \in Block!Kinds /\ r.dst \in Nat /\ r.end \in Int /\ r.kind # "ramp" /\ LoopFits(r, n)
  BY RunsAre DEF Ready, Walks
<1>3. CASE r.kind = "unrolled"
  <2>1. Unrolled <= n
    BY <1>1, <1>2, <1>3, MultipleRules DEF LoopFits, BlockNumbers
  <2>2. QED BY <1>1, <1>3, <2>1 DEF Unit, BlockNumbers
<1>4. CASE r.kind = "call"
  BY <1>4 DEF Unit
<1>5. CASE r.kind = "segment" /\ r.end - r.dst >= Chunk
  <2>1. r.dst + n = r.end
    BY <1>2, <1>5 DEF LoopFits
  <2>2. QED BY <1>1, <1>2, <1>5, <2>1 DEF Unit, BlockNumbers
<1>6. CASE r.kind \in {"copy", "clear", "progress"} \/ (r.kind = "segment" /\ ~(r.end - r.dst >= Chunk))
  <2>1. Word <= n
    BY <1>1, <1>2, <1>6, MultipleRules DEF LoopFits, BlockNumbers
  <2>2. Unit(r) = Word
    BY <1>6 DEF Unit
  <2>3. QED BY <1>1, <2>1, <2>2 DEF BlockNumbers
<1>7. QED BY <1>2, <1>3, <1>4, <1>5, <1>6 DEF Block!Kinds

(* What is left behind a unit is whole, too.                               *)
LEMMA RestFits ==
  ASSUME Block!HleLoopsAssumption, NEW s, NEW n \in Nat \ {0}, Ready(s, n), NEW t, TurnsTo(s, t)
  PROVE  LoopFits(t.run, n - Unit(s.run))
<1> DEFINE r == s.run
           u == Unit(r)
<1>1. BlockNumbers /\ Chunk % Word = 0
  BY DEF Block!HleLoopsAssumption, BlockNumbers
<1>2. /\ r.kind \in Block!Kinds /\ r.dst \in Nat /\ r.end \in Int /\ r.kind # "ramp" /\ LoopFits(r, n)
  BY RunsAre DEF Ready, Walks
<1>3. t.run.kind = r.kind /\ t.run.dst = r.dst + u /\ t.run.end = r.end /\ t.run.turned
  BY <1>2 DEF TurnsTo, Ahead
<1>4. u \in 1..n
  BY UnitFits
<1>5. n - u \in Nat
  BY <1>4
<1>6. CASE r.kind = "unrolled"
  <2>1. u = Unrolled
    BY <1>6 DEF Unit
  <2>2. Multiple(n - u, Unrolled)
    BY <1>1, <1>2, <1>4, <1>6, <2>1, MultipleRules DEF LoopFits, BlockNumbers
  <2>3. QED BY <1>3, <1>6, <2>2 DEF LoopFits
<1>7. CASE r.kind = "call"
  BY <1>3, <1>7 DEF LoopFits
<1>8. CASE r.kind \in {"copy", "clear", "progress", "segment"}
  <2>1. u = Word \/ u = Chunk
    BY <1>8 DEF Unit
  <2>2. Multiple(u, Word)
    BY <1>1, <2>1, MultipleRules DEF BlockNumbers
  <2>3. Multiple(n - u, Word)
    <3>1. Multiple(n, Word) /\ u \in Nat /\ u <= n
      BY <1>2, <1>4, <1>8 DEF LoopFits
    <3> HIDE DEF u
    <3>2. QED BY <1>1, <2>2, <3>1, MultipleRules DEF BlockNumbers
  <2>4. r.kind = "segment" => t.run.dst + (n - u) = t.run.end
    BY <1>2, <1>3, <1>4 DEF LoopFits
  <2>5. QED BY <1>3, <1>8, <2>3, <2>4 DEF LoopFits
<1>9. QED BY <1>2, <1>6, <1>7, <1>8 DEF Block!Kinds

LEMMA RestReady ==
  ASSUME Block!HleLoopsAssumption, NEW s, NEW n \in Nat \ {0}, Ready(s, n), NEW t, TurnsTo(s, t)
  PROVE  Ready(t, n - Unit(s.run)) /\ n - Unit(s.run) \in Nat /\ n - Unit(s.run) < n
<1> DEFINE r == s.run
           u == Unit(r)
           q == t.run
<1>1. u \in 1..n
  BY UnitFits
<1>2. LoopFits(q, n - u) /\ Walks(t)
  BY RestFits, TurnWalks DEF Ready
<1>3. r.dst \in Nat /\ r.src \in Nat /\ r.end \in Int /\ r.kind # "ramp" /\ r.pristine
  BY RunsAre DEF Ready, Walks
<1>4. /\ q.kind = r.kind /\ q.pristine = r.pristine /\ q.dst = r.dst + u /\ q.end = r.end
      /\ (q.src = IF Copying(r) THEN r.src + u ELSE r.src) /\ t.idle = s.idle
  <2>1. "idle" \in BlockFields \ Moving
    BY DEF BlockFields, Moving
  <2>2. QED BY <1>3, <2>1 DEF TurnsTo, Ahead, Still
<1>5. Copying(q) = Copying(r)
  BY <1>4 DEF Copying
<1>6. OpenSpan(r, n) /\ (Copying(r) => Apart(r, n) /\ \A i \in 0..(n - 1) : Block!Plain(s, r.src + i))
  BY DEF Ready
<1>7. r.dst + n <= r.end
  BY DEF Ready
<1> HIDE DEF u, r, q
<1>8. \A i \in 0..((n - u) - 1) : u + i \in 0..(n - 1) /\ q.dst + i = r.dst + (u + i)
  BY <1>1, <1>3, <1>4
<1>9. OpenSpan(q, n - u)
  BY <1>6, <1>8 DEF OpenSpan
<1>10. ASSUME Copying(r) PROVE Apart(q, n - u) /\ \A i \in 0..((n - u) - 1) : Block!Plain(t, q.src + i)
  <2>1. q.src = r.src + u
    BY <1>4, <1>10
  <2>2. Apart(q, n - u)
    BY <1>1, <1>3, <1>4, <1>6, <1>10, <2>1 DEF Apart
  <2>3. \A i \in 0..((n - u) - 1) : q.src + i = r.src + (u + i)
    BY <1>1, <1>3, <2>1
  <2>4. \A a : Block!Plain(s, a) => Block!Plain(t, a)
    BY <1>4 DEF Block!Plain
  <2>5. QED BY <1>6, <1>8, <1>10, <2>2, <2>3, <2>4
<1>11. q.dst + (n - u) <= q.end
  BY <1>1, <1>3, <1>4, <1>7
<1>12. Ready(t, n - u)
  BY <1>2, <1>3, <1>4, <1>5, <1>9, <1>10, <1>11 DEF Ready, q
<1>13. QED BY <1>1, <1>12 DEF u, r

LEMMA RestLeapt ==
  ASSUME Block!HleLoopsAssumption, NEW s, NEW n \in Nat \ {0}, Ready(s, n), NEW t, TurnsTo(s, t),
         NEW z, Leapt(s, n, z)
  PROVE  Leapt(t, n - Unit(s.run), z) /\ t.strobes = s.strobes + Beat(s.run)
<1> DEFINE r == s.run
           u == Unit(r)
           q == t.run
           m == n - u
<1>1. u \in 1..n
  BY UnitFits
<1>2. r.dst \in Nat /\ r.src \in Nat /\ r.end \in Int /\ r.kind # "ramp" /\ r.pristine
  BY RunsAre DEF Ready, Walks
<1>3. /\ q.kind = r.kind /\ q.pristine = r.pristine /\ q.dst = r.dst + u /\ q.end = r.end
      /\ (q.src = IF Copying(r) THEN r.src + u ELSE r.src) /\ q.leaves = r.leaves /\ t.idle = s.idle
      /\ q.turned = TRUE
  <2>1. "idle" \in BlockFields \ Moving
    BY DEF BlockFields, Moving
  <2>2. QED BY <1>2, <2>1 DEF TurnsTo, Ahead, Still
<1>4. Copying(q) = Copying(r)
  BY <1>3 DEF Copying
<1>5. OpenSpan(r, n) /\ (Copying(r) => Apart(r, n) /\ \A i \in 0..(n - 1) : Block!Plain(s, r.src + i))
  BY DEF Ready
<1>6. t.mem = Written(s, u) /\ t.port = s.port /\ t.strobes = s.strobes + Beats(r) /\ t.bus = s.bus + Waits(s)
  BY <1>2 DEF TurnsTo
<1>7. 0 \in 0..(n - 1) /\ r.dst + 0 = r.dst /\ r.src + 0 = r.src
  BY <1>2
<1>8. Waits(s) = 0
  <2>1. Block!Writable(r.dst)
    BY <1>5, <1>7 DEF OpenSpan
  <2>2. Copying(r) => Block!Plain(s, r.src)
    BY <1>5, <1>7
  <2>3. QED BY <2>1, <2>2 DEF Waits
<1>9. Beats(r) = Beat(r)
  <2>1. Beat(r) \in Int
    BY DEF Beat
  <2>2. QED BY <1>2, <2>1 DEF Beats
<1>10. t.bus = s.bus
  BY <1>6, <1>8 DEF Ready, Walks
<1>11. Written(s, n) = Written(t, m)
  <2>1. ASSUME NEW i \in 0..(m - 1) PROVE Given(t, i) = Given(s, u + i)
    <3>1. CASE ~Copying(r)
      BY <1>4, <3>1 DEF Given
    <3>2. CASE Copying(r)
      <4>1. u + i \in 0..(n - 1) /\ q.src + i = r.src + (u + i)
        BY <1>1, <1>2, <1>3, <3>2
      <4>2. PICK a : a = r.src + (u + i)
        OBVIOUS
      <4>3. Block!Plain(s, a)
        BY <1>5, <3>2, <4>1, <4>2
      <4>4. ~(r.dst <= a /\ a < r.dst + u)
        <5>1. Apart(r, n)
          BY <1>5, <3>2
        <5>2. u \in 1..n /\ i \in 0..(n - u - 1) /\ a = r.src + (u + i)
          BY <1>1, <4>2
        <5> HIDE DEF u, r, m
        <5>3. QED BY <1>2, <5>1, <5>2 DEF Apart
      <4>5. t.mem[a] = s.mem[a]
        BY <1>6, <4>3, <4>4 DEF Written, Block!Plain
      <4>6. Block!Loaded(t, a) = s.mem[a] /\ Block!Loaded(s, a) = s.mem[a]
        BY <1>3, <4>3, <4>5 DEF Block!Loaded, Block!Plain
      <4>7. QED BY <1>4, <3>2, <4>1, <4>2, <4>6 DEF Given
    <3>3. QED BY <3>1, <3>2
  <2>2. ASSUME NEW a \in Block!Cells PROVE Written(s, n)[a] = Written(t, m)[a]
    <3>1. a \in Int
      BY DEF Block!Cells
    <3>2. Written(s, n)[a] = IF r.dst <= a /\ a < r.dst + n /\ Block!Writable(a) THEN Given(s, a - r.dst) ELSE s.mem[a]
      BY DEF Written
    <3>3. Written(t, m)[a] = IF q.dst <= a /\ a < q.dst + m /\ Block!Writable(a) THEN Given(t, a - q.dst) ELSE t.mem[a]
      BY DEF Written
    <3>4. t.mem[a] = IF r.dst <= a /\ a < r.dst + u /\ Block!Writable(a) THEN Given(s, a - r.dst) ELSE s.mem[a]
      BY <1>6 DEF Written
    <3>5. CASE q.dst <= a /\ a < q.dst + m /\ Block!Writable(a)
      <4>1. a - q.dst \in 0..(m - 1) /\ u + (a - q.dst) = a - r.dst /\ r.dst <= a /\ a < r.dst + n
        BY <1>1, <1>2, <1>3, <3>1, <3>5
      <4>2. Given(t, a - q.dst) = Given(s, a - r.dst)
        BY <2>1, <4>1
      <4> HIDE DEF r, u, q, m
      <4>3. QED BY <3>2, <3>3, <3>5, <4>1, <4>2
    <3>6. CASE ~(q.dst <= a /\ a < q.dst + m /\ Block!Writable(a))
      <4>1. (r.dst <= a /\ a < r.dst + n /\ Block!Writable(a)) <=> (r.dst <= a /\ a < r.dst + u /\ Block!Writable(a))
        BY <1>1, <1>2, <1>3, <3>1, <3>6
      <4> HIDE DEF r, u, q, m
      <4>2. QED BY <3>2, <3>3, <3>4, <3>6, <4>1
    <3>7. QED BY <3>5, <3>6
  <2>3. QED BY <2>2 DEF Written
<1>12. Ahead(q, m, z.run) /\ z.run.end = q.end
  <2>1. Ahead(r, n, z.run) /\ z.run.end = r.end
    BY DEF Leapt
  <2> HIDE DEF r, q
  <2>2. m \in Int /\ u \in Int /\ u + m = n
    BY <1>1
  <2> HIDE DEF m, u
  <2>3. QED BY <1>2, <1>3, <1>4, <2>1, <2>2 DEF Ahead
<1>13. /\ Walks(z) /\ z.mem = Written(s, n) /\ z.bus = s.bus /\ z.port = s.port /\ z.idle = s.idle
       /\ (r.kind = "unrolled" => z.run.turned)
  BY DEF Leapt
<1>14. Leapt(t, m, z)
  <2> HIDE DEF r, m
  <2>1. QED BY <1>3, <1>6, <1>10, <1>11, <1>12, <1>13 DEF Leapt
<1>15. QED BY <1>6, <1>9, <1>14

LEMMA RestMissed ==
  ASSUME Block!HleLoopsAssumption, NEW s, NEW n \in Nat \ {0}, Ready(s, n), NEW t, TurnsTo(s, t),
         NEW k, Missed(t.run, n - Unit(s.run), k)
  PROVE  Missed(s.run, n, k + Beat(s.run))
<1> DEFINE r == s.run
           u == Unit(r)
           q == t.run
<1>1. u \in 1..n
  BY UnitFits
<1>2. r.dst \in Nat /\ r.end \in Int /\ r.kind # "ramp" /\ r.kind \in Block!Kinds /\ LoopFits(r, n) /\ r.dst + n <= r.end
  BY RunsAre DEF Ready, Walks
<1>3. q.kind = r.kind /\ q.dst = r.dst + u /\ q.end = r.end
  BY <1>2 DEF TurnsTo, Ahead
<1>4. k \in Int /\ Beat(r) \in Int
  BY DEF Missed, Beat
<1>5. BlockNumbers /\ Chunk \in 1..Period
  <2>1. BlockNumbers /\ Period % Chunk = 0
    BY DEF Block!HleLoopsAssumption, BlockNumbers
  <2>2. Chunk <= Period
    BY <2>1, MultipleRules DEF BlockNumbers
  <2>3. QED BY <2>1, <2>2 DEF BlockNumbers
<1>6. CASE r.kind = "segment"
  <2>1. k = (q.end - q.dst) \div Period
    BY <1>3, <1>6 DEF Missed
  <2>2. PICK m \in Nat : m = r.end - r.dst /\ m = n
    BY <1>2, <1>6 DEF LoopFits
  <2>3. q.end - q.dst = m - u
    BY <1>1, <1>2, <1>3, <2>2
  <2>4. CASE m >= Chunk
    <3>1. u = Chunk /\ Beat(r) = IF m % Period < Chunk THEN 1 ELSE 0
      BY <1>6, <2>2, <2>4 DEF Unit, Beat
    <3>2. m \div Period = ((m - Chunk) \div Period) + IF m % Period < Chunk THEN 1 ELSE 0
      BY <1>5, <2>4, SegmentBeat DEF BlockNumbers
    <3>3. k + Beat(r) = (r.end - r.dst) \div Period
      BY <2>1, <2>2, <2>3, <3>1, <3>2
    <3>4. QED BY <1>4, <1>6, <3>3 DEF Missed
  <2>5. CASE ~(m >= Chunk)
    <3>1. Beat(r) = 0
      BY <1>6, <2>2, <2>5 DEF Beat
    <3>2. m \div Period = 0 /\ (m - u) \div Period = 0
      <4>1. Period \in Nat \ {0} /\ Chunk \in Nat
        BY <1>5 DEF BlockNumbers
      <4> HIDE DEF u
      <4>2. m - u \in Nat /\ m < Period /\ m - u < Period
        BY <1>1, <1>5, <2>2, <2>5, <4>1
      <4>3. ASSUME NEW x \in Nat, x < Period PROVE x \div Period = 0
        <5>1. x \in 0..(Period - 1) /\ x = Period * 0 + x
          BY <4>1, <4>3
        <5>2. QED BY <4>1, <5>1, DivisionIs
      <4>4. QED BY <4>2, <4>3
    <3>3. k + Beat(r) = (r.end - r.dst) \div Period
      BY <2>1, <2>2, <2>3, <3>1, <3>2
    <3>4. QED BY <1>4, <1>6, <3>3 DEF Missed
  <2>6. QED BY <2>4, <2>5
<1>7. CASE r.kind = "progress"
  <2>1. CASE Beat(r) # 0
    <3>1. r.dst % Period = 0 /\ 0 \in 0..(n - 1) /\ r.dst + 0 = r.dst
      BY <1>2, <1>7, <2>1 DEF Beat
    <3>2. \E i \in 0..(n - 1) : (r.dst + i) % Period = 0
      BY <3>1
    <3>3. QED BY <1>4, <1>7, <3>2 DEF Missed
  <2>2. CASE k = 0 /\ Beat(r) = 0
    BY <1>7, <2>2 DEF Missed
  <2>3. CASE \E i \in 0..((n - u) - 1) : (q.dst + i) % Period = 0
    <3>1. PICK i \in 0..((n - u) - 1) : (q.dst + i) % Period = 0
      BY <2>3
    <3>2. u + i \in 0..(n - 1) /\ q.dst + i = r.dst + (u + i)
      BY <1>1, <1>2, <1>3
    <3>3. \E j \in 0..(n - 1) : (r.dst + j) % Period = 0
      <4> HIDE DEF u
      <4>1. QED BY <3>1, <3>2
    <3>4. QED BY <1>4, <1>7, <3>3 DEF Missed
  <2>4. k = 0 \/ \E i \in 0..((n - u) - 1) : (q.dst + i) % Period = 0
    BY <1>3, <1>7 DEF Missed
  <2>5. QED BY <2>1, <2>2, <2>3, <2>4
<1>8. CASE r.kind \notin {"segment", "progress"}
  <2>1. k = 0 /\ Beat(r) = 0
    BY <1>3, <1>8 DEF Missed, Beat
  <2>2. QED BY <1>8, <2>1 DEF Missed
<1>9. QED BY <1>6, <1>7, <1>8

(* A block operation leaves what the loop would have left; the strobes of  *)
(* its iterations are missing.                                             *)
LEMMA BlockIsNative ==
  ASSUME Block!HleLoopsAssumption
  PROVE  \A n \in Nat : \A s, z : Ready(s, n) /\ Leapt(s, n, z) =>
           \E k : Missed(s.run, n, k) /\ Gap(Block!Native(s), Block!Native(z), s.strobes + k - z.strobes)
<1> DEFINE Claim(n) == \A s, z : Ready(s, n) /\ Leapt(s, n, z) =>
             \E k : Missed(s.run, n, k) /\ Gap(Block!Native(s), Block!Native(z), s.strobes + k - z.strobes)
           bad == {n \in Nat : ~Claim(n)}
<1>1. ASSUME Claim(0) = TRUE \/ Claim(0), \A n \in Nat \ {0} : (\A m \in Nat : m < n => Claim(m)) => Claim(n)
      PROVE  \A n \in Nat : Claim(n)
  <2>1. CASE bad # {}
    <3>1. PICK x \in bad : \A y \in bad : x <= y
      <4> HIDE DEF Claim
      <4>1. QED BY <2>1, LeastNumber
    <3>2. \A m \in Nat : m < x => Claim(m)
      <4> HIDE DEF Claim
      <4>1. QED BY <3>1
    <3> HIDE DEF Claim
    <3>3. QED BY <1>1, <3>1, <3>2
  <2>2. CASE bad = {}
    <3> HIDE DEF Claim
    <3>1. QED BY <2>2
  <2>3. QED BY <2>1, <2>2
<1>2. ASSUME NEW s, NEW z, Ready(s, 0), Leapt(s, 0, z)
      PROVE  \E k : Missed(s.run, 0, k) /\ Gap(Block!Native(s), Block!Native(z), s.strobes + k - z.strobes)
  <2>1. Walks(s) /\ Walks(z) /\ s.run.kind # "ramp"
    BY <1>2 DEF Ready, Leapt
  <2>2. s.run.dst \in Nat /\ s.run.src \in Nat /\ s.strobes \in Int /\ z.strobes \in Int /\ s.run.turned \in BOOLEAN
    BY <2>1, RunsAre DEF Walks
  <2>3. z.mem = s.mem
    <3>1. \A a \in Block!Cells : ~(s.run.dst <= a /\ a < s.run.dst + 0)
      BY <2>2 DEF Block!Cells
    <3>2. Written(s, 0) = s.mem
      BY <2>1, <3>1 DEF Written, Walks
    <3>3. QED BY <1>2, <3>2 DEF Leapt
  <2>4. s.run.kind = "unrolled" => s.run.turned = z.run.turned
    <3>1. s.run.kind = "unrolled" => s.run.turned /\ z.run.turned
      BY <1>2 DEF Ready, LoopFits, Leapt
    <3>2. z.run.turned \in BOOLEAN
      BY <2>1, RunsAre DEF Walks
    <3>3. QED BY <2>2, <3>1, <3>2
  <2>5. /\ z.run.kind = s.run.kind /\ z.run.dst = s.run.dst /\ z.run.src = s.run.src /\ z.run.end = s.run.end
        /\ z.run.pristine = s.run.pristine /\ z.run.leaves = s.run.leaves
    BY <1>2, <2>2 DEF Leapt, Ahead
  <2>6. SameWay(s, z)
    BY <1>2, <2>1, <2>3, <2>4, <2>5 DEF SameWay, Leapt
  <2>7. PICK k \in Int : k = s.strobes - z.strobes
    BY <2>2
  <2>8. Alike(s, z, k)
    BY <2>1, <2>2, <2>6, <2>7 DEF Alike
  <2>9. Gap(Block!Native(s), Block!Native(z), k)
    BY <2>8, NativeAlike
  <2>10. Missed(s.run, 0, 0)
    <3>1. s.run.kind = "segment" => (s.run.end - s.run.dst) \div Period = 0
      <4>1. s.run.kind = "segment" => s.run.end - s.run.dst = 0
        BY <1>2, <2>2, <2>5 DEF Ready, LoopFits
      <4>2. 0 \div Period = 0
        <5>1. Period \in Nat \ {0} /\ 0 \in 0..(Period - 1) /\ 0 = Period * 0 + 0
          BY DEF Block!HleLoopsAssumption
        <5>2. QED BY <5>1, DivisionIs
      <4>3. QED BY <4>1, <4>2
    <3>2. QED BY <3>1 DEF Missed
  <2>11. s.strobes + 0 - z.strobes = k
    BY <2>2, <2>7
  <2>12. QED BY <2>9, <2>10, <2>11
<1>3. ASSUME NEW n \in Nat \ {0}, \A m \in Nat : m < n => Claim(m), NEW s, NEW z, Ready(s, n), Leapt(s, n, z)
      PROVE  \E k : Missed(s.run, n, k) /\ Gap(Block!Native(s), Block!Native(z), s.strobes + k - z.strobes)
  <2> DEFINE m == n - Unit(s.run)
  <2>1. Walks(s) /\ Walks(z) /\ ~Block!Done(s)
    <3>1. Walks(s) /\ Walks(z) /\ s.run.kind # "ramp" /\ s.run.dst + n <= s.run.end
      BY <1>3 DEF Ready, Leapt
    <3>2. s.run.dst \in Nat /\ s.run.end \in Int
      BY <3>1, RunsAre DEF Walks
    <3>3. QED BY <3>1, <3>2 DEF Block!Done
  <2>2. PICK t : t = Block!Turned(s)
    OBVIOUS
  <2>3. TurnsTo(s, t)
    BY <2>1, <2>2, TurnFacts
  <2>4. Walks(t)
    BY <2>1, <2>3, TurnWalks
  <2>5. Block!Native(s) = Block!Native(t)
    BY <2>1, <2>2, <2>4, NativeTurns
  <2>6. Ready(t, m) /\ m \in Nat /\ m < n
    BY <1>3, <2>3, RestReady
  <2>7. Leapt(t, m, z) /\ t.strobes = s.strobes + Beat(s.run)
    BY <1>3, <2>3, RestLeapt
  <2>8. PICK k : Missed(t.run, m, k) /\ Gap(Block!Native(t), Block!Native(z), t.strobes + k - z.strobes)
    <3>1. Claim(m)
      <4> HIDE DEF Claim, m
      <4>1. QED BY <1>3, <2>6
    <3> HIDE DEF m
    <3>2. QED BY <2>6, <2>7, <3>1
  <2>9. Missed(s.run, n, k + Beat(s.run))
    BY <1>3, <2>3, <2>8, RestMissed
  <2>10. t.strobes + k - z.strobes = s.strobes + (k + Beat(s.run)) - z.strobes
    <3>1. k \in Int /\ Beat(s.run) \in Int /\ s.strobes \in Int /\ z.strobes \in Int
      BY <2>1, <2>8 DEF Missed, Beat, Walks
    <3>2. QED BY <2>7, <3>1
  <2>11. QED BY <2>5, <2>8, <2>9, <2>10
<1>4. Claim(0)
  BY <1>2
<1>5. \A n \in Nat \ {0} : (\A m \in Nat : m < n => Claim(m)) => Claim(n)
  BY <1>3
<1> HIDE DEF Claim
<1>6. \A n \in Nat : Claim(n)
  BY <1>1, <1>4, <1>5
<1>7. QED BY <1>6 DEF Claim

LEMMA Remainder ==
  ASSUME NEW d \in Nat \ {0}, NEW q \in Nat, NEW r \in 0..(d - 1), NEW x \in Nat, x = d * q + r
  PROVE  x % d = r
<1>1. x = d * (x \div d) + (x % d)
  OBVIOUS
<1>2. x \div d = q
  BY DivisionIs
<1>3. QED BY <1>1, <1>2

LEMMA RampCount ==
  ASSUME NEW d \in Nat \ {0}, NEW n \in Nat, n > d
  PROVE  /\ n <= 2 * d => ((n - 1) % d) + 1 + d = n
         /\ n > 2 * d => (n - 1) % d = ((n - d) - 1) % d
         /\ (n - 1) % d \in 0..(d - 1)
<1>1. CASE n <= 2 * d
  <2> DEFINE r == (n - 1) - d
             x == n - 1
  <2>1. x = d * 1 + r /\ r \in 0..(d - 1) /\ x \in Nat
    BY <1>1
  <2> HIDE DEF x, r
  <2>2. x % d = r
    BY <2>1, Remainder
  <2>3. QED BY <1>1, <2>1, <2>2 DEF x, r
<1>2. CASE n > 2 * d
  <2> DEFINE x == n - 1
             y == (n - d) - 1
             q == y \div d
             r == y % d
  <2>1. y \in Nat /\ q \in Nat /\ r \in 0..(d - 1) /\ y = d * q + r /\ x = y + d /\ x \in Nat
    BY <1>2
  <2>2. x = d * (q + 1) + r /\ q + 1 \in Nat
    BY <2>1
  <2> HIDE DEF x, y, q, r
  <2>3. x % d = r
    BY <2>1, <2>2, Remainder
  <2>4. x % d = y % d
    BY <2>3 DEF r
  <2>5. QED BY <1>2, <2>1, <2>3, <2>4 DEF x, y
<1>3. QED BY <1>1, <1>2

(* The registers of a ramp with less of it left.                           *)
RampTo(x, t) ==
  /\ Walks(t) /\ t.mem = x.mem /\ t.bus = x.bus /\ t.port = 1 /\ t.idle = x.idle /\ t.strobes = x.strobes
  /\ t.run.kind = x.run.kind /\ t.run.dst = x.run.dst /\ t.run.src = x.run.src
  /\ t.run.pristine = x.run.pristine /\ t.run.leaves = x.run.leaves
OnRamp(x) == Walks(x) /\ x.run.kind = "ramp" /\ x.run.pristine /\ x.run.end > Ramp

LEMMA RampTurn ==
  ASSUME Block!HleLoopsAssumption, NEW x, OnRamp(x), NEW t, t = Block!Turned(x)
  PROVE  RampTo(x, t) /\ t.run.end = x.run.end - Ramp /\ t.run.turned = TRUE /\ Block!Native(x) = Block!Native(t)
<1>1. Walks(x) /\ x.run.kind = "ramp" /\ x.run.pristine /\ ~Block!Done(x)
  <2>1. Ramp \in Nat
    BY DEF Block!HleLoopsAssumption
  <2>2. x.run.end \in Int
    BY RunsAre DEF OnRamp, Walks
  <2>3. QED BY <2>1, <2>2 DEF OnRamp, Block!Done
<1>2. TurnsTo(x, t)
  BY <1>1, TurnFacts
<1>3. Walks(t)
  BY <1>1, <1>2, TurnWalks
<1>4. x.run.dst \in Nat /\ x.run.src \in Nat /\ x.strobes \in Int /\ x.bus \in Int
  BY <1>1, RunsAre DEF Walks
<1>5. Unit(x.run) = 0 /\ Beats(x.run) = 0 /\ Waits(x) = 0 /\ ~Copying(x.run)
  BY <1>1 DEF Unit, Beats, Beat, Waits, Copying
<1>6. t.mem = x.mem
  <2>1. \A a \in Block!Cells : ~(x.run.dst <= a /\ a < x.run.dst + 0)
    BY <1>4 DEF Block!Cells
  <2>2. Written(x, 0) = x.mem
    BY <1>1, <2>1 DEF Written, Walks
  <2>3. QED BY <1>2, <1>5, <2>2 DEF TurnsTo
<1>7. t.idle = x.idle
  <2>1. "idle" \in BlockFields \ Moving
    BY DEF BlockFields, Moving
  <2>2. QED BY <1>2, <2>1 DEF TurnsTo, Still
<1>8. Ahead(x.run, 0, t.run)
  BY <1>2, <1>5 DEF TurnsTo
<1>9. t.run.kind = x.run.kind /\ t.run.dst = x.run.dst /\ t.run.src = x.run.src
  BY <1>4, <1>5, <1>8 DEF Ahead
<1>10. t.run.pristine = x.run.pristine /\ t.run.leaves = x.run.leaves
  BY <1>8 DEF Ahead
<1>11. t.port = 1 /\ t.bus = x.bus /\ t.strobes = x.strobes /\ t.run.end = x.run.end - Ramp /\ t.run.turned = TRUE
  BY <1>1, <1>2, <1>4, <1>5 DEF TurnsTo
<1>12. Block!Native(x) = Block!Native(t)
  BY <1>1, <1>3, NativeTurns
<1>13. QED BY <1>3, <1>6, <1>7, <1>9, <1>10, <1>11, <1>12 DEF RampTo

LEMMA RampIsNative ==
  ASSUME Block!HleLoopsAssumption, NEW x, OnRamp(x), NEW z, RampTo(x, z), z.run.end = Block!RampLeft(x.run.end)
  PROVE  Block!Native(x) = Block!Native(z)
<1> DEFINE Claim(n) == \A s, t : OnRamp(s) /\ RampTo(s, t) /\ s.run.end = n /\ t.run.end = Block!RampLeft(n) =>
                          Block!Native(s) = Block!Native(t)
           bad == {n \in Nat : ~Claim(n)}
<1>1. Ramp \in Nat \ {0}
  BY DEF Block!HleLoopsAssumption
<1>2. ASSUME NEW n \in Nat, \A m \in Nat : m < n => Claim(m), NEW s, NEW t, OnRamp(s), RampTo(s, t),
             s.run.end = n, t.run.end = Block!RampLeft(n)
      PROVE  Block!Native(s) = Block!Native(t)
  <2>1. n > Ramp
    BY <1>2 DEF OnRamp
  <2>2. PICK a : a = Block!Turned(s)
    OBVIOUS
  <2>3. RampTo(s, a) /\ a.run.end = n - Ramp /\ a.run.turned = TRUE /\ Block!Native(s) = Block!Native(a)
    BY <1>2, <2>2, RampTurn
  <2>4. CASE n <= 2 * Ramp
    <3>1. t.run.end = n
      BY <1>1, <1>2, <2>1, <2>4, RampCount DEF Block!RampLeft
    <3>2. OnRamp(t)
      BY <1>2, <2>1, <3>1 DEF OnRamp, RampTo
    <3>3. PICK b : b = Block!Turned(t)
      OBVIOUS
    <3>4. RampTo(t, b) /\ b.run.end = n - Ramp /\ b.run.turned = TRUE /\ Block!Native(t) = Block!Native(b)
      BY <3>1, <3>2, <3>3, RampTurn
    <3>5. SameWay(a, b)
      BY <1>2, <2>3, <3>4 DEF RampTo, SameWay
    <3>6. a.strobes = b.strobes + 0
      BY <1>2, <2>3, <3>4 DEF RampTo, Walks
    <3>7. Alike(a, b, 0)
      BY <2>3, <3>4, <3>5, <3>6 DEF Alike, RampTo
    <3>8. Gap(Block!Native(a), Block!Native(b), 0)
      BY <3>7, NativeAlike
    <3>9. QED BY <2>3, <3>4, <3>8, GapRules
  <2>5. CASE n > 2 * Ramp
    <3>1. n - Ramp \in Nat /\ n - Ramp < n /\ n - Ramp > Ramp
      BY <1>1, <2>5
    <3>2. OnRamp(a)
      BY <1>2, <2>3, <3>1 DEF OnRamp, RampTo
    <3>3. RampTo(a, t)
      BY <1>2, <2>3 DEF RampTo
    <3>4. t.run.end = Block!RampLeft(n - Ramp)
      BY <1>1, <1>2, <2>1, <2>5, RampCount DEF Block!RampLeft
    <3>5. Claim(n - Ramp)
      <4> HIDE DEF Claim
      <4>1. QED BY <1>2, <3>1
    <3>6. Block!Native(a) = Block!Native(t)
      BY <2>3, <3>2, <3>3, <3>4, <3>5
    <3>7. QED BY <2>3, <3>6
  <2>6. QED BY <1>1, <2>4, <2>5
<1>3. \A n \in Nat : (\A m \in Nat : m < n => Claim(m)) => Claim(n)
  BY <1>2
<1>4. x.run.end \in Nat
  <2>1. x.run.end \in Int /\ x.run.end > Ramp
    BY RunsAre DEF OnRamp, Walks
  <2>2. QED BY <1>1, <2>1
<1> HIDE DEF Claim
<1>5. bad = {}
  <2>1. CASE bad # {}
    <3>1. PICK n \in bad : \A m \in bad : n <= m
      BY <2>1, LeastNumber
    <3>2. \A m \in Nat : m < n => Claim(m)
      BY <3>1
    <3>3. QED BY <1>3, <3>1, <3>2
  <2>2. QED BY <2>1
<1>6. Claim(x.run.end)
  BY <1>4, <1>5
<1>7. QED BY <1>6 DEF Claim

-------------------------------------------------------------------------------
(* What the hooks do.                                                      *)

(* A block of cells was written, and only that.                            *)
LoopMoves(s, n, z) ==
  /\ IsState(z) /\ Still(s, z) /\ Ahead(s.run, n, z.run) /\ z.run.end = s.run.end
  /\ z.run.turned = s.run.turned /\ z.mem = Written(s, n) /\ z.bus = s.bus /\ z.port = s.port
  /\ z.strobes = s.strobes

LEMMA MoveWalks ==
  ASSUME NEW s, Walks(s), NEW n \in Nat, NEW z, LoopMoves(s, n, z)
  PROVE  Walks(z)
<1>1. /\ s.run.kind \in Block!Kinds /\ s.run.dst \in Nat /\ s.run.src \in Nat /\ s.run.end \in Int
      /\ s.run.end <= AddressSpace /\ s.run.turned \in BOOLEAN /\ s.run.pristine \in BOOLEAN
      /\ s.run.leaves \in {"strobe", "code"}
  BY RunsAre DEF Walks
<1>2. Ahead(s.run, n, z.run) /\ z.run.end = s.run.end /\ z.run.turned = s.run.turned
  BY DEF LoopMoves
<1>3. /\ z.run.kind = s.run.kind /\ z.run.pristine = s.run.pristine /\ z.run.leaves = s.run.leaves
      /\ z.run.dst \in Nat /\ z.run.src \in Nat /\ IsRun7(z.run)
  BY <1>1, <1>2 DEF Ahead
<1>4. z.run \in Bounded
  BY <1>1, <1>2, <1>3, BoundedRun
<1>5. z.mem \in [Block!Cells -> Int]
  <2>1. s.mem \in [Block!Cells -> Int]
    BY DEF Walks
  <2>2. \A i : Given(s, i) \in Int
    BY <2>1 DEF Given, Block!Loaded
  <2>3. QED BY <2>1, <2>2 DEF LoopMoves, Written
<1>6. QED BY <1>4, <1>5 DEF Walks, LoopMoves

LEMMA ClearMoves ==
  ASSUME NEW s, Walks(s), ~Copying(s.run), NEW n \in Nat, OpenSpan(s.run, n), NEW stop \in Int, stop - s.run.dst = n,
         NEW u, u = Block!Cleared(s, stop)
  PROVE  LoopMoves(s, n, u)
<1>1. IsRun7(s.run) /\ IsState(s) /\ s.run.dst \in Nat /\ s.bus \in Int
  BY RunsAre DEF Walks
<1>2. u = Block!Stored(s, n, Block!Zeros(n))
  BY DEF Block!Cleared
<1>3. StoresTo(s, n, Block!Zeros(n), u)
  BY <1>1, <1>2, StoreFacts
<1>4. \A j \in 0..(n - 1) : Block!Zeros(n)[j] = Given(s, j)
  BY DEF Block!Zeros, Given
<1>5. Overwritten(s, n, Block!Zeros(n)) = Written(s, n)
  BY <1>4, UnitStored
<1>6. n = 0 \/ Block!Writable(s.run.dst)
  <2>1. n # 0 => 0 \in 0..(n - 1)
    OBVIOUS
  <2>2. s.run.dst + 0 = s.run.dst
    BY <1>1
  <2>3. QED BY <2>1, <2>2 DEF OpenSpan
<1>7. u.bus = s.bus
  BY <1>1, <1>3, <1>6 DEF StoresTo
<1>8. Ahead(s.run, n, u.run) /\ u.run.end = s.run.end /\ u.run.turned = s.run.turned
  BY <1>1, <1>3 DEF StoresTo, Ahead, IsRun7
<1>9. QED BY <1>3, <1>5, <1>7, <1>8 DEF StoresTo, LoopMoves

LEMMA CopyMoves ==
  ASSUME NEW s, Walks(s), Copying(s.run), NEW n \in Nat, OpenSpan(s.run, n), n = s.run.end - s.run.dst,
         \A i \in 0..(n - 1) : Block!Plain(s, s.run.src + i), NEW u, u = Block!Copied(s)
  PROVE  LoopMoves(s, n, u)
<1> DEFINE value == [j \in 0..(n - 1) |-> s.mem[s.run.src + j]]
           v == Block!Stored(s, n, value)
<1>1. IsRun7(s.run) /\ IsState(s) /\ s.run.dst \in Nat /\ s.bus \in Int
  BY RunsAre DEF Walks
<1>2. Overwritten(s, n, value) = Written(s, n)
  <2>1. \A j \in 0..(n - 1) : value[j] = Given(s, j)
    <3>1. ASSUME NEW j \in 0..(n - 1) PROVE Given(s, j) = s.mem[s.run.src + j]
      <4>1. PICK a : a = s.run.src + j
        OBVIOUS
      <4>2. Block!Plain(s, a)
        BY <4>1
      <4>3. Block!Loaded(s, a) = s.mem[a]
        BY <4>2 DEF Block!Plain, Block!Loaded
      <4>4. QED BY <4>1, <4>3 DEF Given
    <3>2. QED BY <3>1
  <2> HIDE DEF value
  <2>2. QED BY <2>1, UnitStored
<1>3. u = [v EXCEPT !.run.src = v.run.src + n]
  BY DEF Block!Copied
<1> HIDE DEF value
<1>4. StoresTo(s, n, value, v)
  BY <1>1, StoreFacts
<1> HIDE DEF v
<1>5. /\ u = [f \in BlockFields |-> u[f]] /\ Still(v, u) /\ u.run = [v.run EXCEPT !.src = v.run.src + n]
      /\ u.mem = v.mem /\ u.strobes = v.strobes /\ u.port = v.port /\ u.bus = v.bus
  BY <1>3, <1>4 DEF BlockFields, Still, Moving, StoresTo, IsState
<1>6. n = 0 \/ Block!Writable(s.run.dst)
  <2>1. n # 0 => 0 \in 0..(n - 1)
    OBVIOUS
  <2>2. s.run.dst + 0 = s.run.dst
    BY <1>1
  <2>3. QED BY <2>1, <2>2 DEF OpenSpan
<1>7. u.bus = s.bus
  BY <1>1, <1>4, <1>5, <1>6 DEF StoresTo
<1>8. Ahead(s.run, n, u.run) /\ u.run.end = s.run.end /\ u.run.turned = s.run.turned
  BY <1>1, <1>4, <1>5 DEF StoresTo, Ahead, IsRun7
<1>9. Still(s, u) /\ IsState(u)
  BY <1>4, <1>5 DEF StoresTo, Still, IsState
<1>10. QED BY <1>2, <1>4, <1>5, <1>7, <1>8, <1>9 DEF StoresTo, LoopMoves

(* What a hook adds to a block it wrote: nothing that the loop reads.      *)
Adds(u, z) ==
  /\ IsState(z) /\ z.run = u.run /\ z.mem = u.mem /\ z.bus = u.bus /\ z.port = u.port /\ z.strobes = u.strobes
  /\ z.idle = u.idle /\ z.entry = u.entry /\ z.promise = u.promise /\ z.fast = u.fast /\ z.early = u.early
  /\ z.script = u.script

LEMMA MoveLeaps ==
  ASSUME NEW s, Walks(s), NEW n \in Nat, NEW u, LoopMoves(s, n, u), NEW z, Adds(u, z),
         s.run.kind = "unrolled" => s.run.turned
  PROVE  /\ Leapt(s, n, z) /\ z.strobes = s.strobes /\ z.entry = s.entry /\ z.promise = s.promise
         /\ z.fast = s.fast
<1>1. Walks(u)
  BY MoveWalks
<1>2. Walks(z)
  BY <1>1 DEF Walks, Adds
<1>3. u.idle = s.idle /\ u.entry = s.entry /\ u.promise = s.promise /\ u.fast = s.fast
  <2>1. {"idle", "entry", "promise", "fast"} \subseteq BlockFields \ Moving
    BY DEF BlockFields, Moving
  <2>2. QED BY <2>1 DEF LoopMoves, Still
<1>4. Leapt(s, n, z)
  BY <1>2, <1>3 DEF Leapt, LoopMoves, Adds
<1>5. QED BY <1>3, <1>4 DEF Adds, LoopMoves

(* Loops whose length is a number of words, or of passes.                  *)
Rest(r) ==
  /\ r.kind = "unrolled" => r.turned \/ r.dst < r.end
  /\ r.kind \in {"copy", "progress", "segment"} /\ r.dst <= r.end => Multiple(r.end - r.dst, Word)
  /\ r.kind = "unrolled" /\ r.dst <= r.end => Multiple(r.end - r.dst, Unrolled)

(* The promise, as the hooks keep it.                                      *)
Quiet(a, b) == [a EXCEPT !.strobes = 0] = [b EXCEPT !.strobes = 0]
LoopKept(s) ==
  (s.fast \/ s.run.kind = "segment" => Block!Regular(s.entry)) =>
    IF s.fast THEN Quiet(Block!Native(s), s.promise) ELSE Block!Native(s) = s.promise

Running(s) ==
  /\ Walks(s) /\ s.fast \in BOOLEAN /\ s.entry.kind = s.run.kind
  /\ Block!Regular(s.entry) => Rest(s.run)
  /\ LoopKept(s)

LEMMA QuietRules ==
  /\ \A a, b, k : Gap(a, b, k) => Quiet(a, b)
  /\ \A a, b, c : Quiet(a, b) /\ Quiet(b, c) => Quiet(a, c)
  /\ \A a, b, c, k : Gap(a, c, k) /\ Gap(b, c, k) => a = b
<1>1. ASSUME NEW a, NEW b, NEW k, Gap(a, b, k) PROVE Quiet(a, b)
  BY <1>1 DEF Gap, IsSeen, Quiet
<1>2. \A a, b, c : Quiet(a, b) /\ Quiet(b, c) => Quiet(a, c)
  BY DEF Quiet
<1>3. ASSUME NEW a, NEW b, NEW c, NEW k, Gap(a, c, k), Gap(b, c, k) PROVE a = b
  BY <1>3 DEF Gap, IsSeen
<1>4. QED BY <1>1, <1>2, <1>3

LEMMA KeepsSame ==
  ASSUME NEW s, Running(s), NEW z, Walks(z), z.run.kind = s.run.kind, z.entry = s.entry, z.promise = s.promise,
         z.fast = s.fast, Block!Regular(s.entry) => Rest(z.run),
         (s.run.kind = "segment" => Block!Regular(s.entry)) => Block!Native(s) = Block!Native(z)
  PROVE  Running(z)
<1>1. LoopKept(z)
  BY DEF Running, LoopKept
<1>2. QED BY <1>1 DEF Running

LEMMA KeepsQuiet ==
  ASSUME NEW s, Running(s), NEW z, Walks(z), z.run.kind = s.run.kind, z.entry = s.entry, z.promise = s.promise,
         z.fast = TRUE, Block!Regular(s.entry) => Rest(z.run),
         Block!Regular(s.entry) => Quiet(Block!Native(z), Block!Native(s))
  PROVE  Running(z)
<1>1. ASSUME Block!Regular(s.entry) PROVE Quiet(Block!Native(z), s.promise)
  <2>1. IF s.fast THEN Quiet(Block!Native(s), s.promise) ELSE Block!Native(s) = s.promise
    BY <1>1 DEF Running, LoopKept
  <2>2. Quiet(Block!Native(z), Block!Native(s))
    BY <1>1
  <2>3. QED BY <2>1, <2>2, QuietRules
<1>2. LoopKept(z)
  BY <1>1 DEF LoopKept
<1>3. QED BY <1>2 DEF Running

Remembered(s) ==
  /\ s.dataEnd = Block!Unset \/ RamBase <= s.dataEnd
  /\ s.bssEnd = Block!Unset \/ s.bssEnd <= RamEnd
Settled(s) ==
  /\ IsState(s) /\ s.script \in Seq(Bounded) /\ s.mem \in [Block!Cells -> Int]
  /\ s.strobes \in Int /\ s.bus \in Int /\ s.port \in Int /\ s.fast \in BOOLEAN
PromiseInv ==
  /\ Settled(block) /\ Remembered(block)
  /\ block.run = Block!NoLoop \/ Running(block)

LEMMA OpenRam ==
  ASSUME BlockNumbers, NEW r, NEW n \in Nat, r.dst \in Nat, NEW stop, stop = r.dst + n,
         (RamBase <= r.dst /\ stop <= RamEnd) \/ (IramBase <= r.dst /\ stop <= IramEnd)
  PROVE  OpenSpan(r, n)
BY DEF BlockNumbers, OpenSpan, Block!Writable

LEMMA OpenDeclared ==
  ASSUME BlockNumbers, NEW r, NEW n \in Nat, r.dst \in Nat, NEW stop, stop = r.dst + n, Block!IsRam(r.dst, stop)
  PROVE  OpenSpan(r, n)
BY OpenRam DEF Block!IsRam, Block!Within

LEMMA PlainSource ==
  ASSUME Block!HleLoopsAssumption, NEW n \in Nat, NEW src \in Nat, NEW stop, stop = src + n, stop <= AddressSpace,
         Block!SourceIsSafe(src, stop)
  PROVE  \A i \in 0..(n - 1) : Block!Plain(block, src + i)
<1>1. BlockNumbers /\ RomBase \in Nat /\ RomEnd \in Nat /\ AddressSpace \in Nat
  BY DEF BlockNumbers, Block!HleLoopsAssumption
<1>2. ASSUME NEW i \in 0..(n - 1), NEW a, a = src + i PROVE Block!Plain(block, a)
  <2>1. a \in Block!Cells /\ src <= a /\ a < stop
    BY <1>1, <1>2 DEF Block!Cells
  <2>2. Block!Writable(a) \/ (Block!Rom(a) /\ block.idle)
    BY <1>1, <1>2, <2>1 DEF BlockNumbers, Block!SourceIsSafe, Block!IsRam, Block!Within, Block!Writable, Block!Rom
  <2>3. QED BY <2>1, <2>2 DEF Block!Plain
<1>3. QED BY <1>2

LEMMA ApartSpans ==
  ASSUME NEW r, NEW n \in Nat, r.dst \in Nat, r.src \in Nat, ~Block!Overlap(r.dst, r.src, n) \/ r.dst = r.src
  PROVE  Apart(r, n)
BY DEF Block!Overlap, Block!Least, Apart

(* A copy, by either hook.                                                 *)
LEMMA CopiedKeeps ==
  ASSUME Block!HleLoopsAssumption, PromiseInv, Copying(block.run), block.run.pristine,
         NEW n \in Nat, n = block.run.end - block.run.dst, OpenSpan(block.run, n), Apart(block.run, n),
         \A i \in 0..(n - 1) : Block!Plain(block, block.run.src + i),
         NEW u, u = Block!Copied(block)
  PROVE  /\ LoopMoves(block, n, u) /\ Running(block) /\ Walks(u) /\ Rest(u.run)
         /\ (block.run.kind = "copy" => Multiple(n, Word)) =>
              \A z : Adds(u, z) => Block!Native(block) = Block!Native(z)
<1> DEFINE s == block
<1>1. Running(s) /\ Walks(s) /\ s.run.kind # "ramp" /\ s.run.kind # "unrolled"
  BY DEF PromiseInv, Running, Copying, Block!NoLoop
<1>2. s.run.dst \in Nat /\ s.run.src \in Nat /\ s.run.end \in Int
  BY <1>1, RunsAre DEF Walks
<1>3. LoopMoves(s, n, u)
  BY <1>1, CopyMoves
<1>4. Walks(u)
  BY <1>1, <1>3, MoveWalks
<1>5. Rest(u.run)
  <2>1. u.run.kind = s.run.kind /\ u.run.end - u.run.dst = 0
    BY <1>2, <1>3 DEF LoopMoves, Ahead
  <2>2. Multiple(0, Word)
    <3>1. Word \in Nat /\ 0 \in Nat /\ 0 = Word * 0
      BY DEF Block!HleLoopsAssumption
    <3>2. QED BY <3>1 DEF Multiple
  <2>3. QED BY <1>1, <2>1, <2>2 DEF Rest
<1>6. ASSUME s.run.kind = "copy" => Multiple(n, Word), NEW z, Adds(u, z)
      PROVE  Block!Native(s) = Block!Native(z)
  <2>1. Leapt(s, n, z) /\ z.strobes = s.strobes
    BY <1>1, <1>3, <1>6, MoveLeaps
  <2>2. LoopFits(s.run, n)
    BY <1>1, <1>6 DEF LoopFits, Copying
  <2>3. Ready(s, n)
    BY <1>1, <1>2, <2>2 DEF Ready
  <2>4. PICK k : Missed(s.run, n, k) /\ Gap(Block!Native(s), Block!Native(z), s.strobes + k - z.strobes)
    BY <2>1, <2>3, BlockIsNative
  <2>5. k = 0
    BY <2>4 DEF Missed, Copying
  <2>6. s.strobes + k - z.strobes = 0
    BY <1>1, <2>1, <2>5 DEF Walks
  <2>7. QED BY <2>4, <2>6, GapRules
<1>7. QED BY <1>1, <1>3, <1>4, <1>5, <1>6

LEMMA HotCopyKeeps ==
  ASSUME Block!HleLoopsAssumption, PromiseInv, Block!HotCopy
  PROVE  Running(block')
<1> DEFINE s == block
           r == block.run
           n == r.end - r.dst
           u == Block!Copied(block)
           z == block'
<1>1. Running(s) /\ Walks(s) /\ r.kind = "copy" /\ r.pristine /\ Copying(r)
  BY DEF PromiseInv, Running, Block!HotCopy, Copying, Block!NoLoop
<1>2. r.dst \in Nat /\ r.src \in Nat /\ r.end \in Int /\ BlockNumbers
  BY <1>1, RunsAre DEF Walks, Block!HleLoopsAssumption, BlockNumbers
<1>3. n \in Nat /\ n % Word = 0 /\ r.dst + n = r.end
  BY <1>2 DEF Block!HotCopy, Block!Whole
<1>4. Multiple(n, Word)
  <2> HIDE DEF n
  <2>1. QED BY <1>2, <1>3, MultipleRules DEF BlockNumbers
<1>5. OpenSpan(r, n)
  <2>1. Block!IsRam(r.dst, r.end) \/ (RamBase <= r.dst /\ r.end <= RamEnd) \/ (IramBase <= r.dst /\ r.end <= IramEnd)
    BY DEF Block!HotCopy, Block!IsDeclared, Block!CopyStage
  <2> HIDE DEF n, r
  <2>2. QED BY <1>2, <1>3, <2>1, OpenRam, OpenDeclared
<1>6. Apart(r, n)
  <2>1. ~Block!Overlap(r.dst, r.src, n)
    BY DEF Block!HotCopy
  <2> HIDE DEF n, r
  <2>2. QED BY <1>2, <1>3, <2>1, ApartSpans
<1>7. \A i \in 0..(n - 1) : Block!Plain(s, r.src + i)
  <2>1. r.src + n <= AddressSpace /\ Block!SourceIsSafe(r.src, r.src + n)
    BY DEF Block!HotCopy
  <2> HIDE DEF n, r
  <2>2. QED BY <1>2, <1>3, <2>1, PlainSource
<1>8. /\ LoopMoves(s, n, u) /\ Walks(u) /\ Rest(u.run)
      /\ \A y : Adds(u, y) => Block!Native(s) = Block!Native(y)
  <2> HIDE DEF n, u
  <2>1. n = block.run.end - block.run.dst /\ u = Block!Copied(block)
    BY DEF n, u
  <2>2. QED BY <1>1, <1>3, <1>4, <1>5, <1>6, <1>7, <2>1, CopiedKeeps
<1>9. Adds(u, z)
  <2>1. PICK first, stop, third, fourth : z = [u EXCEPT !.dataEnd = first, !.romEnd = stop, !.iramEnd = third, !.leases = fourth]
    BY DEF Block!HotCopy
  <2>2. IsState(u)
    BY <1>8 DEF LoopMoves
  <2> HIDE DEF u, z
  <2>3. z = [f \in BlockFields |-> z[f]]
    BY <2>1, <2>2 DEF IsState, BlockFields
  <2>4. QED BY <2>1, <2>2, <2>3 DEF IsState, BlockFields, Adds
<1>10. Leapt(s, n, z) /\ z.entry = s.entry /\ z.promise = s.promise /\ z.fast = s.fast
  <2> HIDE DEF n, u, z
  <2>1. QED BY <1>1, <1>3, <1>8, <1>9, MoveLeaps
<1>11. Block!Native(s) = Block!Native(z)
  <2> HIDE DEF n, u, z
  <2>1. QED BY <1>8, <1>9
<1>12. Walks(z) /\ z.run.kind = r.kind /\ Rest(z.run)
  <2> HIDE DEF n, u, z
  <2>1. QED BY <1>8, <1>9, <1>10 DEF Leapt, Ahead, Adds
<1> HIDE DEF n, u, z, r
<1>13. z.run.kind = s.run.kind
  BY <1>12 DEF r
<1>14. Running(z)
  BY <1>1, <1>10, <1>11, <1>12, <1>13, KeepsSame
<1>15. QED BY <1>14 DEF z

(* A hook that is set by address marks the loop.                           *)
LoopMarks(u, z) ==
  /\ IsState(z) /\ z.mem = u.mem /\ z.bus = u.bus /\ z.port = u.port /\ z.strobes = u.strobes
  /\ z.idle = u.idle /\ z.entry = u.entry /\ z.promise = u.promise /\ z.fast = TRUE

LEMMA FastCopyKeeps ==
  ASSUME Block!HleLoopsAssumption, PromiseInv, Block!FastCopy
  PROVE  Running(block')
<1> DEFINE s == block
           r == block.run
           n == r.end - r.dst
           u == Block!Copied(block)
           z == block'
<1>1. Running(s) /\ Walks(s) /\ r.kind \in {"copy", "call"} /\ r.pristine /\ Copying(r)
  BY DEF PromiseInv, Running, Block!FastCopy, Copying, Block!NoLoop
<1>2. r.dst \in Nat /\ r.src \in Nat /\ r.end \in Int /\ BlockNumbers
  BY <1>1, RunsAre DEF Walks, Block!HleLoopsAssumption, BlockNumbers
<1>3. r.dst <= r.end /\ ((RamBase <= r.dst /\ r.end <= RamEnd) \/ (IramBase <= r.dst /\ r.end <= IramEnd))
  BY DEF Block!FastCopy, Block!IsRam, Block!Within
<1>4. n \in Nat /\ r.dst + n = r.end
  BY <1>2, <1>3
<1>5. OpenSpan(r, n)
  <2> HIDE DEF n, r
  <2>1. QED BY <1>2, <1>3, <1>4, OpenRam
<1>6. Apart(r, n)
  <2>1. r.dst = r.src \/ ~Block!Overlap(r.dst, r.src, n)
    BY DEF Block!FastCopy
  <2> HIDE DEF n, r
  <2>2. QED BY <1>2, <1>4, <2>1, ApartSpans
<1>7. \A i \in 0..(n - 1) : Block!Plain(s, r.src + i)
  <2>1. r.src + n <= AddressSpace /\ Block!SourceIsSafe(r.src, r.src + n)
    BY DEF Block!FastCopy
  <2> HIDE DEF n, r
  <2>2. QED BY <1>2, <1>4, <2>1, PlainSource
<1>8. /\ LoopMoves(s, n, u) /\ Walks(u) /\ Rest(u.run)
      /\ (r.kind = "copy" => Multiple(n, Word)) => \A y : Adds(u, y) => Block!Native(s) = Block!Native(y)
  <2> HIDE DEF n, u
  <2>1. n = block.run.end - block.run.dst /\ u = Block!Copied(block)
    BY DEF n, u
  <2>2. QED BY <1>1, <1>4, <1>5, <1>6, <1>7, <2>1, CopiedKeeps
<1>9. z.run = u.run /\ LoopMarks(u, z)
  <2>1. PICK yes : yes = TRUE /\ z = [u EXCEPT !.fast = yes]
    BY DEF Block!FastCopy
  <2>2. IsState(u)
    BY <1>8 DEF LoopMoves
  <2> HIDE DEF u, z
  <2>3. z = [f \in BlockFields |-> z[f]]
    BY <2>1, <2>2 DEF IsState, BlockFields
  <2>4. QED BY <2>1, <2>2, <2>3 DEF IsState, BlockFields, LoopMarks
<1>10. Walks(z)
  <2> HIDE DEF u, z
  <2>1. QED BY <1>8, <1>9 DEF Walks, LoopMarks
<1> HIDE DEF z
<1>11. Block!Regular(s.entry) => Quiet(Block!Native(z), Block!Native(s))
  <2>1. ASSUME Block!Regular(s.entry) PROVE Quiet(Block!Native(z), Block!Native(s))
    <3>1. r.kind = "copy" => Multiple(n, Word)
      BY <1>1, <1>3, <2>1 DEF Running, Rest
    <3> HIDE DEF n, u
    <3>2. Adds(u, u)
      BY <1>8 DEF Adds, LoopMoves
    <3>3. Block!Native(s) = Block!Native(u)
      BY <1>8, <3>1, <3>2
    <3>4. SameWay(z, u)
      BY <1>9 DEF SameWay, LoopMarks
    <3>5. Alike(z, u, 0)
      BY <1>8, <1>9, <1>10, <3>4 DEF Alike, LoopMarks, Walks
    <3>6. Gap(Block!Native(z), Block!Native(u), 0)
      BY <3>5, NativeAlike
    <3>7. QED BY <3>3, <3>6, QuietRules
  <2>2. QED BY <2>1
<1>12. /\ z.run.kind = s.run.kind /\ z.entry = s.entry /\ z.promise = s.promise /\ z.fast = TRUE
       /\ Rest(z.run)
  <2>1. {"entry", "promise"} \subseteq BlockFields \ Moving
    BY DEF BlockFields, Moving
  <2>2. u.entry = s.entry /\ u.promise = s.promise /\ u.run.kind = s.run.kind
    BY <1>8, <2>1 DEF LoopMoves, Still, Ahead
  <2> HIDE DEF u
  <2>3. QED BY <1>8, <1>9, <2>2 DEF LoopMarks
<1>13. Running(z)
  BY <1>1, <1>10, <1>11, <1>12, KeepsQuiet
<1>14. QED BY <1>13 DEF z

(* Up to a boundary, no address is a multiple of the period.               *)
LEMMA BoundaryIs ==
  ASSUME NEW p \in Nat \ {0}, NEW a \in Nat, NEW i \in Nat, a + i < ((a + p - 1) \div p) * p
  PROVE  (a + i) % p # 0
<1> DEFINE c == (a + p - 1) \div p
           b == a + p - 1
           e == a + i
           q == e \div p
<1>1. b \in Nat /\ e \in Nat
  OBVIOUS
<1> HIDE DEF b, e
<1>2. e = p * (e \div p) + (e % p) /\ q \in Int
  BY <1>1
<1>3. c = b \div p
  BY DEF b
<1> HIDE DEF c, q
<1>4. b >= p * c /\ c \in Int
  <2>1. PICK m \in Int, l \in Nat : m = b \div p /\ b = p * m + l
    BY <1>1
  <2>2. QED BY <1>1, <1>3, <2>1
<1>5. ASSUME e % p = 0 PROVE FALSE
  <2>1. e = p * q
    BY <1>2, <1>5 DEF q
  <2>2. p * q < p * c
    BY <2>1, <1>4 DEF e, c
  <2>3. q <= c - 1
    <3>1. CASE q >= c
      <4>1. p * q >= p * c
        BY <1>2, <1>4, <3>1
      <4>2. QED BY <1>2, <1>4, <2>2, <4>1
    <3>2. QED BY <1>2, <1>4, <3>1
  <2>4. p * q <= p * (c - 1)
    BY <1>2, <1>4, <2>3
  <2>5. p * (c - 1) = p * c - p
    BY <1>4
  <2>6. e <= b - p
    BY <1>1, <1>2, <1>4, <2>1, <2>4, <2>5
  <2>7. QED BY <2>6 DEF e, b
<1>6. QED BY <1>5 DEF e

LEMMA HotClearKeeps ==
  ASSUME Block!HleLoopsAssumption, BlockInv, PromiseInv, Block!HotClear
  PROVE  Running(block') /\ (block'.bssEnd = Block!Unset \/ block'.bssEnd <= RamEnd)
<1> DEFINE s == block
           r == block.run
           stop == IF r.kind = "progress" THEN Block!Boundary(r) ELSE r.end
           n == stop - r.dst
           u == Block!Cleared(block, stop)
           z == block'
           stage == Block!ClearStage(stop)
<1>1. Running(s) /\ Walks(s) /\ r.kind \in {"clear", "progress"} /\ r.pristine /\ ~Copying(r)
  BY DEF PromiseInv, Running, Block!HotClear, Copying, Block!NoLoop
<1>2. r.dst \in Nat /\ r.src \in Nat /\ r.end \in Int /\ BlockNumbers
  BY <1>1, RunsAre DEF Walks, Block!HleLoopsAssumption, BlockNumbers
<1>3. stop \in Int /\ stop <= r.end
  <2>1. Block!Boundary(r) \in Int /\ Block!Boundary(r) <= r.end
    BY <1>2 DEF Block!Boundary, Block!Least, BlockNumbers
  <2>2. QED BY <1>2, <2>1
<1>4. n \in Nat /\ n % Word = 0 /\ r.dst + n = stop
  <2>1. n > 0 /\ n % Word = 0
    BY DEF Block!HotClear, Block!Whole
  <2> HIDE DEF stop
  <2>2. QED BY <1>2, <1>3, <2>1
<1>5. Multiple(n, Word)
  <2> HIDE DEF n
  <2>1. QED BY <1>2, <1>4, MultipleRules DEF BlockNumbers
<1>6. stage # "none" => RamBase <= r.dst /\ stop <= RamEnd /\ (stage = "open" => r.end <= RamEnd)
  <2>1. ASSUME stage # "none" PROVE RamBase <= r.dst /\ stop <= RamEnd /\ (stage = "open" => r.end <= RamEnd)
    <3>1. s.dataEnd # Block!Unset /\ s.dataEnd <= r.dst
      BY <2>1 DEF Block!ClearStage
    <3>2. RamBase <= s.dataEnd /\ s.dataEnd \in Nat /\ s.bssEnd \in Nat \cup {Block!Unset}
      BY <3>1 DEF PromiseInv, Remembered, BlockInv, BootInv, MaybeEnds
    <3>3. RamBase <= r.dst
      BY <1>2, <3>1, <3>2 DEF BlockNumbers
    <3>4. \/ stop <= r.end /\ r.end <= RamEnd /\ stage = "open"
          \/ r.dst < stop /\ stop <= s.bssEnd /\ stage = "continue"
      BY <2>1 DEF Block!ClearStage
    <3> HIDE DEF stop, stage
    <3>5. s.bssEnd <= RamEnd \/ stage = "open"
      BY <1>2, <1>3, <3>2, <3>4 DEF PromiseInv, Remembered, Block!Unset
    <3>6. stop <= RamEnd
      BY <1>2, <1>3, <3>2, <3>4, <3>5 DEF BlockNumbers, Block!Unset
    <3>7. QED BY <3>3, <3>4, <3>6
  <2>2. QED BY <2>1
<1>7. OpenSpan(r, n)
  <2>1. Block!IsRam(r.dst, stop) \/ (RamBase <= r.dst /\ stop <= RamEnd)
    BY <1>6 DEF Block!HotClear, Block!IsDeclared
  <2> HIDE DEF n, r, stop
  <2>2. QED BY <1>2, <1>4, <2>1, OpenRam, OpenDeclared
<1>8. LoopMoves(s, n, u)
  <2> HIDE DEF stop
  <2>1. QED BY <1>1, <1>2, <1>3, <1>4, <1>7, ClearMoves
<1>9. Adds(u, z) /\ z.bssEnd = (IF stage = "open" THEN r.end ELSE s.bssEnd)
  <2>1. PICK bss, done, leases : z = [u EXCEPT !.bssEnd = bss, !.bssComplete = done, !.leases = leases]
                                 /\ bss = (IF stage = "open" THEN r.end ELSE s.bssEnd)
    BY DEF Block!HotClear
  <2>2. IsState(u)
    BY <1>8 DEF LoopMoves
  <2> HIDE DEF u, z
  <2>3. z = [f \in BlockFields |-> z[f]]
    BY <2>1, <2>2 DEF IsState, BlockFields
  <2>4. QED BY <2>1, <2>2, <2>3 DEF IsState, BlockFields, Adds
<1>10. /\ Leapt(s, n, z) /\ z.strobes = s.strobes /\ z.entry = s.entry /\ z.promise = s.promise /\ z.fast = s.fast
  <2>1. r.kind # "unrolled"
    BY <1>1
  <2> HIDE DEF n, u, z
  <2>2. QED BY <1>1, <1>4, <1>8, <1>9, <2>1, MoveLeaps
<1>11. Block!Native(s) = Block!Native(z)
  <2>1. LoopFits(r, n) /\ r.kind # "ramp" /\ r.kind # "segment"
    BY <1>1, <1>5 DEF LoopFits
  <2>2. r.dst + n <= r.end
    BY <1>3, <1>4
  <2>3. r.kind = "progress" => ~\E i \in 0..(n - 1) : (r.dst + i) % Period = 0
    <3>1. ASSUME r.kind = "progress", NEW i \in 0..(n - 1) PROVE (r.dst + i) % Period # 0
      <4>1. stop <= ((r.dst + Period - 1) \div Period) * Period
        BY <1>2, <3>1 DEF Block!Boundary, Block!Least, BlockNumbers
      <4>2. i \in Nat /\ r.dst + i < stop
        <5> HIDE DEF stop
        <5>1. QED BY <1>2, <1>3, <3>1
      <4>3. ((r.dst + Period - 1) \div Period) * Period \in Int
        BY <1>2 DEF BlockNumbers
      <4> HIDE DEF stop, n, r
      <4>4. r.dst + i < ((r.dst + Period - 1) \div Period) * Period
        BY <1>2, <1>3, <4>1, <4>2, <4>3
      <4>5. QED BY <1>2, <4>2, <4>4, BoundaryIs DEF BlockNumbers
    <3>2. QED BY <3>1
  <2> HIDE DEF n, u, z
  <2>4. Ready(s, n)
    BY <1>1, <1>7, <2>1, <2>2 DEF Ready
  <2>5. PICK k : Missed(r, n, k) /\ Gap(Block!Native(s), Block!Native(z), s.strobes + k - z.strobes)
    BY <1>4, <1>10, <2>4, BlockIsNative
  <2>6. k = 0
    BY <1>1, <2>3, <2>5 DEF Missed
  <2>7. s.strobes + k - z.strobes = 0
    BY <1>1, <1>10, <2>6 DEF Walks
  <2>8. QED BY <2>5, <2>7, GapRules
<1> HIDE DEF u, z
<1>12. Walks(z) /\ z.run.kind = s.run.kind /\ z.run.dst = r.dst + n /\ z.run.end = r.end
  BY <1>10 DEF Leapt, Ahead
<1>13. Block!Regular(s.entry) => Rest(z.run)
  <2>1. ASSUME Block!Regular(s.entry), r.kind = "progress" PROVE Multiple(z.run.end - z.run.dst, Word)
    <3>1. r.dst + n <= r.end /\ n \in Nat /\ Multiple(n, Word)
      BY <1>3, <1>4, <1>5
    <3> HIDE DEF n
    <3>2. PICK m \in Nat : m = r.end - r.dst /\ n <= m
      BY <1>2, <3>1
    <3>3. Multiple(m, Word)
      BY <1>1, <1>2, <2>1, <3>1, <3>2 DEF Running, Rest
    <3>4. Multiple(m - n, Word)
      BY <1>2, <3>1, <3>2, <3>3, MultipleRules DEF BlockNumbers
    <3>5. z.run.end - z.run.dst = m - n
      BY <1>2, <1>12, <3>1, <3>2
    <3>6. QED BY <3>4, <3>5
  <2>2. QED BY <1>1, <1>12, <2>1 DEF Rest
<1>14. Running(z)
  BY <1>1, <1>10, <1>11, <1>12, <1>13, KeepsSame
<1>15. z.bssEnd = Block!Unset \/ z.bssEnd <= RamEnd
  <2> HIDE DEF stage
  <2>1. QED BY <1>6, <1>9 DEF PromiseInv, Remembered
<1>16. QED BY <1>14, <1>15 DEF z

(* What remains of a segment behind its clear is whole, and strobes as     *)
(* often as the segment.                                                   *)
LEMMA SegmentRest ==
  ASSUME Block!HleLoopsAssumption, NEW n \in Nat
  PROVE  \E m \in Nat : /\ m = Block!Segment(n) /\ m <= n /\ m \div Period = n \div Period
                        /\ Multiple(m, Word)
<1> DEFINE q == n \div Period
           m == Period * q
<1>1. Period \in Nat \ {0} /\ Chunk \in Nat \ {0} /\ Word \in Nat \ {0} /\ Period % Chunk = 0 /\ Chunk % Word = 0
  BY DEF Block!HleLoopsAssumption
<1>2. q \in Nat /\ n = Period * q + (n % Period) /\ n % Period >= 0 /\ n % Period \in Int
  BY <1>1
<1> HIDE DEF q
<1>3. m \in Nat /\ m <= n
  BY <1>1, <1>2
<1>4. m \div Period = q
  <2>1. m = Period * q + 0 /\ 0 \in 0..(Period - 1)
    BY <1>1, <1>3
  <2> HIDE DEF m
  <2>2. QED BY <1>1, <1>2, <1>3, <2>1, DivisionIs
<1>5. Multiple(m, Word)
  <2>1. Multiple(Period, Chunk) /\ Multiple(Chunk, Word)
    BY <1>1, MultipleRules
  <2>2. PICK a \in Nat : Period = Chunk * a
    BY <2>1 DEF Multiple
  <2>3. PICK b \in Nat : Chunk = Word * b
    BY <2>1 DEF Multiple
  <2>4. b * a \in Nat /\ (b * a) * q \in Nat
    BY <1>2, <2>2, <2>3
  <2>5. Period = Word * (b * a)
    BY <1>1, <2>2, <2>3
  <2>6. m = Word * ((b * a) * q)
    BY <1>1, <1>2, <2>4, <2>5
  <2>7. QED BY <2>4, <2>6 DEF Multiple
<1>6. m = Block!Segment(n)
  <2>1. Block!Segment(n) = q * Period
    BY DEF Block!Segment, q
  <2>2. QED BY <1>1, <1>2, <2>1
<1>7. QED BY <1>3, <1>4, <1>5, <1>6 DEF q

LEMMA HotSegmentKeeps ==
  ASSUME Block!HleLoopsAssumption, PromiseInv, Block!HotSegment
  PROVE  Running(block')
<1> DEFINE s == block
           r == block.run
           z == block'
<1>1. Running(s) /\ Walks(s) /\ r.kind = "segment" /\ r.pristine /\ ~Copying(r) /\ IsState(s)
  BY DEF PromiseInv, Running, Block!HotSegment, Copying, Block!NoLoop, Walks
<1>2. /\ r.dst \in Nat /\ r.end \in Int /\ BlockNumbers
      /\ RamBase <= r.dst /\ r.dst < r.end /\ r.end <= RamEnd
  BY <1>1, RunsAre DEF Walks, Block!HleLoopsAssumption, BlockNumbers, Block!HotSegment
<1>3. PICK n \in Nat : n = r.end - r.dst
  BY <1>2
<1>4. PICK m \in Nat : m = Block!Segment(n) /\ m <= n /\ m \div Period = n \div Period /\ Multiple(m, Word)
  BY SegmentRest
<1>5. z = Block!Cleared(s, r.end - m)
  BY <1>3, <1>4 DEF Block!HotSegment
<1>6. PICK e : e = Block!Cleared(s, r.end)
  OBVIOUS
<1> HIDE DEF z
<1>7. OpenSpan(r, n) /\ OpenSpan(r, n - m)
  <2>1. r.end = r.dst + n /\ (RamBase <= r.dst /\ r.end <= RamEnd)
    BY <1>2, <1>3
  <2>2. OpenSpan(r, n)
    BY <1>2, <2>1, OpenRam
  <2>3. \A i \in 0..((n - m) - 1) : i \in 0..(n - 1)
    BY <1>4
  <2>4. QED BY <2>2, <2>3 DEF OpenSpan
<1>8. LoopMoves(s, n, e)
  BY <1>1, <1>2, <1>3, <1>6, <1>7, ClearMoves
<1>9. LoopMoves(s, n - m, z)
  <2>1. r.end - m \in Int /\ (r.end - m) - r.dst = n - m /\ n - m \in Nat
    BY <1>2, <1>3, <1>4
  <2>2. QED BY <1>1, <1>5, <1>7, <2>1, ClearMoves
<1>10. Walks(z) /\ Walks(e)
  <2>1. n - m \in Nat
    BY <1>4
  <2>2. QED BY <1>1, <1>8, <1>9, <2>1, MoveWalks
<1>11. /\ z.run.kind = "segment" /\ z.run.pristine = r.pristine /\ z.run.end = r.end /\ z.run.dst = r.end - m
       /\ z.run.leaves = r.leaves /\ z.run.src = r.src
  BY <1>1, <1>2, <1>3, <1>4, <1>9 DEF LoopMoves, Ahead
<1>12. /\ z.idle = s.idle /\ z.entry = s.entry /\ z.promise = s.promise /\ z.fast = s.fast /\ e.idle = s.idle
       /\ z.strobes = s.strobes /\ e.strobes = s.strobes
  <2>1. {"idle", "entry", "promise", "fast"} \subseteq BlockFields \ Moving
    BY DEF BlockFields, Moving
  <2>2. QED BY <1>8, <1>9, <2>1 DEF LoopMoves, Still
<1>13. e.mem = Written(z, m)
  <2>1. /\ e.mem = Written(s, n) /\ z.mem = Written(s, n - m) /\ z.run.dst = r.dst + (n - m)
    BY <1>2, <1>3, <1>4, <1>8, <1>9, <1>11 DEF LoopMoves
  <2>2. ~Copying(z.run)
    BY <1>11 DEF Copying
  <2>3. \A a \in Block!Cells : a \in Int
    BY DEF Block!Cells
  <2>4. ASSUME NEW a \in Block!Cells PROVE Written(s, n)[a] = Written(z, m)[a]
    <3>1. Written(s, n)[a] = IF r.dst <= a /\ a < r.dst + n /\ Block!Writable(a) THEN 0 ELSE s.mem[a]
      BY <1>1 DEF Written, Given
    <3>2. Written(z, m)[a] = IF z.run.dst <= a /\ a < z.run.dst + m /\ Block!Writable(a) THEN 0 ELSE z.mem[a]
      BY <2>2 DEF Written, Given
    <3>3. z.mem[a] = IF r.dst <= a /\ a < r.dst + (n - m) /\ Block!Writable(a) THEN 0 ELSE s.mem[a]
      BY <1>1, <2>1 DEF Written, Given
    <3> HIDE DEF r
    <3>4. QED BY <1>2, <1>4, <2>1, <2>3, <3>1, <3>2, <3>3
  <2>5. QED BY <2>1, <2>4 DEF Written
<1>14. Ahead(z.run, m, e.run) /\ e.run.end = z.run.end
  <2>1. Ahead(r, n, e.run) /\ e.run.end = r.end
    BY <1>8 DEF LoopMoves
  <2>2. ~Copying(z.run)
    BY <1>11 DEF Copying
  <2> HIDE DEF r
  <2>3. QED BY <1>1, <1>2, <1>3, <1>4, <1>11, <2>1, <2>2 DEF Ahead
<1>15. Leapt(z, m, e)
  BY <1>8, <1>9, <1>10, <1>11, <1>12, <1>13, <1>14 DEF Leapt, LoopMoves
<1>16. Leapt(s, n, e)
  BY <1>1, <1>8, <1>10, <1>12 DEF Leapt, LoopMoves
<1>17. Ready(z, m)
  <2>1. \A i \in 0..(m - 1) : (n - m) + i \in 0..(n - 1) /\ z.run.dst + i = r.dst + ((n - m) + i)
    BY <1>2, <1>3, <1>4, <1>11
  <2>2. OpenSpan(z.run, m)
    BY <1>7, <2>1 DEF OpenSpan
  <2>3. LoopFits(z.run, m) /\ z.run.dst + m = z.run.end /\ ~Copying(z.run)
    BY <1>2, <1>4, <1>11 DEF LoopFits, Copying
  <2>4. z.run.end \in Int
    BY <1>2, <1>11
  <2>5. QED BY <1>1, <1>10, <1>11, <2>2, <2>3, <2>4 DEF Ready
<1>18. ASSUME Block!Regular(s.entry) PROVE Block!Native(s) = Block!Native(z) /\ Rest(z.run)
  <2>1. Multiple(n, Word)
    BY <1>1, <1>2, <1>3, <1>18 DEF Running, Rest
  <2>2. LoopFits(r, n) /\ r.dst + n = r.end
    BY <1>1, <1>2, <1>3, <2>1 DEF LoopFits
  <2>3. Ready(s, n)
    BY <1>1, <1>2, <1>7, <2>2 DEF Ready
  <2>4. PICK k : Missed(r, n, k) /\ Gap(Block!Native(s), Block!Native(e), s.strobes + k - e.strobes)
    BY <1>16, <2>3, BlockIsNative
  <2>5. PICK j : Missed(z.run, m, j) /\ Gap(Block!Native(z), Block!Native(e), z.strobes + j - e.strobes)
    BY <1>15, <1>17, BlockIsNative
  <2>6. k = n \div Period /\ j = m \div Period
    <3>1. z.run.end - z.run.dst = m
      BY <1>2, <1>4, <1>11
    <3>2. QED BY <1>1, <1>3, <1>11, <2>4, <2>5, <3>1 DEF Missed
  <2>7. s.strobes + k - e.strobes = z.strobes + j - e.strobes
    BY <1>4, <1>12, <2>6
  <2>8. Block!Native(s) = Block!Native(z)
    BY <2>4, <2>5, <2>7, QuietRules
  <2>9. Rest(z.run)
    <3>1. z.run.end - z.run.dst = m
      BY <1>2, <1>4, <1>11
    <3>2. QED BY <1>4, <1>11, <3>1 DEF Rest
  <2>10. QED BY <2>8, <2>9
<1>19. Running(z)
  BY <1>1, <1>10, <1>11, <1>12, <1>18, KeepsSame
<1>20. QED BY <1>19 DEF z

LEMMA FastClearKeeps ==
  ASSUME Block!HleLoopsAssumption, PromiseInv, Block!FastClear
  PROVE  Running(block')
<1> DEFINE s == block
           r == block.run
           z == block'
<1>1. Running(s) /\ Walks(s) /\ r.kind \in {"progress", "unrolled"} /\ r.pristine /\ ~Copying(r) /\ IsState(s)
  BY DEF PromiseInv, Running, Block!FastClear, Copying, Block!NoLoop, Walks
<1>2. /\ r.dst \in Nat /\ r.end \in Int /\ BlockNumbers /\ r.src \in Nat
      /\ RamBase <= r.dst /\ r.dst <= r.end /\ r.end <= RamEnd
  BY <1>1, RunsAre DEF Walks, Block!HleLoopsAssumption, BlockNumbers, Block!FastClear, Block!Within
<1>3. PICK n \in Nat : n = r.end - r.dst
  BY <1>2
<1>4. PICK u : u = Block!Cleared(s, r.end)
  OBVIOUS
<1>5. OpenSpan(r, n)
  <2>1. r.end = r.dst + n
    BY <1>2, <1>3
  <2>2. QED BY <1>2, <2>1, OpenRam
<1>6. LoopMoves(s, n, u)
  BY <1>1, <1>2, <1>3, <1>4, <1>5, ClearMoves
<1>7. Walks(u)
  BY <1>1, <1>6, MoveWalks
<1>8. PICK yes : yes = TRUE /\ z = [u EXCEPT !.fast = yes, !.run = [u.run EXCEPT !.turned = yes]]
  BY <1>4 DEF Block!FastClear
<1>9. IsRun7(u.run) /\ IsState(u)
  BY <1>7, RunsAre DEF Walks
<1> HIDE DEF z
<1>10. LoopMarks(u, z) /\ z.run = [u.run EXCEPT !.turned = yes]
  <2>1. z = [f \in BlockFields |-> z[f]]
    BY <1>8, <1>9 DEF IsState, BlockFields
  <2>2. QED BY <1>8, <1>9, <2>1 DEF IsState, BlockFields, LoopMarks
<1>11. /\ IsRun7(z.run) /\ z.run.kind = u.run.kind /\ z.run.dst = u.run.dst /\ z.run.src = u.run.src
       /\ z.run.end = u.run.end /\ z.run.pristine = u.run.pristine /\ z.run.leaves = u.run.leaves
       /\ z.run.turned = yes
  BY <1>9, <1>10 DEF IsRun7
<1>12. Walks(z)
  <2>1. /\ u.run.kind \in Block!Kinds /\ u.run.dst \in Nat /\ u.run.src \in Nat /\ u.run.end \in Int
        /\ u.run.end <= AddressSpace /\ u.run.pristine \in BOOLEAN /\ u.run.leaves \in {"strobe", "code"}
        /\ z.run.turned \in BOOLEAN
    BY <1>7, <1>8, <1>11, RunsAre DEF Walks
  <2>2. z.run \in Bounded
    BY <1>11, <2>1, BoundedRun
  <2>3. QED BY <1>7, <1>10, <2>2 DEF Walks, LoopMarks
<1>13. /\ u.idle = s.idle /\ u.entry = s.entry /\ u.promise = s.promise
  <2>1. {"idle", "entry", "promise"} \subseteq BlockFields \ Moving
    BY DEF BlockFields, Moving
  <2>2. QED BY <1>6, <2>1 DEF LoopMoves, Still
<1>14. /\ Ahead(r, n, u.run) /\ u.run.end = r.end /\ u.run.kind = r.kind /\ u.run.dst = r.end
  BY <1>2, <1>3, <1>6 DEF LoopMoves, Ahead
<1>15. Leapt(s, n, z)
  <2>1. Ahead(r, n, z.run)
    BY <1>11, <1>14 DEF Ahead
  <2>2. z.run.turned
    BY <1>8, <1>11
  <2>3. QED BY <1>6, <1>10, <1>11, <1>12, <1>13, <1>14, <2>1, <2>2 DEF Leapt, LoopMoves, LoopMarks
<1>16. ASSUME Block!Regular(s.entry) PROVE Quiet(Block!Native(z), Block!Native(s))
  <2>1. Rest(r)
    BY <1>1, <1>16 DEF Running
  <2>2. LoopFits(r, n) /\ r.dst + n <= r.end
    <3>1. r.kind = "unrolled" => r.turned \/ n > 0
      BY <1>2, <1>3, <2>1 DEF Rest
    <3>2. QED BY <1>1, <1>2, <1>3, <2>1, <3>1 DEF Rest, LoopFits
  <2>3. Ready(s, n)
    BY <1>1, <1>5, <2>2 DEF Ready
  <2>4. PICK k : Missed(r, n, k) /\ Gap(Block!Native(s), Block!Native(z), s.strobes + k - z.strobes)
    BY <1>15, <2>3, BlockIsNative
  <2>5. Quiet(Block!Native(s), Block!Native(z))
    BY <2>4, QuietRules
  <2>6. QED BY <2>5 DEF Quiet
<1>17. Rest(z.run)
  <2>1. /\ z.run.end - z.run.dst = 0 /\ z.run.kind = r.kind
        /\ z.run.turned
    <3>1. z.run.turned
      BY <1>8, <1>11
    <3>2. z.run.end - z.run.dst = 0 /\ z.run.kind = r.kind
      BY <1>2, <1>11, <1>14
    <3>3. QED BY <3>1, <3>2
  <2>2. Multiple(0, Word) /\ Multiple(0, Unrolled)
    <3>1. 0 = Word * 0 /\ 0 = Unrolled * 0 /\ 0 \in Nat
      BY <1>2 DEF BlockNumbers
    <3>2. QED BY <3>1 DEF Multiple
  <2>3. QED BY <2>1, <2>2 DEF Rest
<1>18. z.run.kind = s.run.kind /\ z.entry = s.entry /\ z.promise = s.promise /\ z.fast = TRUE
  BY <1>10, <1>11, <1>13, <1>14 DEF LoopMarks
<1>19. Running(z)
  BY <1>1, <1>12, <1>16, <1>17, <1>18, KeepsQuiet
<1>20. QED BY <1>19 DEF z

LEMMA FastRampKeeps ==
  ASSUME Block!HleLoopsAssumption, PromiseInv, Block!FastRamp
  PROVE  Running(block')
<1> DEFINE s == block
           r == block.run
           z == block'
           left == Block!RampLeft(r.end)
<1>1. Running(s) /\ Walks(s) /\ r.kind = "ramp" /\ r.pristine /\ IsState(s) /\ OnRamp(s)
  BY DEF PromiseInv, Running, Block!FastRamp, Block!NoLoop, Walks, OnRamp
<1>2. /\ r.dst \in Nat /\ r.src \in Nat /\ r.end \in Int /\ r.end <= AddressSpace /\ r.end > Ramp
      /\ r.leaves \in {"strobe", "code"} /\ Ramp \in Nat \ {0} /\ r.pristine \in BOOLEAN /\ IsRun7(r)
  BY <1>1, RunsAre DEF Walks, Block!HleLoopsAssumption, OnRamp
<1>3. left \in Int /\ left <= AddressSpace
  <2>1. PICK n \in Nat : n = r.end /\ n > Ramp
    BY <1>2
  <2>2. left = ((n - 1) % Ramp) + 1 + Ramp
    BY <2>1 DEF Block!RampLeft
  <2>3. (n - 1) % Ramp \in 0..(Ramp - 1)
    BY <1>2, <2>1, RampCount
  <2>4. ((n - 1) % Ramp) + 1 + Ramp <= n
    <3> DEFINE x == n - 1
               q == x \div Ramp
    <3>1. x \in Nat /\ x >= Ramp
      BY <1>2, <2>1
    <3>2. x = Ramp * q + (x % Ramp) /\ q \in Nat /\ x % Ramp \in 0..(Ramp - 1)
      BY <1>2, <3>1
    <3> HIDE DEF x, q
    <3>3. q >= 1
      <4>1. CASE q = 0
        <5>1. Ramp * q = 0
          BY <1>2, <4>1
        <5>2. QED BY <1>2, <3>1, <3>2, <5>1
      <4>2. QED BY <3>2, <4>1
    <3>4. Ramp * q >= Ramp
      BY <1>2, <3>2, <3>3
    <3>5. (x % Ramp) + Ramp <= x
      BY <1>2, <3>1, <3>2, <3>4
    <3>6. QED BY <1>2, <2>1, <2>3, <3>5 DEF x
  <2> HIDE DEF r, left
  <2>5. left \in Int /\ left <= n
    BY <1>2, <2>2, <2>3, <2>4
  <2>6. AddressSpace \in Int
    BY DEF Block!HleLoopsAssumption
  <2>7. QED BY <1>2, <2>1, <2>5, <2>6
<1>4. PICK no : no = FALSE /\ z = [s EXCEPT !.port = 1, !.run = [r EXCEPT !.end = left, !.turned = no]]
  BY DEF Block!FastRamp
<1> HIDE DEF z, left
<1>5. /\ IsState(z) /\ z.run = [r EXCEPT !.end = left, !.turned = no] /\ z.mem = s.mem /\ z.bus = s.bus
      /\ z.port = 1 /\ z.strobes = s.strobes /\ z.idle = s.idle /\ z.entry = s.entry
      /\ z.promise = s.promise /\ z.fast = s.fast
  <2>1. z = [f \in BlockFields |-> z[f]]
    BY <1>1, <1>4 DEF IsState, BlockFields
  <2>2. QED BY <1>1, <1>4, <2>1 DEF IsState, BlockFields
<1>6. /\ IsRun7(z.run) /\ z.run.kind = r.kind /\ z.run.dst = r.dst /\ z.run.src = r.src /\ z.run.end = left
      /\ z.run.pristine = r.pristine /\ z.run.leaves = r.leaves /\ z.run.turned = no
  BY <1>2, <1>5 DEF IsRun7
<1>7. Walks(z)
  <2>1. r.kind \in Block!Kinds /\ no \in BOOLEAN
    BY <1>1, <1>4, RunsAre DEF Walks
  <2> HIDE DEF r
  <2>2. z.run \in Bounded
    BY <1>2, <1>3, <1>6, <2>1, BoundedRun
  <2>3. QED BY <1>1, <1>5, <2>2 DEF Walks
<1>8. RampTo(s, z)
  BY <1>5, <1>6, <1>7 DEF RampTo
<1>9. Block!Native(s) = Block!Native(z)
  <2>1. z.run.end = Block!RampLeft(s.run.end)
    BY <1>6 DEF left
  <2>2. QED BY <1>1, <1>8, <2>1, RampIsNative
<1>10. Rest(z.run)
  BY <1>1, <1>6 DEF Rest
<1>11. Running(z)
  BY <1>1, <1>5, <1>6, <1>7, <1>9, <1>10, KeepsSame
<1>12. QED BY <1>11 DEF z

LEMMA IterateKeeps ==
  ASSUME Block!HleLoopsAssumption, PromiseInv, Block!Iterate
  PROVE  Running(block') /\ TurnsTo(block, block')
<1> DEFINE s == block
           r == block.run
           z == block'
           u == Unit(r)
<1>1. Running(s) /\ Walks(s) /\ ~Block!Done(s) /\ z = Block!Turned(s)
  BY DEF PromiseInv, Running, Block!Iterate
<1> HIDE DEF z
<1>2. TurnsTo(s, z)
  BY <1>1, TurnFacts
<1>3. Walks(z)
  BY <1>1, <1>2, TurnWalks
<1>4. Block!Native(s) = Block!Native(z)
  BY <1>1, <1>3, NativeTurns
<1>5. z.entry = s.entry /\ z.promise = s.promise /\ z.fast = s.fast
  <2>1. {"entry", "promise", "fast"} \subseteq BlockFields \ Moving
    BY DEF BlockFields, Moving
  <2>2. QED BY <1>2, <2>1 DEF TurnsTo, Still
<1>6. /\ z.run.kind = r.kind /\ z.run.dst = r.dst + u /\ z.run.turned
      /\ (z.run.end = IF r.kind = "ramp" THEN r.end - Ramp ELSE r.end)
  BY <1>2 DEF TurnsTo, Ahead
<1>7. /\ BlockNumbers /\ r.dst \in Nat /\ r.end \in Int /\ r.kind \in Block!Kinds
      /\ Chunk % Word = 0
  BY <1>1, RunsAre DEF Walks, Block!HleLoopsAssumption, BlockNumbers
<1>8. ASSUME Rest(r) PROVE Rest(z.run)
  <2>1. CASE r.kind \in {"copy", "progress", "segment"} /\ z.run.dst <= z.run.end
    <3>1. u = Word \/ u = Chunk
      BY <2>1 DEF Unit
    <3>2. Multiple(u, Word) /\ u \in Nat
      BY <1>7, <3>1, MultipleRules DEF BlockNumbers
    <3> HIDE DEF u
    <3>3. r.dst + u <= r.end
      BY <1>6, <2>1
    <3>4. PICK m \in Nat : m = r.end - r.dst /\ u <= m
      BY <1>7, <3>2, <3>3
    <3>5. Multiple(m, Word)
      BY <1>7, <1>8, <2>1, <3>4 DEF Rest
    <3>6. Multiple(m - u, Word)
      BY <1>7, <3>2, <3>4, <3>5, MultipleRules DEF BlockNumbers
    <3>7. z.run.end - z.run.dst = m - u
      BY <1>6, <1>7, <2>1, <3>2, <3>4
    <3>8. QED BY <1>6, <2>1, <3>6, <3>7 DEF Rest
  <2>2. CASE r.kind = "unrolled" /\ z.run.dst <= z.run.end
    <3>1. u = Unrolled /\ u \in Nat /\ Multiple(u, Unrolled)
      BY <1>7, <2>2, MultipleRules DEF Unit, BlockNumbers
    <3> HIDE DEF u
    <3>2. r.dst + u <= r.end
      BY <1>6, <2>2
    <3>3. PICK m \in Nat : m = r.end - r.dst /\ u <= m
      BY <1>7, <3>1, <3>2
    <3>4. Multiple(m, Unrolled)
      BY <1>7, <1>8, <2>2, <3>3 DEF Rest
    <3>5. Multiple(m - u, Unrolled)
      BY <1>7, <3>1, <3>3, <3>4, MultipleRules DEF BlockNumbers
    <3>6. z.run.end - z.run.dst = m - u
      BY <1>6, <1>7, <2>2, <3>1, <3>3
    <3>7. QED BY <1>6, <2>2, <3>5, <3>6 DEF Rest
  <2>3. CASE ~(z.run.dst <= z.run.end)
    BY <1>6, <2>3 DEF Rest
  <2>4. CASE r.kind \notin {"copy", "progress", "segment", "unrolled"}
    BY <1>6, <2>4 DEF Rest
  <2>5. QED BY <2>1, <2>2, <2>3, <2>4
<1>9. Block!Regular(s.entry) => Rest(z.run)
  BY <1>1, <1>8 DEF Running
<1>10. Running(z)
  BY <1>1, <1>3, <1>4, <1>5, <1>6, <1>9, KeepsSame
<1>11. QED BY <1>2, <1>10 DEF z

LEMMA EnterKeeps ==
  ASSUME Block!HleLoopsAssumption, PromiseInv, Block!Enter
  PROVE  Running(block') /\ Settled(block') /\ block'.dataEnd = block.dataEnd /\ block'.bssEnd = block.bssEnd
<1> DEFINE z == block'
<1>1. /\ Settled(block) /\ block.script # <<>>
  BY DEF PromiseInv, Block!Enter
<1>2. PICK r : r = Head(block.script)
  OBVIOUS
<1>3. r \in Bounded /\ Tail(block.script) \in Seq(Bounded)
  BY <1>1, <1>2, HeadTailProperties DEF Settled
<1>4. PICK no, b : /\ no = FALSE
                   /\ b = [block EXCEPT !.run = r, !.script = Tail(block.script), !.strobes = 0, !.bus = 0,
                                        !.port = 0, !.fast = no, !.entry = r]
                   /\ z = [b EXCEPT !.promise = Block!Native(b)]
  BY <1>2 DEF Block!Enter
<1> HIDE DEF z
<1>5. /\ IsState(b) /\ b.run = r /\ b.mem = block.mem /\ b.strobes = 0 /\ b.bus = 0 /\ b.port = 0
      /\ b.fast = no /\ b.entry = r /\ b.script = Tail(block.script) /\ b.dataEnd = block.dataEnd
      /\ b.bssEnd = block.bssEnd
  <2>1. b = [f \in BlockFields |-> b[f]]
    BY <1>1, <1>4 DEF Settled, IsState, BlockFields
  <2>2. QED BY <1>1, <1>4, <2>1 DEF Settled, IsState, BlockFields
<1>6. /\ IsState(z) /\ z.run = r /\ z.mem = b.mem /\ z.strobes = 0 /\ z.bus = 0 /\ z.port = 0 /\ z.idle = b.idle
      /\ z.fast = no /\ z.entry = r /\ z.script = b.script /\ z.dataEnd = block.dataEnd
      /\ z.bssEnd = block.bssEnd /\ z.promise = Block!Native(b)
  <2>1. z = [f \in BlockFields |-> z[f]]
    BY <1>4, <1>5 DEF IsState, BlockFields
  <2>2. QED BY <1>4, <1>5, <2>1 DEF IsState, BlockFields
<1>7. Settled(z)
  <2>1. z.fast \in BOOLEAN
    BY <1>4, <1>6
  <2>2. QED BY <1>1, <1>3, <1>5, <1>6, <2>1 DEF Settled
<1>8. Walks(b) /\ Walks(z)
  BY <1>1, <1>3, <1>5, <1>6 DEF Walks, Settled
<1>9. Block!Native(z) = Block!Native(b)
  <2>1. SameWay(z, b)
    BY <1>5, <1>6 DEF SameWay
  <2>2. Alike(z, b, 0)
    BY <1>5, <1>6, <1>8, <2>1 DEF Alike
  <2>3. QED BY <2>2, NativeAlike, GapRules
<1>10. Block!Regular(r) => Rest(r)
  <2>1. /\ BlockNumbers /\ r.dst \in Nat /\ r.end \in Int
    BY <1>3, RunsAre DEF Block!HleLoopsAssumption, BlockNumbers
  <2>2. ASSUME r.dst <= r.end, NEW d \in Nat \ {0}, (r.end - r.dst) % d = 0 PROVE Multiple(r.end - r.dst, d)
    <3>1. r.end - r.dst \in Nat
      BY <2>1, <2>2
    <3>2. QED BY <2>2, <3>1, MultipleRules
  <2>3. CASE r.kind = "unrolled"
    BY <2>1, <2>2, <2>3 DEF Block!Regular, Rest, BlockNumbers
  <2>4. CASE r.kind \in {"copy", "progress", "segment"}
    BY <2>1, <2>2, <2>4 DEF Block!Regular, Rest, BlockNumbers
  <2>5. QED BY <2>3, <2>4 DEF Rest
<1>11. LoopKept(z)
  BY <1>4, <1>6, <1>9 DEF LoopKept
<1>12. Running(z)
  BY <1>4, <1>6, <1>8, <1>10, <1>11 DEF Running
<1>13. QED BY <1>6, <1>7, <1>12 DEF z

(* What a hook leaves of the rest.                                         *)
LEMMA ClearedStill ==
  ASSUME NEW s, IsState(s), NEW stop
  PROVE  IsState(Block!Cleared(s, stop)) /\ Still(s, Block!Cleared(s, stop))
BY StoreFacts DEF Block!Cleared, StoresTo

LEMMA CopiedStill ==
  ASSUME NEW s, IsState(s)
  PROVE  IsState(Block!Copied(s)) /\ Still(s, Block!Copied(s))
<1> DEFINE n == s.run.end - s.run.dst
           value == [i \in 0..(n - 1) |-> s.mem[s.run.src + i]]
           v == Block!Stored(s, n, value)
<1>1. PICK u : u = Block!Copied(s)
  OBVIOUS
<1>2. u = [v EXCEPT !.run = [v.run EXCEPT !.src = v.run.src + n]]
  BY <1>1 DEF Block!Copied
<1> HIDE DEF value
<1>3. StoresTo(s, n, value, v)
  BY StoreFacts
<1> HIDE DEF v
<1>4. u = [f \in BlockFields |-> u[f]] /\ Still(v, u)
  BY <1>2, <1>3 DEF BlockFields, Still, Moving, StoresTo, IsState
<1>5. QED BY <1>1, <1>3, <1>4 DEF StoresTo, Still, IsState

Frame(s, z) == z.script = s.script /\ z.dataEnd = s.dataEnd /\ z.bssEnd = s.bssEnd

LEMMA StillFrame ==
  ASSUME NEW s, NEW z, Still(s, z)
  PROVE  Frame(s, z)
BY DEF Still, Frame, BlockFields, Moving

LEMMA HooksFrame ==
  ASSUME IsState(block)
  PROVE  /\ Block!HotCopy => /\ block'.script = block.script /\ block'.bssEnd = block.bssEnd
                             /\ block'.dataEnd = block.dataEnd \/ RamBase < block'.dataEnd
         /\ Block!HotClear => block'.script = block.script /\ block'.dataEnd = block.dataEnd
         /\ Block!HotSegment \/ Block!FastClear \/ Block!FastCopy \/ Block!FastRamp => Frame(block, block')
<1> DEFINE r == block.run
           z == block'
<1>1. ASSUME Block!HotCopy
      PROVE  /\ z.script = block.script /\ z.bssEnd = block.bssEnd
             /\ z.dataEnd = block.dataEnd \/ RamBase < z.dataEnd
  <2>1. PICK u : u = Block!Copied(block)
    OBVIOUS
  <2>2. PICK stage : stage = Block!CopyStage
    OBVIOUS
  <2>3. PICK first, stop, third, fourth :
           /\ z = [u EXCEPT !.dataEnd = first, !.romEnd = stop, !.iramEnd = third, !.leases = fourth]
           /\ first = IF stage = "data" THEN r.end ELSE u.dataEnd
    BY <1>1, <2>1, <2>2 DEF Block!HotCopy
  <2>4. IsState(u) /\ Frame(block, u)
    BY <2>1, CopiedStill, StillFrame
  <2>5. stage = "data" => RamBase < r.end
    BY <2>2 DEF Block!CopyStage
  <2> HIDE DEF z, r
  <2>6. z.script = u.script /\ z.bssEnd = u.bssEnd /\ z.dataEnd = first
    BY <2>3, <2>4 DEF IsState, BlockFields
  <2>7. QED BY <2>3, <2>4, <2>5, <2>6 DEF Frame
<1>2. ASSUME Block!HotClear PROVE z.script = block.script /\ z.dataEnd = block.dataEnd
  <2>1. PICK stop, u, first, second, third :
          u = Block!Cleared(block, stop) /\ z = [u EXCEPT !.bssEnd = first, !.bssComplete = second, !.leases = third]
    BY <1>2 DEF Block!HotClear
  <2>2. IsState(u) /\ Frame(block, u)
    BY <2>1, ClearedStill, StillFrame
  <2> HIDE DEF z
  <2>3. QED BY <2>1, <2>2 DEF IsState, BlockFields, Frame
<1>3. ASSUME Block!HotSegment PROVE Frame(block, z)
  <2>1. PICK stop : z = Block!Cleared(block, stop)
    BY <1>3 DEF Block!HotSegment
  <2>2. QED BY <2>1, ClearedStill, StillFrame
<1>4. ASSUME Block!FastClear PROVE Frame(block, z)
  <2>0. PICK u : u = Block!Cleared(block, r.end)
    OBVIOUS
  <2>1. PICK yes : yes = TRUE /\ z = [u EXCEPT !.fast = yes, !.run = [u.run EXCEPT !.turned = yes]]
    BY <1>4, <2>0 DEF Block!FastClear
  <2>2. IsState(u) /\ Frame(block, u)
    BY <2>0, ClearedStill, StillFrame
  <2> HIDE DEF z
  <2>3. QED BY <2>1, <2>2 DEF IsState, BlockFields, Frame
<1>5. ASSUME Block!FastCopy PROVE Frame(block, z)
  <2>1. PICK u, yes : u = Block!Copied(block) /\ z = [u EXCEPT !.fast = yes]
    BY <1>5 DEF Block!FastCopy
  <2>2. IsState(u) /\ Frame(block, u)
    BY <2>1, CopiedStill, StillFrame
  <2> HIDE DEF z
  <2>3. QED BY <2>1, <2>2 DEF IsState, BlockFields, Frame
<1>6. ASSUME Block!FastRamp PROVE Frame(block, z)
  <2>1. PICK run : z = [block EXCEPT !.port = 1, !.run = run]
    BY <1>6 DEF Block!FastRamp
  <2> HIDE DEF z
  <2>2. QED BY <2>1 DEF IsState, BlockFields, Frame
<1>7. QED BY <1>1, <1>2, <1>3, <1>4, <1>5, <1>6

LEMMA RunningSettles ==
  ASSUME Settled(block), NEW z, Running(z), z.script = block.script
  PROVE  Settled(z)
BY DEF Settled, Running, Walks

LEMMA PromiseInductive ==
  ASSUME Block!HleLoopsAssumption, BlockInv, PromiseInv, [Block!Next]_block
  PROVE  PromiseInv'
<1> DEFINE z == block'
<1>1. Settled(block) /\ Remembered(block) /\ IsState(block) /\ BlockNumbers
  BY DEF PromiseInv, Settled, Block!HleLoopsAssumption, BlockNumbers
<1>2. ASSUME Settled(z), Remembered(z), z.run = Block!NoLoop \/ Running(z) PROVE PromiseInv'
  BY <1>2 DEF PromiseInv, Settled, Remembered, Running, Walks, LoopKept, Rest, IsState, Block!Regular
<1>3. ASSUME Running(z), Frame(block, z) PROVE PromiseInv'
  <2>1. Settled(z)
    BY <1>1, <1>3, RunningSettles DEF Frame
  <2>2. Remembered(z)
    BY <1>1, <1>3 DEF Remembered, Frame
  <2>3. QED BY <1>2, <1>3, <2>1, <2>2
<1>4. CASE Block!Enter
  <2>1. Running(z) /\ Settled(z) /\ z.dataEnd = block.dataEnd /\ z.bssEnd = block.bssEnd
    BY <1>4, EnterKeeps
  <2>2. Remembered(z)
    BY <1>1, <2>1 DEF Remembered
  <2>3. QED BY <1>2, <2>1, <2>2
<1>5. CASE Block!Iterate
  <2>1. Running(z) /\ TurnsTo(block, z)
    BY <1>5, IterateKeeps
  <2>2. Frame(block, z)
    BY <2>1, StillFrame DEF TurnsTo
  <2>3. QED BY <1>3, <2>1, <2>2
<1>6. ASSUME z.run = Block!NoLoop, Settled(z), Frame(block, z) PROVE PromiseInv'
  <2>1. Remembered(z)
    BY <1>1, <1>6 DEF Remembered, Frame
  <2>2. QED BY <1>2, <1>6, <2>1
<1>7. CASE Block!Leave
  <2>1. z = [block EXCEPT !.run = Block!NoLoop]
    BY <1>7 DEF Block!Leave
  <2> HIDE DEF z
  <2>2. z = [f \in BlockFields |-> z[f]] /\ z.run = Block!NoLoop /\ z.script = block.script /\ z.mem = block.mem
        /\ z.strobes = block.strobes /\ z.bus = block.bus /\ z.port = block.port /\ z.fast = block.fast
        /\ Frame(block, z)
    BY <1>1, <2>1 DEF IsState, BlockFields, Frame
  <2>3. Settled(z)
    BY <1>1, <2>2 DEF Settled, IsState
  <2>4. QED BY <1>6, <2>2, <2>3 DEF z
<1>8. CASE Block!NorChanges \/ Block!BootEnds
  <2>1. PICK idle, early : z = [block EXCEPT !.idle = idle] \/ z = [block EXCEPT !.early = early]
    BY <1>8 DEF Block!NorChanges, Block!BootEnds
  <2>2. block.run = Block!NoLoop
    BY <1>8 DEF Block!NorChanges, Block!BootEnds
  <2> HIDE DEF z
  <2>3. z = [f \in BlockFields |-> z[f]] /\ z.run = Block!NoLoop /\ z.script = block.script /\ z.mem = block.mem
        /\ z.strobes = block.strobes /\ z.bus = block.bus /\ z.port = block.port /\ z.fast = block.fast
        /\ Frame(block, z)
    BY <1>1, <2>1, <2>2 DEF IsState, BlockFields, Frame
  <2>4. Settled(z)
    BY <1>1, <2>3 DEF Settled, IsState
  <2>5. QED BY <1>6, <2>3, <2>4 DEF z
<1>9. CASE Block!HotCopy
  <2>1. Running(z)
    BY <1>9, HotCopyKeeps
  <2>2. z.script = block.script /\ z.bssEnd = block.bssEnd /\ (z.dataEnd = block.dataEnd \/ RamBase < z.dataEnd)
    BY <1>1, <1>9, HooksFrame
  <2>3. Settled(z)
    BY <1>1, <2>1, <2>2, RunningSettles
  <2>4. z.dataEnd \in Int
    <3>1. BlockInv'
      BY BlockInductive
    <3>2. QED BY <3>1 DEF BlockInv, BootInv, MaybeEnds, Block!Unset
  <2>5. Remembered(z)
    BY <1>1, <2>2, <2>4 DEF Remembered, BlockNumbers
  <2>6. QED BY <1>2, <2>1, <2>3, <2>5
<1>10. CASE Block!HotClear
  <2>1. Running(z) /\ (z.bssEnd = Block!Unset \/ z.bssEnd <= RamEnd)
    BY <1>10, HotClearKeeps
  <2>2. z.script = block.script /\ z.dataEnd = block.dataEnd
    BY <1>1, <1>10, HooksFrame
  <2>3. Settled(z)
    BY <1>1, <2>1, <2>2, RunningSettles
  <2>4. Remembered(z)
    BY <1>1, <2>1, <2>2 DEF Remembered
  <2>5. QED BY <1>2, <2>1, <2>3, <2>4
<1>11. CASE Block!HotSegment
  BY <1>1, <1>3, <1>11, HotSegmentKeeps, HooksFrame
<1>12. CASE Block!FastClear
  BY <1>1, <1>3, <1>12, FastClearKeeps, HooksFrame
<1>13. CASE Block!FastCopy
  BY <1>1, <1>3, <1>13, FastCopyKeeps, HooksFrame
<1>14. CASE Block!FastRamp
  BY <1>1, <1>3, <1>14, FastRampKeeps, HooksFrame
<1>15. CASE block' = block
  BY <1>1, <1>2, <1>15 DEF PromiseInv
<1>16. QED
  BY <1>4, <1>5, <1>7, <1>8, <1>9, <1>10, <1>11, <1>12, <1>13, <1>14, <1>15 DEF Block!Next

(* The promise holds at the start.                                         *)
LEMMA PromiseStarts ==
  ASSUME Block!HleLoopsAssumption, Block!Init
  PROVE  PromiseInv
<1> DEFINE mem == [a \in Block!Cells |-> a + 1]
<1>0. PICK no, yes : no = FALSE /\ yes = TRUE
  OBVIOUS
<1>1. PICK script \in Scripts :
        block = [script |-> script, run |-> Block!NoLoop, mem |-> mem, idle |-> yes,
                strobes |-> 0, bus |-> 0, port |-> 0, early |-> yes, fast |-> no,
                dataEnd |-> Block!Unset, romEnd |-> Block!Unset, bssEnd |-> Block!Unset,
                bssComplete |-> no, iramEnd |-> Block!Unset, leases |-> <<>>,
                entry |-> Block!NoLoop, promise |-> Block!NoLoop]
  BY <1>0 DEF Block!Init
<1>2. script \in Seq(Bounded)
  <2>1. script \in Seq(Block!Runs) /\ \A i \in DOMAIN script : script[i].kind \in Block!Kinds /\ script[i].end <= AddressSpace
    BY DEF Block!HleLoopsAssumption
  <2>2. \A i \in 1..Len(script) : script[i] \in Bounded
    BY <2>1 DEF Bounded, Entered
  <2>3. QED BY <2>1, <2>2, SeqDef
<1>3. mem \in [Block!Cells -> Int]
  BY DEF Block!Cells
<1> HIDE DEF mem
<1>4. block.fast \in BOOLEAN
  BY <1>0, <1>1
<1>5. Settled(block)
  BY <1>0, <1>1, <1>2, <1>3, <1>4 DEF Settled, IsState, BlockFields
<1>6. Remembered(block) /\ block.run = Block!NoLoop
  BY <1>0, <1>1 DEF Remembered
<1>7. QED BY <1>5, <1>6 DEF PromiseInv

LEMMA PromiseMeans ==
  ASSUME PromiseInv
  PROVE  Block!LoopsKeepTheirPromise
<1>1. ASSUME block.run # Block!NoLoop, Block!Unchecked => Block!Regular(block.entry)
      PROVE  IF block.fast THEN [Block!Native(block) EXCEPT !.strobes = 0] = [block.promise EXCEPT !.strobes = 0]
             ELSE Block!Native(block) = block.promise
  <2>1. LoopKept(block)
    BY <1>1 DEF PromiseInv, Running
  <2>2. QED BY <1>1, <2>1 DEF LoopKept, Quiet, Block!Unchecked
<1>2. QED BY <1>1 DEF Block!LoopsKeepTheirPromise

(* hle/memory_ops.py: a loop leaves the memory, its registers and the      *)
(* devices as it would without the hooks, wherever they take over.         *)
THEOREM LoopsKeepPromise ==
  ASSUME Block!HleLoopsAssumption
  PROVE  Block!Spec => []Block!LoopsKeepTheirPromise
<1>1. Block!Init => BlockInv /\ PromiseInv
  BY BlockStarts, PromiseStarts
<1>2. BlockInv /\ PromiseInv /\ [Block!Next]_block => BlockInv' /\ PromiseInv'
  BY BlockInductive, PromiseInductive
<1>3. PromiseInv => Block!LoopsKeepTheirPromise
  BY PromiseMeans
<1>4. QED BY <1>1, <1>2, <1>3, PTL DEF Block!Spec
===============================================================================
