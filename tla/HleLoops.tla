------------------------------- MODULE HleLoops --------------------------------
(***************************************************************************)
(* hle/memory_ops.py, hle/bootstrap.py and the range checks of             *)
(* hle/common.py: loops of the firmware that clear or copy memory are      *)
(* replaced by one block operation.  The guest runs a loop iteration by    *)
(* iteration, and at its header a hook may do the rest of it.              *)
(*                                                                         *)
(* An address is a cell, Word of them make what one instruction moves.     *)
(* The promise of a loop is what it would do if no hook interfered.        *)
(***************************************************************************)
EXTENDS Integers, Sequences

CONSTANTS Word, Chunk, Unrolled, Period,  \* cells per word, ARM chunk, unrolled pass, strobe
          Ramp,                           \* decrement of the register ramp
          RamBase, RamEnd, IramBase, IramEnd, RomBase, RomEnd, AddressSpace,
          DataTarget, BssEnd,             \* what the linker declares
          Slack,                          \* BOOTSTRAP_HLE_SLACK
          Scripts                         \* sequences of loops the firmware enters

Kinds == {"copy", "clear", "progress", "segment", "unrolled", "call", "ramp"}

(* A loop's registers, or none; turned says that it went round, and leaves *)
(* what follows it.                                                        *)
Runs ==
  [kind : Kinds \cup {"none"}, dst : Nat, src : Nat, end : Int, turned : BOOLEAN,
   pristine : BOOLEAN, leaves : {"strobe", "code"}]

HleLoopsAssumption ==
  /\ {Word, Chunk, Unrolled, Period, Ramp} \subseteq Nat \ {0}
  /\ Chunk % Word = 0 /\ Unrolled % Word = 0 /\ Period % Chunk = 0
  /\ {RamBase, RamEnd, IramBase, IramEnd, RomBase, RomEnd, AddressSpace, DataTarget, BssEnd, Slack}
       \subseteq Nat
  /\ RamBase <= DataTarget /\ DataTarget <= BssEnd /\ BssEnd <= RamEnd
  /\ RamEnd <= IramBase /\ IramBase <= IramEnd /\ IramEnd <= RomBase /\ RomBase <= RomEnd
  /\ RomEnd <= AddressSpace /\ AddressSpace # 0
  /\ \A s \in Scripts : /\ s \in Seq(Runs)
                       /\ \A i \in DOMAIN s : s[i].kind \in Kinds /\ s[i].end <= AddressSpace

VARIABLE loop

Cells == 0..(AddressSpace - 1)
Least(a, b) == IF a < b THEN a ELSE b

Writable(a) == (RamBase <= a /\ a < RamEnd) \/ (IramBase <= a /\ a < IramEnd)
Rom(a) == RomBase <= a /\ a < RomEnd

NoLoop == [kind |-> "none", dst |-> 0, src |-> 0, end |-> 0, turned |-> FALSE,
           pristine |-> TRUE, leaves |-> "strobe"]
Unset == -1

TypeOK ==
  /\ loop.run \in Runs
  /\ {loop.dataEnd, loop.romEnd, loop.bssEnd, loop.iramEnd} \subseteq Nat \cup {Unset}
  /\ loop.bssComplete => loop.bssEnd # Unset

Init == \E script \in Scripts :
  loop = [script |-> script, run  |-> NoLoop, mem |-> [a \in Cells |-> a + 1], idle |-> TRUE,
          strobes |-> 0, bus |-> 0, port |-> 0,
          early |-> TRUE,          \* _bootstrap_hle_is_early
          fast  |-> FALSE,         \* a hook set by address took part
          dataEnd |-> Unset, romEnd |-> Unset, bssEnd |-> Unset, bssComplete |-> FALSE,
          iramEnd |-> Unset,
          leases |-> <<>>,         \* history: the undeclared spans written
          entry   |-> NoLoop, promise |-> NoLoop]   \* history: the loop as it was entered

-------------------------------------------------------------------------------
(* The guest's iterations.                                                 *)

(* A busy NOR device answers with its status, anything else not with       *)
(* memory.                                                                 *)
Loaded(s, a) ==
  IF ~(a \in Cells) THEN -2
  ELSE IF Writable(a) \/ (Rom(a) /\ s.idle) THEN s.mem[a] ELSE -1

Plain(s, a) == a \in Cells /\ (Writable(a) \/ (Rom(a) /\ s.idle))

(* n cells stored from dst, the value of each given by its offset.         *)
Stored(s, n, value) ==
  [s EXCEPT !.mem = [a \in Cells |-> IF s.run.dst <= a /\ a < s.run.dst + n /\ Writable(a)
                                     THEN value[a - s.run.dst] ELSE @[a]],
            !.bus = @ + IF n = 0 \/ Writable(s.run.dst) THEN 0 ELSE 1,
            !.run.dst = @ + n]

Zeros(n) == [i \in 0..(n - 1) |-> 0]

CopyUnit(s, n) ==
  LET t == Stored(s, n, [i \in 0..(n - 1) |-> Loaded(s, s.run.src + i)])
  IN [t EXCEPT !.run.src = @ + n, !.bus = @ + IF Plain(s, s.run.src) THEN 0 ELSE 1]

(* An iteration of each loop:                                              *)
(*   progress  clears a word, and strobes where its address is a multiple  *)
(*   segment   strobes where a multiple remains, and clears a chunk        *)
(*   unrolled  clears a pass, and only then looks whether it is done       *)
Iterated(s) ==
  LET r == s.run
      remaining == r.end - r.dst
  IN CASE r.kind = "ramp" -> [s EXCEPT !.run.end = @ - Ramp, !.port = 1]
       [] r.kind = "unrolled" -> Stored(s, Unrolled, Zeros(Unrolled))
       [] r.kind = "copy" -> CopyUnit(s, Word)
       [] r.kind = "call" -> CopyUnit(s, 1)
       [] r.kind = "clear" -> Stored(s, Word, Zeros(Word))
       [] r.kind = "progress" ->
            [Stored(s, Word, Zeros(Word)) EXCEPT !.strobes = @ + IF r.dst % Period = 0 THEN 1 ELSE 0]
       [] r.kind = "segment" /\ remaining < Chunk -> Stored(s, Word, Zeros(Word))
       [] r.kind = "segment" /\ remaining >= Chunk ->
            [Stored(s, Chunk, Zeros(Chunk)) EXCEPT
               !.strobes = @ + IF remaining % Period < Chunk THEN 1 ELSE 0]

(* Code that was changed at run time does something else.                  *)
Pass(s) == IF s.run.pristine THEN Iterated(s)
           ELSE [Iterated(s) EXCEPT !.strobes = @ + 1]

(* Loops that are tested at their end go round once at least.              *)
Done(s) ==
  CASE s.run.kind = "ramp"     -> s.run.end <= Ramp /\ s.run.turned
    [] s.run.kind = "unrolled" -> s.run.dst >= s.run.end /\ s.run.turned
    [] OTHER                   -> s.run.dst >= s.run.end

Turned(s) == IF Done(s) THEN s ELSE [Pass(s) EXCEPT !.run.turned = TRUE]

Native(s) ==
  LET after[n \in 0..AddressSpace] == IF n = 0 THEN s ELSE Turned(after[n - 1])
      last == after[AddressSpace]
  IN [run |-> [last.run EXCEPT !.turned = TRUE], mem |-> last.mem, strobes |-> last.strobes, bus |-> last.bus,
      port |-> last.port]

-------------------------------------------------------------------------------
(* common.py: which spans a hook may touch.                                *)

Within(first, stop, range) == range[1] <= first /\ first <= stop /\ stop <= range[2]

IsRam(first, stop) ==
  /\ stop <= AddressSpace
  /\ Within(first, stop, <<RamBase, RamEnd>>) \/ Within(first, stop, <<IramBase, IramEnd>>)

IsDeclared(first, stop) == IsRam(first, stop) /\ Within(first, stop, <<DataTarget, BssEnd>>)

(* Wrong: whether the NOR device is busy is not asked.                     *)
SourceIsSafe_Busy(first, stop) ==
  IsRam(first, stop) \/ Within(first, stop, <<RomBase, RomEnd>>)

SourceIsSafe(first, stop) ==
  IsRam(first, stop) \/ (loop.idle /\ Within(first, stop, <<RomBase, RomEnd>>))

(* Wrong: spans that overlap are copied as if they did not.                *)
Overlap_Never(dst, src, length) == FALSE

Overlap(dst, src, length) ==
  (IF dst < src THEN src ELSE dst) < Least(dst + length, src + length)

(* Wrong: a rest of a word is accepted.                                    *)
Whole_Any(length) == length > 0

Whole(length) == length > 0 /\ length % Word = 0

-------------------------------------------------------------------------------
(* bootstrap.py: a chain of loops that may write RAM no linker declared.   *)

Strobed == loop.run.leaves = "strobe"

CopyStage ==
  LET r == loop.run  stop == r.src + (r.end - r.dst)
  IN IF ~loop.early \/ ~Strobed \/ ~(loop.idle /\ Within(r.src, stop, <<RomBase, RomEnd>>)) THEN "none"
     ELSE IF /\ loop.dataEnd = Unset
             /\ RamBase <= r.dst /\ r.dst <= RamBase + Slack /\ RamBase < r.end /\ r.end <= RamEnd
     THEN "data"
     ELSE IF /\ loop.bssComplete /\ loop.iramEnd = Unset /\ loop.romEnd # Unset
             /\ loop.romEnd <= r.src /\ r.src <= loop.romEnd + Slack
             /\ IramBase <= r.dst /\ r.dst <= IramBase + Slack
             /\ IramBase < r.end /\ r.end <= IramEnd
     THEN "iram" ELSE "none"

ClearStage(stop) ==
  LET r == loop.run
  IN IF r.kind # "progress" \/ ~loop.early \/ ~Strobed \/ loop.dataEnd = Unset THEN "none"
     ELSE IF /\ loop.bssEnd = Unset
             /\ loop.dataEnd <= r.dst /\ r.dst <= loop.dataEnd + Slack
             /\ r.dst < stop /\ stop <= r.end /\ r.end <= RamEnd
     THEN "open"
     ELSE IF r.end = loop.bssEnd /\ loop.dataEnd <= r.dst /\ r.dst < stop /\ stop <= loop.bssEnd
     THEN "continue" ELSE "none"

(* Wrong: the BSS counts as complete once its first span is cleared.       *)
Completes_Opened(stage, stop, bssEnd) == stage # "none"

Completes(stage, stop, bssEnd) == stage # "none" /\ stop = bssEnd

Leased(stage, first, stop) ==
  IF stage = "none" /\ IsDeclared(first, stop) THEN loop.leases
  ELSE Append(loop.leases, [stage |-> stage, first |-> first, stop |-> stop])

-------------------------------------------------------------------------------
Enter ==
  /\ loop.run = NoLoop /\ loop.script # <<>>
  /\ LET begun == [loop EXCEPT !.run = Head(loop.script), !.script = Tail(@), !.strobes = 0, !.bus = 0,
                               !.port = 0, !.fast = FALSE,
                               !.entry = Head(loop.script)]
     IN loop' = [begun EXCEPT !.promise = Native(begun)]

Iterate == loop.run # NoLoop /\ ~Done(loop) /\ loop' = Turned(loop)

Leave == loop.run # NoLoop /\ Done(loop) /\ loop' = [loop EXCEPT !.run = NoLoop]

(* Between two loops, the NOR device becomes busy or idle and boot goes on.*)
NorChanges == loop.run = NoLoop /\ loop' = [loop EXCEPT !.idle = ~@]
BootEnds == loop.run = NoLoop /\ loop.early /\ loop' = [loop EXCEPT !.early = FALSE]

Cleared(s, stop) == Stored(s, stop - s.run.dst, Zeros(stop - s.run.dst))

Copied(s) ==
  LET length == s.run.end - s.run.dst
      t == Stored(s, length, [i \in 0..(length - 1) |-> s.mem[s.run.src + i]])
  IN [t EXCEPT !.run.src = @ + length]

(* _complete_hot_copy.                                                     *)
HotCopy ==
  LET r == loop.run
      length == r.end - r.dst
      stage == CopyStage
  IN /\ r.kind = "copy" /\ r.pristine /\ Whole(length)
     /\ length <= RamEnd - RamBase /\ r.src + length <= AddressSpace
     /\ IsDeclared(r.dst, r.end) \/ stage # "none"
     /\ SourceIsSafe(r.src, r.src + length)
     /\ ~Overlap(r.dst, r.src, length)
     /\ loop' = [Copied(loop) EXCEPT
          !.dataEnd = IF stage = "data" THEN r.end ELSE @,
          !.romEnd  = IF stage = "data" THEN r.src + length ELSE @,
          !.iramEnd = IF stage = "iram" THEN r.end ELSE @,
          !.leases  = Leased(stage, r.dst, r.end)]

(* Wrong: the clear goes on over the boundaries.                           *)
Boundary_End(r) == r.end

(* A progress clear stops at the next boundary, whose iteration is native. *)
Boundary(r) ==
  Least(r.end, ((r.dst + Period - 1) \div Period) * Period)

(* _complete_hot_clear.                                                    *)
HotClear ==
  LET r == loop.run
      stop == IF r.kind = "progress" THEN Boundary(r) ELSE r.end
      stage == ClearStage(stop)
      bssEnd == IF stage = "open" THEN r.end ELSE loop.bssEnd
  IN /\ r.kind \in {"clear", "progress"} /\ r.pristine /\ Whole(stop - r.dst)
     /\ IsDeclared(r.dst, stop) \/ stage # "none"
     /\ loop' = [Cleared(loop, stop) EXCEPT
          !.bssEnd = bssEnd,
          !.bssComplete = @ \/ Completes(stage, stop, bssEnd),
          !.leases = Leased(stage, r.dst, stop)]

(* Wrong: the boundary itself is skipped.                                  *)
Segment_Last(remaining) == IF remaining >= Period THEN remaining % Period ELSE remaining

(* What remains after the clear of a segment.                              *)
Segment(remaining) == (remaining \div Period) * Period

(* _try_hot_arm_memory_clear.                                              *)
HotSegment ==
  LET r == loop.run
      remaining == r.end - r.dst
      rest == Segment(remaining)
  IN /\ r.kind = "segment" /\ r.pristine
     /\ RamBase <= r.dst /\ r.dst < r.end /\ r.end <= RamEnd
     /\ rest # 0 /\ rest # remaining
     /\ loop' = Cleared(loop, r.end - rest)

(* The hooks set by address.                                               *)
FastClear ==
  LET r == loop.run
  IN /\ r.kind \in {"progress", "unrolled"} /\ r.pristine
     /\ Within(r.dst, r.end, <<RamBase, RamEnd>>)
     /\ loop' = [Cleared(loop, r.end) EXCEPT !.fast = TRUE, !.run.turned = TRUE]

FastCopy ==
  LET r == loop.run  length == r.end - r.dst
  IN /\ \/ r.kind = "copy" /\ Within(r.dst, r.end, <<RamBase, RamEnd>>)
        \/ r.kind = "call" /\ IsRam(r.dst, r.end)
     /\ r.pristine
     /\ length <= RamEnd - RamBase /\ r.src + length <= AddressSpace
     /\ SourceIsSafe(r.src, r.src + length)
     /\ r.dst # r.src => ~Overlap(r.dst, r.src, length)
     /\ loop' = [Copied(loop) EXCEPT !.fast = TRUE]

(* Wrong: the count ends where the loop would end.                         *)
RampLeft_None(count) == ((count - 1) % Ramp) + 1

(* One iteration is left to the firmware.                                  *)
RampLeft(count) == ((count - 1) % Ramp) + 1 + Ramp

FastRamp ==
  /\ loop.run.kind = "ramp" /\ loop.run.pristine /\ loop.run.end > Ramp
  /\ loop' = [loop EXCEPT !.port = 1, !.run.end = RampLeft(@), !.run.turned = FALSE]

Next ==
  \/ Enter \/ Iterate \/ Leave \/ NorChanges \/ BootEnds
  \/ HotCopy \/ HotClear \/ HotSegment
  \/ FastClear \/ FastCopy \/ FastRamp

Spec == Init /\ [][Next]_loop

-------------------------------------------------------------------------------
(* Properties.                                                             *)

(* The hooks set by address, and the ARM clear, do not look for the rest   *)
(* of a word or a pass.                                                    *)
Unchecked == loop.fast \/ loop.run.kind = "segment"

Regular(r) ==
  CASE r.kind = "unrolled" -> (r.end - r.dst) % Unrolled = 0 /\ r.dst < r.end
    [] r.kind \in {"copy", "progress", "segment"} -> (r.end - r.dst) % Word = 0
    [] OTHER -> TRUE

(* Wherever a hook takes over, a loop leaves the memory, the registers and *)
(* the devices as it would have without; only the strobes of a loop whose  *)
(* clear is set by address are lost.                                       *)
LoopsKeepTheirPromise ==
  loop.run # NoLoop /\ (Unchecked => Regular(loop.entry)) =>
    LET now == Native(loop)  then == loop.promise
    IN IF loop.fast THEN [now EXCEPT !.strobes = 0] = [then EXCEPT !.strobes = 0] ELSE now = then

(* RAM that is not declared is written for the guest by one chain only:    *)
(* the data segment, the BSS behind it up to its end, the internal RAM.    *)
LeasesInOrder ==
  LET stages == [i \in DOMAIN loop.leases |-> loop.leases[i].stage]
  IN \A i \in DOMAIN stages :
       /\ stages[i] \in {"data", "open", "continue", "iram"}
       /\ stages[i] = "data" <=> i = 1
       /\ stages[i] = "open" <=> i = 2
       /\ stages[i] \in {"open", "continue"} => loop.leases[i].first >= loop.leases[1].stop
       /\ stages[i] = "iram" => \E j \in 2..(i - 1) : loop.leases[j].stop = loop.bssEnd
===============================================================================
