------------------------------- MODULE MemoryBus -------------------------------
(***************************************************************************)
(* What the guest meets where the board maps nothing: _unmapped, _trace    *)
(* and _open_bus_read of core/memory_bus.py, with the lazy second NOR of   *)
(* devices/storage/nor.py.                                                 *)
(*                                                                         *)
(* The address space is a set of pages.  Board says what a page is when    *)
(* the emulator is built: mapped ("board"), of the bank beside the primary *)
(* flash where a second NOR may be ("bank"), elsewhere in the open-bus gap *)
(* ("gap"), of the LCD aperture ("lcd"), none of these ("hole"), or above  *)
(* 2 GiB ("high").  A page's content is the last thing written to it.      *)
(***************************************************************************)
EXTENDS Integers, FiniteSets

CONSTANTS Pages, Board,
          Values,      \* what the guest writes; Code and Zero among them
          Code, Zero,  \* contents that execute, and that are all zero
          Open,        \* what open bus and erased NOR read as, all ones
          MaxDynamic,  \* MAX_DYNAMIC_PAGES
          MaxZero      \* zero-filled blocks in a row that are a fault, 8

MemoryBusAssumption ==
  /\ Board \in [Pages -> {"board", "bank", "gap", "lcd", "hole", "high"}]
  /\ {Code, Zero} \subseteq Values /\ Open \notin Values
  /\ MaxDynamic \in Nat /\ MaxZero \in Nat \ {0}

VARIABLE memory

Of(kind) == {p \in Pages : Board[p] = kind}
Bank     == Of("bank")

TypeOK ==
  /\ memory.mapped \in SUBSET Pages
  /\ memory.dynamic \in SUBSET Pages              \* dynamic_pages
  /\ memory.content \in [Pages -> Values \cup {Open}]
  /\ memory.written \in [Pages -> Values \cup {Open}]  \* by the guest
  /\ memory.attempted \in BOOLEAN                 \* _lazy_secondary_attempted
  /\ memory.nor \in BOOLEAN                       \* secondary_flash is not None
  /\ memory.zeros \in 0..MaxZero                  \* zero_fetches
  /\ memory.ran \in SUBSET Pages                  \* pages that executed
  /\ memory.fault \in BOOLEAN

Init ==
  memory = [mapped |-> Of("board"), dynamic |-> {},
            content |-> [p \in Pages |-> IF Board[p] = "board" THEN Code ELSE Zero],
            written |-> [p \in Pages |-> Open],
            attempted |-> FALSE, nor |-> FALSE, zeros |-> 0, ran |-> {}, fault |-> FALSE]

Runs == ~memory.fault

Faulted == [memory EXCEPT !.fault = TRUE]

-------------------------------------------------------------------------------
(* _unmapped.                                                              *)

(* Wrong: pages of the bank that the guest uses already do not matter.     *)
Attaches_Over(m) == TRUE

(* The bank can be mapped: no page of it is.                               *)
Attaches(m) == Bank \cap m.mapped = {}

(* _attach_lazy_secondary_nor: a read of the bank, or an unlock write to   *)
(* it, is tried once as a second NOR; what it maps is the chip's image.    *)
Tries(m, page, write, unlock) ==
  page \in Bank /\ ~m.nor /\ ~m.attempted /\ (write => unlock)

Attached(m) ==
  [m EXCEPT !.mapped = @ \cup Bank, !.nor = TRUE, !.attempted = TRUE,
            !.content = [p \in Pages |-> IF p \in Bank THEN Open ELSE @[p]],
            !.written = [p \in Pages |-> IF p \in Bank THEN Open ELSE @[p]]]

(* A page of anonymous memory.                                             *)
Mapped(m, page) ==
  [m EXCEPT !.mapped = @ \cup {page}, !.dynamic = @ \cup {page},
            !.content[page] = Zero, !.written[page] = Zero]

(* A data access to a page that is not mapped.                             *)
Unmapped(m, page, write, unlock) ==
  LET tries == Tries(m, page, write, unlock)
      tried == [m EXCEPT !.attempted = @ \/ tries]
  IN CASE tries /\ Attaches(m) -> Attached(m)
       [] ~(tries /\ Attaches(m)) /\ Board[page] = "lcd" ->
            [tried EXCEPT !.mapped = @ \cup Of("lcd")]
       [] Board[page] = "high" -> [tried EXCEPT !.fault = TRUE]
       [] OTHER -> IF Cardinality(m.dynamic) >= MaxDynamic
                   THEN [tried EXCEPT !.fault = TRUE]
                   ELSE Mapped(tried, page)

(* The access goes on once its page is mapped.                             *)
Ready(page, write, unlock) ==
  IF page \in memory.mapped THEN memory ELSE Unmapped(memory, page, write, unlock)

(* A write lands in anonymous memory; a NOR keeps its own content, and a   *)
(* store to it is NorFlash's.                                              *)
Write(page, value, unlock) ==
  /\ Runs
  /\ LET m == Ready(page, TRUE, unlock)
     IN memory' = IF m.fault \/ (m.nor /\ page \in Bank) THEN m
                  ELSE [m EXCEPT !.content[page] = value, !.written[page] = value]

(* Wrong: the hook fills whatever page it covers.                          *)
OpenBus_All(m, page) == [m EXCEPT !.content[page] = Open]

(* _open_bus_read covers the gap: where neither a flash nor a dynamic page *)
(* is, all ones are put before the read.                                   *)
OpenBus(m, page) ==
  IF Board[page] \in {"bank", "gap"} /\ ~(m.nor /\ page \in Bank)
     /\ page \notin m.dynamic
  THEN [m EXCEPT !.content[page] = Open] ELSE m

(* A read.  The hook of a page that nothing maps has nowhere to put its    *)
(* ones, and then the access is an unmapped one.                           *)
Read(page) ==
  /\ Runs
  /\ memory' = IF page \in memory.mapped THEN OpenBus(memory, page)
               ELSE Unmapped(memory, page, FALSE, FALSE)

-------------------------------------------------------------------------------
(* A block is fetched: from an unmapped page it is a fault, as it is from  *)
(* memory without the right to execute; elsewhere _trace looks at it.      *)

Executable(m, page) == page \in m.mapped /\ (Board[page] = "board" \/ (m.nor /\ page \in Bank))

(* Outside the primary flash (primary), blocks of zeros are counted.       *)
Traced(m, page, primary) ==
  LET zeros == IF ~primary /\ m.content[page] = Zero THEN m.zeros + 1 ELSE 0
  IN [m EXCEPT !.zeros = zeros, !.fault = zeros = MaxZero, !.ran = @ \cup {page}]

Fetch(page, primary) ==
  /\ Runs
  /\ primary => Board[page] = "board"
  /\ memory' = IF Executable(memory, page) THEN Traced(memory, page, primary)
               ELSE Faulted

Next ==
  \/ \E page \in Pages, value \in Values, unlock \in BOOLEAN : Write(page, value, unlock)
  \/ \E page \in Pages : Read(page)
  \/ \E page \in Pages, primary \in BOOLEAN : Fetch(page, primary)

Spec == Init /\ [][Next]_memory

-------------------------------------------------------------------------------
(* Properties.                                                             *)

(* A page has one owner for good: memory the guest already uses is never   *)
(* covered by a NOR that attaches later, keeps what the guest wrote to it  *)
(* under the open-bus hook that still covers it, and never executes        *)
(* ("Dynamically discovered data/MMIO must never silently become           *)
(* executable code", _unmapped).                                           *)
PageHasOneOwner ==
  /\ memory.nor => memory.dynamic \cap Bank = {}
  /\ \A p \in memory.dynamic : memory.content[p] = memory.written[p]
  /\ memory.ran \cap (memory.dynamic \cup Of("lcd")) = {}
===============================================================================
