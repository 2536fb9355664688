----------------------------- MODULE MCBoard_proofs ----------------------------
(***************************************************************************)
(* Proofs about MCBoard: the layout of a board, the offer of an update,    *)
(* the settings and the keypad, each in its own section; then what is      *)
(* shown of the other components in Board_proofs, carried to the           *)
(* behaviours of MCBoard; and the properties of MCBoard itself.            *)
(***************************************************************************)
EXTENDS MCBoard, SequenceTheorems, FiniteSetTheorems, WellFoundedInduction, TLAPS

-------------------------------------------------------------------------------
(* The layout of a board.                                                  *)

Addresses == 0..(Space - 1)

LayoutType ==
  state \in
    [config : Configs, stage : Layout!Stages, mapped : SUBSET Addresses,
     reads : [Addresses -> SUBSET Layout!Handlers], writes : [Addresses -> SUBSET Layout!Handlers]]

(* What a board has passed the checks that were made so far of.            *)
ChecksPassed ==
  LET c == state.config IN
  /\ state.stage \notin {"new", "refused"} => Layout!ConfigValid(c)
  /\ state.stage \notin {"new", "valid", "refused"} => ~Layout!Collides(c)
  /\ state.stage \notin {"new", "valid", "named", "refused"} => Layout!ImageFits(c)
  /\ state.stage \in {"stored", "placed", "mapped", "hooked"} =>
       Layout!SecondaryFits(c) /\ Layout!UpperFits(c)
  /\ state.stage \in {"placed", "mapped", "hooked"} => Layout!RegistersFit(c)
  /\ state.stage = "hooked" => \A a \in Addresses : /\ state.reads[a] = Layout!ReadersOf(c, a)
                                                    /\ state.writes[a] = Layout!WritersOf(c, a)

LayoutInv == LayoutType /\ ChecksPassed

(* A step of the constructor passes its check or refuses the board.        *)
LEMMA LayoutSteps ==
  ASSUME LayoutInv, NEW from, NEW to \in Layout!Stages \ {"hooked"}, NEW passes \in BOOLEAN,
         Layout!Step(from, to, passes)
  PROVE  /\ state.stage = from /\ state'.config = state.config /\ LayoutType'
         /\ state'.stage = (IF passes THEN to ELSE "refused")
BY DEF LayoutInv, LayoutType, Layout!Step, Layout!Stages

LEMMA LayoutMaps ==
  ASSUME Layout!BoardLayoutAssumption, NEW c \in Configs, Layout!ConfigValid(c),
         Layout!SecondaryFits(c), Layout!UpperFits(c), Layout!RegistersFit(c)
  PROVE  Layout!MappedBy(c) \subseteq Addresses
<1> DEFINE fixed == {LcdBus, LcdIndexed, LcdLate, Msm, Iram, UpperNor, TopPage} \cup Straps \cup NandPorts
<1>1. /\ Space \in Nat /\ LcdBus \in Int \X Int /\ c \in Layout!ConfigType
      /\ \A r \in fixed : Layout!Covers(r) # {} /\ Layout!Covers(r) \subseteq Addresses
  BY DEF Layout!BoardLayoutAssumption, Layout!Interval, Addresses
<1>2. ASSUME NEW r \in Int \X Int, Layout!InSpace(r)
      PROVE  Layout!Covers(r) \subseteq Addresses
  BY <1>1, <1>2 DEF Layout!InSpace, Layout!Covers, Addresses
<1>3. c.flash \in Int \X Int /\ c.ram \in Int \X Int /\ c.secondary \subseteq Int \X Int
  BY <1>1 DEF Layout!ConfigType, Layout!Interval
<1>4. \A r \in Layout!Storages(c) : Layout!Covers(r) \subseteq Addresses
  <2>1. c.upper \subseteq fixed
    BY DEF Layout!UpperFits
  <2>2. \A s \in c.secondary : Layout!InSpace(s)
    BY DEF Layout!SecondaryFits
  <2>3. Layout!InSpace(c.flash) /\ Layout!InSpace(c.ram)
    BY DEF Layout!ConfigValid
  <2>4. QED BY <1>1, <1>2, <1>3, <2>1, <2>2, <2>3 DEF Layout!Storages
<1>5. Layout!Nand(c) \subseteq fixed
  BY DEF Layout!Nand
<1>6. \A a \in c.key \cup c.revision : a \in Addresses
  <2>1. SUFFICES ASSUME NEW a \in c.key \cup c.revision PROVE a \in Addresses
    OBVIOUS
  <2>2. a \in Int
    BY <1>1 DEF Layout!ConfigType
  <2>3. \E k \in {"key", "revision"} : <<k, <<a, a + 1>>>> \in Layout!Registers(c)
    BY DEF Layout!Registers, Layout!Register
  <2>4. PICK k \in {"key", "revision"} : <<k, <<a, a + 1>>>> \in Layout!Registers(c)
    BY <2>3
  <2>5. Layout!InSpace(<<a, a + 1>>)
    BY <2>4 DEF Layout!RegistersFit
  <2>6. QED BY <1>1, <2>2, <2>5 DEF Layout!InSpace, Addresses
<1>7. Layout!Covers(<<LcdBus[1], LcdBus[1] + 1>>) \subseteq Addresses
  <2>1. LcdBus[1] \in Layout!Covers(LcdBus)
    BY <1>1 DEF Layout!Covers
  <2>2. LcdBus[1] \in Addresses
    BY <1>1, <2>1
  <2>3. Layout!Covers(<<LcdBus[1], LcdBus[1] + 1>>) = {LcdBus[1]}
    BY <1>1 DEF Layout!Covers
  <2>4. QED BY <2>2, <2>3
<1> HIDE DEF fixed
<1>8. {LcdIndexed, LcdLate, Msm, TopPage} \cup Straps \subseteq fixed
  BY DEF fixed
<1> DEFINE ranges == Layout!Storages(c) \cup Straps \cup Layout!Nand(c)
                       \cup {LcdIndexed, LcdLate, Msm, TopPage} \cup {<<LcdBus[1], LcdBus[1] + 1>>}
<1>9. \A r \in ranges : Layout!Covers(r) \subseteq Addresses
  BY <1>1, <1>4, <1>5, <1>7, <1>8
<1>10. Layout!MappedBy(c) = (UNION {Layout!Covers(r) : r \in ranges}) \cup c.key \cup c.revision
  BY DEF Layout!MappedBy
<1> HIDE DEF ranges
<1>11. SUFFICES ASSUME NEW a \in Layout!MappedBy(c), a \notin c.key \cup c.revision
                PROVE  a \in Addresses
  BY <1>6
<1>12. PICK r \in ranges : a \in Layout!Covers(r)
  BY <1>10, <1>11
<1>13. QED BY <1>9, <1>12

LEMMA LayoutInductive ==
  ASSUME Layout!BoardLayoutAssumption
  PROVE  LayoutInv /\ [Layout!Next]_state => LayoutInv'
<1> SUFFICES ASSUME LayoutInv, [Layout!Next]_state PROVE LayoutInv'
  OBVIOUS
<1> DEFINE c == state.config
<1>1. CASE Layout!Validate
  <2> DEFINE passes == Layout!ConfigValid(c)
  <2>1. Layout!Step("new", "valid", passes) /\ passes \in BOOLEAN
    BY <1>1 DEF Layout!Validate, Layout!ConfigValid
  <2> HIDE DEF passes
  <2>2. /\ state.stage = "new" /\ state'.config = c /\ LayoutType'
        /\ (passes /\ state'.stage = "valid") \/ state'.stage = "refused"
    BY <2>1, LayoutSteps DEF Layout!Stages
  <2>3. QED BY <2>2 DEF LayoutInv, ChecksPassed, passes
<1>2. CASE Layout!NameFiles
  <2> DEFINE passes == ~Layout!Collides(c)
  <2>1. Layout!Step("valid", "named", passes) /\ passes \in BOOLEAN
    BY <1>2 DEF Layout!NameFiles
  <2> HIDE DEF passes
  <2>2. /\ state.stage = "valid" /\ state'.config = c /\ LayoutType'
        /\ (passes /\ state'.stage = "named") \/ state'.stage = "refused"
    BY <2>1, LayoutSteps DEF Layout!Stages
  <2>3. QED BY <2>2 DEF LayoutInv, ChecksPassed, passes
<1>3. CASE Layout!LoadImage
  <2> DEFINE passes == Layout!ImageFits(c)
  <2>1. Layout!Step("named", "loaded", passes) /\ passes \in BOOLEAN
    BY <1>3 DEF Layout!LoadImage, Layout!ImageFits
  <2> HIDE DEF passes
  <2>2. /\ state.stage = "named" /\ state'.config = c /\ LayoutType'
        /\ (passes /\ state'.stage = "loaded") \/ state'.stage = "refused"
    BY <2>1, LayoutSteps DEF Layout!Stages
  <2>3. QED BY <2>2 DEF LayoutInv, ChecksPassed, passes
<1>4. CASE Layout!StoreMedia
  <2> DEFINE passes == Layout!SecondaryFits(c) /\ Layout!UpperFits(c)
  <2>1. Layout!Step("loaded", "stored", passes) /\ passes \in BOOLEAN
    BY <1>4 DEF Layout!StoreMedia
  <2> HIDE DEF passes
  <2>2. /\ state.stage = "loaded" /\ state'.config = c /\ LayoutType'
        /\ (passes /\ state'.stage = "stored") \/ state'.stage = "refused"
    BY <2>1, LayoutSteps DEF Layout!Stages
  <2>3. QED BY <2>2 DEF LayoutInv, ChecksPassed, passes
<1>5. CASE Layout!PlaceRegisters
  <2> DEFINE passes == Layout!RegistersFit(c)
  <2>1. Layout!Step("stored", "placed", passes) /\ passes \in BOOLEAN
    BY <1>5 DEF Layout!PlaceRegisters, Layout!RegistersFit
  <2> HIDE DEF passes
  <2>2. /\ state.stage = "stored" /\ state'.config = c /\ LayoutType'
        /\ (passes /\ state'.stage = "placed") \/ state'.stage = "refused"
    BY <2>1, LayoutSteps DEF Layout!Stages
  <2>3. QED BY <2>2 DEF LayoutInv, ChecksPassed, passes
<1>6. CASE Layout!MapMemory
  <2>1. state.stage = "placed" /\ c \in Configs
    BY <1>6 DEF Layout!MapMemory, LayoutInv, LayoutType
  <2>2. Layout!MappedBy(c) \subseteq Addresses
    BY <2>1, LayoutMaps DEF LayoutInv, ChecksPassed
  <2> DEFINE mapped == Layout!MappedBy(c)
             stage == IF c.status \subseteq mapped THEN "mapped" ELSE "refused"
  <2>3. /\ state' = [state EXCEPT !.mapped = mapped, !.stage = stage]
        /\ mapped \in SUBSET Addresses /\ stage \in {"mapped", "refused"}
    BY <1>6, <2>2 DEF Layout!MapMemory
  <2> HIDE DEF mapped, stage
  <2>4. LayoutType' /\ state'.config = c /\ state'.stage \in {"mapped", "refused"}
    BY <2>3 DEF LayoutInv, LayoutType, Layout!Stages
  <2>5. QED BY <2>1, <2>4 DEF LayoutInv, ChecksPassed
<1>7. CASE Layout!InstallHooks
  <2>1. DOMAIN state.reads = Addresses /\ DOMAIN state.writes = Addresses /\ state.stage = "mapped"
    BY <1>7 DEF LayoutInv, LayoutType, Layout!InstallHooks
  <2> DEFINE reads == [a \in Addresses |-> Layout!ReadersOf(c, a)]
             writes == [a \in Addresses |-> Layout!WritersOf(c, a)]
  <2>2. state' = [state EXCEPT !.stage = "hooked", !.reads = reads, !.writes = writes]
    BY <1>7, <2>1 DEF Layout!InstallHooks
  <2>3. \A a \in Addresses : Layout!ReadersOf(c, a) \subseteq Layout!Handlers
                             /\ Layout!WritersOf(c, a) \subseteq Layout!Handlers
    BY DEF Layout!ReadersOf, Layout!WritersOf, Layout!Both
  <2>4. /\ reads \in [Addresses -> SUBSET Layout!Handlers]
        /\ writes \in [Addresses -> SUBSET Layout!Handlers]
        /\ \A a \in Addresses : reads[a] = Layout!ReadersOf(c, a) /\ writes[a] = Layout!WritersOf(c, a)
    BY <2>3
  <2> HIDE DEF reads, writes
  <2>5. /\ LayoutType' /\ state'.config = c /\ state'.stage = "hooked"
        /\ state'.reads = reads /\ state'.writes = writes
    BY <2>2, <2>4 DEF LayoutInv, LayoutType, Layout!Stages
  <2>6. QED BY <2>1, <2>4, <2>5 DEF LayoutInv, ChecksPassed
<1>8. CASE UNCHANGED state
  BY <1>8 DEF LayoutInv, LayoutType, ChecksPassed
<1>9. QED BY <1>1, <1>2, <1>3, <1>4, <1>5, <1>6, <1>7, <1>8 DEF Layout!Next

LEMMA LayoutInitInv == Layout!Init => LayoutInv
BY DEF Layout!Init, LayoutInv, LayoutType, ChecksPassed, Layout!Stages, Addresses

(* What is not between the checks: the pages of storages and devices.      *)
InFlash(c, a)  == a \in Layout!Covers(c.flash)
InRam(c, a)    == a \in Layout!Covers(c.ram)
InSecond(c, a) == \E s \in c.secondary : a \in Layout!Covers(s)
InUpper(c, a)  == \E u \in c.upper : a \in Layout!Covers(u)
InNand(c, a)   == \E p \in Layout!Nand(c) : a \in Layout!Covers(p)
InLcd(a)       == a \in Layout!Covers(Layout!Lcd) \cup Layout!Covers(LcdLate)
InMsm(a)       == a \in Layout!Covers(Msm)

LEMMA NotBoth ==
  ASSUME NEW r, NEW s, ~Layout!Overlaps(r, s), NEW a
  PROVE  ~(a \in Layout!Covers(r) /\ a \in Layout!Covers(s))
BY DEF Layout!Overlaps

LEMMA StoragesApart ==
  ASSUME Layout!BoardLayoutAssumption, NEW c \in Configs, Layout!ConfigValid(c),
         Layout!SecondaryFits(c), Layout!UpperFits(c), NEW a
  PROVE  /\ InFlash(c, a) => /\ ~InRam(c, a) /\ ~InSecond(c, a) /\ ~InUpper(c, a)
                             /\ ~InNand(c, a) /\ ~InLcd(a) /\ ~InMsm(a)
         /\ InRam(c, a) => /\ ~InSecond(c, a) /\ ~InUpper(c, a)
                           /\ ~InNand(c, a) /\ ~InLcd(a) /\ ~InMsm(a)
         /\ InSecond(c, a) => ~InUpper(c, a) /\ ~InNand(c, a) /\ ~InLcd(a) /\ ~InMsm(a)
         /\ InUpper(c, a) => ~InNand(c, a) /\ ~InMsm(a)
         /\ InNand(c, a) => ~InLcd(a) /\ ~InMsm(a)
         /\ InLcd(a) => ~InMsm(a)
<1>1. /\ ~Layout!Overlaps(c.flash, c.ram)
      /\ Layout!ClearOfDevices(c, c.flash) /\ Layout!ClearOfDevices(c, c.ram)
  BY DEF Layout!ConfigValid
<1>2. \A d \in {Layout!Lcd, LcdLate, Msm} \cup Layout!Nand(c) :
        ~Layout!Overlaps(c.flash, d) /\ ~Layout!Overlaps(c.ram, d)
  BY <1>1 DEF Layout!ClearOfDevices, Layout!OverlapsAny
<1>3. \A s \in c.secondary, d \in {c.flash, c.ram, Layout!Lcd, LcdLate, Msm} \cup Layout!Nand(c) :
        ~Layout!Overlaps(s, d)
  BY DEF Layout!SecondaryFits, Layout!OverlapsAny
<1>4. \A u \in c.upper : /\ u = UpperNor
                         /\ \A d \in {c.flash, c.ram} \cup c.secondary \cup Layout!Nand(c) :
                              ~Layout!Overlaps(u, d)
  BY DEF Layout!UpperFits, Layout!OverlapsAny
<1>5. /\ ~Layout!Overlaps(UpperNor, Msm)
      /\ ~Layout!Overlaps(Msm, Layout!Lcd) /\ ~Layout!Overlaps(Msm, LcdLate)
      /\ \A p \in NandPorts : /\ ~Layout!Overlaps(Msm, p)
                             /\ ~Layout!Overlaps(p, Layout!Lcd) /\ ~Layout!Overlaps(p, LcdLate)
  BY DEF Layout!BoardLayoutAssumption, Layout!OverlapsAny
<1>6. QED BY <1>1, <1>2, <1>3, <1>4, <1>5, NotBoth
          DEF InFlash, InRam, InSecond, InUpper, InNand, InLcd, InMsm, Layout!Nand

(* A register is where nothing else is, but the revision register may be   *)
(* behind what the dump has of the primary flash.                          *)
LEMMA RevisionApart ==
  ASSUME Layout!BoardLayoutAssumption, NEW c \in Configs, Layout!ConfigValid(c),
         Layout!SecondaryFits(c), Layout!UpperFits(c), Layout!RegistersFit(c), NEW a \in c.revision
  PROVE  /\ ~InRam(c, a) /\ ~InSecond(c, a) /\ ~InUpper(c, a) /\ ~InNand(c, a) /\ ~InLcd(a)
         /\ InFlash(c, a) => a >= Layout!Supplied(c)
<1>1. a \in Int
  BY DEF Layout!BoardLayoutAssumption, Layout!ConfigType
<1>2. <<"revision", <<a, a + 1>>>> \in Layout!Registers(c)
  BY DEF Layout!Registers, Layout!Register
<1>3. Layout!Covers(<<a, a + 1>>) = {a}
  BY <1>1 DEF Layout!Covers
<1>4. \A other \in Layout!Storages(c) \cup Layout!Reserved(c) :
        a \in Layout!Covers(other) => other = c.flash /\ a >= Layout!Supplied(c)
  BY <1>2, <1>3 DEF Layout!RegistersFit, Layout!Overlaps, Layout!IsHole
<1>5. QED
  <2>1. /\ c.ram \in Layout!Storages(c) /\ c.flash \in Layout!Storages(c)
        /\ c.secondary \cup c.upper \subseteq Layout!Storages(c)
        /\ Layout!Nand(c) \cup {Layout!Lcd, LcdLate} \subseteq Layout!Reserved(c)
    BY DEF Layout!Storages, Layout!Reserved
  <2>2. QED BY <1>4, <2>1, StoragesApart DEF InFlash, InRam, InSecond, InUpper, InNand, InLcd

LEMMA OpenBusApart ==
  ASSUME Layout!BoardLayoutAssumption, NEW c \in Configs, Layout!ConfigValid(c),
         NEW a \in Layout!OpenBus(c)
  PROVE  /\ ~InRam(c, a) /\ ~InSecond(c, a) /\ ~InUpper(c, a) /\ ~InNand(c, a)
         /\ ~InLcd(a) /\ ~InMsm(a) /\ a \notin c.revision
         /\ Layout!RamAbove(c) => ~InFlash(c, a)
<1>1. c \in Layout!ConfigType
  BY DEF Layout!BoardLayoutAssumption
<1>2. /\ \E r \in {<<c.flash[2], c.ram[1]>>, <<c.ram[2], LcdBus[1]>>} : a \in Layout!Covers(r)
      /\ \A e \in Layout!Excluded(c) : a \notin Layout!Covers(e)
  BY DEF Layout!OpenBus, Layout!Gaps
<1>3. ~InSecond(c, a) /\ ~InUpper(c, a) /\ ~InNand(c, a) /\ ~InLcd(a) /\ ~InMsm(a)
  BY <1>2 DEF Layout!Excluded, InSecond, InUpper, InNand, InLcd, InMsm, Layout!Nand
<1>4. /\ c.flash[1] \in Int /\ c.flash[2] \in Int /\ c.ram[1] \in Int /\ c.ram[2] \in Int
      /\ LcdBus[1] \in Int
  BY <1>1 DEF Layout!ConfigType, Layout!Interval, Layout!BoardLayoutAssumption
<1>5. a \in Int /\ ((c.flash[2] <= a /\ a < c.ram[1]) \/ c.ram[2] <= a)
  BY <1>2, <1>4 DEF Layout!Covers
<1>6. c.ram[1] < c.ram[2]
  <2>1. c.ram[2] - c.ram[1] \in 1..MaxRam
    BY DEF Layout!ConfigValid, Layout!Size
  <2>2. QED BY <1>4, <2>1 DEF Layout!BoardLayoutAssumption
<1>7. ~InRam(c, a)
  BY <1>4, <1>5, <1>6 DEF InRam, Layout!Covers
<1>8. Layout!RamAbove(c) => ~InFlash(c, a)
  BY <1>4, <1>5, <1>6 DEF InFlash, Layout!Covers, Layout!RamAbove
<1>9. a \notin c.revision
  <2>1. SUFFICES ASSUME a \in c.revision PROVE FALSE
    OBVIOUS
  <2>2. <<a, a + 1>> \in Layout!Excluded(c)
    <3>1. <<"revision", <<a, a + 1>>>> \in Layout!Register("revision", c.revision)
      BY <2>1 DEF Layout!Register
    <3>2. {r[2] : r \in Layout!Register("key", c.key) \cup Layout!Register("revision", c.revision)}
            \subseteq Layout!Excluded(c)
      BY DEF Layout!Excluded
    <3>3. QED BY <3>1, <3>2
  <2>3. a \in Layout!Covers(<<a, a + 1>>)
    BY <1>5 DEF Layout!Covers
  <2>4. QED BY <1>2, <2>2, <2>3
<1>10. QED BY <1>3, <1>7, <1>8, <1>9

LEMMA HandlerNames ==
  Layout!Handlers = {"strap", "keys", "msm", "serial", "lcd", "audio", "open", "revision",
                     "flash", "secondary", "upper", "nand", "controller"}
BY DEF Layout!Handlers, Layout!HookOrder

(* The hooks that run after the one of the revision register.              *)
LEMMA AfterRevision ==
  Layout!After("revision") \subseteq {"flash", "secondary", "upper", "nand", "controller"}
<1>1. SUFFICES ASSUME NEW i \in 1..13, NEW j \in 1..13, i < j,
                      Layout!HookOrder[i] = "revision"
               PROVE  Layout!HookOrder[j] \in {"flash", "secondary", "upper", "nand", "controller"}
  BY DEF Layout!After, Layout!HookOrder
<1>2. i = 8
  BY <1>1 DEF Layout!HookOrder
<1>3. j \in {9, 10, 11, 12, 13}
  BY <1>1, <1>2
<1>4. QED BY <1>3 DEF Layout!HookOrder

(* The device that speaks for an address is where the address is.          *)
At(c, a, d) ==
  \/ d = "chip" /\ InMsm(a)
  \/ d = "flash" /\ InFlash(c, a) /\ a \notin c.revision
  \/ d = "secondary" /\ InSecond(c, a) /\ a \notin c.revision
  \/ d = "upper" /\ InUpper(c, a) /\ a \notin c.revision
  \/ d = "nand" /\ InNand(c, a)

LEMMA BothAt ==
  ASSUME Layout!BoardLayoutAssumption, NEW c \in Configs, NEW a,
         NEW h \in Layout!Both(c, a) \ Layout!Declines(c, a)
  PROVE  At(c, a, Layout!Device(h))
<1>1. \A r \in c.serial \cup c.controller : Layout!Covers(r) \subseteq Layout!Covers(Msm)
  BY DEF Layout!BoardLayoutAssumption
<1>2. CASE h \in {"serial", "controller"}
  BY <1>1, <1>2 DEF At, Layout!Both, Layout!PagesOf, Layout!Device, InMsm
<1>3. CASE h \notin {"serial", "controller"}
  BY <1>3 DEF At, Layout!Both, Layout!PagesOf, Layout!Device, Layout!Declines,
              InFlash, InSecond, InUpper, InNand
<1>4. QED BY <1>2, <1>3

LEMMA ReadersAt ==
  ASSUME Layout!BoardLayoutAssumption, NEW c \in Configs, NEW a,
         NEW h \in Layout!ReadersOf(c, a) \ Layout!Declines(c, a)
  PROVE  LET d == Layout!Device(h) IN
         \/ At(c, a, d)
         \/ d = "lcd" /\ a \in Layout!LcdReads(c)
         \/ d = "open" /\ a \in Layout!OpenBus(c)
         \/ d = "revision" /\ c.revisionSet /\ a \in c.revision
<1>1. \A r \in c.sideband \cup Straps : Layout!Covers(r) \subseteq Layout!Covers(Msm)
  BY DEF Layout!BoardLayoutAssumption
<1>2. CASE h \in Layout!Both(c, a)
  BY <1>2, BothAt
<1>3. CASE h \notin Layout!Both(c, a) /\ h \in {"strap", "keys", "msm"}
  BY <1>1, <1>3 DEF At, Layout!ReadersOf, Layout!StrapHooks, Layout!PagesOf, Layout!Device, InMsm
<1>4. CASE h \notin Layout!Both(c, a) /\ h \notin {"strap", "keys", "msm"}
  BY <1>4 DEF Layout!ReadersOf, Layout!Device
<1>5. QED BY <1>2, <1>3, <1>4

LEMMA WritersAt ==
  ASSUME Layout!BoardLayoutAssumption, NEW c \in Configs, NEW a,
         NEW h \in Layout!WritersOf(c, a) \ Layout!Declines(c, a)
  PROVE  LET d == Layout!Device(h) IN
         At(c, a, d) \/ (d = "lcd" /\ a \in Layout!LcdWrites(c))
<1>1. CASE h \in Layout!Both(c, a)
  BY <1>1, BothAt
<1>2. CASE h \notin Layout!Both(c, a)
  BY <1>2 DEF Layout!WritersOf, Layout!Device
<1>3. QED BY <1>1, <1>2

(* Where the hooks of the LCD are.                                         *)
LEMMA LcdHooksAt ==
  ASSUME Layout!BoardLayoutAssumption, NEW c \in Configs, NEW a
  PROVE  /\ a \in Layout!LcdWrites(c) => InLcd(a) /\ (c.upper # {} => a \in Layout!Covers(LcdBus))
         /\ a \in Layout!LcdReads(c) => InLcd(a) /\ c.upper = {}
<1>1. Layout!Covers(LcdBus) \cup Layout!Covers(LcdIndexed) \subseteq Layout!Covers(Layout!Lcd)
  <2>1. /\ LcdBus \in Int \X Int /\ LcdIndexed \in Int \X Int /\ LcdBus[2] = LcdIndexed[1]
        /\ Layout!Covers(LcdBus) # {} /\ Layout!Covers(LcdIndexed) # {}
    BY DEF Layout!BoardLayoutAssumption, Layout!Interval
  <2>2. QED BY <2>1 DEF Layout!Covers, Layout!Lcd
<1>2. QED BY <1>1 DEF Layout!LcdWrites, Layout!LcdReads, InLcd

LEMMA BusIsNotUpper ==
  ASSUME Layout!BoardLayoutAssumption, NEW c \in Configs, Layout!UpperFits(c), NEW a, InUpper(c, a)
  PROVE  a \notin Layout!Covers(LcdBus)
<1>1. a \in Layout!Covers(UpperNor)
  BY DEF Layout!UpperFits, InUpper
<1>2. UpperNor \in Int \X Int /\ LcdBus \in Int \X Int /\ UpperNor[1] = LcdBus[2]
  BY DEF Layout!BoardLayoutAssumption, Layout!Interval
<1>3. QED BY <1>1, <1>2 DEF Layout!Covers

LEMMA AtMostOne ==
  ASSUME NEW S, \A x, y \in S : x = y
  PROVE  Layout!Cardinality(S) <= 1
<1>1. Layout!Cardinality(S) = Cardinality(S)
  BY DEF Layout!Cardinality, Cardinality
<1>2. CASE S = {}
  BY <1>1, <1>2, FS_EmptySet
<1>3. CASE S # {}
  <2>1. PICK x : S = {x}
    BY <1>3
  <2>2. QED BY <1>1, <2>1, FS_Singleton
<1>4. QED BY <1>2, <1>3

(* The devices that answer where these hooks are.                          *)
DevicesOf(c, a, hooks) == {Layout!Device(h) : h \in hooks \ Layout!Declines(c, a)}

(* One device answers an access, nothing one to the RAM, and the dump's    *)
(* pages are the flash's.                                                  *)
LEMMA HooksApart ==
  ASSUME Layout!BoardLayoutAssumption, NEW c \in Configs, Layout!ConfigValid(c),
         Layout!SecondaryFits(c), Layout!UpperFits(c), Layout!RegistersFit(c), NEW a \in Addresses
  PROVE  LET reads == DevicesOf(c, a, Layout!ReadersOf(c, a))
             writes == DevicesOf(c, a, Layout!WritersOf(c, a))
             set == c.revisionSet /\ a \in c.revision
         IN /\ \A d, e \in writes : d = e
            /\ Layout!RamAbove(c) /\ ~set => \A d, e \in reads : d = e
            /\ set => /\ "revision" \in Layout!ReadersOf(c, a) /\ reads \subseteq {"revision", "chip"}
                      /\ (Layout!ReadersOf(c, a) \ Layout!Declines(c, a)) \cap Layout!After("revision")
                           \subseteq {"controller"}
            /\ InRam(c, a) => reads = {} /\ writes = {}
            /\ InUpper(c, a) => reads = {"upper"} /\ writes = {"upper"}
            /\ InFlash(c, a) /\ a < Layout!Supplied(c) => "flash" \in reads
<1> DEFINE R == Layout!ReadersOf(c, a)
           reads == DevicesOf(c, a, R)
           writes == DevicesOf(c, a, Layout!WritersOf(c, a))
           set == c.revisionSet /\ a \in c.revision
<1>1. /\ a \in c.revision => /\ ~InRam(c, a) /\ ~InSecond(c, a) /\ ~InUpper(c, a) /\ ~InNand(c, a)
                             /\ ~InLcd(a) /\ (InFlash(c, a) => a >= Layout!Supplied(c))
      /\ a \in Layout!OpenBus(c) =>
           /\ ~InRam(c, a) /\ ~InSecond(c, a) /\ ~InUpper(c, a) /\ ~InNand(c, a)
           /\ ~InLcd(a) /\ ~InMsm(a) /\ a \notin c.revision
           /\ Layout!RamAbove(c) => ~InFlash(c, a)
      /\ InUpper(c, a) => a \notin Layout!Covers(LcdBus) /\ c.upper # {}
  BY RevisionApart, OpenBusApart, BusIsNotUpper DEF InUpper
<1>2. ~(a < Layout!Supplied(c) /\ a >= Layout!Supplied(c))
  <2>1. a \in Int /\ Layout!Supplied(c) \in Int
    BY DEF Layout!BoardLayoutAssumption, Layout!ConfigType, Layout!Interval, Layout!Supplied,
           Layout!Size, Addresses
  <2>2. QED BY <2>1
<1>3. \A d \in reads : \/ At(c, a, d)
                       \/ d = "lcd" /\ InLcd(a) /\ c.upper = {}
                       \/ d = "open" /\ a \in Layout!OpenBus(c)
                       \/ d = "revision" /\ set
  BY ReadersAt, LcdHooksAt DEF DevicesOf
<1>4. \A d \in writes : \/ At(c, a, d)
                        \/ d = "lcd" /\ InLcd(a) /\ (c.upper # {} => a \in Layout!Covers(LcdBus))
  BY WritersAt, LcdHooksAt DEF DevicesOf
<1>5. /\ InFlash(c, a) /\ a \notin c.revision => "flash" \in R \ Layout!Declines(c, a)
      /\ InUpper(c, a) /\ a \notin c.revision =>
           "upper" \in R \ Layout!Declines(c, a) /\ "upper" \in Layout!WritersOf(c, a) \ Layout!Declines(c, a)
      /\ set => "revision" \in R
  BY HandlerNames DEF Layout!ReadersOf, Layout!WritersOf, Layout!Both, Layout!PagesOf, Layout!Declines,
                      InFlash, InUpper
<1>6. set => (R \ Layout!Declines(c, a)) \cap Layout!After("revision") \subseteq {"controller"}
  <2>1. SUFFICES ASSUME set, NEW h \in R \ Layout!Declines(c, a), h \in Layout!After("revision")
                 PROVE  h = "controller"
    OBVIOUS
  <2>2. h \in {"nand", "controller"}
    BY <2>1, AfterRevision DEF Layout!Declines
  <2>3. h # "nand"
    BY <1>1, <2>1 DEF Layout!ReadersOf, Layout!Both, Layout!PagesOf, InNand
  <2>4. QED BY <2>2, <2>3
<1>7. /\ Layout!Device("flash") = "flash" /\ Layout!Device("upper") = "upper"
      /\ \A hooks : \A h \in hooks \ Layout!Declines(c, a) : Layout!Device(h) \in DevicesOf(c, a, hooks)
  BY DEF Layout!Device, DevicesOf
<1>8. /\ InFlash(c, a) /\ a \notin c.revision => "flash" \in reads
      /\ InUpper(c, a) => "upper" \in reads /\ "upper" \in writes
  BY <1>1, <1>5, <1>7
<1> HIDE DEF R, reads, writes, set
<1>9. \A d, e \in writes : d = e
  BY <1>1, <1>4, StoragesApart DEF At
<1>10. Layout!RamAbove(c) /\ ~set => \A d, e \in reads : d = e
  BY <1>1, <1>3, StoragesApart DEF At, InUpper
<1>11. set => reads \subseteq {"revision", "chip"}
  <2>1. set => a \in c.revision
    BY DEF set
  <2>2. QED BY <1>1, <1>3, <2>1, StoragesApart DEF At
<1>12. InRam(c, a) => reads = {} /\ writes = {}
  <2>1. set => a \in c.revision
    BY DEF set
  <2>2. QED BY <1>1, <1>3, <1>4, <2>1, StoragesApart DEF At
<1>13. InUpper(c, a) => reads = {"upper"} /\ writes = {"upper"}
  <2>1. set => a \in c.revision
    BY DEF set
  <2>2. QED BY <1>1, <1>3, <1>4, <1>8, <2>1, StoragesApart DEF At
<1>14. InFlash(c, a) /\ a < Layout!Supplied(c) => "flash" \in reads
  BY <1>1, <1>2, <1>8
<1>15. QED BY <1>5, <1>6, <1>9, <1>10, <1>11, <1>12, <1>13, <1>14 DEF R, reads, writes, set

(* LifecycleMixin.__init__: what a board is built of is what its checks    *)
(* let pass, and only addresses of the bus are mapped and hooked.          *)
THEOREM LayoutTypeCorrect ==
  ASSUME Layout!BoardLayoutAssumption
  PROVE  Layout!Spec => []Layout!TypeOK
<1>1. LayoutInv => Layout!TypeOK
  BY DEF LayoutInv, LayoutType, Layout!TypeOK, Addresses
<1>2. QED BY <1>1, LayoutInitInv, LayoutInductive, PTL DEF Layout!Spec

(* _install_remaining_hooks: however many hooks lie over an address, one   *)
(* device answers it; at a revision register with a value the last word is *)
(* its own or the interrupt controller's; nothing answers for the RAM, and *)
(* the flashes answer for what they cover, whatever layout was accepted.   *)
THEOREM LayoutOneOwner ==
  ASSUME Layout!BoardLayoutAssumption
  PROVE  Layout!Spec => []Layout!OneOwner
<1>1. ASSUME LayoutInv PROVE Layout!OneOwner
  <2>1. SUFFICES ASSUME state.stage = "hooked" PROVE Layout!OneOwner
    BY DEF Layout!OneOwner, Layout!Built
  <2> DEFINE c == state.config
             Set(a) == c.revisionSet /\ a \in c.revision
             reads(a) == Layout!Answering(state.reads, a)
             writes(a) == Layout!Answering(state.writes, a)
  <2>2. /\ c \in Configs /\ Layout!ConfigValid(c) /\ Layout!SecondaryFits(c)
        /\ Layout!UpperFits(c) /\ Layout!RegistersFit(c)
        /\ \A a \in Addresses : /\ state.reads[a] = Layout!ReadersOf(c, a)
                                /\ state.writes[a] = Layout!WritersOf(c, a)
    BY <1>1, <2>1 DEF LayoutInv, LayoutType, ChecksPassed
  <2>3. \A a \in Addresses : /\ reads(a) = DevicesOf(c, a, Layout!ReadersOf(c, a))
                             /\ writes(a) = DevicesOf(c, a, Layout!WritersOf(c, a))
    BY <2>2 DEF Layout!Answering, DevicesOf
  <2> HIDE DEF c, reads, writes
  <2>4. \A a \in Addresses :
          /\ \A d, e \in writes(a) : d = e
          /\ Layout!RamAbove(c) /\ ~Set(a) => \A d, e \in reads(a) : d = e
          /\ Set(a) => /\ "revision" \in state.reads[a] /\ reads(a) \subseteq {"revision", "chip"}
                       /\ (state.reads[a] \ Layout!Declines(c, a)) \cap Layout!After("revision")
                            \subseteq {"controller"}
          /\ InRam(c, a) => reads(a) = {} /\ writes(a) = {}
          /\ InUpper(c, a) => reads(a) = {"upper"} /\ writes(a) = {"upper"}
          /\ InFlash(c, a) /\ a < Layout!Supplied(c) => "flash" \in reads(a)
    BY <2>2, <2>3, HooksApart
  <2>5. \A a \in Addresses : Layout!Cardinality(writes(a)) <= 1
    BY <2>4, AtMostOne
  <2>6. Layout!RamAbove(c) => \A a \in Addresses : ~Set(a) => Layout!Cardinality(reads(a)) <= 1
    BY <2>4, AtMostOne
  <2>7. /\ Space \in Nat /\ c.flash \in Int \X Int /\ c.ram \in Int \X Int /\ c.available \in Nat
        /\ Layout!InSpace(c.flash) /\ Layout!InSpace(c.ram)
    BY <2>2 DEF Layout!BoardLayoutAssumption, Layout!ConfigType, Layout!Interval, Layout!ConfigValid
  <2>8. \A a \in Layout!Covers(c.ram) : a \in Addresses /\ InRam(c, a)
    BY <2>7 DEF Layout!InSpace, Layout!Covers, Addresses, InRam
  <2>9. \A a \in c.flash[1]..(Layout!Supplied(c) - 1) :
          a \in Addresses /\ InFlash(c, a) /\ a < Layout!Supplied(c)
    BY <2>7 DEF Layout!InSpace, Layout!Covers, Layout!Supplied, Layout!Size, Addresses, InFlash
  <2>10. \A a \in Layout!PagesOf(c.upper) : InUpper(c, a)
    BY DEF Layout!PagesOf, InUpper
  <2>11. /\ \A a \in 0..(Space - 1) : Layout!Cardinality(writes(a)) <= 1
         /\ Layout!RamAbove(c) =>
              \A a \in 0..(Space - 1) : ~Set(a) => Layout!Cardinality(reads(a)) <= 1
         /\ \A a \in 0..(Space - 1) : Set(a) =>
              /\ "revision" \in state.reads[a] /\ reads(a) \subseteq {"revision", "chip"}
              /\ (state.reads[a] \ Layout!Declines(c, a)) \cap Layout!After("revision")
                   \subseteq {"controller"}
         /\ \A a \in Layout!Covers(c.ram) : reads(a) = {} /\ writes(a) = {}
         /\ \A a \in Layout!PagesOf(c.upper) \cap 0..(Space - 1) :
              reads(a) = {"upper"} /\ writes(a) = {"upper"}
         /\ \A a \in c.flash[1]..(Layout!Supplied(c) - 1) : "flash" \in reads(a)
    BY <2>4, <2>5, <2>6, <2>8, <2>9, <2>10 DEF Addresses
  <2>12. QED BY <2>11 DEF Layout!OneOwner, reads, writes, c
<1>2. QED BY <1>1, LayoutInitInv, LayoutInductive, PTL DEF Layout!Spec

LEMMA OutputsAreFinite == ASSUME NEW c PROVE IsFiniteSet(Layout!Outputs(c))
<1> DEFINE few == {<<"primary", c.state>>, <<"secondary", c.secondaryState>>,
                   <<"upper", c.upperState>>, <<"eeprom", Append(c.state, "eeprom")>>,
                   <<"nand", Append(c.state, "nand")>>, <<"nandmeta", Append(c.state, "nandmeta")>>}
<1>1. IsFiniteSet(few)
  <2>1. few = {} \cup {<<"primary", c.state>>} \cup {<<"secondary", c.secondaryState>>}
              \cup {<<"upper", c.upperState>>} \cup {<<"eeprom", Append(c.state, "eeprom")>>}
              \cup {<<"nand", Append(c.state, "nand")>>}
              \cup {<<"nandmeta", Append(c.state, "nandmeta")>>}
    OBVIOUS
  <2> HIDE DEF few
  <2>2. QED BY <2>1, FS_EmptySet, FS_AddElement
<1>2. Layout!Outputs(c) \subseteq few
  BY DEF Layout!Outputs
<1>3. QED BY <1>1, <1>2, FS_Subset

(* _prepare_state_paths: no two media share a file, no file that is read   *)
(* is written, and no lock is a state file, whatever the paths are.        *)
THEOREM LayoutFilesApart ==
  ASSUME Layout!BoardLayoutAssumption
  PROVE  Layout!Spec => []Layout!FilesApart
<1>1. ASSUME LayoutInv PROVE Layout!FilesApart
  <2>1. SUFFICES ASSUME state.stage = "hooked" PROVE Layout!FilesApart
    BY DEF Layout!FilesApart, Layout!Built
  <2> DEFINE c == state.config
             paths == {o[2] : o \in Layout!Outputs(c)}
             locks == {Layout!LockOf(o[2]) : o \in Layout!Locked(c)}
  <2>2. ~Layout!Collides(c)
    BY <1>1, <2>1 DEF LayoutInv, ChecksPassed
  <2>3. /\ \A t, u \in Layout!Targets(c) : t # u => t[3] # u[3]
        /\ \A t \in Layout!Targets(c) : t[3] \notin Layout!Inputs(c)
    BY <2>2 DEF Layout!Collides
  <2>4. /\ \A o \in Layout!Outputs(c) : <<o[1], "file", o[2]>> \in Layout!Targets(c)
        /\ \A o \in Layout!Locked(c) : <<o[1], "lock", Layout!LockOf(o[2])>> \in Layout!Targets(c)
    BY DEF Layout!Targets
  <2>5. \A o \in Layout!Outputs(c) : o = <<o[1], o[2]>>
    BY DEF Layout!Outputs
  <2> HIDE DEF c
  <2>6. \A o, p \in Layout!Outputs(c) : o[2] = p[2] => o = p
    <3>1. SUFFICES ASSUME NEW o \in Layout!Outputs(c), NEW p \in Layout!Outputs(c), o[2] = p[2]
                   PROVE  o = p
      OBVIOUS
    <3>2. <<o[1], "file", o[2]>> = <<p[1], "file", p[2]>>
      BY <2>3, <2>4, <3>1
    <3>3. QED BY <2>5, <3>1, <3>2
  <2>7. Layout!Cardinality(paths) = Layout!Cardinality(Layout!Outputs(c))
    <3> DEFINE name == [o \in Layout!Outputs(c) |-> o[2]]
    <3>1. /\ name \in [Layout!Outputs(c) -> paths]
          /\ \A o, p \in Layout!Outputs(c) : name[o] = name[p] => o = p
          /\ \A f \in paths : \E o \in Layout!Outputs(c) : name[o] = f
      BY <2>6
    <3>2. name \in Bijection(Layout!Outputs(c), paths)
      BY <3>1 DEF Bijection, Injection, Surjection, IsInjective
    <3>3. ExistsBijection(Layout!Outputs(c), paths)
      BY <3>2 DEF ExistsBijection
    <3>4. Cardinality(paths) = Cardinality(Layout!Outputs(c))
      BY <3>3, OutputsAreFinite, FS_Bijection
    <3>5. \A S : Layout!Cardinality(S) = Cardinality(S)
      BY DEF Layout!Cardinality, Cardinality
    <3>6. QED BY <3>4, <3>5
  <2>8. (paths \cup locks) \cap Layout!Inputs(c) = {}
    BY <2>3, <2>4
  <2>9. locks \cap paths = {}
    BY <2>3, <2>4
  <2>10. QED BY <2>7, <2>8, <2>9 DEF Layout!FilesApart, c
<1>2. QED BY <1>1, LayoutInitInv, LayoutInductive, PTL DEF Layout!Spec

(* validate_settings_values: the settings dialog refuses no board that can *)
(* be built.                                                               *)
THEOREM DialogAcceptsBoards ==
  ASSUME Layout!BoardLayoutAssumption
  PROVE  Layout!Spec => []Layout!DialogAgrees
<1>1. ASSUME LayoutInv PROVE Layout!DialogAgrees
  <2>1. SUFFICES ASSUME state.stage = "hooked" PROVE Layout!SettingsValid(state.config)
    BY DEF Layout!DialogAgrees, Layout!Built
  <2> DEFINE c == state.config
  <2>2. /\ c \in Configs /\ Layout!ConfigValid(c) /\ Layout!ImageFits(c) /\ Layout!SecondaryFits(c)
    BY <1>1, <2>1 DEF LayoutInv, LayoutType, ChecksPassed
  <2> HIDE DEF c
  <2>3. \A f \in c.framebuffer : f[1] < f[2]
    BY <2>2 DEF Layout!BoardLayoutAssumption
  <2>4. \A s \in c.secondary : ~Layout!OverlapsAny(s, {c.flash, c.ram})
    BY <2>2 DEF Layout!SecondaryFits, Layout!OverlapsAny
  <2>5. Layout!SettingsValid(c)
    BY <2>2, <2>3, <2>4 DEF Layout!SettingsValid, Layout!ConfigValid, Layout!ImageFits,
       Layout!SecondaryFits, Layout!InSpace, Layout!FramebufferFits
  <2>6. QED BY <2>5 DEF c
<1>2. QED BY <1>1, LayoutInitInv, LayoutInductive, PTL DEF Layout!Spec

-------------------------------------------------------------------------------
(* The way of an update to the helper.                                     *)

Counts == 0..MaxCommits
Pieces  == SUBSET Offer!Release

Offers ==
  [main : Offer!Commits, installed : Counts, seen : Counts,
   prepared : [Offer!Commits -> Pieces], lock : [Offer!Commits -> Windows \cup {Nobody}],
   phase : [Windows -> Offer!Phases], of : [Windows -> Counts], work : [Windows -> Pieces]]

Whole(o) == \A c \in Offer!Commits : "marker" \in o.prepared[c] => o.prepared[c] = Offer!Release

(* What a window relies on from one step to the next: the release it was   *)
(* told of, the lock while it works on it, that only what is no whole      *)
(* release is removed or replaced, and that what it prepared is there.     *)
Relies(o, w) ==
  /\ o.phase[w] \notin {"open", "quiet", "failed", "closed", "gone"} =>
       o.of[w] \in Offer!Commits
  /\ o.phase[w] \in {"locked", "remove", "extract"} => o.lock[o.of[w]] = w
  /\ o.phase[w] = "remove" => "marker" \notin o.prepared[o.of[w]]
  /\ o.phase[w] = "extract" => o.prepared[o.of[w]] = {}
  /\ o.phase[w] \in {"prepared", "helper"} => o.prepared[o.of[w]] = Offer!Release

OfferInv == state \in Offers /\ Whole(state) /\ \A w \in Windows : Relies(state, w)

(* A window moves on and leaves the prepared releases and the other        *)
(* windows' locks alone.                                                   *)
MovesAlone(w) ==
  /\ state' \in Offers /\ state'.prepared = state.prepared
  /\ \A v \in Windows \ {w} : state'.phase[v] = state.phase[v] /\ state'.of[v] = state.of[v]
  /\ \A c \in Offer!Commits : state'.lock[c] = state.lock[c] \/ state.lock[c] \in {w, Nobody}

LEMMA OthersRely ==
  ASSUME Offer!UpdateOfferAssumption, OfferInv, NEW w \in Windows, MovesAlone(w),
         Relies(state', w)
  PROVE  OfferInv'
<1>1. ASSUME NEW v \in Windows \ {w} PROVE Relies(state', v)
  <2>1. Relies(state, v) /\ state'.phase[v] = state.phase[v] /\ state'.of[v] = state.of[v]
        /\ state'.prepared = state.prepared /\ v # Nobody
    BY DEF OfferInv, MovesAlone, Offer!UpdateOfferAssumption
  <2>2. CASE state.phase[v] \in {"locked", "remove", "extract"}
    <3>1. state.of[v] \in Offer!Commits /\ state.lock[state.of[v]] = v
      BY <2>1, <2>2 DEF Relies
    <3>2. state'.lock[state.of[v]] = v
      BY <2>1, <3>1 DEF MovesAlone
    <3>3. QED BY <2>1, <3>2 DEF Relies
  <2>3. CASE state.phase[v] \notin {"locked", "remove", "extract"}
    BY <2>1, <2>3 DEF Relies
  <2>4. QED BY <2>2, <2>3
<1>2. Whole(state')
  BY DEF OfferInv, MovesAlone, Whole
<1>3. \A v \in Windows : Relies(state', v)
  BY <1>1
<1>4. QED BY <1>2, <1>3 DEF OfferInv, MovesAlone

(* Steps that change a window's phase, and counts, and nothing else.       *)
OnlyMoves(w, phase) ==
  /\ state' \in Offers /\ state'.prepared = state.prepared /\ state'.lock = state.lock
  /\ state'.phase = [state.phase EXCEPT ![w] = phase]
  /\ \A v \in Windows \ {w} : state'.of[v] = state.of[v]

LEMMA Moves ==
  ASSUME NEW w \in Windows, NEW phase, state \in Offers, OnlyMoves(w, phase)
  PROVE  MovesAlone(w) /\ state'.phase[w] = phase
<1>1. state.phase \in [Windows -> Offer!Phases]
  BY DEF Offers
<1>2. QED BY <1>1 DEF MovesAlone, OnlyMoves

LEMMA OfferAsks ==
  ASSUME Offer!UpdateOfferAssumption, OfferInv, NEW w \in Windows,
         Offer!Fetch(w) \/ Offer!Compare(w) \/ Offer!Remember(w) \/ Offer!Answer(w)
  PROVE  OfferInv'
<1>1. /\ state \in Offers /\ Relies(state, w) /\ state.phase \in [Windows -> Offer!Phases]
      /\ state.of \in [Windows -> Counts] /\ state.main \in Offer!Commits
      /\ state.main \in Counts /\ {"quiet", "fetched", "available", "prompt", "download"} \subseteq Offer!Phases
  BY DEF OfferInv, Offers, Offer!Phases, Offer!Commits, Counts, Offer!UpdateOfferAssumption
<1>2. ASSUME NEW phase \in {"quiet", "available", "prompt", "download"},
             NEW seen \in Counts,
             phase # "quiet" => state.of[w] \in Offer!Commits,
             state' = [state EXCEPT !.phase = [state.phase EXCEPT ![w] = phase], !.seen = seen]
      PROVE  OfferInv'
  <2> DEFINE phases == [state.phase EXCEPT ![w] = phase]
  <2>1. phases \in [Windows -> Offer!Phases]
    BY <1>1
  <2> HIDE DEF phases
  <2>2. /\ state' \in Offers /\ state'.prepared = state.prepared /\ state'.lock = state.lock
        /\ state'.phase = phases /\ state'.of = state.of
    BY <1>1, <1>2, <2>1 DEF Offers, phases
  <2>3. OnlyMoves(w, phase)
    BY <2>2 DEF OnlyMoves, phases
  <2>4. MovesAlone(w) /\ state'.phase[w] = phase
    BY <1>1, <2>3, Moves, Zenon
  <2>5. Relies(state', w)
    BY <1>2, <2>2, <2>4 DEF Relies
  <2>6. QED BY <2>4, <2>5, OthersRely
<1>3. state.seen \in Counts /\ state.of[w] \in Counts
  BY <1>1 DEF Offers
<1>4. CASE Offer!Fetch(w)
  <2>1. CASE state' = [state EXCEPT !.phase[w] = "quiet"]
    <3>1. state' = [state EXCEPT !.phase = [state.phase EXCEPT ![w] = "quiet"],
                                 !.seen = state.seen]
      BY <1>1, <2>1 DEF Offers
    <3>2. QED BY <1>2, <1>3, <3>1
  <2>2. CASE state' = [state EXCEPT !.phase[w] = "fetched", !.of[w] = state.main]
    <3> DEFINE phases == [state.phase EXCEPT ![w] = "fetched"]
               of == [state.of EXCEPT ![w] = state.main]
    <3>1. /\ phases \in [Windows -> Offer!Phases] /\ of \in [Windows -> Counts]
          /\ of[w] = state.main /\ \A v \in Windows \ {w} : of[v] = state.of[v]
      BY <1>1
    <3> HIDE DEF phases, of
    <3>2. /\ state' \in Offers /\ state'.prepared = state.prepared
          /\ state'.lock = state.lock /\ state'.phase = phases /\ state'.of = of
      BY <1>1, <2>2, <3>1 DEF Offers, phases, of
    <3>3. OnlyMoves(w, "fetched")
      BY <3>1, <3>2 DEF OnlyMoves, phases
    <3>4. MovesAlone(w) /\ state'.phase[w] = "fetched"
      BY <1>1, <3>3, Moves, Zenon
    <3>5. Relies(state', w)
      BY <1>1, <3>1, <3>2, <3>4 DEF Relies
    <3>6. QED BY <3>4, <3>5, OthersRely
  <2>3. QED BY <1>4, <2>1, <2>2 DEF Offer!Fetch
<1>5. CASE Offer!Compare(w)
  <2> DEFINE phase == IF state.of[w] \in {state.installed, state.seen} THEN "quiet" ELSE "available"
  <2>1. state' = [state EXCEPT !.phase = [state.phase EXCEPT ![w] = phase],
                               !.seen = state.seen]
    BY <1>1, <1>5 DEF Offer!Compare, Offers
  <2>2. phase \in {"quiet", "available"} /\ state.of[w] \in Offer!Commits
    BY <1>1, <1>5 DEF Offer!Compare, Offer!At, Relies
  <2> HIDE DEF phase
  <2>3. QED BY <1>2, <1>3, <2>1, <2>2
<1>6. CASE Offer!Remember(w)
  <2>1. PICK seen \in {state.seen, state.of[w]} :
          state' = [state EXCEPT !.phase[w] = "prompt", !.seen = seen]
    BY <1>6 DEF Offer!Remember
  <2>2. state' = [state EXCEPT !.phase = [state.phase EXCEPT ![w] = "prompt"], !.seen = seen]
    BY <2>1
  <2>3. state.of[w] \in Offer!Commits
    BY <1>1, <1>6 DEF Offer!Remember, Offer!At, Relies
  <2>4. QED BY <1>2, <1>3, <2>2, <2>3
<1>7. CASE Offer!Answer(w)
  <2>1. PICK next \in {"download", "quiet"} : state' = [state EXCEPT !.phase[w] = next]
    BY <1>7 DEF Offer!Answer
  <2>2. state' = [state EXCEPT !.phase = [state.phase EXCEPT ![w] = next], !.seen = state.seen]
    BY <1>1, <2>1 DEF Offers
  <2>3. state.of[w] \in Offer!Commits
    BY <1>1, <1>7 DEF Offer!Answer, Offer!At, Relies
  <2>4. QED BY <1>2, <1>3, <2>2, <2>3
<1>8. QED BY <1>4, <1>5, <1>6, <1>7

(* A window that lets go of its lock, and of what it worked on.            *)
LEMMA LetsGo ==
  ASSUME Offer!UpdateOfferAssumption, OfferInv, NEW w \in Windows, NEW phase \in Offer!Phases,
         phase \in {"prepared", "failed", "closed"},
         phase = "prepared" => /\ state.of[w] \in Offer!Commits
                               /\ state.prepared[state.of[w]] = Offer!Release,
         state' = [Offer!Unlocked(state, w) EXCEPT !.phase[w] = phase]
  PROVE  OfferInv'
<1> DEFINE locked == [c \in Offer!Commits |-> IF state.lock[c] = w THEN Nobody ELSE state.lock[c]]
           work == [state.work EXCEPT ![w] = {}]
           phases == [state.phase EXCEPT ![w] = phase]
           u == Offer!Unlocked(state, w)
<1>1. /\ state \in Offers /\ state.phase \in [Windows -> Offer!Phases]
      /\ state.lock \in [Offer!Commits -> Windows \cup {Nobody}]
      /\ state.work \in [Windows -> Pieces]
  BY DEF OfferInv, Offers
<1>2. /\ locked \in [Offer!Commits -> Windows \cup {Nobody}] /\ work \in [Windows -> Pieces]
      /\ phases \in [Windows -> Offer!Phases] /\ phases[w] = phase
      /\ \A v \in Windows \ {w} : phases[v] = state.phase[v]
      /\ \A c \in Offer!Commits : locked[c] = state.lock[c] \/ state.lock[c] \in {w, Nobody}
  BY <1>1 DEF Pieces
<1>3. u = [state EXCEPT !.lock = locked, !.work = work]
  BY <1>1 DEF Offer!Unlocked
<1> HIDE DEF locked, work, u
<1>4. u \in Offers /\ u.phase = state.phase /\ u.lock = locked /\ u.work = work
      /\ u.prepared = state.prepared /\ u.of = state.of
  BY <1>1, <1>2, <1>3 DEF Offers
<1>5. state' = [u EXCEPT !.phase = phases]
  BY <1>4 DEF u
<1> HIDE DEF phases
<1>6. /\ state' \in Offers /\ state'.phase = phases /\ state'.lock = locked
      /\ state'.prepared = state.prepared /\ state'.of = state.of
  BY <1>2, <1>4, <1>5 DEF Offers
<1>7. MovesAlone(w)
  BY <1>2, <1>6 DEF MovesAlone
<1>8. Relies(state', w)
  BY <1>2, <1>6 DEF Relies
<1>9. QED BY <1>7, <1>8, OthersRely

LEMMA OfferLocks ==
  ASSUME Offer!UpdateOfferAssumption, OfferInv, NEW w \in Windows, Offer!Lock(w)
  PROVE  OfferInv'
<1>1. /\ state \in Offers /\ Relies(state, w) /\ state.phase \in [Windows -> Offer!Phases]
      /\ state.lock \in [Offer!Commits -> Windows \cup {Nobody}]
      /\ {"locked", "failed"} \subseteq Offer!Phases
      /\ state.of[w] \in Offer!Commits
  BY DEF OfferInv, Offers, Offer!Phases, Relies, Offer!Lock, Offer!At
<1>2. CASE state' = [state EXCEPT !.phase[w] = "failed"]
  <2> DEFINE phases == [state.phase EXCEPT ![w] = "failed"]
  <2>1. phases \in [Windows -> Offer!Phases] /\ phases[w] = "failed"
    BY <1>1
  <2> HIDE DEF phases
  <2>2. /\ state' \in Offers /\ state'.prepared = state.prepared /\ state'.lock = state.lock
        /\ state'.phase = phases /\ state'.of = state.of
    BY <1>1, <1>2, <2>1 DEF Offers, phases
  <2>3. OnlyMoves(w, "failed")
    BY <2>2 DEF OnlyMoves, phases
  <2>4. MovesAlone(w)
    BY <1>1, <2>3, Moves, Zenon
  <2>5. Relies(state', w)
    BY <2>1, <2>2 DEF Relies
  <2>6. QED BY <2>4, <2>5, OthersRely
<1>3. CASE /\ state.lock[state.of[w]] = Nobody
           /\ state' = [state EXCEPT !.phase[w] = "locked", !.lock[state.of[w]] = w]
  <2> DEFINE phases == [state.phase EXCEPT ![w] = "locked"]
             locked == [state.lock EXCEPT ![state.of[w]] = w]
  <2>1. /\ phases \in [Windows -> Offer!Phases] /\ phases[w] = "locked"
        /\ \A v \in Windows \ {w} : phases[v] = state.phase[v]
        /\ locked \in [Offer!Commits -> Windows \cup {Nobody}] /\ locked[state.of[w]] = w
        /\ \A c \in Offer!Commits : locked[c] = state.lock[c] \/ state.lock[c] \in {w, Nobody}
    BY <1>1, <1>3
  <2> HIDE DEF phases, locked
  <2>2. /\ state' \in Offers /\ state'.prepared = state.prepared /\ state'.lock = locked
        /\ state'.phase = phases /\ state'.of = state.of
    BY <1>1, <1>3, <2>1 DEF Offers, phases, locked
  <2>3. MovesAlone(w)
    BY <2>1, <2>2 DEF MovesAlone
  <2>4. Relies(state', w)
    BY <1>1, <2>1, <2>2 DEF Relies
  <2>5. QED BY <2>3, <2>4, OthersRely
<1>4. QED BY <1>2, <1>3 DEF Offer!Lock, Offer!MayEnter

LEMMA OfferLooks ==
  ASSUME Offer!UpdateOfferAssumption, OfferInv, NEW w \in Windows,
         Offer!Look(w) \/ Offer!Extract(w)
  PROVE  OfferInv'
<1> DEFINE prepared == state.prepared[state.of[w]]
<1>1. /\ state \in Offers /\ Relies(state, w) /\ state.phase \in [Windows -> Offer!Phases]
      /\ state.work \in [Windows -> Pieces]
      /\ {"prepared", "remove", "extract"} \subseteq Offer!Phases
      /\ state.of[w] \in Offer!Commits /\ state.lock[state.of[w]] = w
  BY DEF OfferInv, Offers, Offer!Phases, Relies, Offer!Look, Offer!Extract, Offer!At
<1>2. ASSUME NEW phase \in {"remove", "extract"}, NEW work \in [Windows -> Pieces],
             phase = "remove" => "marker" \notin prepared,
             phase = "extract" => prepared = {},
             state' = [state EXCEPT !.phase = [state.phase EXCEPT ![w] = phase], !.work = work]
      PROVE  OfferInv'
  <2> DEFINE phases == [state.phase EXCEPT ![w] = phase]
  <2>1. phases \in [Windows -> Offer!Phases] /\ phases[w] = phase
    BY <1>1
  <2> HIDE DEF phases
  <2>2. /\ state' \in Offers /\ state'.prepared = state.prepared /\ state'.lock = state.lock
        /\ state'.phase = phases /\ state'.of = state.of
    BY <1>1, <1>2, <2>1 DEF Offers, phases
  <2>3. OnlyMoves(w, phase)
    BY <2>2 DEF OnlyMoves, phases
  <2>4. MovesAlone(w)
    BY <1>1, <2>3, Moves, Zenon
  <2>5. Relies(state', w)
    BY <1>1, <1>2, <2>1, <2>2 DEF Relies
  <2>6. QED BY <2>4, <2>5, OthersRely
<1>3. CASE Offer!Extract(w)
  <2> DEFINE work == [state.work EXCEPT ![w] = IF @ = {} THEN {"files"} ELSE Offer!Release]
  <2>1. work \in [Windows -> Pieces]
    <3>1. {"files"} \in Pieces /\ Offer!Release \in Pieces
      BY DEF Pieces, Offer!Release
    <3>2. QED BY <1>1, <3>1
  <2>2. state.phase[w] = "extract" /\ prepared = {}
    BY <1>1, <1>3 DEF Offer!Extract, Offer!At, Relies
  <2>3. state' = [state EXCEPT !.work = work]
    BY <1>3 DEF Offer!Extract
  <2> HIDE DEF work
  <2>4. state' = [state EXCEPT !.phase = [state.phase EXCEPT ![w] = "extract"], !.work = work]
    <3>1. [state.phase EXCEPT ![w] = "extract"] = state.phase
      BY <1>1, <2>2
    <3>2. QED BY <1>1, <2>3, <3>1 DEF Offers
  <2>5. QED BY <1>2, <2>1, <2>2, <2>4
<1>4. CASE Offer!Look(w)
  <2>1. CASE Offer!Reusable(prepared)
    <3>1. state' = [Offer!Unlocked(state, w) EXCEPT !.phase[w] = "prepared"]
      BY <1>4, <2>1 DEF Offer!Look
    <3>2. prepared = Offer!Release
      BY <1>1, <2>1 DEF OfferInv, Whole, Offer!Reusable
    <3>3. QED BY <1>1, <3>1, <3>2, LetsGo
  <2>2. CASE ~Offer!Reusable(prepared) /\ prepared # {}
    <3>1. state' = [state EXCEPT !.phase = [state.phase EXCEPT ![w] = "remove"],
                                 !.work = state.work]
      BY <1>1, <1>4, <2>2 DEF Offer!Look, Offers
    <3>2. QED BY <1>1, <1>2, <2>2, <3>1 DEF Offer!Reusable
  <2>3. CASE ~Offer!Reusable(prepared) /\ prepared = {}
    <3>1. state' = [state EXCEPT !.phase = [state.phase EXCEPT ![w] = "extract"],
                                 !.work = state.work]
      BY <1>1, <1>4, <2>3 DEF Offer!Look, Offers
    <3>2. QED BY <1>1, <1>2, <2>3, <3>1
  <2>4. QED BY <2>1, <2>2, <2>3
<1>5. QED BY <1>3, <1>4

(* What is prepared changes only under the lock of the window that         *)
(* prepares it, and nobody has prepared it before.                         *)
LEMMA OfferReplaces ==
  ASSUME Offer!UpdateOfferAssumption, OfferInv, NEW w \in Windows,
         state.phase[w] \in {"remove", "extract"},
         NEW parts \in Pieces, "marker" \in parts => parts = Offer!Release,
         state' \in Offers,
         state'.prepared = [state.prepared EXCEPT ![state.of[w]] = parts],
         \A v \in Windows \ {w} : state'.phase[v] = state.phase[v] /\ state'.of[v] = state.of[v],
         \A c \in Offer!Commits : state'.lock[c] = state.lock[c] \/ state.lock[c] \in {w, Nobody},
         Relies(state', w)
  PROVE  OfferInv'
<1>1. /\ state \in Offers /\ Relies(state, w)
      /\ state.prepared \in [Offer!Commits -> Pieces]
      /\ state.of[w] \in Offer!Commits /\ state.lock[state.of[w]] = w
      /\ "marker" \notin state.prepared[state.of[w]]
  BY DEF OfferInv, Offers, Relies
<1>2. /\ state'.prepared[state.of[w]] = parts
      /\ \A c \in Offer!Commits : c # state.of[w] => state'.prepared[c] = state.prepared[c]
  BY <1>1
<1>3. ASSUME NEW v \in Windows \ {w} PROVE Relies(state', v)
  <2>1. Relies(state, v) /\ state'.phase[v] = state.phase[v] /\ state'.of[v] = state.of[v]
        /\ v # Nobody
    BY DEF OfferInv, Offer!UpdateOfferAssumption
  <2>2. CASE state.phase[v] \in {"locked", "remove", "extract"}
    <3>1. state.of[v] \in Offer!Commits /\ state.lock[state.of[v]] = v
      BY <2>1, <2>2 DEF Relies
    <3>2. state.of[v] # state.of[w] /\ state'.lock[state.of[v]] = v
      BY <1>1, <2>1, <3>1
    <3>3. QED BY <1>2, <2>1, <3>1, <3>2 DEF Relies
  <2>3. CASE state.phase[v] \in {"prepared", "helper"}
    <3>1. state.of[v] \in Offer!Commits /\ state.prepared[state.of[v]] = Offer!Release
      BY <2>1, <2>3 DEF Relies
    <3>2. state.of[v] # state.of[w]
      BY <1>1, <3>1 DEF Offer!Release
    <3>3. QED BY <1>2, <2>1, <2>3, <3>1, <3>2 DEF Relies
  <2>4. CASE state.phase[v] \notin {"locked", "remove", "extract", "prepared", "helper"}
    BY <2>1, <2>4 DEF Relies
  <2>5. QED BY <2>2, <2>3, <2>4
<1>4. Whole(state')
  BY <1>1, <1>2 DEF OfferInv, Whole
<1>5. \A v \in Windows : Relies(state', v)
  BY <1>3
<1>6. QED BY <1>4, <1>5 DEF OfferInv

LEMMA OfferRemoves ==
  ASSUME Offer!UpdateOfferAssumption, OfferInv, NEW w \in Windows, Offer!Remove(w)
  PROVE  OfferInv'
<1> DEFINE c == state.of[w]
<1>1. /\ state \in Offers /\ Relies(state, w) /\ state.phase \in [Windows -> Offer!Phases]
      /\ state.prepared \in [Offer!Commits -> Pieces] /\ state.phase[w] = "remove"
      /\ "extract" \in Offer!Phases /\ c \in Offer!Commits /\ state.lock[c] = w
      /\ "marker" \notin state.prepared[c]
  BY DEF OfferInv, Offers, Offer!Phases, Relies, Offer!Remove, Offer!At
<1>2. CASE state.prepared[c] = {}
  <2> DEFINE phases == [state.phase EXCEPT ![w] = "extract"]
  <2>1. phases \in [Windows -> Offer!Phases] /\ phases[w] = "extract"
    BY <1>1
  <2>2. state' = [state EXCEPT !.phase = phases]
    BY <1>2 DEF Offer!Remove
  <2> HIDE DEF phases
  <2>3. /\ state' \in Offers /\ state'.prepared = state.prepared /\ state'.lock = state.lock
        /\ state'.phase = phases /\ state'.of = state.of
    BY <1>1, <2>1, <2>2 DEF Offers
  <2>4. OnlyMoves(w, "extract")
    BY <2>3 DEF OnlyMoves, phases
  <2>5. MovesAlone(w)
    BY <1>1, <2>4, Moves, Zenon
  <2>6. Relies(state', w)
    BY <1>1, <1>2, <2>1, <2>3 DEF Relies
  <2>7. QED BY <2>5, <2>6, OthersRely
<1>3. CASE state.prepared[c] # {}
  <2>1. PICK piece \in state.prepared[c] :
          state' = [state EXCEPT !.prepared[c] = state.prepared[c] \ {piece}]
    BY <1>3 DEF Offer!Remove
  <2> DEFINE parts == state.prepared[c] \ {piece}
             prepared == [state.prepared EXCEPT ![c] = parts]
  <2>2. /\ parts \in Pieces /\ "marker" \notin parts
        /\ prepared \in [Offer!Commits -> Pieces] /\ prepared[c] = parts
    BY <1>1 DEF Pieces
  <2>3. state' = [state EXCEPT !.prepared = prepared]
    BY <2>1
  <2>4. prepared = [state.prepared EXCEPT ![state.of[w]] = parts]
    OBVIOUS
  <2> HIDE DEF parts, prepared
  <2>5. /\ state' \in Offers /\ state'.prepared = prepared /\ state'.lock = state.lock
        /\ state'.phase = state.phase /\ state'.of = state.of
    BY <1>1, <2>2, <2>3 DEF Offers
  <2>6. Relies(state', w)
    BY <1>1, <2>2, <2>5 DEF Relies
  <2>7. QED BY <1>1, <2>2, <2>4, <2>5, <2>6, OfferReplaces
<1>4. QED BY <1>2, <1>3

LEMMA OfferPublishes ==
  ASSUME Offer!UpdateOfferAssumption, OfferInv, NEW w \in Windows, Offer!Publish(w)
  PROVE  OfferInv'
<1> DEFINE locked == [c \in Offer!Commits |-> IF state.lock[c] = w THEN Nobody ELSE state.lock[c]]
           work == [state.work EXCEPT ![w] = {}]
           phases == [state.phase EXCEPT ![w] = "prepared"]
           prepared == [state.prepared EXCEPT ![state.of[w]] = Offer!Release]
           u == Offer!Unlocked(state, w)
<1>1. /\ state \in Offers /\ Relies(state, w) /\ state.phase \in [Windows -> Offer!Phases]
      /\ state.lock \in [Offer!Commits -> Windows \cup {Nobody}]
      /\ state.work \in [Windows -> Pieces] /\ state.work[w] = Offer!Release
      /\ state.prepared \in [Offer!Commits -> Pieces]
      /\ "prepared" \in Offer!Phases /\ state.phase[w] = "extract"
      /\ state.of[w] \in Offer!Commits
  BY DEF OfferInv, Offers, Offer!Phases, Relies, Offer!Publish, Offer!At
<1>2. /\ locked \in [Offer!Commits -> Windows \cup {Nobody}] /\ work \in [Windows -> Pieces]
      /\ phases \in [Windows -> Offer!Phases] /\ phases[w] = "prepared"
      /\ \A v \in Windows \ {w} : phases[v] = state.phase[v]
      /\ \A c \in Offer!Commits : locked[c] = state.lock[c] \/ state.lock[c] \in {w, Nobody}
      /\ Offer!Release \in Pieces /\ prepared \in [Offer!Commits -> Pieces]
      /\ prepared[state.of[w]] = Offer!Release
  BY <1>1 DEF Pieces
<1>3. u = [state EXCEPT !.lock = locked, !.work = work]
  BY <1>1 DEF Offer!Unlocked
<1> HIDE DEF locked, work, u
<1>4. u \in Offers /\ u.phase = state.phase /\ u.lock = locked /\ u.work = work
      /\ u.prepared = state.prepared /\ u.of = state.of
  BY <1>1, <1>2, <1>3 DEF Offers
<1>5. state' = [u EXCEPT !.prepared = prepared, !.phase = phases]
  BY <1>1, <1>4 DEF Offer!Publish, u
<1> HIDE DEF phases
<1>6. prepared = [state.prepared EXCEPT ![state.of[w]] = Offer!Release]
  OBVIOUS
<1> HIDE DEF prepared
<1>7. /\ state' \in Offers /\ state'.phase = phases /\ state'.lock = locked
      /\ state'.prepared = prepared /\ state'.of = state.of
  BY <1>2, <1>4, <1>5 DEF Offers
<1>8. Relies(state', w)
  BY <1>1, <1>2, <1>7 DEF Relies
<1>9. QED BY <1>1, <1>2, <1>6, <1>7, <1>8, OfferReplaces

LEMMA OfferEnds ==
  ASSUME Offer!UpdateOfferAssumption, OfferInv, NEW w \in Windows,
         Offer!Abort(w) \/ Offer!Launch(w) \/ Offer!HelperEnds(w) \/ Offer!Close(w)
  PROVE  OfferInv'
<1>1. /\ state \in Offers /\ Relies(state, w) /\ state.phase \in [Windows -> Offer!Phases]
      /\ state.of \in [Windows -> Counts]
      /\ {"failed", "closed", "helper", "gone"} \subseteq Offer!Phases
      /\ state.installed \in Counts
  BY DEF OfferInv, Offers, Offer!Phases
<1>2. ASSUME NEW phase \in {"closed", "helper", "gone"}, NEW installed \in Counts,
             phase = "helper" => state.phase[w] = "prepared",
             state' = [state EXCEPT !.phase = [state.phase EXCEPT ![w] = phase],
                                    !.installed = installed]
      PROVE  OfferInv'
  <2> DEFINE phases == [state.phase EXCEPT ![w] = phase]
  <2>1. phases \in [Windows -> Offer!Phases] /\ phases[w] = phase
    BY <1>1
  <2> HIDE DEF phases
  <2>2. /\ state' \in Offers /\ state'.prepared = state.prepared /\ state'.lock = state.lock
        /\ state'.phase = phases /\ state'.of = state.of
    BY <1>1, <1>2, <2>1 DEF Offers, phases
  <2>3. OnlyMoves(w, phase)
    BY <2>2 DEF OnlyMoves, phases
  <2>4. MovesAlone(w)
    BY <1>1, <2>3, Moves, Zenon
  <2>5. Relies(state', w)
    BY <1>1, <1>2, <2>1, <2>2 DEF Relies
  <2>6. QED BY <2>4, <2>5, OthersRely
<1>3. CASE Offer!Abort(w)
  BY <1>1, <1>3, LetsGo DEF Offer!Abort
<1>4. CASE Offer!Close(w)
  BY <1>1, <1>4, LetsGo DEF Offer!Close
<1>5. CASE Offer!Launch(w)
  <2>1. PICK next \in {"helper", "closed"} : state' = [state EXCEPT !.phase[w] = next]
    BY <1>5 DEF Offer!Launch
  <2>2. state' = [state EXCEPT !.phase = [state.phase EXCEPT ![w] = next],
                               !.installed = state.installed]
    BY <1>1, <2>1 DEF Offers
  <2>3. state.phase[w] = "prepared"
    BY <1>5 DEF Offer!Launch, Offer!At
  <2>4. QED BY <1>1, <1>2, <2>2, <2>3
<1>6. CASE Offer!HelperEnds(w)
  <2>1. PICK installed \in {state.installed, state.of[w]} :
          state' = [state EXCEPT !.phase[w] = "gone", !.installed = installed]
    BY <1>6 DEF Offer!HelperEnds
  <2>2. installed \in Counts
    BY <1>1
  <2>3. QED BY <1>2, <2>1, <2>2
<1>7. QED BY <1>3, <1>4, <1>5, <1>6

LEMMA OfferInvariant ==
  ASSUME Offer!UpdateOfferAssumption PROVE Offer!Spec => []OfferInv
<1>1. Offer!Init => OfferInv
  <2> SUFFICES ASSUME Offer!Init PROVE OfferInv
    OBVIOUS
  <2>1. PICK left \in {{}, {"files"}} :
          state = [main |-> 1, installed |-> 0, seen |-> 0,
                   prepared |-> [c \in Offer!Commits |-> IF c = 1 THEN left ELSE {}],
                   lock |-> [c \in Offer!Commits |-> Nobody],
                   phase |-> [w \in Windows |-> "open"], of |-> [w \in Windows |-> 0],
                   work |-> [w \in Windows |-> {}]]
    BY DEF Offer!Init
  <2> DEFINE prepared == [c \in Offer!Commits |-> IF c = 1 THEN left ELSE {}]
             locked == [c \in Offer!Commits |-> Nobody]
             phase == [w \in Windows |-> "open"]
             of == [w \in Windows |-> 0]
             work == [w \in Windows |-> {}]
  <2>2. /\ 1 \in Offer!Commits /\ 0 \in Counts /\ left \in Pieces /\ "marker" \notin left
        /\ {} \in Pieces /\ "open" \in Offer!Phases
    BY DEF Offer!UpdateOfferAssumption, Offer!Commits, Counts, Pieces, Offer!Release, Offer!Phases
  <2>3. /\ prepared \in [Offer!Commits -> Pieces]
        /\ \A c \in Offer!Commits : "marker" \notin prepared[c]
        /\ locked \in [Offer!Commits -> Windows \cup {Nobody}]
        /\ phase \in [Windows -> Offer!Phases] /\ \A w \in Windows : phase[w] = "open"
        /\ of \in [Windows -> Counts] /\ work \in [Windows -> Pieces]
    BY <2>2
  <2> HIDE DEF prepared, locked, phase, of, work
  <2>4. state = [main |-> 1, installed |-> 0, seen |-> 0, prepared |-> prepared,
                 lock |-> locked, phase |-> phase, of |-> of, work |-> work]
    BY <2>1 DEF prepared, locked, phase, of, work
  <2>5. state \in Offers /\ state.prepared = prepared /\ state.phase = phase
    BY <2>2, <2>3, <2>4 DEF Offers
  <2>6. QED BY <2>3, <2>5 DEF OfferInv, Whole, Relies
<1>2. ASSUME OfferInv, [Offer!Next]_state PROVE OfferInv'
  <2>1. CASE UNCHANGED state
    BY <1>2, <2>1 DEF OfferInv
  <2>2. CASE Offer!Commit
    <3>1. state' = [state EXCEPT !.main = state.main + 1] /\ state.main + 1 \in Offer!Commits
          /\ state \in Offers
      BY <1>2, <2>2 DEF Offer!Commit, Offer!Commits, OfferInv, Offers, Offer!UpdateOfferAssumption
    <3>2. /\ state' \in Offers /\ state'.prepared = state.prepared
          /\ state'.lock = state.lock /\ state'.phase = state.phase /\ state'.of = state.of
      BY <3>1 DEF Offers
    <3>3. QED BY <1>2, <3>2 DEF OfferInv, Whole, Relies
  <2>3. QED BY <1>2, <2>1, <2>2, OfferAsks, OfferLocks, OfferLooks, OfferRemoves,
               OfferPublishes, OfferEnds DEF Offer!Next
<1>3. QED BY <1>1, <1>2, PTL DEF Offer!Spec

(* A release that a window has prepared is whole when the helper reads it: *)
(* whatever other windows download, look at or clean up at the same time,  *)
(* what carries the marker is complete and stays.                          *)
THEOREM OfferKeepsPrepared ==
  ASSUME Offer!UpdateOfferAssumption
  PROVE  Offer!Spec => [](Offer!TypeOK /\ Offer!PreparedStays)
<1>1. OfferInv => Offer!TypeOK
  BY DEF OfferInv, Offers, Counts, Pieces, Offer!TypeOK
<1>2. OfferInv => Offer!PreparedStays
  BY DEF OfferInv, Whole, Relies, Offer!PreparedStays
<1>3. QED BY <1>1, <1>2, OfferInvariant, PTL


-------------------------------------------------------------------------------
(* The settings of the firmwares.                                          *)

Edits  == 0..MaxEdits
Turns  == 0..MaxGeneration
Report == [generation : Turns, overrides : Settings!Profile]

WindowStates ==
  [firmware : Firmwares, overrides : Settings!Profile,
   phase : {"idle", "apply", "save", "map", "write map", "killed"}, generation : Turns,
   old : [firmware : Firmwares, overrides : Settings!Profile], restarts : BOOLEAN,
   read : Settings!File, detecting : SUBSET Report, states : SUBSET Report]

AllSettings ==
  [file : Settings!File, lock : ProfileWindows \cup {Nobody}, edits : Edits,
   win : [ProfileWindows -> WindowStates], last : Settings!File]

(* The firmware that the reports of the current generation are about: a    *)
(* change of it counts only once it is saved.                              *)
Current(x) == IF x.phase \in {"apply", "save"} THEN x.old.firmware ELSE x.firmware

(* A window's settings are its firmware's, now and before the change it is *)
(* making, and so are the reports it still takes; a change of firmware     *)
(* makes the older reports stale.                                          *)
Belongs(x) ==
  /\ x.overrides.of = x.firmware /\ x.old.overrides.of = x.old.firmware
  /\ x.phase \in {"apply", "save"} =>
       x.generation < MaxGeneration /\ (~x.restarts => x.firmware = x.old.firmware)
  /\ \A r \in x.detecting \cup x.states :
       /\ r.generation <= x.generation
       /\ r.generation = x.generation => r.overrides.of = Current(x)

(* Between its reading of the file and its writing a window has the lock,  *)
(* and the file is as it was read.                                         *)
ReadIsFresh(s, w) ==
  s.win[w].phase \in {"save", "write map"} => s.lock = w /\ s.win[w].read = s.file

FileBelongs(file) == \A f \in Firmwares : file.profiles[f].of = f

SettingsInv ==
  /\ state \in AllSettings /\ state.file = state.last
  /\ FileBelongs(state.file)
  /\ \A w \in ProfileWindows : Belongs(state.win[w]) /\ ReadIsFresh(state, w)

(* A window moves on; it may take or free the lock, and the file changes   *)
(* only under it.                                                          *)
WindowMoves(w, x) ==
  /\ state' \in AllSettings /\ state'.win = [state.win EXCEPT ![w] = x]
  /\ state'.file = state'.last
  /\ state'.lock = state.lock \/ state.lock = w \/ state.lock = Nobody
  /\ state'.file = state.file \/ state.lock = w

LEMMA OthersStayFresh ==
  ASSUME Settings!ProfilesAssumption, SettingsInv, NEW w \in ProfileWindows, NEW x \in WindowStates,
         WindowMoves(w, x), Belongs(x), FileBelongs(state'.file),
         x.phase \in {"save", "write map"} => state'.lock = w /\ x.read = state'.file
  PROVE  SettingsInv'
<1>1. state.win \in [ProfileWindows -> WindowStates] /\ Nobody \notin ProfileWindows
  BY DEF SettingsInv, AllSettings, Settings!ProfilesAssumption
<1>2. state'.win[w] = x /\ \A v \in ProfileWindows \ {w} : state'.win[v] = state.win[v]
  BY <1>1 DEF WindowMoves
<1>3. \A v \in ProfileWindows : Belongs(state'.win[v])
  BY <1>2 DEF SettingsInv
<1>4. ASSUME NEW v \in ProfileWindows PROVE ReadIsFresh(state', v)
  <2>1. CASE v = w
    BY <1>2, <2>1 DEF ReadIsFresh
  <2>2. CASE v # w
    <3>1. ReadIsFresh(state, v) /\ state'.win[v] = state.win[v]
      BY <1>2, <2>2 DEF SettingsInv
    <3>2. state.win[v].phase \in {"save", "write map"} =>
            state'.lock = v /\ state'.file = state.file
      BY <1>1, <2>2, <3>1 DEF ReadIsFresh, WindowMoves
    <3>3. QED BY <3>1, <3>2 DEF ReadIsFresh
  <2>3. QED BY <2>1, <2>2
<1>5. QED BY <1>3, <1>4 DEF SettingsInv, WindowMoves

(* A window's own step, with the file and the lock as they are.            *)
LEMMA StepsInPlace ==
  ASSUME Settings!ProfilesAssumption, SettingsInv, NEW w \in ProfileWindows, NEW x \in WindowStates,
         NEW edits \in Edits, NEW locked \in ProfileWindows \cup {Nobody},
         state' = [state EXCEPT !.edits = edits, !.lock = locked,
                                      !.win = [state.win EXCEPT ![w] = x]],
         locked = state.lock \/ state.lock = w \/ state.lock = Nobody,
         Belongs(x),
         x.phase \in {"save", "write map"} => locked = w /\ x.read = state.file
  PROVE  SettingsInv'
<1> DEFINE win == [state.win EXCEPT ![w] = x]
<1>1. state \in AllSettings /\ state.win \in [ProfileWindows -> WindowStates]
  BY DEF SettingsInv, AllSettings
<1>2. win \in [ProfileWindows -> WindowStates]
  BY <1>1
<1> HIDE DEF win
<1>3. /\ state' \in AllSettings /\ state'.file = state.file
      /\ state'.last = state.last /\ state'.lock = locked /\ state'.win = win
  BY <1>1, <1>2 DEF AllSettings, win
<1>4. WindowMoves(w, x)
  BY <1>3 DEF WindowMoves, SettingsInv, win
<1>5. FileBelongs(state'.file)
  BY <1>3 DEF SettingsInv
<1>6. QED BY <1>3, <1>4, <1>5, OthersStayFresh

LEMMA ProfileMade ==
  ASSUME NEW f \in Firmwares, NEW edit \in Edits
  PROVE  Settings!Made(f, edit) \in Settings!Profile /\ Settings!Made(f, edit).of = f
BY DEF Settings!Made, Settings!Profile, Edits

LEMMA SettingsApply ==
  ASSUME Settings!ProfilesAssumption, SettingsInv, NEW w \in ProfileWindows, NEW f \in Firmwares,
         NEW edits \in BOOLEAN, NEW restarts \in BOOLEAN,
         Settings!Apply(w, f, edits, restarts)
  PROVE  SettingsInv'
<1> DEFINE x == state.win[w]
           overrides == Settings!Chosen(w, f, edits)
           old == [firmware |-> x.firmware, overrides |-> x.overrides]
           n == [x EXCEPT !.phase = "apply", !.firmware = f, !.restarts = restarts,
                          !.overrides = overrides, !.old = old]
           count == IF edits THEN state.edits + 1 ELSE state.edits
<1>1. /\ state \in AllSettings /\ x \in WindowStates /\ Belongs(x)
      /\ state.edits \in Edits /\ state.lock \in ProfileWindows \cup {Nobody}
      /\ state.file \in Settings!File /\ FileBelongs(state.file)
      /\ MaxEdits \in Nat /\ MaxGeneration \in Nat
  BY DEF SettingsInv, AllSettings, Settings!ProfilesAssumption
<1>2. /\ x.phase = "idle" /\ x.generation < MaxGeneration
      /\ edits => state.edits < MaxEdits
      /\ f # x.firmware => restarts
      /\ ~edits /\ f = x.firmware => ~restarts
  BY DEF Settings!Apply, Settings!Idle, Settings!Win
<1>3. count \in Edits /\ (edits => state.edits + 1 \in Edits)
  BY <1>1, <1>2 DEF Edits
<1>4. overrides \in Settings!Profile /\ overrides.of = f
  <2>1. CASE edits
    <3>1. overrides = Settings!Made(f, state.edits + 1)
      BY <2>1 DEF Settings!Chosen
    <3>2. QED BY <1>3, <2>1, <3>1, ProfileMade
  <2>2. CASE ~edits /\ f # x.firmware
    <3>1. overrides = state.file.profiles[f]
      BY <2>2 DEF Settings!Chosen, Settings!Win
    <3>2. QED BY <1>1, <3>1 DEF Settings!File, FileBelongs
  <2>3. CASE ~edits /\ f = x.firmware
    <3>1. overrides = x.overrides
      BY <2>3 DEF Settings!Chosen, Settings!Win
    <3>2. QED BY <1>1, <2>3, <3>1 DEF WindowStates, Belongs
  <2>4. QED BY <2>1, <2>2, <2>3
<1>5. state' = [state EXCEPT !.edits = count, !.lock = state.lock,
                                   !.win = [state.win EXCEPT ![w] = n]]
  <2>1. state' = [state EXCEPT !.edits = count, !.win[w] = n]
    BY DEF Settings!Apply, Settings!Win
  <2> HIDE DEF n, count
  <2>2. QED BY <1>1, <2>1 DEF AllSettings
<1>6. /\ x.firmware \in Firmwares /\ x.overrides \in Settings!Profile
      /\ old \in [firmware : Firmwares, overrides : Settings!Profile]
      /\ old.firmware = x.firmware /\ old.overrides = x.overrides
  BY <1>1 DEF WindowStates
<1> HIDE DEF overrides, old, x, count
<1>7. /\ n \in WindowStates /\ n.phase = "apply" /\ n.firmware = f
      /\ n.restarts = restarts /\ n.overrides = overrides /\ n.old = old
      /\ n.generation = x.generation /\ n.detecting = x.detecting /\ n.states = x.states
  BY <1>1, <1>4, <1>6 DEF WindowStates
<1> HIDE DEF n
<1>8. Belongs(n)
  BY <1>1, <1>2, <1>4, <1>6, <1>7 DEF Belongs, Current
<1>9. QED BY <1>1, <1>3, <1>5, <1>7, <1>8, StepsInPlace DEF x

LEMMA SettingsLock ==
  ASSUME Settings!ProfilesAssumption, SettingsInv, NEW w \in ProfileWindows, Settings!LockAndRead(w)
  PROVE  SettingsInv'
<1> DEFINE x == state.win[w]
           phase == IF x.phase = "apply" THEN "save" ELSE "write map"
           n == [x EXCEPT !.phase = phase, !.read = state.file]
<1>1. /\ state \in AllSettings /\ x \in WindowStates /\ Belongs(x)
      /\ state.edits \in Edits /\ state.file \in Settings!File
      /\ x.phase \in {"apply", "map"} /\ state.lock = Nobody
  BY DEF SettingsInv, AllSettings, Settings!LockAndRead, Settings!MayLock, Settings!Win
<1>2. state' = [state EXCEPT !.edits = state.edits, !.lock = w,
                                   !.win = [state.win EXCEPT ![w] = n]]
  <2>1. state' = [state EXCEPT !.lock = w, !.win[w] = n]
    BY DEF Settings!LockAndRead, Settings!Win
  <2> HIDE DEF n
  <2>2. QED BY <1>1, <2>1 DEF AllSettings
<1>3. /\ phase \in {"save", "write map"}
      /\ phase = "save" <=> x.phase = "apply"
  OBVIOUS
<1> HIDE DEF x, phase
<1>4. /\ n \in WindowStates /\ n.phase = phase /\ n.read = state.file
      /\ n.firmware = x.firmware /\ n.overrides = x.overrides /\ n.old = x.old
      /\ n.restarts = x.restarts
      /\ n.generation = x.generation /\ n.detecting = x.detecting /\ n.states = x.states
  BY <1>1, <1>3 DEF WindowStates
<1> HIDE DEF n
<1>5. Belongs(n)
  BY <1>1, <1>3, <1>4 DEF Belongs, Current
<1>6. QED BY <1>1, <1>2, <1>4, <1>5, StepsInPlace DEF x

LEMMA CleanIsFile ==
  ASSUME Settings!ProfilesAssumption
  PROVE  Settings!Clean \in Settings!File
<1>1. 0 \in Edits
  BY DEF Settings!ProfilesAssumption, Edits
<1>2. \A f \in Firmwares : Settings!Made(f, 0) \in Settings!Profile
  BY <1>1, ProfileMade
<1>3. QED BY <1>1, <1>2 DEF Settings!Clean, Settings!File, Edits

LEMMA WindowOpens ==
  ASSUME Settings!ProfilesAssumption, NEW f \in Firmwares
  PROVE  Settings!Opened(f) \in WindowStates /\ Belongs(Settings!Opened(f))
<1> DEFINE made == Settings!Made(f, 0)
           x == Settings!Opened(f)
<1>1. 0 \in Edits /\ 0 \in Turns
  BY DEF Settings!ProfilesAssumption, Edits, Turns
<1>2. made \in Settings!Profile /\ made.of = f
  BY <1>1, ProfileMade
<1>3. Settings!Clean \in Settings!File
  BY CleanIsFile
<1> HIDE DEF made
<1>4. x = [firmware |-> f, overrides |-> made, phase |-> "idle", generation |-> 0,
           old |-> [firmware |-> f, overrides |-> made], restarts |-> FALSE,
           read |-> Settings!Clean,
           detecting |-> {[generation |-> 0, overrides |-> made]}, states |-> {}]
  BY DEF Settings!Opened, made
<1>5. [generation |-> 0, overrides |-> made] \in Report
  BY <1>1, <1>2 DEF Report
<1> HIDE DEF x
<1>6. x \in WindowStates
  BY <1>1, <1>2, <1>3, <1>4, <1>5 DEF WindowStates
<1>7. Belongs(x)
  BY <1>2, <1>4 DEF Belongs, Current
<1>8. QED BY <1>6, <1>7 DEF x

LEMMA WindowIsIdle ==
  ASSUME Settings!ProfilesAssumption, NEW x \in WindowStates, Belongs(x),
         x.phase \notin {"apply", "save"},
         NEW n, n = [x EXCEPT !.phase = "idle", !.read = Settings!Clean]
  PROVE  n \in WindowStates /\ Belongs(n) /\ n.phase = "idle"
<1>1. Settings!Clean \in Settings!File
  BY CleanIsFile
<1>2. /\ n \in WindowStates /\ n.phase = "idle"
      /\ n.firmware = x.firmware /\ n.overrides = x.overrides /\ n.old = x.old
      /\ n.generation = x.generation /\ n.detecting = x.detecting /\ n.states = x.states
  BY <1>1 DEF WindowStates
<1>3. QED BY <1>2 DEF Belongs, Current

(* A restart begins a generation that no report is of yet.                 *)
LEMMA RestartBelongs ==
  ASSUME Settings!ProfilesAssumption, NEW x \in WindowStates, Belongs(x), x.phase = "save",
         NEW n, n = [Settings!Restarted(x) EXCEPT !.phase = "idle", !.read = Settings!Clean]
  PROVE  n \in WindowStates /\ Belongs(n) /\ n.phase = "idle"
<1>1. Settings!Clean \in Settings!File
  BY CleanIsFile
<1>2. CASE ~x.restarts
  <2>1. n = [x EXCEPT !.phase = "idle", !.read = Settings!Clean]
    BY <1>2 DEF Settings!Restarted
  <2>2. /\ n \in WindowStates /\ n.phase = "idle"
        /\ n.firmware = x.firmware /\ n.overrides = x.overrides /\ n.old = x.old
        /\ n.generation = x.generation /\ n.detecting = x.detecting /\ n.states = x.states
    BY <1>1, <2>1 DEF WindowStates
  <2>3. QED BY <1>2, <2>2 DEF Belongs, Current
<1>3. CASE x.restarts
  <2> DEFINE report == [generation |-> x.generation + 1, overrides |-> x.overrides]
             detecting == x.detecting \cup {report}
  <2>1. /\ x.generation \in Turns /\ x.generation + 1 \in Turns
        /\ x.overrides \in Settings!Profile /\ x.detecting \subseteq Report
        /\ x.states \subseteq Report
    <3>1. /\ x.generation \in Turns /\ x.overrides \in Settings!Profile
          /\ x.detecting \subseteq Report /\ x.states \subseteq Report
      BY DEF WindowStates
    <3>2. x.generation < MaxGeneration
      BY DEF Belongs
    <3>3. MaxGeneration \in Nat
      BY DEF Settings!ProfilesAssumption
    <3>4. x.generation + 1 \in Turns
      BY <3>1, <3>2, <3>3 DEF Turns
    <3>5. QED BY <3>1, <3>4
  <2>2. /\ report \in Report /\ report.generation = x.generation + 1
        /\ report.overrides = x.overrides /\ detecting \in SUBSET Report
    BY <2>1 DEF Report
  <2>3. n = [x EXCEPT !.generation = x.generation + 1, !.detecting = detecting,
                      !.phase = "idle", !.read = Settings!Clean]
    BY <1>3 DEF Settings!Restarted, WindowStates
  <2>4. \A r \in detecting : r \in x.detecting \/ r = report
    OBVIOUS
  <2> HIDE DEF detecting, report
  <2>5. /\ n \in WindowStates /\ n.phase = "idle"
        /\ n.firmware = x.firmware /\ n.overrides = x.overrides /\ n.old = x.old
        /\ n.generation = x.generation + 1 /\ n.detecting = detecting /\ n.states = x.states
    BY <1>1, <2>1, <2>2, <2>3 DEF WindowStates
  <2>6. ASSUME NEW r \in n.detecting \cup n.states
        PROVE  /\ r.generation <= n.generation
               /\ r.generation = n.generation => r.overrides.of = Current(n)
    <3>1. CASE r = report
      BY <2>1, <2>2, <2>5, <3>1 DEF Belongs, Current, Turns
    <3>2. CASE r \in x.detecting \cup x.states
      <4>1. r.generation <= x.generation /\ r.generation \in Turns
        BY <2>1, <3>2 DEF Belongs, Report
      <4>2. QED BY <2>1, <2>5, <4>1 DEF Turns
    <3>3. QED BY <2>4, <2>5, <3>1, <3>2
  <2>7. n.overrides.of = n.firmware /\ n.old.overrides.of = n.old.firmware
    BY <2>5 DEF Belongs
  <2>8. QED BY <2>5, <2>6, <2>7 DEF Belongs
<1>4. QED BY <1>2, <1>3


(* A window that writes has read what the file still is: it replaces one   *)
(* entry, and nothing else.                                                *)
LEMMA SettingsWriteProfile ==
  ASSUME Settings!ProfilesAssumption, SettingsInv, NEW w \in ProfileWindows, Settings!WriteProfile(w)
  PROVE  SettingsInv'
<1> DEFINE x == state.win[w]
           f == x.firmware
           n == [Settings!Restarted(x) EXCEPT !.phase = "idle", !.read = Settings!Clean]
           file == [state.file EXCEPT !.profiles[f] = x.overrides]
           win == [state.win EXCEPT ![w] = n]
           locked == Settings!Free(w)
<1>1. /\ state \in AllSettings /\ x \in WindowStates /\ Belongs(x) /\ x.phase = "save"
      /\ state.file \in Settings!File /\ state.last = state.file
      /\ FileBelongs(state.file) /\ state.lock = w /\ x.read = state.file
      /\ state.win \in [ProfileWindows -> WindowStates]
  BY DEF SettingsInv, AllSettings, ReadIsFresh, Settings!WriteProfile, Settings!Win
<1>2. n \in WindowStates /\ Belongs(n) /\ n.phase = "idle"
  BY <1>1, RestartBelongs
<1>3. f \in Firmwares /\ x.overrides \in Settings!Profile /\ x.overrides.of = f
  BY <1>1 DEF WindowStates, Belongs
<1>4. locked = Nobody
  BY <1>1 DEF Settings!Free
<1>5. /\ file \in Settings!File /\ FileBelongs(file)
  <2>1. state.file.profiles \in [Firmwares -> Settings!Profile]
    BY <1>1 DEF Settings!File
  <2> DEFINE profiles == [state.file.profiles EXCEPT ![f] = x.overrides]
  <2>2. profiles \in [Firmwares -> Settings!Profile]
    BY <1>3, <2>1
  <2>3. \A g \in Firmwares : profiles[g].of = g
    BY <1>1, <1>3, <2>1 DEF FileBelongs
  <2>4. file = [state.file EXCEPT !.profiles = profiles]
    BY <1>1 DEF Settings!File
  <2> HIDE DEF profiles, file, f, x
  <2>5. file \in Settings!File /\ file.profiles = profiles
    BY <1>1, <2>2, <2>4 DEF Settings!File
  <2>6. QED BY <2>3, <2>5 DEF FileBelongs
<1>6. state' = [state EXCEPT !.lock = locked, !.file = file, !.last = file, !.win = win]
  <2>1. state' = [state EXCEPT !.lock = locked,
          !.file = [x.read EXCEPT !.profiles[f] = x.overrides],
          !.last.profiles[f] = x.overrides, !.win[w] = n]
    BY DEF Settings!WriteProfile, Settings!Win
  <2>2. [x.read EXCEPT !.profiles[f] = x.overrides] = file
    BY <1>1
  <2>3. [state.last EXCEPT !.profiles[f] = x.overrides] = file
    BY <1>1
  <2> HIDE DEF n, locked, x, f, file
  <2>4. QED BY <1>1, <2>1, <2>2, <2>3 DEF AllSettings
<1>7. win \in [ProfileWindows -> WindowStates]
  BY <1>1, <1>2
<1> HIDE DEF n, locked, file, win
<1>8. /\ state' \in AllSettings /\ state'.file = file /\ state'.last = file
      /\ state'.win = win
  BY <1>1, <1>4, <1>5, <1>6, <1>7 DEF AllSettings
<1>9. WindowMoves(w, n)
  BY <1>1, <1>8 DEF WindowMoves, win
<1>10. QED BY <1>2, <1>5, <1>8, <1>9, OthersStayFresh

LEMMA SettingsWriteKey ==
  ASSUME Settings!ProfilesAssumption, SettingsInv, NEW w \in ProfileWindows, Settings!WriteKey(w)
  PROVE  SettingsInv'
<1> DEFINE x == state.win[w]
           f == x.firmware
           n == [x EXCEPT !.phase = "idle", !.read = Settings!Clean]
           file == [state.file EXCEPT !.keymaps[f] = state.edits]
           win == [state.win EXCEPT ![w] = n]
           locked == Settings!Free(w)
<1>1. /\ state \in AllSettings /\ x \in WindowStates /\ Belongs(x) /\ x.phase = "write map"
      /\ state.file \in Settings!File /\ state.last = state.file
      /\ FileBelongs(state.file) /\ state.lock = w /\ x.read = state.file
      /\ state.win \in [ProfileWindows -> WindowStates] /\ state.edits \in Edits
  BY DEF SettingsInv, AllSettings, ReadIsFresh, Settings!WriteKey, Settings!Win
<1>2. n \in WindowStates /\ Belongs(n) /\ n.phase = "idle"
  BY <1>1, WindowIsIdle
<1>3. f \in Firmwares
  BY <1>1 DEF WindowStates
<1>4. locked = Nobody
  BY <1>1 DEF Settings!Free
<1>5. file \in Settings!File /\ FileBelongs(file)
  <2>1. state.file.keymaps \in [Firmwares -> Edits]
    BY <1>1 DEF Settings!File, Edits
  <2> DEFINE keymaps == [state.file.keymaps EXCEPT ![f] = state.edits]
  <2>2. keymaps \in [Firmwares -> Edits]
    BY <1>1, <1>3, <2>1
  <2>4. file = [state.file EXCEPT !.keymaps = keymaps]
    BY <1>1 DEF Settings!File
  <2> HIDE DEF keymaps, file, f, x
  <2>5. file \in Settings!File /\ file.profiles = state.file.profiles
    BY <1>1, <2>2, <2>4 DEF Settings!File, Edits
  <2>6. QED BY <1>1, <2>5 DEF FileBelongs
<1>6. state' = [state EXCEPT !.lock = locked, !.file = file, !.last = file, !.win = win]
  <2>1. state' = [state EXCEPT !.lock = locked,
          !.file = [x.read EXCEPT !.keymaps[f] = state.edits],
          !.last.keymaps[f] = state.edits, !.win[w] = n]
    BY DEF Settings!WriteKey, Settings!Win
  <2>2. [x.read EXCEPT !.keymaps[f] = state.edits] = file
    BY <1>1
  <2>3. [state.last EXCEPT !.keymaps[f] = state.edits] = file
    BY <1>1
  <2> HIDE DEF n, locked, x, f, file
  <2>4. QED BY <1>1, <2>1, <2>2, <2>3 DEF AllSettings
<1>7. win \in [ProfileWindows -> WindowStates]
  BY <1>1, <1>2
<1> HIDE DEF n, locked, file, win
<1>8. /\ state' \in AllSettings /\ state'.file = file /\ state'.last = file
      /\ state'.win = win
  BY <1>1, <1>4, <1>5, <1>6, <1>7 DEF AllSettings
<1>9. WindowMoves(w, n)
  BY <1>1, <1>8 DEF WindowMoves, win
<1>10. QED BY <1>2, <1>5, <1>8, <1>9, OthersStayFresh

LEMMA SettingsSaveFails ==
  ASSUME Settings!ProfilesAssumption, SettingsInv, NEW w \in ProfileWindows, Settings!SaveFails(w)
  PROVE  SettingsInv'
<1> DEFINE x == state.win[w]
           back == IF x.phase \in {"apply", "save"} THEN Settings!Restored(x) ELSE x
           n == [back EXCEPT !.phase = "idle", !.read = Settings!Clean]
           locked == Settings!Free(w)
<1>1. /\ state \in AllSettings /\ x \in WindowStates /\ Belongs(x)
      /\ state.edits \in Edits /\ state.lock \in ProfileWindows \cup {Nobody}
      /\ Settings!Clean \in Settings!File
  BY CleanIsFile DEF SettingsInv, AllSettings
<1>2. state' = [state EXCEPT !.edits = state.edits, !.lock = locked,
                                   !.win = [state.win EXCEPT ![w] = n]]
  <2>1. state' = [state EXCEPT !.lock = locked, !.win[w] = n]
    BY DEF Settings!SaveFails, Settings!Win
  <2> HIDE DEF n, locked
  <2>2. QED BY <1>1, <2>1 DEF AllSettings
<1>3. n \in WindowStates /\ Belongs(n) /\ n.phase = "idle"
  <2>1. CASE x.phase \in {"apply", "save"}
    <3>1. n = [x EXCEPT !.overrides = x.old.overrides, !.firmware = x.old.firmware,
                        !.phase = "idle", !.read = Settings!Clean]
      BY <2>1 DEF Settings!Restored
    <3>2. x.old.overrides \in Settings!Profile /\ x.old.firmware \in Firmwares
      BY <1>1 DEF WindowStates
    <3> HIDE DEF n, back, x
    <3>3. /\ n \in WindowStates /\ n.phase = "idle"
          /\ n.firmware = x.old.firmware /\ n.overrides = x.old.overrides /\ n.old = x.old
          /\ n.generation = x.generation /\ n.detecting = x.detecting /\ n.states = x.states
      BY <1>1, <3>1, <3>2 DEF WindowStates
    <3>4. QED BY <1>1, <2>1, <3>3 DEF Belongs, Current
  <2>2. CASE x.phase \notin {"apply", "save"}
    BY <1>1, <2>2, WindowIsIdle
  <2>3. QED BY <2>1, <2>2
<1>4. /\ locked \in ProfileWindows \cup {Nobody}
      /\ locked = state.lock \/ state.lock = w
  BY <1>1 DEF Settings!Free
<1> HIDE DEF n, locked
<1>5. QED BY <1>1, <1>2, <1>3, <1>4, StepsInPlace

LEMMA SettingsEditKey ==
  ASSUME Settings!ProfilesAssumption, SettingsInv, NEW w \in ProfileWindows, Settings!EditKey(w)
  PROVE  SettingsInv'
<1> DEFINE x == state.win[w]
           n == [x EXCEPT !.phase = "map"]
           count == state.edits + 1
<1>1. /\ state \in AllSettings /\ x \in WindowStates /\ Belongs(x) /\ x.phase = "idle"
      /\ state.edits \in Edits /\ state.lock \in ProfileWindows \cup {Nobody}
      /\ state.edits < MaxEdits /\ MaxEdits \in Nat
  BY DEF SettingsInv, AllSettings, Settings!EditKey, Settings!Idle, Settings!Win,
         Settings!ProfilesAssumption
<1>2. state' = [state EXCEPT !.edits = count, !.lock = state.lock,
                                   !.win = [state.win EXCEPT ![w] = n]]
  <2>1. state' = [state EXCEPT !.edits = count, !.win[w].phase = "map"]
    BY DEF Settings!EditKey
  <2>2. QED BY <1>1, <2>1 DEF AllSettings
<1>3. count \in Edits
  BY <1>1 DEF Edits
<1> HIDE DEF x, count
<1>4. /\ n \in WindowStates /\ n.phase = "map"
      /\ n.firmware = x.firmware /\ n.overrides = x.overrides /\ n.old = x.old
      /\ n.generation = x.generation /\ n.detecting = x.detecting /\ n.states = x.states
  BY <1>1 DEF WindowStates
<1> HIDE DEF n
<1>5. Belongs(n)
  BY <1>1, <1>4 DEF Belongs, Current
<1>6. QED BY <1>1, <1>2, <1>3, <1>4, <1>5, StepsInPlace DEF x

LEMMA SettingsDetect ==
  ASSUME Settings!ProfilesAssumption, SettingsInv, NEW w \in ProfileWindows, Settings!Detect(w)
  PROVE  SettingsInv'
<1> DEFINE x == state.win[w]
<1>1. PICK r \in x.detecting :
        state' = [state EXCEPT !.win[w].detecting = x.detecting \ {r},
                                     !.win[w].states = x.states \cup {r}]
  BY DEF Settings!Detect, Settings!Win, SettingsInv, AllSettings
<1> DEFINE n == [x EXCEPT !.detecting = x.detecting \ {r}, !.states = x.states \cup {r}]
<1>2. /\ state \in AllSettings /\ x \in WindowStates /\ Belongs(x)
      /\ ReadIsFresh(state, w)
      /\ state.edits \in Edits /\ state.lock \in ProfileWindows \cup {Nobody}
  BY DEF SettingsInv, AllSettings
<1>3. state' = [state EXCEPT !.edits = state.edits, !.lock = state.lock,
                                   !.win = [state.win EXCEPT ![w] = n]]
  BY <1>1, <1>2 DEF AllSettings
<1>4. /\ x.detecting \ {r} \in SUBSET Report /\ x.states \cup {r} \in SUBSET Report
      /\ (x.detecting \ {r}) \cup (x.states \cup {r}) = x.detecting \cup x.states
  BY <1>1, <1>2 DEF WindowStates
<1>5. x.phase \in {"save", "write map"} => state.lock = w /\ x.read = state.file
  BY <1>2 DEF ReadIsFresh
<1> HIDE DEF x
<1>6. /\ n \in WindowStates /\ n.phase = x.phase /\ n.read = x.read
      /\ n.firmware = x.firmware /\ n.overrides = x.overrides /\ n.old = x.old
      /\ n.restarts = x.restarts /\ n.generation = x.generation
      /\ n.detecting \cup n.states = x.detecting \cup x.states
  BY <1>2, <1>4 DEF WindowStates
<1> HIDE DEF n
<1>7. Belongs(n)
  BY <1>2, <1>6 DEF Belongs, Current
<1>8. QED BY <1>2, <1>3, <1>5, <1>6, <1>7, StepsInPlace DEF x

(* Only the reports of the current generation count, and they are about    *)
(* the firmware of an idle window.                                         *)
LEMMA SettingsRefresh ==
  ASSUME Settings!ProfilesAssumption, SettingsInv, NEW w \in ProfileWindows, Settings!Refresh(w)
  PROVE  SettingsInv'
<1> DEFINE x == state.win[w]
           found == {r.overrides : r \in {y \in x.states : Settings!Counts(w, y)}}
           overrides == IF found = {} THEN x.overrides ELSE CHOOSE o \in found : TRUE
           n == [x EXCEPT !.states = {}, !.overrides = overrides]
<1>1. /\ state \in AllSettings /\ x \in WindowStates /\ Belongs(x) /\ x.phase = "idle"
      /\ state.edits \in Edits /\ state.lock \in ProfileWindows \cup {Nobody}
  BY DEF SettingsInv, AllSettings, Settings!Refresh, Settings!Idle, Settings!Win
<1>2. state' = [state EXCEPT !.edits = state.edits, !.lock = state.lock,
                                   !.win = [state.win EXCEPT ![w] = n]]
  <2>1. state' = [state EXCEPT !.win[w].states = {}, !.win[w].overrides = overrides]
    BY <1>1 DEF Settings!Refresh, Settings!Win, AllSettings, WindowStates
  <2> HIDE DEF overrides
  <2>2. QED BY <1>1, <2>1 DEF AllSettings
<1>3. \A o \in found : o \in Settings!Profile /\ o.of = x.firmware
  <2>1. TAKE o \in found
  <2>2. PICK r \in x.states : r.generation = x.generation /\ o = r.overrides
    BY DEF Settings!Counts, Settings!Win
  <2>3. QED BY <1>1, <2>2 DEF Belongs, Current, WindowStates, Report
<1>4. overrides \in Settings!Profile /\ overrides.of = x.firmware
  <2>1. CASE found = {}
    BY <1>1, <2>1 DEF WindowStates, Belongs
  <2>2. CASE found # {}
    <3>1. overrides \in found
      BY <2>2
    <3> HIDE DEF found, overrides
    <3>2. QED BY <1>3, <3>1
  <2>3. QED BY <2>1, <2>2
<1> HIDE DEF x, found, overrides
<1>5. /\ n \in WindowStates /\ n.phase = "idle"
      /\ n.firmware = x.firmware /\ n.overrides = overrides /\ n.old = x.old
      /\ n.generation = x.generation /\ n.detecting = x.detecting /\ n.states = {}
  BY <1>1, <1>4 DEF WindowStates
<1> HIDE DEF n
<1>6. Belongs(n)
  BY <1>1, <1>4, <1>5 DEF Belongs, Current
<1>7. QED BY <1>1, <1>2, <1>5, <1>6, StepsInPlace DEF x

LEMMA SettingsKill ==
  ASSUME Settings!ProfilesAssumption, SettingsInv, NEW w \in ProfileWindows, Settings!Kill(w)
  PROVE  SettingsInv'
<1> DEFINE f == state.win[w].firmware
           opened == Settings!Opened(f)
           n == [opened EXCEPT !.phase = "killed", !.detecting = {}]
           locked == Settings!Free(w)
<1>1. /\ state \in AllSettings /\ f \in Firmwares
      /\ state.edits \in Edits /\ state.lock \in ProfileWindows \cup {Nobody}
  BY DEF SettingsInv, AllSettings, WindowStates
<1>2. state' = [state EXCEPT !.edits = state.edits, !.lock = locked,
                                   !.win = [state.win EXCEPT ![w] = n]]
  <2>1. state' = [state EXCEPT !.lock = locked, !.win[w] = n]
    BY DEF Settings!Kill, Settings!Win
  <2> HIDE DEF n, locked
  <2>2. QED BY <1>1, <2>1 DEF AllSettings
<1>3. opened \in WindowStates /\ Belongs(opened)
  BY <1>1, WindowOpens
<1> HIDE DEF opened
<1>4. /\ n \in WindowStates /\ n.phase = "killed"
      /\ n.firmware = opened.firmware /\ n.overrides = opened.overrides /\ n.old = opened.old
      /\ n.generation = opened.generation /\ n.detecting = {} /\ n.states = opened.states
  BY <1>3 DEF WindowStates
<1>5. opened.phase = "idle"
  BY DEF opened, Settings!Opened
<1>6. /\ locked \in ProfileWindows \cup {Nobody}
      /\ locked = state.lock \/ state.lock = w
  BY <1>1 DEF Settings!Free
<1> HIDE DEF n, locked
<1>7. Belongs(n)
  BY <1>3, <1>4, <1>5 DEF Belongs, Current
<1>8. QED BY <1>1, <1>2, <1>4, <1>6, <1>7, StepsInPlace

LEMMA SettingsStart ==
  ASSUME Settings!ProfilesAssumption, Settings!Init
  PROVE  SettingsInv
<1>1. PICK firmware \in [ProfileWindows -> Firmwares] :
        state = [file |-> Settings!Clean, lock |-> Nobody, edits |-> 0,
                    win |-> [w \in ProfileWindows |-> Settings!Opened(firmware[w])],
                    last |-> Settings!Clean]
  BY DEF Settings!Init
<1> DEFINE win == [w \in ProfileWindows |-> Settings!Opened(firmware[w])]
<1>2. \A w \in ProfileWindows : /\ win[w] \in WindowStates /\ Belongs(win[w])
                         /\ win[w].phase = "idle"
  <2>1. TAKE w \in ProfileWindows
  <2>2. firmware[w] \in Firmwares /\ win[w] = Settings!Opened(firmware[w])
    OBVIOUS
  <2>3. Settings!Opened(firmware[w]).phase = "idle"
    BY DEF Settings!Opened
  <2>4. QED BY <2>2, <2>3, WindowOpens
<1>3. win \in [ProfileWindows -> WindowStates]
  BY <1>2
<1>4. Settings!Clean \in Settings!File /\ 0 \in Edits
  BY CleanIsFile DEF Settings!ProfilesAssumption, Edits
<1>5. FileBelongs(Settings!Clean)
  BY DEF FileBelongs, Settings!Clean, Settings!Made
<1> HIDE DEF win
<1>6. state = [file |-> Settings!Clean, lock |-> Nobody, edits |-> 0, win |-> win,
                  last |-> Settings!Clean]
  BY <1>1 DEF win
<1>7. state \in AllSettings
  BY <1>3, <1>4, <1>6 DEF AllSettings
<1>8. QED BY <1>2, <1>5, <1>6, <1>7 DEF SettingsInv, ReadIsFresh

(* Whatever windows save at the same time, what one saved stays until a    *)
(* window saves the same entry again, and no window uses or saves the      *)
(* settings of another firmware: the file lock covers the reading and the  *)
(* writing, a failed save restores the firmware with its settings, and the *)
(* reports of an earlier generation do not count (gui/controls.py).        *)
THEOREM SettingsStayAndBelong ==
  ASSUME Settings!ProfilesAssumption
  PROVE  Settings!Spec =>
           [](Settings!TypeOK /\ Settings!SavedStays /\ Settings!ProfilesBelong)
<1>1. Settings!Init => SettingsInv
  BY SettingsStart
<1>2. SettingsInv /\ [Settings!Next]_state => SettingsInv'
  <2>1. ASSUME SettingsInv, [Settings!Next]_state PROVE SettingsInv'
    <3>1. CASE Settings!Next
      <4>1. PICK w \in ProfileWindows :
              \/ \E f \in Firmwares, edits, restarts \in BOOLEAN :
                   Settings!Apply(w, f, edits, restarts)
              \/ Settings!LockAndRead(w) \/ Settings!WriteProfile(w)
              \/ Settings!SaveFails(w)
              \/ Settings!EditKey(w) \/ Settings!WriteKey(w)
              \/ Settings!Detect(w) \/ Settings!Refresh(w) \/ Settings!Kill(w)
        BY <3>1, Zenon DEF Settings!Next
      <4>2. CASE \E f \in Firmwares, edits, restarts \in BOOLEAN :
                   Settings!Apply(w, f, edits, restarts)
        BY <2>1, <4>2, SettingsApply, Zenon
      <4>3. QED BY <2>1, <4>1, <4>2, SettingsLock, SettingsWriteProfile, SettingsSaveFails,
                   SettingsEditKey, SettingsWriteKey, SettingsDetect, SettingsRefresh,
                   SettingsKill, Zenon
    <3>2. CASE UNCHANGED state
      BY <2>1, <3>2 DEF SettingsInv, ReadIsFresh
    <3>3. QED BY <2>1, <3>1, <3>2
  <2>2. QED BY <2>1
<1>3. SettingsInv => Settings!TypeOK /\ Settings!SavedStays /\ Settings!ProfilesBelong
  BY DEF SettingsInv, AllSettings, WindowStates, Belongs, FileBelongs, Report, Turns,
         Settings!TypeOK, Settings!SavedStays, Settings!ProfilesBelong, Settings!Win
<1>4. QED BY <1>1, <1>2, <1>3, PTL DEF Settings!Spec

-------------------------------------------------------------------------------
(* The way of a key to the emulator, for any keys, sources of key events,  *)
(* detected profiles and lengths of the two queues.                        *)

KeyEvent == ({"press", "release"} \X Pad!Sources) \cup {<<"focusout">>}

(* The inductive invariants.                                               *)

(* The commands q under way for a key end with what the window holds of it *)
(* in h; a press carries the key's manual event, a release none.           *)
Without(q, k) == \A i \in DOMAIN q : q[i][1] # k

KeyCurrent(q, h) ==
  \A i \in DOMAIN q :
    (\A j \in DOMAIN q : j > i => q[j][1] # q[i][1]) => q[i][2] = (h[q[i][1]] # {})

EventOf(k, pressed) == IF pressed THEN Manual[k] ELSE NoEvent

Shaped(q) == \A i \in DOMAIN q : q[i][3] = EventOf(q[i][1], q[i][2])

(* A key that has a producer is never put in the matrix, another one never *)
(* given to a producer.                                                    *)
OwnWay == sideHeld \subseteq profile.sideband /\ heldKeys \cap profile.sideband = {}

(* A manual mapping keeps a key with its producer, or off the producers.   *)
(* The run KeypadManual refutes NoStuckKey where it does not.              *)
ManualKeepsWay ==
  \A prof \in PadProfiles, k \in PadKeys :
    Manual[k] # NoEvent =>
      (k \in prof.sideband <=> \E j \in prof.sideband : SidebandEvent[j] = Manual[k])

(* The guest has run since the last edge, or this iteration has one.       *)
FreshHasEdge == ~ edged => fresh = {}

(* The window's tables agree: a source holds only its key, and a keyboard  *)
(* source exactly while it is active.                                      *)
KeyHolds(s) == s \in held[KeyOf[s]]

OwnKey    == \A k \in PadKeys : \A s \in held[k] : KeyOf[s] = k
ActiveIsHeld == \A s \in Keyboard : KeyHolds(s) <=> s \in active

(* A key is held only of an emulator that can be given it.                 *)
HeldIsAccepted ==
  \A s \in Pad!Sources : KeyHolds(s) => loop # "absent" /\ Pad!CanSetKey(KeyOf[s], Manual[KeyOf[s]])

(* What the event queue q still says of a source s.                        *)
Finishes(e, s)   == e = <<"release", s>> \/ (e = <<"focusout">> /\ s \in Keyboard)
Renews(e, s) == e = <<"press", s>> \/ e = <<"focusout">>

NoPress(q, s)  == \A i \in DOMAIN q : q[i] # <<"press", s>>
EndsIn(q, s)   == \E i \in DOMAIN q :
                    /\ Finishes(q[i], s)
                    /\ \A j \in DOMAIN q : j > i => q[j] # <<"press", s>>
Renewal(q, s)  == \E i \in DOMAIN q : Renews(q[i], s)
Renewed(q, s)  == \A i \in DOMAIN q :
                    q[i] = <<"release", s>> => \E j \in DOMAIN q : j > i /\ Renews(q[j], s)

Away(s) == s \in Keyboard /\ ~ focus

(* A source that is up, or out of the window's sight, has its end in the   *)
(* queue with no press behind it; or nothing presses it any more and it    *)
(* holds nothing, or is about to be confirmed.                             *)
UpEnd(s) ==
  EndsIn(events, s) \/ (NoPress(events, s) /\ (s \in releasing \/ ~ KeyHolds(s)))

UpEnds == \A s \in Pad!Sources : s \notin down \/ Away(s) => UpEnd(s)

(* A release of a key that is down, or out of sight, is followed in the    *)
(* queue by its next press or by the loss of the focus; one that is about  *)
(* to be confirmed as well, if it still holds the key.                     *)
DownRenew(s) ==
  /\ Renewed(events, s)
  /\ s \in releasing /\ KeyHolds(s) => Renewal(events, s)

DownRenews == \A s \in Keyboard : s \in down \/ Away(s) => DownRenew(s)

QueueInv ==
  Pad!TypeOK /\ Shaped(Pad!InFlight) /\ KeyCurrent(Pad!InFlight, held) /\ OwnWay /\ Pad!NoStuckKey
HeldInv == Pad!TypeOK /\ OwnKey /\ ActiveIsHeld /\ HeldIsAccepted /\ UpEnds /\ DownRenews

(* Lemmas about the queues.                                                *)

(* The instance counts sets as the library does.                           *)
LEMMA PadFiniteSets ==
  \A S : Pad!Cardinality(S) = Cardinality(S) /\ (Pad!IsFiniteSet(S) <=> IsFiniteSet(S))
  BY DEF Pad!Cardinality, Cardinality, Pad!IsFiniteSet, IsFiniteSet

(* SetToSeq names every element of a finite set.                           *)
LEMMA SetToSeqNames ==
  ASSUME NEW K, IsFiniteSet(K)
  PROVE  /\ Pad!SetToSeq(K) \in Seq(K)
         /\ \A k \in K : \E i \in DOMAIN Pad!SetToSeq(K) : Pad!SetToSeq(K)[i] = k
  <1> DEFINE n == Cardinality(K)
             f == Pad!SetToSeq(K)
  <1>1. n \in Nat /\ ExistsBijection(1..n, K)
    BY FS_CardinalityType
  <1>2. PICK g \in Bijection(1..n, K) : TRUE
    BY <1>1 DEF ExistsBijection
  <1>3. g \in [1..n -> K] /\ IsInjective(g)
    BY <1>2 DEF Bijection, Injection
  <1>4. f \in [1..n -> K] /\ IsInjective(f)
    <2>1. f = CHOOSE h \in [1..n -> K] : IsInjective(h)
      BY PadFiniteSets DEF Pad!SetToSeq, Pad!IsInjective, IsInjective
    <2>2. QED BY <1>3, <2>1
  <1>5. IsFiniteSet(1..n) /\ Cardinality(1..n) = n
    BY <1>1, FS_Interval
  <1>6. f \in Surjection(1..n, K)
    BY <1>4, <1>5, FS_Injection DEF Injection
  <1> QED
    BY <1>1, <1>4, <1>6, SeqDef DEF Surjection

(* Releases(K) releases every key of K, and nothing else.                  *)
LEMMA ReleasesOf ==
  ASSUME Pad!KeypadAssumption, NEW K \in SUBSET PadKeys
  PROVE  /\ Pad!Releases(K) \in Seq(Pad!Command)
         /\ \A i \in DOMAIN Pad!Releases(K) :
              \E k \in K : Pad!Releases(K)[i] = <<k, FALSE, NoEvent>>
         /\ \A k \in K : \E i \in DOMAIN Pad!Releases(K) : Pad!Releases(K)[i][1] = k
  <1> DEFINE order == Pad!SetToSeq(K)
  <1>1. order \in Seq(K) /\ \A k \in K : \E i \in DOMAIN order : order[i] = k
    BY FS_Subset, SetToSeqNames, PadFiniteSets DEF Pad!KeypadAssumption
  <1>2. Pad!Releases(K) = [i \in DOMAIN order |-> <<order[i], FALSE, NoEvent>>]
    BY DEF Pad!Releases
  <1>3. DOMAIN order = 1..Len(order) /\ Len(order) \in Nat
    BY <1>1, LenProperties
  <1>4. \A i \in DOMAIN order : order[i] \in K
    BY <1>1, <1>3, ElementOfSeq
  <1>5. \A k \in K : <<k, FALSE, NoEvent>> \in Pad!Command
    BY DEF Pad!Command
  <1>6. Pad!Releases(K) \in [1..Len(order) -> Pad!Command]
    BY <1>2, <1>3, <1>4, <1>5
  <1>7. Pad!Releases(K) \in Seq(Pad!Command)
    BY <1>3, <1>6, SeqDef
  <1>8. DOMAIN Pad!Releases(K) = DOMAIN order
        /\ \A i \in DOMAIN order : Pad!Releases(K)[i] = <<order[i], FALSE, NoEvent>>
    BY <1>2
  <1> HIDE DEF order
  <1>9. \A i \in DOMAIN order : Pad!Releases(K)[i][1] = order[i]
    <2> SUFFICES ASSUME NEW i \in DOMAIN order PROVE Pad!Releases(K)[i][1] = order[i]
      OBVIOUS
    <2>1. Pad!Releases(K)[i] = <<order[i], FALSE, NoEvent>>
      BY <1>8
    <2> QED
      BY <2>1
  <1>10. \A k \in K : \E i \in DOMAIN Pad!Releases(K) : Pad!Releases(K)[i][1] = k
    BY <1>1, <1>8, <1>9
  <1>11. \A i \in DOMAIN Pad!Releases(K) : \E k \in K : Pad!Releases(K)[i] = <<k, FALSE, NoEvent>>
    BY <1>4, <1>8
  <1> QED
    BY <1>7, <1>10, <1>11

(* What the head of the event queue says of a source is, once it is        *)
(* handled, said by the rest or by the window.                             *)
LEMMA Served ==
  ASSUME NEW q \in Seq(KeyEvent), q # <<>>, NEW s
  PROVE  /\ EndsIn(q, s) => EndsIn(Tail(q), s) \/ (Finishes(Head(q), s) /\ NoPress(Tail(q), s))
         /\ NoPress(q, s) => NoPress(Tail(q), s) /\ Head(q) # <<"press", s>>
         /\ Renewed(q, s) => /\ Renewed(Tail(q), s)
                             /\ Head(q) = <<"release", s>> => Renewal(Tail(q), s)
         /\ Renewal(q, s) => Renewal(Tail(q), s) \/ Renews(Head(q), s)
  <1> DEFINE t == Tail(q)
  <1>1. /\ Len(q) \in Nat /\ DOMAIN q = 1..Len(q) /\ Len(q) > 0 /\ Head(q) = q[1]
        /\ DOMAIN t = 1..(Len(q) - 1)
        /\ \A i \in 1..(Len(q) - 1) : t[i] = q[i + 1]
    BY HeadTailProperties, LenProperties, EmptySeq
  <1> HIDE DEF t
  <1>2. \A i \in DOMAIN q : i = 1 \/ (i - 1 \in DOMAIN t /\ q[i] = t[i - 1])
    BY <1>1
  <1>3. \A i \in DOMAIN t : i + 1 \in DOMAIN q /\ t[i] = q[i + 1]
    BY <1>1
  <1>4. EndsIn(q, s) => EndsIn(t, s) \/ (Finishes(Head(q), s) /\ NoPress(t, s))
    <2> HAVE EndsIn(q, s)
    <2>1. PICK i \in DOMAIN q : Finishes(q[i], s) /\ \A j \in DOMAIN q : j > i => q[j] # <<"press", s>>
      BY DEF EndsIn
    <2>2. CASE i = 1
      BY <2>1, <2>2, <1>1, <1>3 DEF NoPress
    <2>3. CASE i # 1
      <3>1. i - 1 \in DOMAIN t /\ t[i - 1] = q[i]
        BY <2>3, <1>2
      <3>2. \A j \in DOMAIN t : j > i - 1 => t[j] # <<"press", s>>
        <4> SUFFICES ASSUME NEW j \in DOMAIN t, j > i - 1
                     PROVE  t[j] # <<"press", s>>
          OBVIOUS
        <4>1. j + 1 \in DOMAIN q /\ t[j] = q[j + 1] /\ j + 1 > i
          BY <1>1, <1>3
        <4> QED
          BY <4>1, <2>1
      <3> QED
        BY <3>1, <3>2, <2>1 DEF EndsIn
    <2> QED
      BY <2>2, <2>3
  <1>5. NoPress(q, s) => NoPress(t, s) /\ Head(q) # <<"press", s>>
    BY <1>1, <1>3 DEF NoPress
  <1>6. Renewed(q, s) => Renewed(t, s) /\ (Head(q) = <<"release", s>> => Renewal(t, s))
    <2> HAVE Renewed(q, s)
    <2>1. Renewed(t, s)
      <3> SUFFICES ASSUME NEW i \in DOMAIN t, t[i] = <<"release", s>>
                   PROVE  \E j \in DOMAIN t : j > i /\ Renews(t[j], s)
        BY DEF Renewed
      <3>1. PICK j \in DOMAIN q : j > i + 1 /\ Renews(q[j], s)
        BY <1>3 DEF Renewed
      <3>2. j - 1 \in DOMAIN t /\ t[j - 1] = q[j] /\ j - 1 > i
        BY <3>1, <1>1, <1>2
      <3> QED
        BY <3>1, <3>2
    <2>2. ASSUME Head(q) = <<"release", s>> PROVE Renewal(t, s)
      <3>1. PICK j \in DOMAIN q : j > 1 /\ Renews(q[j], s)
        BY <2>2, <1>1 DEF Renewed
      <3> QED
        BY <3>1, <1>1, <1>2 DEF Renewal
    <2> QED
      BY <2>1, <2>2
  <1>7. Renewal(q, s) => Renewal(t, s) \/ Renews(Head(q), s)
    BY <1>1, <1>2 DEF Renewal
  <1> QED
    BY <1>4, <1>5, <1>6, <1>7 DEF t

(* What one more event at its end changes of what a queue says.            *)
LEMMA Queued ==
  ASSUME NEW q \in Seq(KeyEvent), NEW e \in KeyEvent, NEW s
  PROVE  /\ q \o <<e>> \in Seq(KeyEvent)
         /\ e # <<"press", s>> => /\ NoPress(q, s) => NoPress(q \o <<e>>, s)
                                  /\ EndsIn(q, s) \/ Finishes(e, s) => EndsIn(q \o <<e>>, s)
         /\ e # <<"release", s>> => (Renewed(q, s) \/ Renews(e, s) => Renewed(q \o <<e>>, s))
         /\ Renewal(q, s) \/ Renews(e, s) => Renewal(q \o <<e>>, s)
  <1> DEFINE r == q \o <<e>>
  <1>1. /\ Len(q) \in Nat /\ DOMAIN q = 1..Len(q)
        /\ r \in Seq(KeyEvent) /\ DOMAIN r = 1..(Len(q) + 1)
        /\ \A i \in 1..Len(q) : r[i] = q[i]
        /\ r[Len(q) + 1] = e
    <2>1. <<e>> \in Seq(KeyEvent) /\ Len(<<e>>) = 1 /\ <<e>>[1] = e
      OBVIOUS
    <2>2. /\ r \in Seq(KeyEvent) /\ Len(r) = Len(q) + 1
          /\ \A i \in 1..(Len(q) + 1) : r[i] = IF i <= Len(q) THEN q[i] ELSE <<e>>[i - Len(q)]
      BY <2>1, ConcatProperties
    <2>3. Len(q) \in Nat /\ DOMAIN q = 1..Len(q) /\ DOMAIN r = 1..Len(r)
      BY <2>2, LenProperties
    <2> QED
      BY <2>1, <2>2, <2>3
  <1> HIDE DEF r
  <1>2. \A i \in DOMAIN r : (i \in DOMAIN q /\ r[i] = q[i]) \/ (i = Len(q) + 1 /\ r[i] = e)
    BY <1>1
  <1>3. Len(q) + 1 \in DOMAIN r /\ \A i \in DOMAIN q : i \in DOMAIN r /\ r[i] = q[i]
    BY <1>1
  <1>4. \A i \in DOMAIN r : Len(q) + 1 > i <=> i \in DOMAIN q
    BY <1>1
  <1>5. e # <<"press", s>> /\ NoPress(q, s) => NoPress(r, s)
    BY <1>2 DEF NoPress
  <1>6. e # <<"press", s>> /\ EndsIn(q, s) => EndsIn(r, s)
    <2> SUFFICES ASSUME e # <<"press", s>>, EndsIn(q, s) PROVE EndsIn(r, s)
      OBVIOUS
    <2>1. PICK i \in DOMAIN q : Finishes(q[i], s) /\ \A j \in DOMAIN q : j > i => q[j] # <<"press", s>>
      BY DEF EndsIn
    <2>2. \A j \in DOMAIN r : j > i => r[j] # <<"press", s>>
      BY <2>1, <1>2
    <2> QED
      BY <2>1, <2>2, <1>3 DEF EndsIn
  <1>7. e # <<"press", s>> /\ Finishes(e, s) => EndsIn(r, s)
    <2>1. \A j \in DOMAIN r : ~ j > Len(q) + 1
      BY <1>1
    <2> QED
      BY <2>1, <1>1, <1>3 DEF EndsIn
  <1>8. e # <<"release", s>> /\ (Renewed(q, s) \/ Renews(e, s)) => Renewed(r, s)
    <2> SUFFICES ASSUME e # <<"release", s>>, Renewed(q, s) \/ Renews(e, s),
                        NEW i \in DOMAIN r, r[i] = <<"release", s>>
                 PROVE  \E j \in DOMAIN r : j > i /\ Renews(r[j], s)
      BY DEF Renewed
    <2>1. i \in DOMAIN q /\ r[i] = q[i]
      BY <1>2
    <2>2. CASE Renews(e, s)
      BY <2>1, <2>2, <1>1, <1>3, <1>4
    <2>3. CASE Renewed(q, s)
      BY <2>1, <2>3, <1>3 DEF Renewed
    <2> QED
      BY <2>2, <2>3
  <1>9. Renewal(q, s) \/ Renews(e, s) => Renewal(r, s)
    BY <1>1, <1>3 DEF Renewal
  <1> QED
    BY <1>1, <1>5, <1>6, <1>7, <1>8, <1>9 DEF r

(* The types.                                                              *)

LEMMA HeadIs ==
  ASSUME events \in Seq(KeyEvent), events # <<>>
  PROVE  /\ Head(events) \in KeyEvent /\ Tail(events) \in Seq(KeyEvent)
         /\ Head(events)[1] = "press" \/ Head(events)[1] = "release" =>
              /\ Head(events)[2] \in Pad!Sources
              /\ Head(events) = <<Head(events)[1], Head(events)[2]>>
         /\ Head(events)[1] = "focusout" => Head(events) = <<"focusout">>
  <1>1. Head(events) \in KeyEvent /\ Tail(events) \in Seq(KeyEvent)
    BY HeadTailProperties
  <1> QED
    BY <1>1 DEF KeyEvent

LEMMA CommandTypes ==
  ASSUME Pad!KeypadAssumption, commands \in Seq(Pad!Command)
  PROVE  /\ \A k \in PadKeys : Append(commands, <<k, TRUE, Manual[k]>>) \in Seq(Pad!Command)
         /\ \A K \in SUBSET PadKeys : commands \o Pad!Releases(K) \in Seq(Pad!Command)
         /\ commands # <<>> => Head(commands) \in Pad!Command /\ Tail(commands) \in Seq(Pad!Command)
  <1>1. \A k \in PadKeys : <<k, TRUE, Manual[k]>> \in Pad!Command
    BY DEF Pad!Command
  <1>2. \A K \in SUBSET PadKeys : commands \o Pad!Releases(K) \in Seq(Pad!Command)
    BY ReleasesOf, ConcatProperties
  <1>3. commands # <<>> => Head(commands) \in Pad!Command /\ Tail(commands) \in Seq(Pad!Command)
    BY HeadTailProperties
  <1>4. \A k \in PadKeys : Append(commands, <<k, TRUE, Manual[k]>>) \in Seq(Pad!Command)
    BY <1>1, AppendProperties
  <1> QED
    BY <1>2, <1>3, <1>4

LEMMA KeypadTypeInit == Pad!Init => Pad!TypeOK
  <1>1. Pad!Init => events \in Seq(KeyEvent) /\ commands \in Seq(Pad!Command)
    BY EmptySeq DEF Pad!Init
  <1> QED
    BY <1>1 DEF Pad!Init, Pad!TypeOK, KeyEvent

LEMMA ArrivesType ==
  ASSUME events \in Seq(KeyEvent), NEW new \in Seq(KeyEvent), Pad!Arrives(new)
  PROVE  events' \in Seq(KeyEvent)
  BY ConcatProperties DEF Pad!Arrives

(* KeyPress and KeyRelease, for the sources Tk gives them.                 *)
LEMMA KeyTypes ==
  ASSUME Pad!KeypadAssumption, Pad!TypeOK
  PROVE  /\ \A s \in Pad!Sources : Pad!KeyPress(s) => held' \in [PadKeys -> SUBSET Pad!Sources] /\ commands' \in Seq(Pad!Command)
         /\ \A S : Pad!KeyRelease(S) => held' \in [PadKeys -> SUBSET Pad!Sources] /\ commands' \in Seq(Pad!Command)
  <1>1. ASSUME NEW s \in Pad!Sources, Pad!KeyPress(s)
        PROVE  held' \in [PadKeys -> SUBSET Pad!Sources] /\ commands' \in Seq(Pad!Command)
    <2>1. KeyOf[s] \in PadKeys
      BY DEF Pad!KeypadAssumption
    <2> QED
      BY <1>1, <2>1, CommandTypes DEF Pad!KeyPress, Pad!TypeOK
  <1>2. ASSUME NEW S, Pad!KeyRelease(S)
        PROVE  held' \in [PadKeys -> SUBSET Pad!Sources] /\ commands' \in Seq(Pad!Command)
    BY <1>2, CommandTypes DEF Pad!KeyRelease, Pad!HeldAfterRelease, Pad!Freed, Pad!TypeOK
  <1> QED
    BY <1>1, <1>2

LEMMA SetKeyTypes ==
  ASSUME Pad!TypeOK, NEW k \in PadKeys, NEW pressed, NEW event, Pad!SetKey(k, pressed, event)
  PROVE  heldKeys' \subseteq PadKeys /\ sideHeld' \subseteq PadKeys /\ fresh' \subseteq PadKeys
  <1>1. heldKeys' \subseteq heldKeys \cup {k} /\ sideHeld' \subseteq sideHeld \cup {k}
    BY DEF Pad!SetKey
  <1>2. fresh' \subseteq fresh \cup heldKeys' \cup sideHeld'
    BY DEF Pad!SetKey
  <1> QED
    BY <1>1, <1>2 DEF Pad!TypeOK

LEMMA KeypadTypeStep == ASSUME Pad!KeypadAssumption, Pad!TypeOK, [Pad!Next]_(Pad!vars) PROVE Pad!TypeOK'
  <1> USE DEF Pad!desktop, Pad!window, Pad!worker, Pad!emulator, Pad!vars
  <1>1. ASSUME NEW s \in Pad!Sources, Pad!PushDown(s) \/ Pad!LetGo(s) \/ Pad!AutoRepeat(s), UNCHANGED profile
        PROVE  Pad!TypeOK'
    <2>1. <<>> \in Seq(KeyEvent) /\ << <<"press", s>> >> \in Seq(KeyEvent)
          /\ << <<"release", s>> >> \in Seq(KeyEvent)
          /\ << <<"release", s>>, <<"press", s>> >> \in Seq(KeyEvent)
      BY DEF KeyEvent
    <2>2. events' \in Seq(KeyEvent)
      BY <1>1, <2>1, ArrivesType
         DEF Pad!TypeOK, KeyEvent, Pad!PushDown, Pad!LetGo, Pad!AutoRepeat, Pad!Delivered
    <2> QED
      BY <1>1, <2>2 DEF Pad!TypeOK, KeyEvent, Pad!PushDown, Pad!LetGo, Pad!AutoRepeat
  <1>2. ASSUME Pad!FocusOut \/ Pad!FocusIn, UNCHANGED profile PROVE Pad!TypeOK'
    <2>1. << <<"focusout">> >> \in Seq(KeyEvent)
      BY DEF KeyEvent
    <2>2. events' \in Seq(KeyEvent)
      BY <1>2, <2>1, ArrivesType DEF Pad!TypeOK, KeyEvent, Pad!FocusOut, Pad!FocusIn
    <2> QED
      BY <1>2, <2>2 DEF Pad!TypeOK, KeyEvent, Pad!FocusOut, Pad!FocusIn
  <1>3. ASSUME Pad!HandlePress, UNCHANGED profile PROVE Pad!TypeOK'
    BY <1>3, HeadIs, KeyTypes DEF Pad!TypeOK, KeyEvent, Pad!HandlePress, Pad!Event
  <1>4. ASSUME Pad!HandleRelease, UNCHANGED profile PROVE Pad!TypeOK'
    BY <1>4, HeadIs, KeyTypes DEF Pad!TypeOK, KeyEvent, Pad!HandleRelease, Pad!Event
  <1>5. ASSUME Pad!HandleFocusOut, UNCHANGED profile PROVE Pad!TypeOK'
    BY <1>5, HeadIs, KeyTypes DEF Pad!TypeOK, KeyEvent, Pad!HandleFocusOut, Pad!Event
  <1>6. ASSUME NEW s \in Keyboard, Pad!ConfirmRelease(s), UNCHANGED profile PROVE Pad!TypeOK'
    BY <1>6, KeyTypes DEF Pad!TypeOK, Pad!ConfirmRelease
  <1>7. ASSUME Pad!Restart, UNCHANGED profile PROVE Pad!TypeOK'
    <2>1. commands' \in Seq(Pad!Command)
      BY <1>7, EmptySeq DEF Pad!Restart
    <2> QED
      BY <1>7, <2>1 DEF Pad!TypeOK, Pad!Restart
  <1>8. ASSUME Pad!EmulatorReady \/ Pad!NothingToTake \/ Pad!Run, UNCHANGED profile PROVE Pad!TypeOK'
    BY <1>8 DEF Pad!TypeOK, Pad!EmulatorReady, Pad!NothingToTake, Pad!Run
  <1>9. ASSUME Pad!TakeCommand, UNCHANGED profile PROVE Pad!TypeOK'
    <2> DEFINE c == IF pending # <<>> THEN pending ELSE Head(commands)
    <2>1. c \in Pad!Command /\ commands' \in Seq(Pad!Command)
      BY <1>9, CommandTypes DEF Pad!TypeOK, Pad!TakeCommand
    <2>2. c[1] \in PadKeys
      BY <2>1 DEF Pad!Command
    <2>3. CASE edged
      BY <1>9, <2>1, <2>3 DEF Pad!TypeOK, Pad!TakeCommand
    <2>4. CASE ~ edged
      <3>1. Pad!SetKey(c[1], c[2], c[3]) /\ pending' = <<>> /\ edged' = TRUE /\ UNCHANGED <<loop, Pad!desktop, Pad!window>>
        BY <1>9, <2>4 DEF Pad!TakeCommand
      <3>2. heldKeys' \subseteq PadKeys /\ sideHeld' \subseteq PadKeys /\ fresh' \subseteq PadKeys
        BY <2>2, <3>1, SetKeyTypes
      <3> QED
        BY <1>9, <2>1, <3>1, <3>2 DEF Pad!TypeOK
    <2> QED
      BY <2>3, <2>4
  <1>10. CASE UNCHANGED Pad!vars
    BY <1>10 DEF Pad!TypeOK, Pad!Command
  <1> QED
    BY <1>1, <1>2, <1>3, <1>4, <1>5, <1>6, <1>7, <1>8, <1>9, <1>10
       DEF Pad!Next, Pad!Desktop, Pad!Tk, Pad!Worker

(* The variables keep their types, for any keys, sources and profiles.     *)
THEOREM KeypadTypeCorrect == ASSUME Pad!KeypadAssumption PROVE Pad!Spec => []Pad!TypeOK
  <1>1. Pad!Init => Pad!TypeOK
    BY KeypadTypeInit
  <1>2. Pad!TypeOK /\ [Pad!Next]_(Pad!vars) => Pad!TypeOK'
    BY KeypadTypeStep
  <1> QED
    BY <1>1, <1>2, PTL DEF Pad!Spec

(* The guest sees every press.                                             *)

LEMMA FreshStep ==
  ASSUME FreshHasEdge, Pad!PressesReachGuest, [Pad!Next]_(Pad!vars)
  PROVE  FreshHasEdge' /\ Pad!PressesReachGuest'
  <1> USE DEF FreshHasEdge, Pad!PressesReachGuest, Pad!Pressed
  <1>1. CASE Pad!TakeCommand
    <2> DEFINE c == IF pending # <<>> THEN pending ELSE Head(commands)
    <2>1. CASE edged
      BY <1>1, <2>1 DEF Pad!TakeCommand, Pad!emulator
    <2>2. CASE ~ edged
      <3>1. Pad!SetKey(c[1], c[2], c[3]) /\ edged' = TRUE /\ fresh = {}
        BY <1>1, <2>2 DEF Pad!TakeCommand
      <3>2. fresh' = fresh \cup ((heldKeys' \cup sideHeld') \ (heldKeys \cup sideHeld))
        BY <3>1 DEF Pad!SetKey
      <3> QED
        BY <3>1, <3>2
    <2> QED
      BY <2>1, <2>2
  <1>2. CASE Pad!Run
    BY <1>2 DEF Pad!Run
  <1>3. CASE Pad!Restart
    BY <1>3 DEF Pad!Restart
  <1>4. CASE UNCHANGED <<edged, Pad!emulator>>
    BY <1>4 DEF Pad!emulator
  <1>5. Pad!Desktop \/ Pad!Tk \/ Pad!EmulatorReady \/ Pad!NothingToTake \/ UNCHANGED Pad!vars
          => UNCHANGED <<edged, Pad!emulator>>
    BY DEF Pad!Desktop, Pad!FocusOut, Pad!FocusIn, Pad!PushDown, Pad!LetGo, Pad!AutoRepeat,
       Pad!Tk, Pad!HandlePress,
           Pad!HandleRelease, Pad!HandleFocusOut, Pad!ConfirmRelease, Pad!EmulatorReady, Pad!NothingToTake,
           Pad!vars, Pad!worker
  <1> QED
    BY <1>1, <1>2, <1>3, <1>4, <1>5 DEF Pad!Next, Pad!Worker

(* A press stays on the handset until the guest has run: a key counted as  *)
(* pressed since the last slice is still pressed, since the worker takes   *)
(* one edge per iteration and keeps a second one for the next.             *)
THEOREM PressReachesGuest == Pad!Spec => []Pad!PressesReachGuest
  <1>1. Pad!Init => FreshHasEdge /\ Pad!PressesReachGuest
    BY DEF Pad!Init, FreshHasEdge, Pad!PressesReachGuest
  <1>2. FreshHasEdge /\ Pad!PressesReachGuest /\ [Pad!Next]_(Pad!vars)
          => FreshHasEdge' /\ Pad!PressesReachGuest'
    BY FreshStep
  <1> QED
    BY <1>1, <1>2, PTL DEF Pad!Spec

(* What the window holds is down.                                          *)

(* What KeyPress and KeyRelease change of them.                            *)
LEMMA Pressing ==
  ASSUME Pad!KeypadAssumption, Pad!TypeOK, OwnKey, NEW s \in Pad!Sources, Pad!KeyPress(s)
  PROVE  /\ OwnKey' /\ KeyHolds(s)'
         /\ \A z \in Pad!Sources \ {s} : KeyHolds(z)' <=> KeyHolds(z)
  <1>1. KeyOf[s] \in PadKeys /\ held' = [held EXCEPT ![KeyOf[s]] = @ \cup {s}]
    BY DEF Pad!KeypadAssumption, Pad!KeyPress
  <1>2. \A k \in PadKeys : held'[k] = IF k = KeyOf[s] THEN held[k] \cup {s} ELSE held[k]
    BY <1>1 DEF Pad!TypeOK
  <1>3. \A z \in Pad!Sources : KeyOf[z] \in PadKeys
    BY DEF Pad!KeypadAssumption
  <1> QED
    BY <1>1, <1>2, <1>3 DEF OwnKey, KeyHolds

LEMMA Releasing ==
  ASSUME Pad!KeypadAssumption, Pad!TypeOK, OwnKey, NEW S, Pad!KeyRelease(S)
  PROVE  /\ OwnKey'
         /\ \A z \in Pad!Sources : KeyHolds(z)' <=> KeyHolds(z) /\ z \notin S
  <1>1. \A k \in PadKeys : held'[k] = held[k] \ S
    BY DEF Pad!KeyRelease, Pad!HeldAfterRelease
  <1>2. \A z \in Pad!Sources : KeyOf[z] \in PadKeys
    BY DEF Pad!KeypadAssumption
  <1> QED
    BY <1>1, <1>2 DEF OwnKey, KeyHolds

LEMMA HeldInit == ASSUME Pad!KeypadAssumption, Pad!Init PROVE HeldInv
  <1>1. \A s \in Pad!Sources : KeyOf[s] \in PadKeys /\ ~ KeyHolds(s)
    BY DEF Pad!KeypadAssumption, Pad!Init, KeyHolds
  <1>2. \A s : NoPress(events, s) /\ Renewed(events, s)
    BY DEF Pad!Init, NoPress, Renewed
  <1>3. OwnKey /\ ActiveIsHeld /\ HeldIsAccepted /\ UpEnds /\ DownRenews
    BY <1>1, <1>2 DEF Pad!Init, OwnKey, ActiveIsHeld, HeldIsAccepted, UpEnds, UpEnd,
           DownRenews, DownRenew, Pad!Sources
  <1> QED
    BY <1>3, KeypadTypeInit DEF HeldInv

LEMMA SameGuest ==
  ASSUME UNCHANGED profile
  PROVE  \A k, e : Pad!CanSetKey(k, e)' <=> Pad!CanSetKey(k, e)
  BY DEF Pad!CanSetKey, Pad!HasProducer, Pad!HasPosition

(* Which sources hold, and of what emulator, after each step that changes  *)
(* the tables.                                                             *)
LEMMA WindowStep ==
  ASSUME Pad!KeypadAssumption, Pad!TypeOK, OwnKey, ActiveIsHeld, HeldIsAccepted, [Pad!Next]_(Pad!vars)
  PROVE  OwnKey' /\ ActiveIsHeld' /\ HeldIsAccepted'
  <1> USE DEF ActiveIsHeld, HeldIsAccepted, Pad!Sources
  <1>0. UNCHANGED profile
    BY DEF Pad!Next, Pad!vars
  <1>1. CASE Pad!HandlePress
    <2>0. PICK s : s = Head(events)[2]
      OBVIOUS
    <2> DEFINE accepted == loop # "absent" /\ Pad!CanSetKey(KeyOf[s], Manual[KeyOf[s]])
    <2>1. s \in Pad!Sources /\ UNCHANGED loop
      BY <1>1, <2>0, HeadIs DEF Pad!HandlePress, Pad!Event, Pad!TypeOK, KeyEvent, Pad!worker
    <2>2. CASE accepted
      <3>1. Pad!KeyPress(s) /\ active' = active \cup ({s} \cap Keyboard)
        BY <1>1, <2>0, <2>2 DEF Pad!HandlePress
      <3>2. /\ OwnKey' /\ KeyHolds(s)'
            /\ \A z \in Pad!Sources \ {s} : KeyHolds(z)' <=> KeyHolds(z)
        BY <2>1, <3>1, Pressing
      <3> QED
        BY <1>0, <2>1, <2>2, <3>1, <3>2, SameGuest
    <2>3. CASE ~ accepted
      BY <1>0, <1>1, <2>0, <2>1, <2>3, SameGuest DEF Pad!HandlePress, OwnKey, KeyHolds
    <2> QED
      BY <2>2, <2>3
  <1>2. CASE Pad!HandleRelease
    <2>0. PICK s : s = Head(events)[2]
      OBVIOUS
    <2>1. s \in Pad!Sources /\ UNCHANGED <<loop, active>>
      BY <1>2, <2>0, HeadIs DEF Pad!HandleRelease, Pad!Event, Pad!TypeOK, KeyEvent, Pad!worker
    <2>2. CASE s \in Keyboard
      BY <1>0, <1>2, <2>0, <2>1, <2>2, SameGuest DEF Pad!HandleRelease, OwnKey, KeyHolds
    <2>3. CASE s \notin Keyboard
      <3>1. OwnKey' /\ \A z \in Pad!Sources : KeyHolds(z)' <=> KeyHolds(z) /\ z \notin {s}
        BY <1>2, <2>0, <2>3, Releasing DEF Pad!HandleRelease
      <3> QED
        BY <1>0, <2>1, <2>3, <3>1, SameGuest
    <2> QED
      BY <2>2, <2>3
  <1>3. CASE Pad!HandleFocusOut
    <2>1. OwnKey' /\ (\A z \in Pad!Sources : KeyHolds(z)' <=> KeyHolds(z) /\ z \notin active)
          /\ active' = {} /\ UNCHANGED loop
      BY <1>3, Releasing DEF Pad!HandleFocusOut, Pad!worker
    <2> QED
      BY <1>0, <2>1, SameGuest
  <1>4. ASSUME NEW s \in Keyboard, Pad!ConfirmRelease(s) PROVE OwnKey' /\ ActiveIsHeld' /\ HeldIsAccepted'
    <2>1. OwnKey' /\ (\A z \in Pad!Sources : KeyHolds(z)' <=> KeyHolds(z) /\ z \notin {s})
          /\ active' = active \ {s} /\ UNCHANGED loop
      BY <1>4, Releasing DEF Pad!ConfirmRelease, Pad!worker
    <2> QED
      BY <1>0, <2>1, SameGuest
  <1>5. CASE Pad!Restart
    <2>1. OwnKey' /\ (\A z \in Pad!Sources : ~ KeyHolds(z)') /\ active' = {}
      BY <1>5 DEF Pad!Restart, OwnKey, KeyHolds, Pad!KeypadAssumption
    <2> QED
      BY <2>1
  <1>6. CASE UNCHANGED Pad!window /\ (loop # "absent" => loop' # "absent")
    <2>1. OwnKey' /\ (\A z \in Pad!Sources : KeyHolds(z)' <=> KeyHolds(z)) /\ UNCHANGED active
      BY <1>6 DEF Pad!window, OwnKey, KeyHolds
    <2> QED
      BY <1>0, <1>6, <2>1, SameGuest
  <1>7. Pad!Desktop \/ UNCHANGED Pad!vars => UNCHANGED Pad!window /\ UNCHANGED loop
    BY DEF Pad!Desktop, Pad!FocusOut, Pad!FocusIn, Pad!PushDown, Pad!LetGo, Pad!AutoRepeat,
       Pad!vars, Pad!worker
  <1>8. Pad!Worker => UNCHANGED Pad!window /\ (loop # "absent" => loop' # "absent")
    <2>1. Pad!TakeCommand => UNCHANGED Pad!window /\ loop' \in {loop, "run"}
      BY DEF Pad!TakeCommand
    <2> QED
      BY <2>1 DEF Pad!Worker, Pad!EmulatorReady, Pad!NothingToTake, Pad!Run
  <1>9. Pad!Desktop \/ Pad!Worker \/ UNCHANGED Pad!vars
          => UNCHANGED Pad!window /\ (loop # "absent" => loop' # "absent")
    BY <1>7, <1>8
  <1>10. \/ Pad!Desktop \/ Pad!Worker \/ UNCHANGED Pad!vars \/ Pad!Restart
         \/ Pad!HandlePress \/ Pad!HandleRelease \/ Pad!HandleFocusOut
         \/ \E s \in Keyboard : Pad!ConfirmRelease(s)
    BY DEF Pad!Next, Pad!Tk
  <1> HIDE DEF ActiveIsHeld, HeldIsAccepted
  <1> QED
    BY <1>1, <1>2, <1>3, <1>4, <1>5, <1>6, <1>9, <1>10

(* What Tk's steps do to one source.                                       *)
Tables == Pad!TypeOK /\ OwnKey /\ ActiveIsHeld /\ HeldIsAccepted

LEMMA PressHandled ==
  ASSUME Pad!KeypadAssumption, Tables, Pad!HandlePress
  PROVE  \E s \in Pad!Sources :
           /\ events # <<>> /\ Head(events) = <<"press", s>>
           /\ s \in releasing' => ~ KeyHolds(s)'
           /\ \A z \in Pad!Sources \ {s} : /\ KeyHolds(z)' <=> KeyHolds(z)
                                           /\ z \in releasing' <=> z \in releasing
  <1>1. PICK s : s = Head(events)[2]
    OBVIOUS
  <1>2. events # <<>> /\ s \in Pad!Sources /\ Head(events) = <<"press", s>>
    BY <1>1, HeadIs DEF Pad!HandlePress, Pad!Event, Tables, Pad!TypeOK, KeyEvent
  <1>3. CASE loop # "absent" /\ Pad!CanSetKey(KeyOf[s], Manual[KeyOf[s]])
    <2>1. Pad!KeyPress(s) /\ releasing' = releasing \ {s}
      BY <1>1, <1>3 DEF Pad!HandlePress
    <2>2. \A z \in Pad!Sources \ {s} : KeyHolds(z)' <=> KeyHolds(z)
      BY <1>2, <2>1, Pressing DEF Tables
    <2> QED
      BY <1>2, <2>1, <2>2
  <1>4. CASE ~ (loop # "absent" /\ Pad!CanSetKey(KeyOf[s], Manual[KeyOf[s]]))
    <2>1. UNCHANGED <<held, releasing>>
      BY <1>1, <1>4 DEF Pad!HandlePress
    <2>2. ~ KeyHolds(s)
      BY <1>2, <1>4 DEF Tables, HeldIsAccepted
    <2> QED
      BY <1>2, <2>1, <2>2 DEF KeyHolds
  <1> QED
    BY <1>3, <1>4

LEMMA ReleaseHandled ==
  ASSUME Pad!KeypadAssumption, Tables, Pad!HandleRelease
  PROVE  \E s \in Pad!Sources :
           /\ events # <<>> /\ Head(events) = <<"release", s>>
           /\ s \in releasing' \/ ~ KeyHolds(s)'
           /\ \A z \in Pad!Sources \ {s} : /\ KeyHolds(z)' <=> KeyHolds(z)
                                           /\ z \in releasing' <=> z \in releasing
  <1>1. PICK s : s = Head(events)[2]
    OBVIOUS
  <1>2. events # <<>> /\ s \in Pad!Sources /\ Head(events) = <<"release", s>>
    BY <1>1, HeadIs DEF Pad!HandleRelease, Pad!Event, Tables, Pad!TypeOK, KeyEvent
  <1>3. CASE s \in Keyboard
    BY <1>1, <1>2, <1>3 DEF Pad!HandleRelease, KeyHolds
  <1>4. CASE s \notin Keyboard
    <2>1. Pad!KeyRelease({s}) /\ UNCHANGED releasing
      BY <1>1, <1>4 DEF Pad!HandleRelease
    <2>2. \A z \in Pad!Sources : KeyHolds(z)' <=> KeyHolds(z) /\ z \notin {s}
      BY <2>1, Releasing DEF Tables
    <2> QED
      BY <1>2, <2>1, <2>2
  <1> QED
    BY <1>3, <1>4

LEMMA FocusOutHandled ==
  ASSUME Pad!KeypadAssumption, Tables, Pad!HandleFocusOut
  PROVE  /\ events # <<>> /\ Head(events) = <<"focusout">>
         /\ releasing' = {}
         /\ \A z \in Keyboard : ~ KeyHolds(z)'
         /\ \A z \in Pad!Sources \ Keyboard : KeyHolds(z)' <=> KeyHolds(z)
  <1>1. events # <<>> /\ Head(events) = <<"focusout">>
    BY HeadIs DEF Pad!HandleFocusOut, Pad!Event, Tables, Pad!TypeOK, KeyEvent
  <1>2. \A z \in Pad!Sources : KeyHolds(z)' <=> KeyHolds(z) /\ z \notin active
    BY Releasing DEF Pad!HandleFocusOut, Tables
  <1> QED
    BY <1>1, <1>2 DEF Pad!HandleFocusOut, Tables, ActiveIsHeld, Pad!TypeOK, Pad!Sources

(* What the desktop's steps put in the queue.                              *)
Enqueues(s, new) == IF Away(s) THEN UNCHANGED events ELSE events' = events \o new

PushQueues(s) == /\ down' = down \cup {s} /\ UNCHANGED focus
                 /\ Enqueues(s, << <<"press", s>> >>)
LetGoQueues(s) == /\ down' = down \ {s} /\ UNCHANGED focus
                  /\ Enqueues(s, << <<"release", s>> >>)
RepeatQueues(s) == /\ s \in down /\ focus /\ UNCHANGED <<down, focus>>
                   /\ events' = (events \o << <<"release", s>> >>) \o << <<"press", s>> >>
FocusOutQueues == /\ focus' = FALSE /\ UNCHANGED down
                  /\ events' = events \o << <<"focusout">> >>
FocusInQueues == focus' = TRUE /\ UNCHANGED <<down, events>>

LEMMA DesktopQueues ==
  ASSUME Pad!TypeOK, Pad!Desktop
  PROVE  /\ UNCHANGED <<held, releasing>>
         /\ \/ \E s \in Pad!Sources : PushQueues(s) \/ LetGoQueues(s) \/ RepeatQueues(s)
            \/ FocusOutQueues \/ FocusInQueues
  <1>1. UNCHANGED <<held, releasing>>
    BY DEF Pad!Desktop, Pad!FocusOut, Pad!FocusIn, Pad!PushDown, Pad!LetGo, Pad!AutoRepeat,
       Pad!window
  <1>2. events \in Seq(KeyEvent) /\ events \o <<>> = events
    BY ConcatEmptySeq DEF Pad!TypeOK, KeyEvent
  <1>3. ASSUME NEW s \in Pad!Sources, NEW new, Pad!Delivered(s, new) PROVE Enqueues(s, new)
    BY <1>2, <1>3 DEF Pad!Delivered, Pad!Arrives, Away, Enqueues
  <1>4. ASSUME NEW s \in Pad!Sources, Pad!PushDown(s) PROVE PushQueues(s)
    BY <1>3, <1>4 DEF Pad!PushDown, PushQueues
  <1>5. ASSUME NEW s \in Pad!Sources, Pad!LetGo(s) PROVE LetGoQueues(s)
    BY <1>3, <1>5 DEF Pad!LetGo, LetGoQueues
  <1>6. ASSUME NEW s \in Pad!Sources, Pad!AutoRepeat(s) PROVE RepeatQueues(s)
    <2>1. << <<"release", s>> >> \in Seq(KeyEvent) /\ << <<"press", s>> >> \in Seq(KeyEvent)
      BY <1>6 DEF KeyEvent
    <2>2. << <<"release", s>>, <<"press", s>> >> = << <<"release", s>> >> \o << <<"press", s>> >>
      OBVIOUS
    <2>3. events' = events \o << <<"release", s>>, <<"press", s>> >>
      BY <1>6 DEF Pad!AutoRepeat, Pad!Arrives
    <2>4. (events \o << <<"release", s>> >>) \o << <<"press", s>> >>
            = events \o (<< <<"release", s>> >> \o << <<"press", s>> >>)
      BY <1>2, <2>1, ConcatAssociative
    <2>5. events' = (events \o << <<"release", s>> >>) \o << <<"press", s>> >>
      BY <2>2, <2>3, <2>4
    <2> QED
      BY <1>6, <2>5 DEF Pad!AutoRepeat, RepeatQueues
  <1>7. Pad!FocusOut => FocusOutQueues
    BY DEF Pad!FocusOut, Pad!Arrives, FocusOutQueues
  <1>8. Pad!FocusIn => FocusInQueues
    BY DEF Pad!FocusIn, FocusInQueues
  <1> QED
    BY <1>1, <1>4, <1>5, <1>6, <1>7, <1>8 DEF Pad!Desktop

(* A source that is up: UpEnds after each step.                            *)
LEMMA UpDesktop == ASSUME Pad!TypeOK, UpEnds, Pad!Desktop PROVE UpEnds'
  <1> SUFFICES ASSUME NEW z \in Pad!Sources, z \notin down' \/ Away(z)' PROVE UpEnd(z)'
    BY DEF UpEnds
  <1>1. events \in Seq(KeyEvent)
    BY DEF Pad!TypeOK, KeyEvent
  <1>2. (KeyHolds(z)' <=> KeyHolds(z)) /\ (z \in releasing' <=> z \in releasing)
    BY DesktopQueues DEF KeyHolds
  <1>3. ASSUME UNCHANGED events, z \notin down \/ Away(z) PROVE UpEnd(z)'
    BY <1>2, <1>3 DEF UpEnds, UpEnd, EndsIn, NoPress
  <1>4. ASSUME NEW e \in KeyEvent, e # <<"press", z>>, events' = events \o <<e>>,
               Finishes(e, z) \/ z \notin down \/ Away(z)
        PROVE  UpEnd(z)'
    <2>1. EndsIn(events, z) \/ Finishes(e, z) => EndsIn(events', z)
      BY <1>1, <1>4, Queued
    <2>2. NoPress(events, z) => NoPress(events', z)
      BY <1>1, <1>4, Queued
    <2> QED
      BY <1>2, <1>4, <2>1, <2>2 DEF UpEnds, UpEnd, EndsIn, NoPress
  <1>5. ASSUME NEW s \in Pad!Sources, PushQueues(s) PROVE UpEnd(z)'
    <2>1. CASE Away(s)
      BY <1>3, <1>5, <2>1 DEF PushQueues, Enqueues, Away
    <2>2. CASE ~ Away(s)
      <3>1. s # z /\ (z \notin down \/ Away(z))
        BY <1>5, <2>2 DEF PushQueues, Away
      <3>2. <<"press", s>> \in KeyEvent /\ <<"press", s>> # <<"press", z>>
        BY <3>1 DEF KeyEvent
      <3> QED
        BY <1>4, <1>5, <2>2, <3>1, <3>2 DEF PushQueues, Enqueues
    <2> QED
      BY <2>1, <2>2
  <1>6. ASSUME NEW s \in Pad!Sources, LetGoQueues(s) PROVE UpEnd(z)'
    <2>1. CASE Away(s)
      BY <1>3, <1>6, <2>1 DEF LetGoQueues, Enqueues, Away
    <2>2. CASE ~ Away(s)
      <3>1. <<"release", s>> \in KeyEvent /\ <<"release", s>> # <<"press", z>>
        BY DEF KeyEvent
      <3>2. s = z \/ z \notin down \/ Away(z)
        BY <1>6 DEF LetGoQueues, Away
      <3> QED
        BY <1>4, <1>6, <2>2, <3>1, <3>2 DEF LetGoQueues, Enqueues, Finishes
    <2> QED
      BY <2>1, <2>2
  <1>7. ASSUME NEW s \in Pad!Sources, RepeatQueues(s) PROVE UpEnd(z)'
    <2> DEFINE q == events \o << <<"release", s>> >>
    <2>1. s # z /\ (z \notin down \/ Away(z))
      BY <1>7 DEF RepeatQueues, Away
    <2>2. /\ <<"release", s>> \in KeyEvent /\ <<"release", s>> # <<"press", z>>
          /\ <<"press", s>> \in KeyEvent /\ <<"press", s>> # <<"press", z>>
      BY <2>1 DEF KeyEvent
    <2>3. q \in Seq(KeyEvent) /\ (EndsIn(events, z) => EndsIn(q, z)) /\ (NoPress(events, z) => NoPress(q, z))
      BY <1>1, <2>2, Queued
    <2>4. (EndsIn(q, z) => EndsIn(events', z)) /\ (NoPress(q, z) => NoPress(events', z))
      BY <1>7, <2>2, <2>3, Queued DEF RepeatQueues
    <2> QED
      BY <1>2, <2>1, <2>3, <2>4 DEF UpEnds, UpEnd, EndsIn, NoPress
  <1>8. ASSUME FocusOutQueues PROVE UpEnd(z)'
    <2>1. <<"focusout">> \in KeyEvent /\ <<"focusout">> # <<"press", z>>
      BY DEF KeyEvent
    <2>2. Finishes(<<"focusout">>, z) \/ z \notin down
      BY <1>8 DEF FocusOutQueues, Away, Finishes
    <2> QED
      BY <1>4, <1>8, <2>1, <2>2 DEF FocusOutQueues
  <1>9. ASSUME FocusInQueues PROVE UpEnd(z)'
    BY <1>3, <1>9 DEF FocusInQueues, Away
  <1> QED
    BY <1>5, <1>6, <1>7, <1>8, <1>9, DesktopQueues

LEMMA UpStep ==
  ASSUME Pad!KeypadAssumption, Tables, UpEnds, [Pad!Next]_(Pad!vars)
  PROVE  UpEnds'
  <1>1. CASE Pad!Desktop
    BY <1>1, UpDesktop DEF Tables
  <1> SUFFICES ASSUME ~ Pad!Desktop, NEW z \in Pad!Sources, z \notin down' \/ Away(z)' PROVE UpEnd(z)'
    BY <1>1 DEF UpEnds
  <1>2. events \in Seq(KeyEvent)
    BY DEF Tables, Pad!TypeOK, KeyEvent
  <1>3. UNCHANGED <<down, focus>>
    BY DEF Pad!Next, Pad!Tk, Pad!HandlePress, Pad!HandleRelease, Pad!HandleFocusOut,
       Pad!ConfirmRelease, Pad!Restart,
           Pad!Worker, Pad!EmulatorReady, Pad!TakeCommand, Pad!NothingToTake, Pad!Run, Pad!desktop, Pad!vars
  <1>4. UpEnd(z)
    BY <1>3 DEF UpEnds, Away
  <1>5. ASSUME events # <<>>, events' = Tail(events)
        PROVE  /\ EndsIn(events, z) =>
                    EndsIn(events', z) \/ (Finishes(Head(events), z) /\ NoPress(events', z))
               /\ NoPress(events, z) => NoPress(events', z) /\ Head(events) # <<"press", z>>
    BY <1>2, <1>5, Served
  <1>6. CASE Pad!HandlePress
    <2>1. PICK s \in Pad!Sources :
            /\ events # <<>> /\ Head(events) = <<"press", s>>
            /\ \A x \in Pad!Sources \ {s} : /\ KeyHolds(x)' <=> KeyHolds(x)
                                            /\ x \in releasing' <=> x \in releasing
      BY <1>6, PressHandled
    <2>2. events' = Tail(events) /\ ~ Finishes(Head(events), z)
      BY <1>6, <2>1 DEF Pad!HandlePress, Pad!Event, Finishes
    <2> QED
      BY <1>4, <1>5, <2>1, <2>2 DEF UpEnd, EndsIn, NoPress
  <1>7. CASE Pad!HandleRelease
    <2>1. PICK s \in Pad!Sources :
            /\ events # <<>> /\ Head(events) = <<"release", s>>
            /\ s \in releasing' \/ ~ KeyHolds(s)'
            /\ \A x \in Pad!Sources \ {s} : /\ KeyHolds(x)' <=> KeyHolds(x)
                                            /\ x \in releasing' <=> x \in releasing
      BY <1>7, ReleaseHandled
    <2>2. events' = Tail(events) /\ (Finishes(Head(events), z) => z = s)
      BY <1>7, <2>1 DEF Pad!HandleRelease, Pad!Event, Finishes
    <2> QED
      BY <1>4, <1>5, <2>1, <2>2 DEF UpEnd, EndsIn, NoPress
  <1>8. CASE Pad!HandleFocusOut
    <2>1. /\ events # <<>> /\ Head(events) = <<"focusout">>
          /\ \A x \in Keyboard : ~ KeyHolds(x)'
          /\ \A x \in Pad!Sources \ Keyboard : KeyHolds(x)' <=> KeyHolds(x)
      BY <1>8, FocusOutHandled
    <2>2. events' = Tail(events) /\ (Finishes(Head(events), z) => z \in Keyboard)
      BY <1>8, <2>1 DEF Pad!HandleFocusOut, Pad!Event, Finishes
    <2>3. z \notin Keyboard => z \notin releasing
      BY DEF Tables, Pad!TypeOK
    <2> QED
      BY <1>4, <1>5, <2>1, <2>2, <2>3 DEF UpEnd, EndsIn, NoPress
  <1>9. ASSUME NEW s \in Keyboard, Pad!ConfirmRelease(s) PROVE UpEnd(z)'
    <2>1. /\ KeyHolds(z)' <=> KeyHolds(z) /\ z # s
          /\ releasing' = releasing \ {s} /\ UNCHANGED events
      BY <1>9, Releasing DEF Pad!ConfirmRelease, Tables, Pad!desktop
    <2> QED
      BY <1>4, <2>1 DEF UpEnd, EndsIn, NoPress
  <1>10. CASE Pad!Restart
    <2>1. UNCHANGED events /\ ~ KeyHolds(z)'
      BY <1>10 DEF Pad!Restart, Pad!desktop, KeyHolds, Pad!KeypadAssumption
    <2> QED
      BY <1>4, <2>1 DEF UpEnd, EndsIn, NoPress
  <1>11. CASE Pad!Worker \/ UNCHANGED Pad!vars
    <2>1. UNCHANGED <<events, held, releasing>>
      BY <1>11 DEF Pad!Worker, Pad!EmulatorReady, Pad!TakeCommand, Pad!NothingToTake, Pad!Run,
                   Pad!vars, Pad!desktop, Pad!window
    <2> QED
      BY <1>4, <2>1 DEF UpEnd, EndsIn, NoPress, KeyHolds
  <1> QED
    BY <1>6, <1>7, <1>8, <1>9, <1>10, <1>11 DEF Pad!Next, Pad!Tk

(* A source that is down, or out of sight: DownRenews after each step.     *)
LEMMA DownDesktop == ASSUME Pad!KeypadAssumption, Pad!TypeOK, DownRenews, Pad!Desktop PROVE DownRenews'
  <1> SUFFICES ASSUME NEW z \in Keyboard, z \in down' \/ Away(z)' PROVE DownRenew(z)'
    BY DEF DownRenews
  <1>1. events \in Seq(KeyEvent)
    BY DEF Pad!TypeOK, KeyEvent
  <1>2. (KeyHolds(z)' <=> KeyHolds(z)) /\ (z \in releasing' <=> z \in releasing)
    BY DesktopQueues DEF KeyHolds
  <1>3. ASSUME UNCHANGED events, z \in down \/ Away(z) PROVE DownRenew(z)'
    BY <1>2, <1>3 DEF DownRenews, DownRenew, Renewed, Renewal
  <1>4. ASSUME NEW e \in KeyEvent, e # <<"release", z>>, events' = events \o <<e>>,
               Renews(e, z) \/ z \in down \/ Away(z)
        PROVE  DownRenew(z)'
    <2>1. Renewed(events, z) \/ Renews(e, z) => Renewed(events', z)
      BY <1>1, <1>4, Queued
    <2>2. Renewal(events, z) \/ Renews(e, z) => Renewal(events', z)
      BY <1>1, <1>4, Queued
    <2> QED
      BY <1>2, <1>4, <2>1, <2>2 DEF DownRenews, DownRenew, Renewed, Renewal
  <1>5. ASSUME NEW s \in Pad!Sources, PushQueues(s) PROVE DownRenew(z)'
    <2>1. CASE Away(s)
      BY <1>3, <1>5, <2>1 DEF PushQueues, Enqueues, Away
    <2>2. CASE ~ Away(s)
      <3>1. <<"press", s>> \in KeyEvent /\ <<"press", s>> # <<"release", z>>
        BY DEF KeyEvent
      <3>2. s = z \/ z \in down \/ Away(z)
        BY <1>5 DEF PushQueues, Away
      <3> QED
        BY <1>4, <1>5, <2>2, <3>1, <3>2 DEF PushQueues, Enqueues, Renews
    <2> QED
      BY <2>1, <2>2
  <1>6. ASSUME NEW s \in Pad!Sources, LetGoQueues(s) PROVE DownRenew(z)'
    <2>1. CASE Away(s)
      BY <1>3, <1>6, <2>1 DEF LetGoQueues, Enqueues, Away
    <2>2. CASE ~ Away(s)
      <3>1. s # z /\ (z \in down \/ Away(z))
        BY <1>6, <2>2 DEF LetGoQueues, Away
      <3>2. <<"release", s>> \in KeyEvent /\ <<"release", s>> # <<"release", z>>
        BY <3>1 DEF KeyEvent
      <3> QED
        BY <1>4, <1>6, <2>2, <3>1, <3>2 DEF LetGoQueues, Enqueues
    <2> QED
      BY <2>1, <2>2
  <1>7. ASSUME NEW s \in Pad!Sources, RepeatQueues(s) PROVE DownRenew(z)'
    <2> DEFINE q == events \o << <<"release", s>> >>
    <2>1. z \in down \/ Away(z)
      BY <1>7 DEF RepeatQueues, Away
    <2>2. /\ <<"release", s>> \in KeyEvent /\ (s # z => <<"release", s>> # <<"release", z>>)
          /\ <<"press", s>> \in KeyEvent /\ <<"press", s>> # <<"release", z>>
          /\ (s = z => Renews(<<"press", s>>, z))
      BY DEF KeyEvent, Renews
    <2>3. /\ q \in Seq(KeyEvent)
          /\ s # z => (Renewed(events, z) => Renewed(q, z))
          /\ Renewal(events, z) => Renewal(q, z)
      BY <1>1, <2>2, Queued
    <2>4. /\ Renewed(q, z) \/ s = z => Renewed(events', z)
          /\ Renewal(q, z) => Renewal(events', z)
      BY <1>7, <2>2, <2>3, Queued DEF RepeatQueues
    <2> QED
      BY <1>2, <2>1, <2>3, <2>4 DEF DownRenews, DownRenew, Renewed, Renewal
  <1>8. ASSUME FocusOutQueues PROVE DownRenew(z)'
    <2>1. /\ <<"focusout">> \in KeyEvent /\ <<"focusout">> # <<"release", z>>
          /\ Renews(<<"focusout">>, z)
      BY DEF KeyEvent, Renews
    <2> QED
      BY <1>4, <1>8, <2>1 DEF FocusOutQueues
  <1>9. ASSUME FocusInQueues PROVE DownRenew(z)'
    BY <1>3, <1>9 DEF FocusInQueues, Away
  <1> QED
    BY <1>5, <1>6, <1>7, <1>8, <1>9, DesktopQueues

LEMMA DownStep ==
  ASSUME Pad!KeypadAssumption, Tables, DownRenews, [Pad!Next]_(Pad!vars)
  PROVE  DownRenews'
  <1>1. CASE Pad!Desktop
    BY <1>1, DownDesktop DEF Tables
  <1> SUFFICES ASSUME ~ Pad!Desktop, NEW z \in Keyboard, z \in down' \/ Away(z)' PROVE DownRenew(z)'
    BY <1>1 DEF DownRenews
  <1>2. events \in Seq(KeyEvent) /\ z \in Pad!Sources
    BY DEF Tables, Pad!TypeOK, KeyEvent, Pad!Sources
  <1>3. UNCHANGED <<down, focus>>
    BY DEF Pad!Next, Pad!Tk, Pad!HandlePress, Pad!HandleRelease, Pad!HandleFocusOut,
       Pad!ConfirmRelease, Pad!Restart,
           Pad!Worker, Pad!EmulatorReady, Pad!TakeCommand, Pad!NothingToTake, Pad!Run, Pad!desktop, Pad!vars
  <1>4. DownRenew(z)
    BY <1>3 DEF DownRenews, Away
  <1>5. ASSUME events # <<>>, events' = Tail(events)
        PROVE  /\ Renewed(events', z)
               /\ Head(events) = <<"release", z>> => Renewal(events', z)
               /\ Renewal(events, z) => Renewal(events', z) \/ Renews(Head(events), z)
    BY <1>2, <1>4, <1>5, Served DEF DownRenew
  <1>6. CASE Pad!HandlePress
    <2>1. PICK s \in Pad!Sources :
            /\ events # <<>> /\ Head(events) = <<"press", s>>
            /\ s \in releasing' => ~ KeyHolds(s)'
            /\ \A x \in Pad!Sources \ {s} : /\ KeyHolds(x)' <=> KeyHolds(x)
                                            /\ x \in releasing' <=> x \in releasing
      BY <1>6, PressHandled
    <2>2. events' = Tail(events) /\ (Renews(Head(events), z) => z = s)
      BY <1>6, <2>1 DEF Pad!HandlePress, Pad!Event, Renews
    <2> QED
      BY <1>2, <1>4, <1>5, <2>1, <2>2 DEF DownRenew, Renewed, Renewal
  <1>7. CASE Pad!HandleRelease
    <2>1. PICK s \in Pad!Sources :
            /\ events # <<>> /\ Head(events) = <<"release", s>>
            /\ \A x \in Pad!Sources \ {s} : /\ KeyHolds(x)' <=> KeyHolds(x)
                                            /\ x \in releasing' <=> x \in releasing
      BY <1>7, ReleaseHandled
    <2>2. events' = Tail(events) /\ ~ Renews(Head(events), z)
      BY <1>7, <2>1 DEF Pad!HandleRelease, Pad!Event, Renews
    <2> QED
      BY <1>2, <1>4, <1>5, <2>1, <2>2 DEF DownRenew, Renewed, Renewal
  <1>8. CASE Pad!HandleFocusOut
    <2>1. events # <<>> /\ releasing' = {} /\ events' = Tail(events)
      BY <1>8, FocusOutHandled DEF Pad!HandleFocusOut, Pad!Event
    <2> QED
      BY <1>5, <2>1 DEF DownRenew, Renewed, Renewal
  <1>9. ASSUME NEW s \in Keyboard, Pad!ConfirmRelease(s) PROVE DownRenew(z)'
    <2>1. /\ KeyHolds(z)' <=> KeyHolds(z) /\ z # s
          /\ releasing' = releasing \ {s} /\ UNCHANGED events
      BY <1>2, <1>9, Releasing DEF Pad!ConfirmRelease, Tables, Pad!desktop
    <2> QED
      BY <1>4, <2>1 DEF DownRenew, Renewed, Renewal
  <1>10. CASE Pad!Restart
    <2>1. UNCHANGED events /\ releasing' = {}
      BY <1>10 DEF Pad!Restart, Pad!desktop
    <2> QED
      BY <1>4, <2>1 DEF DownRenew, Renewed, Renewal
  <1>11. CASE Pad!Worker \/ UNCHANGED Pad!vars
    <2>1. UNCHANGED <<events, held, releasing>>
      BY <1>11 DEF Pad!Worker, Pad!EmulatorReady, Pad!TakeCommand, Pad!NothingToTake, Pad!Run,
                   Pad!vars, Pad!desktop, Pad!window
    <2> QED
      BY <1>4, <2>1 DEF DownRenew, Renewed, Renewal, KeyHolds
  <1> QED
    BY <1>6, <1>7, <1>8, <1>9, <1>10, <1>11 DEF Pad!Next, Pad!Tk

LEMMA HeldStep == ASSUME Pad!KeypadAssumption, HeldInv, [Pad!Next]_(Pad!vars) PROVE HeldInv'
  BY KeypadTypeStep, WindowStep, UpStep, DownStep DEF HeldInv, Tables

(* Once Tk has served its queue, no source that is up holds a key, and a   *)
(* source that is down holds nothing that is about to be confirmed:        *)
(* whatever auto-repeat, lost focus, releases that went to another window, *)
(* rejected presses and restarts came between, for any number of sources   *)
(* and any length of the queue.                                            *)
THEOREM NothingHeldIsUp == ASSUME Pad!KeypadAssumption PROVE Pad!Spec => []Pad!HeldIsDown
  <1>1. Pad!Init => HeldInv
    BY HeldInit
  <1>2. HeldInv /\ [Pad!Next]_(Pad!vars) => HeldInv'
    BY HeldStep
  <1>3. HeldInv => Pad!HeldIsDown
    <2> SUFFICES ASSUME HeldInv, events = <<>> PROVE Pad!HeldIsDown
      BY DEF Pad!HeldIsDown
    <2>1. \A s : ~ EndsIn(events, s) /\ ~ Renewal(events, s)
      BY DEF EndsIn, Renewal
    <2>2. ASSUME releasing = {}, NEW k \in PadKeys, NEW s \in held[k] PROVE s \in down
      <3>1. s \in Pad!Sources /\ KeyHolds(s)
        BY <2>2 DEF HeldInv, Pad!TypeOK, OwnKey, KeyHolds
      <3> QED
        BY <2>1, <2>2, <3>1 DEF HeldInv, UpEnds, UpEnd
    <2>3. ASSUME NEW s \in releasing \cap down PROVE s \notin held[KeyOf[s]]
      <3>1. s \in Keyboard
        BY DEF HeldInv, Pad!TypeOK
      <3> QED
        BY <2>1, <3>1 DEF HeldInv, DownRenews, DownRenew, KeyHolds
    <2> QED
      BY <2>2, <2>3 DEF Pad!HeldIsDown
  <1> QED
    BY <1>1, <1>2, <1>3, PTL DEF Pad!Spec

(* No key is stuck.                                                        *)

(* Taking the first of the commands under way.                             *)
LEMMA Taken ==
  ASSUME NEW q \in Seq(Pad!Command), q # <<>>, NEW h
  PROVE  /\ Shaped(q) => /\ Shaped(Tail(q))
                         /\ Head(q)[3] = EventOf(Head(q)[1], Head(q)[2])
         /\ KeyCurrent(q, h) => /\ KeyCurrent(Tail(q), h)
                                /\ Without(Tail(q), Head(q)[1]) =>
                                     Head(q)[2] = (h[Head(q)[1]] # {})
         /\ \A k : Without(Tail(q), k) /\ k # Head(q)[1] => Without(q, k)
  <1> DEFINE t == Tail(q)
  <1>1. /\ Len(q) \in Nat /\ DOMAIN q = 1..Len(q) /\ Len(q) > 0 /\ Head(q) = q[1]
        /\ DOMAIN t = 1..(Len(q) - 1)
        /\ \A i \in 1..(Len(q) - 1) : t[i] = q[i + 1]
    BY HeadTailProperties, LenProperties, EmptySeq
  <1> HIDE DEF t
  <1>2. 1 \in DOMAIN q /\ \A i \in DOMAIN q : i = 1 \/ (i - 1 \in DOMAIN t /\ q[i] = t[i - 1])
    BY <1>1
  <1>3. \A i \in DOMAIN t : i + 1 \in DOMAIN q /\ t[i] = q[i + 1]
    BY <1>1
  <1>4. Shaped(q) => Shaped(t) /\ Head(q)[3] = EventOf(Head(q)[1], Head(q)[2])
    BY <1>1, <1>2, <1>3 DEF Shaped
  <1>5. KeyCurrent(q, h) => KeyCurrent(t, h)
    <2> SUFFICES ASSUME KeyCurrent(q, h), NEW i \in DOMAIN t,
                        \A j \in DOMAIN t : j > i => t[j][1] # t[i][1]
                 PROVE  t[i][2] = (h[t[i][1]] # {})
      BY DEF KeyCurrent
    <2>1. \A j \in DOMAIN q : j > i + 1 => q[j][1] # q[i + 1][1]
      <3> SUFFICES ASSUME NEW j \in DOMAIN q, j > i + 1 PROVE q[j][1] # q[i + 1][1]
        OBVIOUS
      <3>1. j - 1 \in DOMAIN t /\ q[j] = t[j - 1] /\ j - 1 > i
        BY <1>1, <1>2
      <3> QED
        BY <1>3, <3>1
    <2> QED
      BY <1>3, <2>1 DEF KeyCurrent
  <1>6. KeyCurrent(q, h) /\ Without(t, Head(q)[1]) => Head(q)[2] = (h[Head(q)[1]] # {})
    <2> SUFFICES ASSUME KeyCurrent(q, h), Without(t, q[1][1]) PROVE q[1][2] = (h[q[1][1]] # {})
      BY <1>1
    <2>1. \A j \in DOMAIN q : j > 1 => q[j][1] # q[1][1]
      BY <1>1, <1>2 DEF Without
    <2> QED
      BY <1>2, <2>1 DEF KeyCurrent
  <1>7. \A k : Without(t, k) /\ k # Head(q)[1] => Without(q, k)
    BY <1>1, <1>2 DEF Without
  <1> QED
    BY <1>4, <1>5, <1>6, <1>7 DEF t

(* Putting commands n behind those under way, with what the window then    *)
(* holds: for the keys without a new command it holds as before.           *)
SameBut(n, h, g) == \A k \in PadKeys : Without(n, k) => (h[k] = {} <=> g[k] = {})

LEMMA Added ==
  ASSUME NEW q \in Seq(Pad!Command), NEW n \in Seq(Pad!Command), NEW h, NEW g,
         KeyCurrent(q, h), KeyCurrent(n, g),
         SameBut(n, h, g)
  PROVE  /\ KeyCurrent(q \o n, g)
         /\ Shaped(q) /\ Shaped(n) => Shaped(q \o n)
         /\ \A k : Without(q \o n, k) <=> Without(q, k) /\ Without(n, k)
  <1> DEFINE r == q \o n
  <1>1. /\ Len(q) \in Nat /\ DOMAIN q = 1..Len(q)
        /\ Len(n) \in Nat /\ DOMAIN n = 1..Len(n)
        /\ DOMAIN r = 1..(Len(q) + Len(n))
        /\ \A i \in 1..(Len(q) + Len(n)) : r[i] = IF i <= Len(q) THEN q[i] ELSE n[i - Len(q)]
    BY ConcatProperties, LenProperties
  <1> HIDE DEF r
  <1>2. \A i \in DOMAIN q : i \in DOMAIN r /\ r[i] = q[i]
    BY <1>1
  <1>3. \A i \in DOMAIN n : i + Len(q) \in DOMAIN r /\ r[i + Len(q)] = n[i]
    BY <1>1
  <1>4. \A i \in DOMAIN r :
          \/ i \in DOMAIN q /\ r[i] = q[i]
          \/ i - Len(q) \in DOMAIN n /\ r[i] = n[i - Len(q)] /\ i > Len(q)
    BY <1>1
  <1>5. \A k : Without(r, k) <=> Without(q, k) /\ Without(n, k)
    BY <1>2, <1>3, <1>4 DEF Without
  <1>6. Shaped(q) /\ Shaped(n) => Shaped(r)
    BY <1>4 DEF Shaped
  <1>7. KeyCurrent(r, g)
    <2> SUFFICES ASSUME NEW i \in DOMAIN r,
                        \A j \in DOMAIN r : j > i => r[j][1] # r[i][1]
                 PROVE  r[i][2] = (g[r[i][1]] # {})
      BY DEF KeyCurrent
    <2>1. CASE i \in DOMAIN q /\ r[i] = q[i]
      <3>1. \A j \in DOMAIN q : j > i => q[j][1] # q[i][1]
        BY <1>2, <2>1
      <3>2. Without(n, q[i][1])
        <4> SUFFICES ASSUME NEW j \in DOMAIN n PROVE n[j][1] # q[i][1]
          BY DEF Without
        <4>1. j + Len(q) > i
          BY <1>1, <2>1
        <4> QED
          BY <1>3, <2>1, <4>1
      <3>3. q[i] \in Pad!Command /\ q[i][1] \in PadKeys
        BY <1>1, <2>1, ElementOfSeq DEF Pad!Command
      <3>4. q[i][2] = (h[q[i][1]] # {})
        BY <2>1, <3>1 DEF KeyCurrent
      <3>5. h[q[i][1]] = {} <=> g[q[i][1]] = {}
        BY <3>2, <3>3 DEF SameBut
      <3> QED
        BY <2>1, <3>4, <3>5
    <2>2. CASE i - Len(q) \in DOMAIN n /\ r[i] = n[i - Len(q)]
      <3>1. \A j \in DOMAIN n : j > i - Len(q) => n[j][1] # n[i - Len(q)][1]
        <4> SUFFICES ASSUME NEW j \in DOMAIN n, j > i - Len(q) PROVE n[j][1] # n[i - Len(q)][1]
          OBVIOUS
        <4>1. j + Len(q) > i /\ j + Len(q) \in DOMAIN r /\ r[j + Len(q)] = n[j]
          BY <1>1, <1>3
        <4> QED
          BY <2>2, <4>1
      <3> QED
        BY <2>2, <3>1 DEF KeyCurrent
    <2> QED
      BY <1>4, <2>1, <2>2
  <1> QED
    BY <1>5, <1>6, <1>7 DEF r

LEMMA HeadThenTail ==
  ASSUME NEW q \in Seq(Pad!Command), q # <<>>
  PROVE  q = <<Head(q)>> \o Tail(q)
  <1> DEFINE r == <<Head(q)>> \o Tail(q)
  <1>1. /\ Head(q) \in Pad!Command /\ Tail(q) \in Seq(Pad!Command) /\ Head(q) = q[1]
        /\ Len(Tail(q)) = Len(q) - 1 /\ Len(q) \in Nat
        /\ \A i \in 1..Len(Tail(q)) : Tail(q)[i] = q[i + 1]
    BY HeadTailProperties, LenProperties
  <1>2. <<Head(q)>> \in Seq(Pad!Command) /\ Len(<<Head(q)>>) = 1 /\ <<Head(q)>>[1] = Head(q)
    BY <1>1
  <1>3. /\ r \in Seq(Pad!Command) /\ Len(r) = 1 + Len(Tail(q))
        /\ \A i \in 1..(1 + Len(Tail(q))) :
             r[i] = IF i <= 1 THEN <<Head(q)>>[i] ELSE Tail(q)[i - 1]
    BY <1>1, <1>2, ConcatProperties
  <1>4. \A i \in 1..Len(q) : r[i] = q[i]
    BY <1>1, <1>2, <1>3
  <1> HIDE DEF r
  <1>5. q = r
    BY <1>1, <1>3, <1>4, SeqEqual
  <1> QED
    BY <1>5 DEF r

(* The commands under way as a sequence: what taking and adding one does.  *)
KeptBack == IF pending = <<>> THEN <<>> ELSE <<pending>>

LEMMA UnderWay ==
  ASSUME Pad!TypeOK
  PROVE  /\ Pad!InFlight \in Seq(Pad!Command) /\ KeptBack \in Seq(Pad!Command)
         /\ Pad!InFlight = KeptBack \o commands
         /\ pending = <<>> => Pad!InFlight = commands
         /\ pending # <<>> => /\ Pad!InFlight # <<>>
                              /\ Head(Pad!InFlight) = pending /\ Tail(Pad!InFlight) = commands
  <1>1. commands \in Seq(Pad!Command) /\ KeptBack \in Seq(Pad!Command)
    BY EmptySeq DEF Pad!TypeOK, KeptBack
  <1>2. Pad!InFlight = KeptBack \o commands
    BY DEF Pad!InFlight, KeptBack
  <1>3. Pad!InFlight \in Seq(Pad!Command)
    BY <1>1, <1>2, ConcatProperties
  <1>4. pending = <<>> => Pad!InFlight = commands
    BY <1>1, <1>2, ConcatEmptySeq DEF KeptBack
  <1>5. ASSUME pending # <<>>
        PROVE  /\ Pad!InFlight # <<>>
               /\ Head(Pad!InFlight) = pending /\ Tail(Pad!InFlight) = commands
    <2>1. /\ Len(Pad!InFlight) = 1 + Len(commands) /\ Len(commands) \in Nat
          /\ Pad!InFlight[1] = pending
          /\ \A i \in 1..Len(commands) : Pad!InFlight[i + 1] = commands[i]
      <3>1. KeptBack = <<pending>> /\ Len(KeptBack) = 1 /\ KeptBack[1] = pending
        BY <1>5 DEF KeptBack
      <3>2. Len(commands) \in Nat
        BY <1>1, LenProperties
      <3> QED
        BY <1>1, <1>2, <3>1, <3>2, ConcatProperties
    <2>2. Pad!InFlight # <<>>
      BY <2>1, EmptySeq
    <2>3. /\ Tail(Pad!InFlight) \in Seq(Pad!Command) /\ Len(Tail(Pad!InFlight)) = Len(Pad!InFlight) - 1
          /\ \A i \in 1..Len(Tail(Pad!InFlight)) : Tail(Pad!InFlight)[i] = Pad!InFlight[i + 1]
      BY <1>3, <2>2, HeadTailProperties
    <2>4. Len(Tail(Pad!InFlight)) = Len(commands)
          /\ \A i \in 1..Len(Tail(Pad!InFlight)) : Tail(Pad!InFlight)[i] = commands[i]
      BY <2>1, <2>3
    <2>5. Tail(Pad!InFlight) = commands
      BY <1>1, <2>3, <2>4, SeqEqual
    <2> QED
      BY <2>1, <2>2, <2>5
  <1> QED
    BY <1>1, <1>2, <1>3, <1>4, <1>5

LEMMA MoreUnderWay ==
  ASSUME Pad!TypeOK, NEW n \in Seq(Pad!Command), commands' = commands \o n, UNCHANGED pending
  PROVE  Pad!InFlight' = Pad!InFlight \o n
  <1>1. Pad!InFlight' = KeptBack \o (commands \o n)
    BY DEF Pad!InFlight, KeptBack
  <1>2. commands \in Seq(Pad!Command) /\ KeptBack \in Seq(Pad!Command) /\ Pad!InFlight = KeptBack \o commands
    BY UnderWay DEF Pad!TypeOK
  <1>3. (KeptBack \o commands) \o n = KeptBack \o (commands \o n)
    BY <1>2, ConcatAssociative
  <1> QED
    BY <1>1, <1>2, <1>3

(* TakeCommand takes the first of them, or keeps it back.                  *)
LEMMA FirstTaken ==
  ASSUME Pad!TypeOK, Pad!TakeCommand
  PROVE  /\ Pad!InFlight # <<>> /\ Head(Pad!InFlight) \in Pad!Command
         /\ edged => Pad!InFlight' = Pad!InFlight /\ UNCHANGED <<heldKeys, sideHeld>>
         /\ ~ edged => /\ Pad!InFlight' = Tail(Pad!InFlight)
                       /\ Pad!SetKey(Head(Pad!InFlight)[1], Head(Pad!InFlight)[2], Head(Pad!InFlight)[3])
  <1>1. PICK c : c = IF pending # <<>> THEN pending ELSE Head(commands)
    OBVIOUS
  <1>2. pending # <<>> \/ commands # <<>>
    BY DEF Pad!TakeCommand
  <1>3. Pad!InFlight # <<>> /\ c = Head(Pad!InFlight)
    BY <1>1, <1>2, UnderWay
  <1>4. commands' = Tail(Pad!InFlight) /\ Tail(Pad!InFlight) \in Seq(Pad!Command) /\ c \in Pad!Command
    <2>1. commands' = IF pending # <<>> THEN commands ELSE Tail(commands)
      BY DEF Pad!TakeCommand
    <2> QED
      BY <1>2, <1>3, <2>1, UnderWay, HeadTailProperties
  <1>5. ASSUME ~ edged
        PROVE  Pad!InFlight' = Tail(Pad!InFlight) /\ Pad!SetKey(c[1], c[2], c[3])
    <2>1. pending' = <<>> /\ Pad!SetKey(c[1], c[2], c[3])
      BY <1>1, <1>5 DEF Pad!TakeCommand
    <2>2. Pad!InFlight' = <<>> \o commands'
      BY <2>1 DEF Pad!InFlight
    <2> QED
      BY <1>4, <2>1, <2>2, ConcatEmptySeq
  <1>6. ASSUME edged
        PROVE  Pad!InFlight' = Pad!InFlight /\ UNCHANGED <<heldKeys, sideHeld>>
    <2>1. pending' = c /\ UNCHANGED <<heldKeys, sideHeld>>
      BY <1>1, <1>6 DEF Pad!TakeCommand, Pad!emulator
    <2>2. c # <<>>
      <3>1. PICK k, pressed, event : c = <<k, pressed, event>>
        BY <1>4 DEF Pad!Command
      <3> QED
        BY <3>1
    <2>3. Pad!InFlight' = <<c>> \o Tail(Pad!InFlight)
      BY <1>4, <2>1, <2>2 DEF Pad!InFlight
    <2>4. Pad!InFlight = <<c>> \o Tail(Pad!InFlight)
      BY <1>3, UnderWay, HeadThenTail
    <2> QED
      BY <2>1, <2>3, <2>4
  <1> QED
    BY <1>1, <1>3, <1>4, <1>5, <1>6

(* A key stays on its own way: the one its press takes is the one its      *)
(* release looks up, so the release always reaches it.                     *)
LEMMA KeyWay ==
  ASSUME Pad!KeypadAssumption, ManualKeepsWay, Pad!TypeOK, NEW k \in PadKeys, NEW pressed \in BOOLEAN
  PROVE  Pad!HasProducer(k, EventOf(k, pressed)) <=> k \in profile.sideband
  <1>1. CASE EventOf(k, pressed) = NoEvent
    BY <1>1 DEF Pad!HasProducer
  <1>2. CASE EventOf(k, pressed) # NoEvent
    <2>1. EventOf(k, pressed) = Manual[k] /\ profile \in PadProfiles
      BY <1>2 DEF EventOf, Pad!TypeOK
    <2> QED
      BY <1>2, <2>1 DEF Pad!HasProducer, ManualKeepsWay
  <1> QED
    BY <1>1, <1>2

LEMMA SetKeyWay ==
  ASSUME Pad!KeypadAssumption, ManualKeepsWay, Pad!TypeOK, OwnWay, UNCHANGED profile,
         NEW k \in PadKeys, NEW pressed \in BOOLEAN,
         Pad!SetKey(k, pressed, EventOf(k, pressed))
  PROVE  /\ OwnWay' /\ Pad!Pressed' \subseteq Pad!Pressed \cup {k}
         /\ ~ pressed => k \notin Pad!Pressed'
  <1>1. CASE k \in profile.sideband
    <2>1. heldKeys' = heldKeys /\ sideHeld' \subseteq sideHeld \cup {k}
          /\ (~ pressed => sideHeld' = sideHeld \ {k})
      BY <1>1, KeyWay DEF Pad!SetKey
    <2> QED
      BY <1>1, <2>1 DEF OwnWay, Pad!Pressed
  <1>2. CASE k \notin profile.sideband
    <2>1. sideHeld' = sideHeld /\ heldKeys' \subseteq heldKeys \cup {k}
          /\ (~ pressed => heldKeys' = heldKeys \ {k})
      BY <1>2, KeyWay DEF Pad!SetKey
    <2> QED
      BY <1>2, <2>1 DEF OwnWay, Pad!Pressed
  <1> QED
    BY <1>1, <1>2

(* The window's steps add commands that say what it holds then.            *)
LEMMA CommandsAdded ==
  ASSUME QueueInv, UNCHANGED <<pending, profile, heldKeys, sideHeld>>,
         NEW n \in Seq(Pad!Command), commands' = commands \o n,
         Shaped(n), KeyCurrent(n, held'),
         SameBut(n, held, held')
  PROVE  Shaped(Pad!InFlight') /\ KeyCurrent(Pad!InFlight', held') /\ OwnWay' /\ Pad!NoStuckKey'
  <1>1. Pad!InFlight \in Seq(Pad!Command) /\ Pad!InFlight' = Pad!InFlight \o n
    BY UnderWay, MoreUnderWay DEF QueueInv
  <1>2. /\ KeyCurrent(Pad!InFlight', held') /\ Shaped(Pad!InFlight')
        /\ \A k : Without(Pad!InFlight', k) <=> Without(Pad!InFlight, k) /\ Without(n, k)
    <2>1. KeyCurrent(Pad!InFlight, held) /\ Shaped(Pad!InFlight)
      BY DEF QueueInv
    <2> QED
      BY <1>1, <2>1, Added
  <1>3. Pad!Pressed' = Pad!Pressed /\ Pad!Pressed \subseteq PadKeys
    BY DEF Pad!Pressed, QueueInv, Pad!TypeOK
  <1>4. \A k \in Pad!Pressed : Without(Pad!InFlight', k) => held'[k] # {}
    <2> SUFFICES ASSUME NEW k \in Pad!Pressed, Without(Pad!InFlight', k) PROVE held'[k] # {}
      OBVIOUS
    <2>1. Without(Pad!InFlight, k) /\ Without(n, k) /\ k \in PadKeys
      BY <1>2, <1>3
    <2>2. held[k] # {}
      BY <2>1 DEF QueueInv, Pad!NoStuckKey, Without
    <2> QED
      BY <2>1, <2>2 DEF SameBut
  <1>5. Pad!NoStuckKey'
    BY <1>3, <1>4 DEF Pad!NoStuckKey, Without
  <1> QED
    BY <1>2, <1>5 DEF QueueInv, OwnWay

LEMMA PressAdds ==
  ASSUME Pad!KeypadAssumption, QueueInv, UNCHANGED <<pending, profile, heldKeys, sideHeld>>,
         NEW s \in Pad!Sources, Pad!KeyPress(s)
  PROVE  Shaped(Pad!InFlight') /\ KeyCurrent(Pad!InFlight', held') /\ OwnWay' /\ Pad!NoStuckKey'
  <1>1. PICK k \in PadKeys : k = KeyOf[s]
    BY DEF Pad!KeypadAssumption
  <1>2. \A x \in PadKeys : held'[x] = IF x = k THEN held[k] \cup {s} ELSE held[x]
    BY <1>1 DEF Pad!KeyPress, QueueInv, Pad!TypeOK
  <1>3. commands \in Seq(Pad!Command)
    BY DEF QueueInv, Pad!TypeOK
  <1>4. CASE held[k] # {}
    <2>1. commands' = commands \o <<>> /\ <<>> \in Seq(Pad!Command)
      BY <1>1, <1>3, <1>4, ConcatEmptySeq, EmptySeq DEF Pad!KeyPress
    <2>2. Shaped(<<>>) /\ KeyCurrent(<<>>, held')
      BY DEF Shaped, KeyCurrent
    <2>3. SameBut(<<>>, held, held')
      BY <1>2, <1>4 DEF SameBut
    <2> QED
      BY <2>1, <2>2, <2>3, CommandsAdded
  <1>5. CASE held[k] = {}
    <2> DEFINE c == <<k, TRUE, Manual[k]>>
    <2>1. c \in Pad!Command /\ c[1] = k /\ c[2] = TRUE /\ c[3] = EventOf(c[1], c[2])
      BY DEF Pad!Command, EventOf
    <2>2. commands' = Append(commands, c)
      BY <1>1, <1>5 DEF Pad!KeyPress
    <2> HIDE DEF c
    <2>3. commands' = commands \o <<c>> /\ <<c>> \in Seq(Pad!Command)
      BY <1>3, <2>1, <2>2, AppendIsConcat
    <2>4. DOMAIN <<c>> = {1} /\ <<c>>[1] = c
      OBVIOUS
    <2>5. Shaped(<<c>>)
      BY <2>1, <2>4 DEF Shaped
    <2>6. KeyCurrent(<<c>>, held')
      BY <1>2, <2>1, <2>4 DEF KeyCurrent
    <2>7. \A x \in PadKeys : Without(<<c>>, x) => x # k
      BY <2>1, <2>4 DEF Without
    <2>8. SameBut(<<c>>, held, held')
      BY <1>2, <2>7 DEF SameBut
    <2> QED
      BY <2>3, <2>5, <2>6, <2>8, CommandsAdded
  <1> QED
    BY <1>4, <1>5

LEMMA ReleaseAdds ==
  ASSUME Pad!KeypadAssumption, QueueInv, UNCHANGED <<pending, profile, heldKeys, sideHeld>>,
         NEW S, Pad!KeyRelease(S)
  PROVE  Shaped(Pad!InFlight') /\ KeyCurrent(Pad!InFlight', held') /\ OwnWay' /\ Pad!NoStuckKey'
  <1> DEFINE n == Pad!Releases(Pad!Freed(S))
  <1>1. /\ n \in Seq(Pad!Command)
        /\ \A i \in DOMAIN n : \E k \in Pad!Freed(S) : n[i] = <<k, FALSE, NoEvent>>
        /\ \A k \in Pad!Freed(S) : \E i \in DOMAIN n : n[i][1] = k
    BY ReleasesOf DEF Pad!Freed
  <1>2. \A k \in PadKeys : held'[k] = held[k] \ S
    BY DEF Pad!KeyRelease, Pad!HeldAfterRelease
  <1>3. \A k \in Pad!Freed(S) : k \in PadKeys /\ held'[k] = {}
    BY <1>2 DEF Pad!Freed
  <1>4. commands' = commands \o n
    BY DEF Pad!KeyRelease
  <1> HIDE DEF n
  <1>5. \A i \in DOMAIN n : n[i][1] \in Pad!Freed(S) /\ n[i][2] = FALSE /\ n[i][3] = NoEvent
    <2> TAKE i \in DOMAIN n
    <2>1. PICK k \in Pad!Freed(S) : n[i] = <<k, FALSE, NoEvent>>
      BY <1>1
    <2> QED
      BY <2>1
  <1>6. Shaped(n)
    BY <1>5 DEF Shaped, EventOf
  <1>7. KeyCurrent(n, held')
    BY <1>3, <1>5 DEF KeyCurrent
  <1>8. SameBut(n, held, held')
    <2> SUFFICES ASSUME NEW k \in PadKeys, Without(n, k) PROVE held[k] = {} <=> held'[k] = {}
      BY DEF SameBut
    <2>1. k \notin Pad!Freed(S)
      BY <1>1 DEF Without
    <2> QED
      BY <1>2, <2>1 DEF Pad!Freed
  <1> QED
    BY <1>1, <1>4, <1>6, <1>7, <1>8, CommandsAdded

LEMMA NothingAdded ==
  ASSUME QueueInv, UNCHANGED <<held, commands, pending, profile, heldKeys, sideHeld>>
  PROVE  Shaped(Pad!InFlight') /\ KeyCurrent(Pad!InFlight', held') /\ OwnWay' /\ Pad!NoStuckKey'
  BY DEF QueueInv, Pad!InFlight, OwnWay, Pad!NoStuckKey, Pad!Pressed

LEMMA CommandTaken ==
  ASSUME Pad!KeypadAssumption, ManualKeepsWay, QueueInv, Pad!TakeCommand, UNCHANGED profile
  PROVE  Shaped(Pad!InFlight') /\ KeyCurrent(Pad!InFlight', held') /\ OwnWay' /\ Pad!NoStuckKey'
  <1>1. UNCHANGED held
    BY DEF Pad!TakeCommand, Pad!window
  <1>2. /\ Pad!InFlight # <<>> /\ Head(Pad!InFlight) \in Pad!Command
        /\ edged => Pad!InFlight' = Pad!InFlight /\ UNCHANGED <<heldKeys, sideHeld>>
        /\ ~ edged => /\ Pad!InFlight' = Tail(Pad!InFlight)
                      /\ Pad!SetKey(Head(Pad!InFlight)[1], Head(Pad!InFlight)[2], Head(Pad!InFlight)[3])
    BY FirstTaken DEF QueueInv
  <1>3. CASE edged
    BY <1>1, <1>2, <1>3 DEF QueueInv, OwnWay, Pad!NoStuckKey, Pad!Pressed
  <1>4. CASE ~ edged
    <2>1. PICK c \in Pad!Command : c = Head(Pad!InFlight)
      BY <1>2
    <2>2. c[1] \in PadKeys /\ c[2] \in BOOLEAN
      BY <2>1 DEF Pad!Command
    <2>3. /\ Shaped(Pad!InFlight') /\ c[3] = EventOf(c[1], c[2])
          /\ KeyCurrent(Pad!InFlight', held)
          /\ Without(Pad!InFlight', c[1]) => c[2] = (held[c[1]] # {})
          /\ \A k : Without(Pad!InFlight', k) /\ k # c[1] => Without(Pad!InFlight, k)
      <3>1. Pad!InFlight \in Seq(Pad!Command) /\ KeyCurrent(Pad!InFlight, held) /\ Shaped(Pad!InFlight)
        BY UnderWay DEF QueueInv
      <3> QED
        BY <1>2, <1>4, <2>1, <3>1, Taken
    <2>4. Pad!SetKey(c[1], c[2], EventOf(c[1], c[2]))
      BY <1>2, <1>4, <2>1, <2>3
    <2>5. /\ OwnWay' /\ Pad!Pressed' \subseteq Pad!Pressed \cup {c[1]}
          /\ ~ c[2] => c[1] \notin Pad!Pressed'
      BY <2>2, <2>4, SetKeyWay DEF QueueInv
    <2>6. \A k \in Pad!Pressed' : Without(Pad!InFlight', k) => held[k] # {}
      <3> SUFFICES ASSUME NEW k \in Pad!Pressed', Without(Pad!InFlight', k) PROVE held[k] # {}
        OBVIOUS
      <3>1. CASE k = c[1]
        BY <2>2, <2>3, <2>5, <3>1
      <3>2. CASE k # c[1]
        BY <2>3, <2>5, <3>2 DEF QueueInv, Pad!NoStuckKey, Without
      <3> QED
        BY <3>1, <3>2
    <2> QED
      BY <1>1, <2>3, <2>5, <2>6 DEF Pad!NoStuckKey, Without
  <1> QED
    BY <1>3, <1>4

LEMMA QueueStep ==
  ASSUME Pad!KeypadAssumption, ManualKeepsWay, QueueInv, [Pad!Next]_(Pad!vars)
  PROVE  QueueInv'
  <1> DEFINE Result == Shaped(Pad!InFlight') /\ KeyCurrent(Pad!InFlight', held') /\ OwnWay' /\ Pad!NoStuckKey'
  <1>1. UNCHANGED profile /\ Pad!TypeOK /\ Pad!TypeOK'
    BY KeypadTypeStep DEF Pad!Next, Pad!vars, QueueInv
  <1>2. ASSUME Pad!HandlePress PROVE Result
    <2>1. UNCHANGED <<pending, heldKeys, sideHeld>>
      BY <1>2 DEF Pad!HandlePress, Pad!worker, Pad!emulator
    <2>2. PICK s : s = Head(events)[2]
      OBVIOUS
    <2>3. s \in Pad!Sources
      BY <1>1, <1>2, <2>2, HeadIs DEF Pad!HandlePress, Pad!Event, Pad!TypeOK, KeyEvent
    <2>4. Pad!KeyPress(s) \/ UNCHANGED <<held, commands>>
      BY <1>2, <2>2 DEF Pad!HandlePress
    <2> QED
      BY <1>1, <2>1, <2>3, <2>4, PressAdds, NothingAdded
  <1>3. ASSUME Pad!HandleRelease PROVE Result
    <2>1. UNCHANGED <<pending, heldKeys, sideHeld>>
      BY <1>3 DEF Pad!HandleRelease, Pad!worker, Pad!emulator
    <2>2. (\E S : Pad!KeyRelease(S)) \/ UNCHANGED <<held, commands>>
      BY <1>3 DEF Pad!HandleRelease
    <2> QED
      BY <1>1, <2>1, <2>2, ReleaseAdds, NothingAdded
  <1>4. ASSUME Pad!HandleFocusOut PROVE Result
    <2>1. UNCHANGED <<pending, heldKeys, sideHeld>> /\ Pad!KeyRelease(active)
      BY <1>4 DEF Pad!HandleFocusOut, Pad!worker, Pad!emulator
    <2> QED
      BY <1>1, <2>1, ReleaseAdds
  <1>5. ASSUME NEW s \in Keyboard, Pad!ConfirmRelease(s) PROVE Result
    <2>1. UNCHANGED <<pending, heldKeys, sideHeld>> /\ Pad!KeyRelease({s})
      BY <1>5 DEF Pad!ConfirmRelease, Pad!worker, Pad!emulator
    <2> QED
      BY <1>1, <2>1, ReleaseAdds
  <1>6. ASSUME Pad!Restart PROVE Result
    <2>1. pending' = <<>> /\ commands' = <<>> /\ heldKeys' = {} /\ sideHeld' = {}
      BY <1>6 DEF Pad!Restart
    <2>2. Pad!InFlight' = <<>> /\ Pad!Pressed' = {}
      BY <2>1, EmptySeq, ConcatEmptySeq DEF Pad!InFlight, Pad!Pressed
    <2> QED
      BY <2>1, <2>2 DEF Shaped, KeyCurrent, OwnWay, Pad!NoStuckKey
  <1>7. ASSUME Pad!TakeCommand PROVE Result
    BY <1>1, <1>7, CommandTaken
  <1>8. ASSUME Pad!Desktop \/ Pad!EmulatorReady \/ Pad!NothingToTake \/ Pad!Run \/ UNCHANGED Pad!vars PROVE Result
    <2>1. UNCHANGED <<held, commands, pending, heldKeys, sideHeld>>
      BY <1>8 DEF Pad!Desktop, Pad!FocusOut, Pad!FocusIn, Pad!PushDown, Pad!LetGo,
         Pad!AutoRepeat, Pad!EmulatorReady,
                  Pad!NothingToTake, Pad!Run, Pad!vars, Pad!window, Pad!worker, Pad!emulator
    <2> QED
      BY <1>1, <2>1, NothingAdded
  <1> HIDE DEF Result
  <1>9. Result
    BY <1>2, <1>3, <1>4, <1>5, <1>6, <1>7, <1>8 DEF Pad!Next, Pad!Tk, Pad!Worker, Result
  <1> QED
    BY <1>1, <1>9 DEF QueueInv, Result

(* Where a manual mapping leaves a key its way to the guest, no key stays  *)
(* pressed: once no command for it is under way, the handset holds it only *)
(* while some source on the desktop does - for any profile, any mapping of *)
(* sources to keys, and however commands were queued, kept back or         *)
(* rejected on the way.                                                    *)
THEOREM NoKeySticks ==
  ASSUME Pad!KeypadAssumption, ManualKeepsWay PROVE Pad!Spec => []Pad!NoStuckKey
  <1>1. Pad!Init => QueueInv
    <2> SUFFICES ASSUME Pad!Init PROVE QueueInv
      OBVIOUS
    <2>1. Pad!InFlight = <<>>
      BY EmptySeq, ConcatEmptySeq DEF Pad!Init, Pad!InFlight
    <2> QED
      BY <2>1, KeypadTypeInit
         DEF Pad!Init, QueueInv, Shaped, KeyCurrent, OwnWay, Pad!NoStuckKey, Pad!Pressed
  <1>2. QueueInv /\ [Pad!Next]_(Pad!vars) => QueueInv'
    BY QueueStep
  <1>3. QueueInv => Pad!NoStuckKey
    BY DEF QueueInv
  <1> QED
    BY <1>1, <1>2, <1>3, PTL DEF Pad!Spec

-------------------------------------------------------------------------------
(* Board_proofs read with `state' for the variable of every component.     *)
(* Its instances and those of MCBoard are the same modules with the same   *)
(* parameters: three lemmas say so of each component's assumption,         *)
(* specification and properties, definition by definition.  The theorems   *)
(* of R then carry over.                                                   *)

R == INSTANCE Board_proofs WITH
  machine <- state, bus <- state, adc <- state, memory <- state, keys <- state,
  probe <- state, watch <- state, call <- state, second <- state,
  block <- state, nand <- state, chip <- state, poll <- state,
  Cells <- SaveCells, Bits <- SaveBits, NandPages <- NandPageCount,
  Blank <- EepromBlank, Files <- EepromFiles,
  Reads <- BusReads, Words <- ConverterWords, Values <- MemoryValues,
  RegisterBits <- RegisterWidth, WaitLoops <- PollLoops, Chunk <- LoopChunk

LEMMA NandSameAssumption == R!Nand!NandAssumption <=> Nand!NandAssumption
  BY DEF Nand!NandAssumption, R!Nand!NandAssumption, Nand!Byte, R!Nand!Byte

LEMMA NandSameSpec == R!Nand!Spec <=> Nand!Spec
<1>1. R!Nand!Init <=> Nand!Init
  BY DEF Nand!Init, R!Nand!Init, Nand!Erased, R!Nand!Erased, Nand!Cells, R!Nand!Cells, Nand!End,
    R!Nand!End, Nand!RawPage, R!Nand!RawPage
<1>2. R!Nand!Next <=> Nand!Next
  <2>1. R!Nand!Command <=> Nand!Command
    <3>1. \A cycles : R!Nand!Number(cycles) = Nand!Number(cycles)
      BY DEF Nand!Number, R!Nand!Number, Nand!FoldRight, R!Nand!FoldRight, Nand!MapThenFoldSet,
        R!Nand!MapThenFoldSet, Nand!Min, R!Nand!Min
    <3>2. \A page : R!Nand!BlockOf(page) = Nand!BlockOf(page)
      BY DEF Nand!BlockOf, R!Nand!BlockOf, Nand!RawPage, R!Nand!RawPage
    <3>3. \A n, first, last : R!Nand!ErasedCells(n, first, last) = Nand!ErasedCells(n, first, last)
      BY DEF Nand!ErasedCells, R!Nand!ErasedCells, Nand!Min, R!Nand!Min, Nand!End, R!Nand!End,
        Nand!Cells, R!Nand!Cells, Nand!RawPage, R!Nand!RawPage
    <3>4. R!Nand!ConfirmErase <=> Nand!ConfirmErase
      BY <3>1, <3>2, <3>3 DEF Nand!ConfirmErase, R!Nand!ConfirmErase, Nand!MayChange, R!Nand!MayChange,
        Nand!RawPage, R!Nand!RawPage
    <3>5. R!Nand!ConfirmProgram <=> Nand!ConfirmProgram
      BY DEF Nand!ConfirmProgram, R!Nand!ConfirmProgram, Nand!Programming, R!Nand!Programming,
        Nand!MayChange, R!Nand!MayChange, Nand!Programmed, R!Nand!Programmed, Nand!Min,
        R!Nand!Min, Nand!Max, R!Nand!Max, Nand!End, R!Nand!End, Nand!Cells, R!Nand!Cells,
        Nand!RawPage, R!Nand!RawPage
    <3>6. QED
      BY <3>4, <3>5 DEF Nand!Command, R!Nand!Command, Nand!ReadStatus, R!Nand!ReadStatus, Nand!Reset,
        R!Nand!Reset, Nand!BeginProgram, R!Nand!BeginProgram, Nand!BeginErase,
        R!Nand!BeginErase, Nand!BeginRead, R!Nand!BeginRead
  <2>2. \A cycle : R!Nand!Address(cycle) <=> Nand!Address(cycle)
    <3>1. \A cycles : R!Nand!Number(cycles) = Nand!Number(cycles)
      BY DEF Nand!Number, R!Nand!Number, Nand!FoldRight, R!Nand!FoldRight, Nand!MapThenFoldSet,
        R!Nand!MapThenFoldSet, Nand!Min, R!Nand!Min
    <3>2. QED
      BY <3>1 DEF Nand!Address, R!Nand!Address, Nand!Reading, R!Nand!Reading, Nand!Programming,
        R!Nand!Programming, Nand!CursorAt, R!Nand!CursorAt, Nand!RawPage, R!Nand!RawPage,
        Nand!ColumnCycles, R!Nand!ColumnCycles
  <2>3. \A bytes : R!Nand!DataWrite(bytes) <=> Nand!DataWrite(bytes)
    BY DEF Nand!DataWrite, R!Nand!DataWrite, Nand!Programming, R!Nand!Programming, Nand!RawPage,
      R!Nand!RawPage, Nand!Max, R!Nand!Max, Nand!Min, R!Nand!Min
  <2>4. \A size : R!Nand!DataRead(size) <=> Nand!DataRead(size)
    BY DEF Nand!DataRead, R!Nand!DataRead, Nand!Reading, R!Nand!Reading, Nand!End, R!Nand!End,
      Nand!RawPage, R!Nand!RawPage
  <2>5. \A page, column, bytes : R!Nand!FastWrite(page, column, bytes) <=> Nand!FastWrite(page, column, bytes)
    BY DEF Nand!FastWrite, R!Nand!FastWrite, Nand!Fits, R!Nand!Fits, Nand!MayChange,
      R!Nand!MayChange, Nand!Programmed, R!Nand!Programmed, Nand!RawPage, R!Nand!RawPage,
      Nand!Min, R!Nand!Min, Nand!Max, R!Nand!Max, Nand!End, R!Nand!End, Nand!Cells,
      R!Nand!Cells
  <2>6. QED
    BY <2>1, <2>2, <2>3, <2>4, <2>5 DEF Nand!Next, R!Nand!Next, Nand!Words, R!Nand!Words, Nand!RawPage, R!Nand!RawPage
<1>3. QED BY <1>1, <1>2, PTL DEF R!Nand!Spec, Nand!Spec

LEMMA NandSameTypeOK == R!Nand!TypeOK <=> Nand!TypeOK
  BY DEF Nand!TypeOK, R!Nand!TypeOK, Nand!Modes, R!Nand!Modes, Nand!Cells, R!Nand!Cells,
    Nand!Byte, R!Nand!Byte, Nand!End, R!Nand!End, Nand!RawPage, R!Nand!RawPage

LEMMA NandSameLogIsImage == R!Nand!LogIsImage <=> Nand!LogIsImage
  BY DEF Nand!LogIsImage, R!Nand!LogIsImage, Nand!Replayed, R!Nand!Replayed, Nand!Erased,
    R!Nand!Erased, Nand!FoldLeft, R!Nand!FoldLeft, Nand!ReplayEntry, R!Nand!ReplayEntry,
    Nand!Cells, R!Nand!Cells, Nand!MapThenFoldSet, R!Nand!MapThenFoldSet, Nand!Max,
    R!Nand!Max, Nand!End, R!Nand!End, Nand!RawPage, R!Nand!RawPage

LEMMA EepromSameAssumption == R!Eeprom!EepromAssumption <=> Eeprom!EepromAssumption
  BY DEF Eeprom!EepromAssumption, R!Eeprom!EepromAssumption

LEMMA EepromSameSpec == R!Eeprom!Spec <=> Eeprom!Spec
<1>1. R!Eeprom!Init <=> Eeprom!Init
  BY DEF Eeprom!Init, R!Eeprom!Init
<1>2. R!Eeprom!Next <=> Eeprom!Next
  <2>1. \A descriptor : R!Eeprom!Redescribe(descriptor) <=> Eeprom!Redescribe(descriptor)
    BY DEF Eeprom!Redescribe, R!Eeprom!Redescribe
  <2>2. \A offset, length, hosted : R!Eeprom!Read(offset, length, hosted) <=> Eeprom!Read(offset, length, hosted)
    BY DEF Eeprom!Read, R!Eeprom!Read, Eeprom!Ready, R!Eeprom!Ready, Eeprom!Refused,
      R!Eeprom!Refused, Eeprom!Ensured, R!Eeprom!Ensured, Eeprom!InRange, R!Eeprom!InRange,
      Eeprom!Known, R!Eeprom!Known, Eeprom!FileFits, R!Eeprom!FileFits
  <2>3. \A offset, bytes, hosted : R!Eeprom!Write(offset, bytes, hosted) <=> Eeprom!Write(offset, bytes, hosted)
    BY DEF Eeprom!Write, R!Eeprom!Write, Eeprom!Ready, R!Eeprom!Ready, Eeprom!Refused,
      R!Eeprom!Refused, Eeprom!Ensured, R!Eeprom!Ensured, Eeprom!InRange, R!Eeprom!InRange,
      Eeprom!Stored, R!Eeprom!Stored, Eeprom!Known, R!Eeprom!Known, Eeprom!FileFits,
      R!Eeprom!FileFits
  <2>4. QED
    BY <2>1, <2>2, <2>3 DEF Eeprom!Next, R!Eeprom!Next, Eeprom!Offsets, R!Eeprom!Offsets, Eeprom!Payloads,
      R!Eeprom!Payloads
<1>3. QED BY <1>1, <1>2, PTL DEF R!Eeprom!Spec, Eeprom!Spec

LEMMA EepromSameTypeOK == R!Eeprom!TypeOK <=> Eeprom!TypeOK
  BY DEF Eeprom!TypeOK, R!Eeprom!TypeOK, Eeprom!Results, R!Eeprom!Results

LEMMA EepromSameLogIsImage == R!Eeprom!LogIsImage <=> Eeprom!LogIsImage
  BY DEF Eeprom!LogIsImage, R!Eeprom!LogIsImage, Eeprom!FoldLeft, R!Eeprom!FoldLeft,
    Eeprom!Stored, R!Eeprom!Stored, Eeprom!MapThenFoldSet, R!Eeprom!MapThenFoldSet,
    Eeprom!Max, R!Eeprom!Max

LEMMA BusSameAssumption == R!Bus!SerialBusAssumption <=> Bus!SerialBusAssumption
  BY DEF Bus!SerialBusAssumption, R!Bus!SerialBusAssumption, Bus!Registers, R!Bus!Registers,
    Bus!MaxByte, R!Bus!MaxByte, Bus!MaxWord, R!Bus!MaxWord

LEMMA BusSameSpec == R!Bus!Spec <=> Bus!Spec
<1>1. R!Bus!Init <=> Bus!Init
  BY DEF Bus!Init, R!Bus!Init, Bus!None, R!Bus!None
<1>2. R!Bus!Next <=> Bus!Next
  <2>1. \A w : R!Bus!Write(w) <=> Bus!Write(w)
    <3>1. \A b : R!Bus!Filled(b) = Bus!Filled(b)
      BY DEF Bus!Filled, R!Bus!Filled
    <3>2. \A b : R!Bus!Rejected(b) = Bus!Rejected(b)
      BY DEF Bus!Rejected, R!Bus!Rejected, Bus!None, R!Bus!None
    <3>3. \A b, w : R!Bus!Registered(b, w) = Bus!Registered(b, w)
      BY <3>1 DEF Bus!Registered, R!Bus!Registered, Bus!ControlBits, R!Bus!ControlBits
    <3>4. \A b, w : R!Bus!Profiled(b, w) = Bus!Profiled(b, w)
      BY <3>2 DEF Bus!Profiled, R!Bus!Profiled, Bus!Bootstrap, R!Bus!Bootstrap, Bus!ValidationWrite,
        R!Bus!ValidationWrite, Bus!W, R!Bus!W
    <3>5. \A word, w : R!Bus!Lands(word, w) = Bus!Lands(word, w)
      BY DEF Bus!Lands, R!Bus!Lands
    <3>6. QED
      BY <3>3, <3>4, <3>5 DEF Bus!Write, R!Bus!Write
  <2>2. \A r : R!Bus!Read(r) <=> Bus!Read(r)
    BY DEF Bus!Read, R!Bus!Read, Bus!Validated, R!Bus!Validated, Bus!StatusValue,
      R!Bus!StatusValue, Bus!Rejected, R!Bus!Rejected, Bus!None, R!Bus!None
  <2>3. QED
    BY <2>1, <2>2 DEF Bus!Next, R!Bus!Next
<1>3. QED BY <1>1, <1>2, PTL DEF R!Bus!Spec, Bus!Spec

LEMMA BusSameTypeOK == R!Bus!TypeOK <=> Bus!TypeOK
  BY DEF Bus!TypeOK, R!Bus!TypeOK, Bus!Bootstrap, R!Bus!Bootstrap, Bus!ControlBits,
    R!Bus!ControlBits, Bus!None, R!Bus!None, Bus!MaxWord, R!Bus!MaxWord, Bus!W, R!Bus!W

LEMMA BusSameNativeUnlessAnswered == R!Bus!NativeUnlessAnswered <=> Bus!NativeUnlessAnswered
  BY DEF Bus!NativeUnlessAnswered, R!Bus!NativeUnlessAnswered, Bus!None, R!Bus!None

LEMMA BusSameRequestsWait == R!Bus!RequestsWait <=> Bus!RequestsWait
  BY DEF Bus!RequestsWait, R!Bus!RequestsWait

LEMMA AdcSameAssumption == R!Adc!BoardAdcAssumption <=> Adc!BoardAdcAssumption
  BY DEF Adc!BoardAdcAssumption, R!Adc!BoardAdcAssumption, Adc!MaxWord, R!Adc!MaxWord

LEMMA AdcSameSpec == R!Adc!Spec <=> Adc!Spec
<1>1. R!Adc!Init <=> Adc!Init
  BY DEF Adc!Init, R!Adc!Init, Adc!None, R!Adc!None, Adc!NoEpoch, R!Adc!NoEpoch
<1>2. R!Adc!Next <=> Adc!Next
  BY DEF Adc!Next, R!Adc!Next, Adc!ReaderEntry, R!Adc!ReaderEntry, Adc!DataRead, R!Adc!DataRead,
    Adc!DataWrite, R!Adc!DataWrite, Adc!Dc0Control, R!Adc!Dc0Control, Adc!Dc0Data,
    R!Adc!Dc0Data, Adc!Dc0Start, R!Adc!Dc0Start, Adc!Dc0StatusRead, R!Adc!Dc0StatusRead,
    Adc!Dc0DataRead, R!Adc!Dc0DataRead, Adc!None, R!Adc!None, Adc!MayAccess,
    R!Adc!MayAccess, Adc!NoEpoch, R!Adc!NoEpoch, Adc!Tail2, R!Adc!Tail2, Adc!Control,
    R!Adc!Control, Adc!Request, R!Adc!Request
<1>3. QED BY <1>1, <1>2, PTL DEF R!Adc!Spec, Adc!Spec

LEMMA AdcSameTypeOK == R!Adc!TypeOK <=> Adc!TypeOK
  BY DEF Adc!TypeOK, R!Adc!TypeOK, Adc!None, R!Adc!None, Adc!MaxWord, R!Adc!MaxWord

LEMMA AdcSameReadbackIsTheAnswer == R!Adc!ReadbackIsTheAnswer <=> Adc!ReadbackIsTheAnswer
  BY DEF Adc!ReadbackIsTheAnswer, R!Adc!ReadbackIsTheAnswer, Adc!Request, R!Adc!Request

LEMMA LoopSameAssumption == R!Loop!RunLoopAssumption <=> Loop!RunLoopAssumption
  BY DEF Loop!RunLoopAssumption, R!Loop!RunLoopAssumption

LEMMA LoopSameSpec == R!Loop!Spec <=> Loop!Spec
<1>1. R!Loop!Init <=> Loop!Init
  BY DEF Loop!Init, R!Loop!Init
<1>2. R!Loop!Next <=> Loop!Next
  <2>1. \A steps, probe : R!Loop!Run(steps, probe) <=> Loop!Run(steps, probe)
    BY DEF Loop!Run, R!Loop!Run, Loop!Idle, R!Loop!Idle
  <2>2. \A poll, hle, repeated : R!Loop!ChunkRuns(poll, hle, repeated) <=> Loop!ChunkRuns(poll, hle, repeated)
    <3>1. \A m, poll, hle : R!Loop!Executed(m, poll, hle) = Loop!Executed(m, poll, hle)
      BY DEF Loop!Executed, R!Loop!Executed, Loop!Observed, R!Loop!Observed, Loop!Chunk,
        R!Loop!Chunk, Loop!Least, R!Loop!Least
    <3>2. \A m : R!Loop!Counted(m) = Loop!Counted(m)
      BY DEF Loop!Counted, R!Loop!Counted, Loop!Chunk, R!Loop!Chunk, Loop!Least, R!Loop!Least
    <3>3. \A m, repeated : R!Loop!Decided(m, repeated) = Loop!Decided(m, repeated)
      BY DEF Loop!Decided, R!Loop!Decided, Loop!Least, R!Loop!Least, Loop!ReleasePoll,
        R!Loop!ReleasePoll, Loop!Stuck, R!Loop!Stuck, Loop!Hotter, R!Loop!Hotter,
        Loop!Released, R!Loop!Released, Loop!Supplied, R!Loop!Supplied
    <3>4. QED
      BY <3>1, <3>2, <3>3 DEF Loop!ChunkRuns, R!Loop!ChunkRuns, Loop!Idle, R!Loop!Idle, Loop!Continued,
        R!Loop!Continued, Loop!Chunk, R!Loop!Chunk, Loop!Least, R!Loop!Least
  <2>3. \A poll : R!Loop!ChunkFaults(poll) <=> Loop!ChunkFaults(poll)
    BY DEF Loop!ChunkFaults, R!Loop!ChunkFaults, Loop!Idle, R!Loop!Idle, Loop!Executed,
      R!Loop!Executed, Loop!Observed, R!Loop!Observed, Loop!Chunk, R!Loop!Chunk,
      Loop!Least, R!Loop!Least
  <2>4. R!Loop!HostFails <=> Loop!HostFails
    BY DEF Loop!HostFails, R!Loop!HostFails, Loop!Idle, R!Loop!Idle
  <2>5. QED
    BY <2>1, <2>2, <2>3, <2>4 DEF Loop!Next, R!Loop!Next
<1>3. QED BY <1>1, <1>2, PTL DEF R!Loop!Spec, Loop!Spec

LEMMA LoopSameTypeOK == R!Loop!TypeOK <=> Loop!TypeOK
  BY DEF Loop!TypeOK, R!Loop!TypeOK, Loop!Bits, R!Loop!Bits, Loop!Faults, R!Loop!Faults

LEMMA LoopSameCadenceIgnoresSlices == R!Loop!CadenceIgnoresSlices <=> Loop!CadenceIgnoresSlices
  BY DEF Loop!CadenceIgnoresSlices, R!Loop!CadenceIgnoresSlices

LEMMA LoopSameForcedBitsAreWaitedFor == R!Loop!ForcedBitsAreWaitedFor <=> Loop!ForcedBitsAreWaitedFor
  BY DEF Loop!ForcedBitsAreWaitedFor, R!Loop!ForcedBitsAreWaitedFor

LEMMA MemorySameAssumption == R!Memory!MemoryBusAssumption <=> Memory!MemoryBusAssumption
  BY DEF Memory!MemoryBusAssumption, R!Memory!MemoryBusAssumption

LEMMA MemorySameSpec == R!Memory!Spec <=> Memory!Spec
<1>1. R!Memory!Init <=> Memory!Init
  BY DEF Memory!Init, R!Memory!Init, Memory!Of, R!Memory!Of
<1>2. R!Memory!Next <=> Memory!Next
  BY DEF Memory!Next, R!Memory!Next, Memory!Write, R!Memory!Write, Memory!Read, R!Memory!Read,
    Memory!Fetch, R!Memory!Fetch, Memory!Runs, R!Memory!Runs, Memory!Ready, R!Memory!Ready,
    Memory!Bank, R!Memory!Bank, Memory!OpenBus, R!Memory!OpenBus, Memory!Unmapped,
    R!Memory!Unmapped, Memory!Executable, R!Memory!Executable, Memory!Traced,
    R!Memory!Traced, Memory!Faulted, R!Memory!Faulted, Memory!Of, R!Memory!Of,
    Memory!Tries, R!Memory!Tries, Memory!Attaches, R!Memory!Attaches, Memory!Attached,
    R!Memory!Attached, Memory!Cardinality, R!Memory!Cardinality, Memory!Mapped,
    R!Memory!Mapped
<1>3. QED BY <1>1, <1>2, PTL DEF R!Memory!Spec, Memory!Spec

LEMMA MemorySameTypeOK == R!Memory!TypeOK <=> Memory!TypeOK
  BY DEF Memory!TypeOK, R!Memory!TypeOK

LEMMA MemorySamePageHasOneOwner == R!Memory!PageHasOneOwner <=> Memory!PageHasOneOwner
  BY DEF Memory!PageHasOneOwner, R!Memory!PageHasOneOwner, Memory!Bank, R!Memory!Bank,
    Memory!Of, R!Memory!Of

LEMMA InputSameAssumption == R!Input!KeyScanAssumption <=> Input!KeyScanAssumption
  BY DEF Input!KeyScanAssumption, R!Input!KeyScanAssumption, Input!Cardinality,
    R!Input!Cardinality

LEMMA InputSameSpec == R!Input!Spec <=> Input!Spec
<1>1. R!Input!Init <=> Input!Init
  BY DEF Input!Init, R!Input!Init, Input!NoProfile, R!Input!NoProfile, Input!None, R!Input!None,
    Input!NoScan, R!Input!NoScan
<1>2. R!Input!Next <=> Input!Next
  BY DEF Input!Next, R!Input!Next, Input!SetKey, R!Input!SetKey, Input!None, R!Input!None,
    Input!Events, R!Input!Events, Input!Cardinality, R!Input!Cardinality, Input!ScanRow,
    R!Input!ScanRow, Input!Matrix, R!Input!Matrix, Input!ReadSideband,
    R!Input!ReadSideband, Input!GuestWrites, R!Input!GuestWrites, Input!ReadRegister,
    R!Input!ReadRegister, Input!EventObserved, R!Input!EventObserved,
    Input!EnqueueObserved, R!Input!EnqueueObserved, Input!DequeueObserved,
    R!Input!DequeueObserved, Input!TaskObserved, R!Input!TaskObserved, Input!Outcomes,
    R!Input!Outcomes, Input!NoAnswer, R!Input!NoAnswer, Input!NoScan, R!Input!NoScan,
    Input!Decoded, R!Input!Decoded, Input!SenseOf, R!Input!SenseOf, Input!Producers,
    R!Input!Producers, Input!Reasserted, R!Input!Reasserted, Input!Credited,
    R!Input!Credited, Input!QueueKnown, R!Input!QueueKnown, Input!AfterStale,
    R!Input!AfterStale, Input!Producer, R!Input!Producer, Input!PressSideband,
    R!Input!PressSideband, Input!ReleaseSideband, R!Input!ReleaseSideband, Input!PressCell,
    R!Input!PressCell, Input!CellsOf, R!Input!CellsOf, Input!ReleaseCell,
    R!Input!ReleaseCell, Input!SetRegister, R!Input!SetRegister, Input!Conflict,
    R!Input!Conflict, Input!Positions, R!Input!Positions, Input!ManualCells,
    R!Input!ManualCells, Input!NoProfile, R!Input!NoProfile, Input!Mapped, R!Input!Mapped,
    Input!InTableOrder, R!Input!InTableOrder, Input!CellAt, R!Input!CellAt, Input!Least,
    R!Input!Least, Input!UniqueCells, R!Input!UniqueCells, Input!Indexes, R!Input!Indexes
<1>3. QED BY <1>1, <1>2, PTL DEF R!Input!Spec, Input!Spec

LEMMA InputSameTypeOK == R!Input!TypeOK <=> Input!TypeOK
  BY DEF Input!TypeOK, R!Input!TypeOK

LEMMA InputSameScanFindsHeldKey == R!Input!ScanFindsHeldKey <=> Input!ScanFindsHeldKey
  BY DEF Input!ScanFindsHeldKey, R!Input!ScanFindsHeldKey, Input!Matrix, R!Input!Matrix

LEMMA InputSameHeldKeysAreRead == R!Input!HeldKeysAreRead <=> Input!HeldKeysAreRead
  BY DEF Input!HeldKeysAreRead, R!Input!HeldKeysAreRead, Input!Matrix, R!Input!Matrix

LEMMA InputSameEvidenceIsOrdered == R!Input!EvidenceIsOrdered <=> Input!EvidenceIsOrdered
  BY DEF Input!EvidenceIsOrdered, R!Input!EvidenceIsOrdered, Input!None, R!Input!None

LEMMA RegisterSameAssumption == R!Register!PollReleaseAssumption <=> Register!PollReleaseAssumption
  BY DEF Register!PollReleaseAssumption, R!Register!PollReleaseAssumption, Register!Grammars,
    R!Register!Grammars, Register!WantTaken, R!Register!WantTaken, Register!Values,
    R!Register!Values, Register!BitSet, R!Register!BitSet

LEMMA RegisterSameSpec == R!Register!Spec <=> Register!Spec
<1>1. R!Register!Init <=> Register!Init
  BY DEF Register!Init, R!Register!Init, Register!Values, R!Register!Values, Register!Idle,
    R!Register!Idle
<1>2. R!Register!Next <=> Register!Next
  <2>1. \A l : R!Register!Enter(l) <=> Register!Enter(l)
    BY DEF Register!Enter, R!Register!Enter, Register!Idle, R!Register!Idle, Register!Read,
      R!Register!Read, Register!Number, R!Register!Number, Register!BitsOf,
      R!Register!BitsOf, Register!Values, R!Register!Values, Register!BitSet,
      R!Register!BitSet, Register!Bit, R!Register!Bit
  <2>2. R!Register!Leave <=> Register!Leave
    BY DEF Register!Leave, R!Register!Leave, Register!Idle, R!Register!Idle, Register!Waits,
      R!Register!Waits, Register!Read, R!Register!Read, Register!Exits, R!Register!Exits,
      Register!Number, R!Register!Number, Register!BitsOf, R!Register!BitsOf, Register!Bit,
      R!Register!Bit, Register!Taken, R!Register!Taken, Register!Values, R!Register!Values,
      Register!BitSet, R!Register!BitSet
  <2>3. R!Register!Release <=> Register!Release
    BY DEF Register!Release, R!Register!Release, Register!Waits, R!Register!Waits,
      Register!Inferred, R!Register!Inferred, Register!Read, R!Register!Read,
      Register!Supplied, R!Register!Supplied, Register!Idle, R!Register!Idle,
      Register!Exits, R!Register!Exits, Register!BitSet, R!Register!BitSet, Register!Bit,
      R!Register!Bit, Register!Wanted, R!Register!Wanted, Register!Inference,
      R!Register!Inference, Register!LowestBit, R!Register!LowestBit, Register!With,
      R!Register!With, Register!Carry, R!Register!Carry, Register!Number,
      R!Register!Number, Register!BitsOf, R!Register!BitsOf, Register!Taken,
      R!Register!Taken, Register!WantTaken, R!Register!WantTaken, Register!Values,
      R!Register!Values
  <2>4. \A value : R!Register!Written(value) <=> Register!Written(value)
    BY DEF Register!Written, R!Register!Written, Register!Idle, R!Register!Idle
  <2>5. QED
    BY <2>1, <2>2, <2>3, <2>4 DEF Register!Next, R!Register!Next, Register!Values, R!Register!Values
<1>3. QED BY <1>1, <1>2, PTL DEF R!Register!Spec, Register!Spec

LEMMA RegisterSameTypeOK == R!Register!TypeOK <=> Register!TypeOK
  BY DEF Register!TypeOK, R!Register!TypeOK, Register!Idle, R!Register!Idle, Register!Values,
    R!Register!Values, Register!BitSet, R!Register!BitSet

LEMMA RegisterSameReleasesEndWait == R!Register!ReleasesEndWait <=> Register!ReleasesEndWait
  BY DEF Register!ReleasesEndWait, R!Register!ReleasesEndWait, Register!Idle, R!Register!Idle,
    Register!Exact, R!Register!Exact, Register!Waits, R!Register!Waits, Register!Supplied,
    R!Register!Supplied, Register!Inferred, R!Register!Inferred, Register!Read,
    R!Register!Read, Register!Exits, R!Register!Exits, Register!BitSet, R!Register!BitSet,
    Register!Bit, R!Register!Bit, Register!Wanted, R!Register!Wanted, Register!Inference,
    R!Register!Inference, Register!LowestBit, R!Register!LowestBit, Register!With,
    R!Register!With, Register!Carry, R!Register!Carry, Register!Number, R!Register!Number,
    Register!BitsOf, R!Register!BitsOf, Register!Taken, R!Register!Taken,
    Register!WantTaken, R!Register!WantTaken, Register!Values, R!Register!Values

LEMMA BlockSameAssumption == R!Block!HleLoopsAssumption <=> Block!HleLoopsAssumption
  BY DEF Block!HleLoopsAssumption, R!Block!HleLoopsAssumption, Block!Runs, R!Block!Runs,
    Block!Kinds, R!Block!Kinds

LEMMA BlockSameNative == \A s : R!Block!Native(s) = Block!Native(s)
<1>1. \A s, n, value : R!Block!Stored(s, n, value) = Block!Stored(s, n, value)
  BY DEF Block!Stored, R!Block!Stored, Block!Cells, R!Block!Cells, Block!Writable,
    R!Block!Writable
<1>2. \A s : R!Block!Turned(s) = Block!Turned(s)
  BY <1>1 DEF Block!Turned, R!Block!Turned, Block!Done, R!Block!Done, Block!Pass, R!Block!Pass,
    Block!Iterated, R!Block!Iterated, Block!Zeros, R!Block!Zeros, Block!CopyUnit,
    R!Block!CopyUnit, Block!Loaded, R!Block!Loaded, Block!Plain, R!Block!Plain,
    Block!Cells, R!Block!Cells, Block!Writable, R!Block!Writable, Block!Rom,
    R!Block!Rom
<1>3. \A s : R!Block!Native(s) = Block!Native(s)
  BY <1>2 DEF Block!Native, R!Block!Native
<1>4. QED BY <1>3

LEMMA BlockSameSpec == R!Block!Spec <=> Block!Spec
<1>1. R!Block!Init <=> Block!Init
  BY DEF Block!Init, R!Block!Init, Block!NoLoop, R!Block!NoLoop, Block!Cells, R!Block!Cells,
    Block!Unset, R!Block!Unset
<1>2. R!Block!Next <=> Block!Next
  <2>1. R!Block!Enter <=> Block!Enter
    BY BlockSameNative DEF Block!Enter, R!Block!Enter, Block!NoLoop, R!Block!NoLoop
  <2>2. R!Block!Iterate <=> Block!Iterate
    BY DEF Block!Iterate, R!Block!Iterate, Block!NoLoop, R!Block!NoLoop, Block!Done,
      R!Block!Done, Block!Turned, R!Block!Turned, Block!Pass, R!Block!Pass, Block!Iterated,
      R!Block!Iterated, Block!Stored, R!Block!Stored, Block!Zeros, R!Block!Zeros,
      Block!CopyUnit, R!Block!CopyUnit, Block!Cells, R!Block!Cells, Block!Writable,
      R!Block!Writable, Block!Loaded, R!Block!Loaded, Block!Plain, R!Block!Plain,
      Block!Rom, R!Block!Rom
  <2>3. R!Block!Leave <=> Block!Leave
    BY DEF Block!Leave, R!Block!Leave, Block!NoLoop, R!Block!NoLoop, Block!Done, R!Block!Done
  <2>4. R!Block!NorChanges <=> Block!NorChanges
    BY DEF Block!NorChanges, R!Block!NorChanges, Block!NoLoop, R!Block!NoLoop
  <2>5. R!Block!BootEnds <=> Block!BootEnds
    BY DEF Block!BootEnds, R!Block!BootEnds, Block!NoLoop, R!Block!NoLoop
  <2>6. R!Block!HotCopy <=> Block!HotCopy
    BY DEF Block!HotCopy, R!Block!HotCopy, Block!CopyStage, R!Block!CopyStage, Block!Whole,
      R!Block!Whole, Block!IsDeclared, R!Block!IsDeclared, Block!SourceIsSafe,
      R!Block!SourceIsSafe, Block!Overlap, R!Block!Overlap, Block!Copied, R!Block!Copied,
      Block!Leased, R!Block!Leased, Block!Strobed, R!Block!Strobed, Block!Within,
      R!Block!Within, Block!Unset, R!Block!Unset, Block!IsRam, R!Block!IsRam, Block!Least,
      R!Block!Least, Block!Stored, R!Block!Stored, Block!Cells, R!Block!Cells,
      Block!Writable, R!Block!Writable
  <2>7. R!Block!HotClear <=> Block!HotClear
    BY DEF Block!HotClear, R!Block!HotClear, Block!Boundary, R!Block!Boundary, Block!ClearStage,
      R!Block!ClearStage, Block!Whole, R!Block!Whole, Block!IsDeclared, R!Block!IsDeclared,
      Block!Cleared, R!Block!Cleared, Block!Completes, R!Block!Completes, Block!Leased,
      R!Block!Leased, Block!Least, R!Block!Least, Block!Strobed, R!Block!Strobed,
      Block!Unset, R!Block!Unset, Block!IsRam, R!Block!IsRam, Block!Within, R!Block!Within,
      Block!Stored, R!Block!Stored, Block!Zeros, R!Block!Zeros, Block!Cells, R!Block!Cells,
      Block!Writable, R!Block!Writable
  <2>8. R!Block!HotSegment <=> Block!HotSegment
    BY DEF Block!HotSegment, R!Block!HotSegment, Block!Segment, R!Block!Segment, Block!Cleared,
      R!Block!Cleared, Block!Stored, R!Block!Stored, Block!Zeros, R!Block!Zeros,
      Block!Cells, R!Block!Cells, Block!Writable, R!Block!Writable
  <2>9. R!Block!FastClear <=> Block!FastClear
    BY DEF Block!FastClear, R!Block!FastClear, Block!Within, R!Block!Within, Block!Cleared,
      R!Block!Cleared, Block!Stored, R!Block!Stored, Block!Zeros, R!Block!Zeros,
      Block!Cells, R!Block!Cells, Block!Writable, R!Block!Writable
  <2>10. R!Block!FastCopy <=> Block!FastCopy
    BY DEF Block!FastCopy, R!Block!FastCopy, Block!Within, R!Block!Within, Block!IsRam,
      R!Block!IsRam, Block!SourceIsSafe, R!Block!SourceIsSafe, Block!Overlap,
      R!Block!Overlap, Block!Copied, R!Block!Copied, Block!Least, R!Block!Least,
      Block!Stored, R!Block!Stored, Block!Cells, R!Block!Cells, Block!Writable,
      R!Block!Writable
  <2>11. R!Block!FastRamp <=> Block!FastRamp
    BY DEF Block!FastRamp, R!Block!FastRamp, Block!RampLeft, R!Block!RampLeft
  <2>12. QED
    BY <2>1, <2>2, <2>3, <2>4, <2>5, <2>6, <2>7, <2>8, <2>9, <2>10, <2>11 DEF Block!Next, R!Block!Next
<1>3. QED BY <1>1, <1>2, PTL DEF R!Block!Spec, Block!Spec

LEMMA BlockSameTypeOK == R!Block!TypeOK <=> Block!TypeOK
  BY DEF Block!TypeOK, R!Block!TypeOK, Block!Runs, R!Block!Runs, Block!Unset, R!Block!Unset,
    Block!Kinds, R!Block!Kinds

LEMMA BlockSameLeasesInOrder == R!Block!LeasesInOrder <=> Block!LeasesInOrder
  BY DEF Block!LeasesInOrder, R!Block!LeasesInOrder

LEMMA BlockSamePromise == R!Block!LoopsKeepTheirPromise <=> Block!LoopsKeepTheirPromise
  BY BlockSameNative DEF Block!LoopsKeepTheirPromise, R!Block!LoopsKeepTheirPromise, Block!NoLoop,
    R!Block!NoLoop, Block!Unchecked, R!Block!Unchecked, Block!Regular, R!Block!Regular

LEMMA CallsSameAssumption == R!Calls!HleCallsAssumption <=> Calls!HleCallsAssumption
  BY DEF Calls!HleCallsAssumption, R!Calls!HleCallsAssumption, Calls!Routines, R!Calls!Routines

LEMMA CallsSameSpec == R!Calls!Spec <=> Calls!Spec
<1>1. R!Calls!Init <=> Calls!Init
  BY DEF Calls!Init, R!Calls!Init, Calls!Routines, R!Calls!Routines, Calls!Ready, R!Calls!Ready
<1>2. R!Calls!Next <=> Calls!Next
  BY DEF Calls!Next, R!Calls!Next, Calls!Signed, R!Calls!Signed, Calls!Call, R!Calls!Call,
    Calls!Hook, R!Calls!Hook, Calls!Return, R!Calls!Return, Calls!LoadCode,
    R!Calls!LoadCode, Calls!DmdStart, R!Calls!DmdStart, Calls!DmdPoll, R!Calls!DmdPoll,
    Calls!DmdWritten, R!Calls!DmdWritten, Calls!Ready, R!Calls!Ready, Calls!Answers,
    R!Calls!Answers, Calls!Answer, R!Calls!Answer, Calls!Native, R!Calls!Native,
    Calls!Armed, R!Calls!Armed, Calls!PendingAfter, R!Calls!PendingAfter, Calls!Matches,
    R!Calls!Matches, Calls!Length, R!Calls!Length, Calls!DelayEnd, R!Calls!DelayEnd,
    Calls!Bytes, R!Calls!Bytes
<1>3. QED BY <1>1, <1>2, PTL DEF R!Calls!Spec, Calls!Spec

LEMMA CallsSameTypeOK == R!Calls!TypeOK <=> Calls!TypeOK
  BY DEF Calls!TypeOK, R!Calls!TypeOK, Calls!Routines, R!Calls!Routines, Calls!Signed,
    R!Calls!Signed

LEMMA CallsSameCallsAnswerAsNative == R!Calls!CallsAnswerAsNative <=> Calls!CallsAnswerAsNative
  BY DEF Calls!CallsAnswerAsNative, R!Calls!CallsAnswerAsNative, Calls!Ready, R!Calls!Ready,
    Calls!Native, R!Calls!Native, Calls!DelayEnd, R!Calls!DelayEnd, Calls!Bytes,
    R!Calls!Bytes

LEMMA CallsSameCompletionAnswersStart == R!Calls!CompletionAnswersStart <=> Calls!CompletionAnswersStart
  BY DEF Calls!CompletionAnswersStart, R!Calls!CompletionAnswersStart

LEMMA ProbeSameAssumption == R!Probe!BootProbeAssumption <=> Probe!BootProbeAssumption
  BY DEF Probe!BootProbeAssumption, R!Probe!BootProbeAssumption

LEMMA ProbeSameSpec == R!Probe!Spec <=> Probe!Spec
<1>1. R!Probe!Init <=> Probe!Init
  BY DEF Probe!Init, R!Probe!Init, Probe!Nothing, R!Probe!Nothing, Probe!Fresh, R!Probe!Fresh
<1>2. R!Probe!Next <=> Probe!Next
  BY DEF Probe!Next, R!Probe!Next, Probe!Detect, R!Probe!Detect, Probe!Construct,
    R!Probe!Construct, Probe!Baseline, R!Probe!Baseline, Probe!Raise, R!Probe!Raise,
    Probe!Chunk, R!Probe!Chunk, Probe!Checkpoint, R!Probe!Checkpoint, Probe!Advance,
    R!Probe!Advance, Probe!Nothing, R!Probe!Nothing, Probe!Abandoned, R!Probe!Abandoned,
    Probe!Fresh, R!Probe!Fresh, Probe!ChunkOf, R!Probe!ChunkOf, Probe!After, R!Probe!After,
    Probe!Event, R!Probe!Event, Probe!LastState, R!Probe!LastState, Probe!Phase,
    R!Probe!Phase, Probe!Visible, R!Probe!Visible, Probe!Framed, R!Probe!Framed, Probe!Lit,
    R!Probe!Lit
<1>3. QED BY <1>1, <1>2, PTL DEF R!Probe!Spec, Probe!Spec

LEMMA ProbeSameTypeOK == R!Probe!TypeOK <=> Probe!TypeOK
  BY DEF Probe!TypeOK, R!Probe!TypeOK, Probe!Stages, R!Probe!Stages, Probe!Machines,
    R!Probe!Machines

LEMMA ProbeSameClassifiersAgree == R!Probe!ClassifiersAgree <=> Probe!ClassifiersAgree
  BY DEF Probe!ClassifiersAgree, R!Probe!ClassifiersAgree, Probe!Nothing, R!Probe!Nothing,
    Probe!Displays, R!Probe!Displays, Probe!Shows, R!Probe!Shows

LEMMA ProbeSameTimelineAddsUp == R!Probe!TimelineAddsUp <=> Probe!TimelineAddsUp
  BY DEF Probe!TimelineAddsUp, R!Probe!TimelineAddsUp

LEMMA ProbeSameCheckpointsAreExact == R!Probe!CheckpointsAreExact <=> Probe!CheckpointsAreExact
  BY DEF Probe!CheckpointsAreExact, R!Probe!CheckpointsAreExact, Probe!Nothing, R!Probe!Nothing

LEMMA SecondSameAssumption == R!Second!NorCallsAssumption <=> Second!NorCallsAssumption
  BY DEF Second!NorCallsAssumption, R!Second!NorCallsAssumption

LEMMA SecondSameSpec == R!Second!Spec <=> Second!Spec
<1>1. R!Second!Init <=> Second!Init
  BY DEF Second!Init, R!Second!Init, Second!Offsets, R!Second!Offsets, Second!Bit, R!Second!Bit,
    Second!NoCall, R!Second!NoCall
<1>2. R!Second!Next <=> Second!Next
  BY DEF Second!Next, R!Second!Next, Second!ReadFast, R!Second!ReadFast, Second!Delivered,
    R!Second!Delivered, Second!Routines,
    R!Second!Routines, Second!WriteFast, R!Second!WriteFast, Second!Bit, R!Second!Bit,
    Second!GuestStores, R!Second!GuestStores, Second!GuestBypasses, R!Second!GuestBypasses,
    Second!GuestReturns, R!Second!GuestReturns, Second!Range, R!Second!Range,
    Second!NoCall, R!Second!NoCall, Second!InRam, R!Second!InRam, Second!Called,
    R!Second!Called, Second!Fits, R!Second!Fits, Second!WriteAnswer, R!Second!WriteAnswer,
    Second!OffsetOf, R!Second!OffsetOf, Second!Programmed, R!Second!Programmed,
    Second!Incoming, R!Second!Incoming, Second!Offsets, R!Second!Offsets, Second!BulkMay,
    R!Second!BulkMay, Second!Cleared, R!Second!Cleared, Second!And, R!Second!And
<1>3. QED BY <1>1, <1>2, PTL DEF R!Second!Spec, Second!Spec

LEMMA SecondSameTypeOK == R!Second!TypeOK <=> Second!TypeOK
  BY DEF Second!TypeOK, R!Second!TypeOK, Second!Offsets, R!Second!Offsets, Second!Bit,
    R!Second!Bit

LEMMA SecondSameCallsDoTheirWork == R!Second!CallsDoTheirWork <=> Second!CallsDoTheirWork
  BY DEF Second!CallsDoTheirWork, R!Second!CallsDoTheirWork, Second!Fits, R!Second!Fits,
    Second!And, R!Second!And, Second!Range, R!Second!Range, Second!Offsets,
    R!Second!Offsets

LEMMA SecondSameLogIsImage == R!Second!LogIsImage <=> Second!LogIsImage
  BY DEF Second!LogIsImage, R!Second!LogIsImage, Second!Cleared, R!Second!Cleared,
    Second!Offsets, R!Second!Offsets, Second!Range, R!Second!Range, Second!And,
    R!Second!And

LEMMA WatchSameAssumption == R!Watch!NorProbeAssumption <=> Watch!NorProbeAssumption
  BY DEF Watch!NorProbeAssumption, R!Watch!NorProbeAssumption

LEMMA WatchSameSpec == R!Watch!Spec <=> Watch!Spec
<1>1. R!Watch!Init <=> Watch!Init
  BY DEF Watch!Init, R!Watch!Init
<1>2. R!Watch!Next <=> Watch!Next
  BY DEF Watch!Next, R!Watch!Next, Watch!Access, R!Watch!Access, Watch!Observed,
    R!Watch!Observed, Watch!Completes, R!Watch!Completes, Watch!Last, R!Watch!Last,
    Watch!Begins, R!Watch!Begins, Watch!Reads, R!Watch!Reads
<1>3. QED BY <1>1, <1>2, PTL DEF R!Watch!Spec, Watch!Spec

LEMMA WatchSameTypeOK == R!Watch!TypeOK <=> Watch!TypeOK
  BY DEF Watch!TypeOK, R!Watch!TypeOK

LEMMA WatchSameProbesAreComplete == R!Watch!ProbesAreComplete <=> Watch!ProbesAreComplete
  BY DEF Watch!ProbesAreComplete, R!Watch!ProbesAreComplete, Watch!IsProbe, R!Watch!IsProbe,
    Watch!Begins, R!Watch!Begins

LEMMA SaveSameAssumption == R!Save!NandSaveAssumption <=> Save!NandSaveAssumption
  BY DEF Save!NandSaveAssumption, R!Save!NandSaveAssumption, Save!Image, R!Save!Image,
    Save!Operation, R!Save!Operation, Save!Byte, R!Save!Byte

LEMMA SaveSameSpec == R!Save!Spec <=> Save!Spec
<1>1. R!Save!Init <=> Save!Init
  BY DEF Save!Init, R!Save!Init, Save!Blank, R!Save!Blank, Save!NoEffect, R!Save!NoEffect
<1>2. R!Save!Next <=> Save!Next
  BY DEF Save!Next, R!Save!Next, Save!Start, R!Save!Start, Save!Operate, R!Save!Operate,
    Save!Close, R!Save!Close, Save!Save, R!Save!Save, Save!Crash, R!Save!Crash,
    Save!PowerLoss, R!Save!PowerLoss, Save!Goto, R!Save!Goto, Save!media, R!Save!media,
    Save!ApplyOperation, R!Save!ApplyOperation, Save!Then, R!Save!Then, Save!EffectOf,
    R!Save!EffectOf, Save!session, R!Save!session, Save!SaveNor, R!Save!SaveNor,
    Save!SaveEeprom, R!Save!SaveEeprom, Save!NothingToSave, R!Save!NothingToSave,
    Save!Lock, R!Save!Lock, Save!Merge, R!Save!Merge, Save!ReplaceBin, R!Save!ReplaceBin,
    Save!ReplaceJson, R!Save!ReplaceJson, Save!UnlinkBin, R!Save!UnlinkBin,
    Save!UnlinkJson, R!Save!UnlinkJson, Save!NothingToUnlink, R!Save!NothingToUnlink,
    Save!SyncDirectory, R!Save!SyncDirectory, Save!Adopt, R!Save!Adopt, Save!NandFails,
    R!Save!NandFails, Save!MidSave, R!Save!MidSave, Save!ApplyToByte, R!Save!ApplyToByte,
    Save!NoEffect, R!Save!NoEffect, Save!MetadataFits, R!Save!MetadataFits, Save!Apply,
    R!Save!Apply, Save!IsSeed, R!Save!IsSeed, Save!Store, R!Save!Store, Save!Grown,
    R!Save!Grown
<1>3. QED BY <1>1, <1>2, PTL DEF R!Save!Spec, Save!Spec, Save!vars, R!Save!vars, Save!media, R!Save!media, Save!session, R!Save!session

LEMMA SaveSameTypeOK == R!Save!TypeOK <=> Save!TypeOK
  BY DEF Save!TypeOK, R!Save!TypeOK, Save!Files, R!Save!Files, Save!PCs, R!Save!PCs, Save!Image,
    R!Save!Image, Save!Effect, R!Save!Effect, Save!MidSave, R!Save!MidSave, Save!Byte,
    R!Save!Byte, Save!ByteEffect, R!Save!ByteEffect

LEMMA SaveSamePairBelongs == R!Save!PairBelongs <=> Save!PairBelongs
  BY DEF Save!PairBelongs, R!Save!PairBelongs

LEMMA SaveSameClosePrefix == R!Save!ClosePrefix <=> Save!ClosePrefix
  BY DEF Save!ClosePrefix, R!Save!ClosePrefix, Save!NoEffect, R!Save!NoEffect

LEMMA NandSameBitsComeBackByErase == R!Nand!BitsComeBackByErase <=> Nand!BitsComeBackByErase
  BY DEF Nand!BitsComeBackByErase, R!Nand!BitsComeBackByErase, Nand!FastRead, R!Nand!FastRead,
    Nand!RawPage, R!Nand!RawPage, Nand!BlockOf, R!Nand!BlockOf, Nand!Number, R!Nand!Number,
    Nand!GoodBlock, R!Nand!GoodBlock, Nand!FoldRight, R!Nand!FoldRight, Nand!End,
    R!Nand!End, Nand!MapThenFoldSet, R!Nand!MapThenFoldSet, Nand!Min, R!Nand!Min

-------------------------------------------------------------------------------
(* A behaviour of MCBoard is one of the component it runs, so the theorems *)
(* above are what its properties ask of each.                              *)

LEMMA PartStays == [Next]_vars => part' = part
BY DEF Next, Device, vars

LEMMA NandPart == Spec => [](part = "nand" => Nand!TypeOK /\ Nand!LogIsImage)
<1>1. Init /\ part = "nand" => Nand!Init
  BY DEF Init
<1>2. [Next]_vars => ((part = "nand")' <=> part = "nand")
  BY PartStays
<1>3. part = "nand" /\ [Next]_vars => [Nand!Next]_state
  BY DEF Next, Device, vars
<1>4. Nand!Spec => [](Nand!TypeOK /\ Nand!LogIsImage)
  <2>1. R!Nand!NandAssumption
    BY Assumptions, NandSameAssumption
  <2>2. R!Nand!Spec => [](R!Nand!TypeOK /\ R!Nand!LogIsImage)
    BY <2>1, R!NandTypeCorrect, R!NandLogsEveryChange, PTL
  <2>3. QED BY <2>2, NandSameSpec, NandSameTypeOK, NandSameLogIsImage, PTL
<1>5. QED BY <1>1, <1>2, <1>3, <1>4, PTL DEF Spec, Nand!Spec

LEMMA EepromPart == Spec => [](part = "eeprom" => Eeprom!TypeOK /\ Eeprom!LogIsImage)
<1>1. Init /\ part = "eeprom" => Eeprom!Init
  BY DEF Init
<1>2. [Next]_vars => ((part = "eeprom")' <=> part = "eeprom")
  BY PartStays
<1>3. part = "eeprom" /\ [Next]_vars => [Eeprom!Next]_state
  BY DEF Next, Device, vars
<1>4. Eeprom!Spec => [](Eeprom!TypeOK /\ Eeprom!LogIsImage)
  <2>1. R!Eeprom!EepromAssumption
    BY Assumptions, EepromSameAssumption
  <2>2. R!Eeprom!Spec => [](R!Eeprom!TypeOK /\ R!Eeprom!LogIsImage)
    BY <2>1, R!EepromLogsEveryWrite, PTL
  <2>3. QED BY <2>2, EepromSameSpec, EepromSameTypeOK, EepromSameLogIsImage, PTL
<1>5. QED BY <1>1, <1>2, <1>3, <1>4, PTL DEF Spec, Eeprom!Spec

LEMMA BusPart ==
  Spec => [](part = "serial" =>
            /\ Bus!TypeOK
            /\ Bus!NativeUnlessAnswered
            /\ Bus!RequestsWait)
<1>1. Init /\ part = "serial" => Bus!Init
  BY DEF Init
<1>2. [Next]_vars => ((part = "serial")' <=> part = "serial")
  BY PartStays
<1>3. part = "serial" /\ [Next]_vars => [Bus!Next]_state
  BY DEF Next, Device, vars
<1>4. Bus!Spec => [](Bus!TypeOK /\ Bus!NativeUnlessAnswered /\ Bus!RequestsWait)
  <2>1. R!Bus!SerialBusAssumption
    BY Assumptions, BusSameAssumption
  <2>2. R!Bus!Spec => [](R!Bus!TypeOK /\ R!Bus!NativeUnlessAnswered /\ R!Bus!RequestsWait)
    BY <2>1, R!BusTypeCorrect, R!BusGivesBack, PTL
  <2>3. QED BY <2>2, BusSameSpec, BusSameTypeOK, BusSameNativeUnlessAnswered,
           BusSameRequestsWait, PTL
<1>5. QED BY <1>1, <1>2, <1>3, <1>4, PTL DEF Spec, Bus!Spec

LEMMA AdcPart == Spec => [](part = "adc" => Adc!TypeOK /\ Adc!ReadbackIsTheAnswer)
<1>1. Init /\ part = "adc" => Adc!Init
  BY DEF Init
<1>2. [Next]_vars => ((part = "adc")' <=> part = "adc")
  BY PartStays
<1>3. part = "adc" /\ [Next]_vars => [Adc!Next]_state
  BY DEF Next, Device, vars
<1>4. Adc!Spec => [](Adc!TypeOK /\ Adc!ReadbackIsTheAnswer)
  <2>1. R!Adc!BoardAdcAssumption
    BY Assumptions, AdcSameAssumption
  <2>2. R!Adc!Spec => [](R!Adc!TypeOK /\ R!Adc!ReadbackIsTheAnswer)
    BY <2>1, R!ConverterAnswers, PTL
  <2>3. QED BY <2>2, AdcSameSpec, AdcSameTypeOK, AdcSameReadbackIsTheAnswer, PTL
<1>5. QED BY <1>1, <1>2, <1>3, <1>4, PTL DEF Spec, Adc!Spec

LEMMA LoopPart ==
  Spec => [](part = "loop" =>
            /\ Loop!TypeOK
            /\ Loop!CadenceIgnoresSlices
            /\ Loop!ForcedBitsAreWaitedFor)
<1>1. Init /\ part = "loop" => Loop!Init
  BY DEF Init
<1>2. [Next]_vars => ((part = "loop")' <=> part = "loop")
  BY PartStays
<1>3. part = "loop" /\ [Next]_vars => [Loop!Next]_state
  BY DEF Next, Device, vars
<1>4. Loop!Spec => [](Loop!TypeOK /\ Loop!CadenceIgnoresSlices /\ Loop!ForcedBitsAreWaitedFor)
  <2>1. R!Loop!RunLoopAssumption
    BY Assumptions, LoopSameAssumption
  <2>2. R!Loop!Spec =>
          [](/\ R!Loop!TypeOK
             /\ R!Loop!CadenceIgnoresSlices
             /\ R!Loop!ForcedBitsAreWaitedFor)
    BY <2>1, R!LoopTypeCorrect, R!LoopKeepsCadence, PTL
  <2>3. QED BY <2>2, LoopSameSpec, LoopSameTypeOK, LoopSameCadenceIgnoresSlices,
           LoopSameForcedBitsAreWaitedFor, PTL
<1>5. QED BY <1>1, <1>2, <1>3, <1>4, PTL DEF Spec, Loop!Spec

LEMMA MemoryPart == Spec => [](part = "memory" => Memory!TypeOK /\ Memory!PageHasOneOwner)
<1>1. Init /\ part = "memory" => Memory!Init
  BY DEF Init
<1>2. [Next]_vars => ((part = "memory")' <=> part = "memory")
  BY PartStays
<1>3. part = "memory" /\ [Next]_vars => [Memory!Next]_state
  BY DEF Next, Device, vars
<1>4. Memory!Spec => [](Memory!TypeOK /\ Memory!PageHasOneOwner)
  <2>1. R!Memory!MemoryBusAssumption
    BY Assumptions, MemorySameAssumption
  <2>2. R!Memory!Spec => [](R!Memory!TypeOK /\ R!Memory!PageHasOneOwner)
    BY <2>1, R!PagesKeepTheirOwner, PTL
  <2>3. QED BY <2>2, MemorySameSpec, MemorySameTypeOK, MemorySamePageHasOneOwner, PTL
<1>5. QED BY <1>1, <1>2, <1>3, <1>4, PTL DEF Spec, Memory!Spec

LEMMA InputPart ==
  Spec => [](part = "keys" =>
            /\ Input!TypeOK
            /\ Input!ScanFindsHeldKey
            /\ Input!HeldKeysAreRead
            /\ Input!EvidenceIsOrdered)
<1>1. Init /\ part = "keys" => Input!Init
  BY DEF Init
<1>2. [Next]_vars => ((part = "keys")' <=> part = "keys")
  BY PartStays
<1>3. part = "keys" /\ [Next]_vars => [Input!Next]_state
  BY DEF Next, Device, vars
<1>4. Input!Spec =>
        [](/\ Input!TypeOK
           /\ Input!ScanFindsHeldKey
           /\ Input!HeldKeysAreRead
           /\ Input!EvidenceIsOrdered)
  <2>1. R!Input!KeyScanAssumption
    BY Assumptions, InputSameAssumption
  <2>2. R!Input!Spec =>
          [](/\ R!Input!TypeOK
             /\ R!Input!ScanFindsHeldKey
             /\ R!Input!HeldKeysAreRead
             /\ R!Input!EvidenceIsOrdered)
    BY <2>1, R!ScanFindsWhatIsHeld, PTL
  <2>3. QED BY <2>2, InputSameSpec, InputSameTypeOK, InputSameScanFindsHeldKey,
           InputSameHeldKeysAreRead, InputSameEvidenceIsOrdered, PTL
<1>5. QED BY <1>1, <1>2, <1>3, <1>4, PTL DEF Spec, Input!Spec

LEMMA RegisterPart ==
  Spec => [](part = "poll" =>
            /\ Register!TypeOK
            /\ Register!ReleasesEndWait)
<1>1. Init /\ part = "poll" => Register!Init
  BY DEF Init
<1>2. [Next]_vars => ((part = "poll")' <=> part = "poll")
  BY PartStays
<1>3. part = "poll" /\ [Next]_vars => [Register!Next]_state
  BY DEF Next, Device, vars
<1>4. Register!Spec => [](Register!TypeOK /\ Register!ReleasesEndWait)
  <2>1. R!Register!PollReleaseAssumption
    BY Assumptions, RegisterSameAssumption
  <2>2. R!Register!Spec => [](R!Register!TypeOK /\ R!Register!ReleasesEndWait)
    BY <2>1, R!ReleasesEndEveryWait, PTL
  <2>3. QED BY <2>2, RegisterSameSpec, RegisterSameTypeOK, RegisterSameReleasesEndWait, PTL
<1>5. QED BY <1>1, <1>2, <1>3, <1>4, PTL DEF Spec, Register!Spec

LEMMA BlockPart ==
  Spec => [](part = "loops" =>
            /\ Block!TypeOK
            /\ Block!LeasesInOrder
            /\ Block!LoopsKeepTheirPromise)
<1>1. Init /\ part = "loops" => Block!Init
  BY DEF Init
<1>2. [Next]_vars => ((part = "loops")' <=> part = "loops")
  BY PartStays
<1>3. part = "loops" /\ [Next]_vars => [Block!Next]_state
  BY DEF Next, Device, vars
<1>4. Block!Spec => [](Block!TypeOK /\ Block!LeasesInOrder /\ Block!LoopsKeepTheirPromise)
  <2>1. R!Block!HleLoopsAssumption
    BY Assumptions, BlockSameAssumption
  <2>2. R!Block!Spec => [](R!Block!TypeOK /\ R!Block!LeasesInOrder)
    BY <2>1, R!LoopLeasesInOrder, PTL
  <2>3. R!Block!Spec => []R!Block!LoopsKeepTheirPromise
    BY <2>1, R!LoopsKeepPromise, PTL
  <2>4. QED BY <2>2, <2>3, BlockSameSpec, BlockSameTypeOK, BlockSameLeasesInOrder, BlockSamePromise, PTL
<1>5. QED BY <1>1, <1>2, <1>3, <1>4, PTL DEF Spec, Block!Spec

LEMMA CallsPart ==
  Spec => [](part = "calls" =>
            /\ Calls!TypeOK
            /\ Calls!CallsAnswerAsNative
            /\ Calls!CompletionAnswersStart)
<1>1. Init /\ part = "calls" => Calls!Init
  BY DEF Init
<1>2. [Next]_vars => ((part = "calls")' <=> part = "calls")
  BY PartStays
<1>3. part = "calls" /\ [Next]_vars => [Calls!Next]_state
  BY DEF Next, Device, vars
<1>4. Calls!Spec => [](Calls!TypeOK /\ Calls!CallsAnswerAsNative /\ Calls!CompletionAnswersStart)
  <2>1. R!Calls!HleCallsAssumption
    BY Assumptions, CallsSameAssumption
  <2>2. R!Calls!Spec =>
          [](/\ R!Calls!TypeOK
             /\ R!Calls!CallsAnswerAsNative
             /\ R!Calls!CompletionAnswersStart)
    BY <2>1, R!HooksAnswerAsNative, R!CompletionsAnswerStarts, PTL
  <2>3. QED BY <2>2, CallsSameSpec, CallsSameTypeOK, CallsSameCallsAnswerAsNative,
           CallsSameCompletionAnswersStart, PTL
<1>5. QED BY <1>1, <1>2, <1>3, <1>4, PTL DEF Spec, Calls!Spec

LEMMA LayoutPart ==
  Spec => [](part = "layout" =>
            /\ Layout!TypeOK
            /\ Layout!FilesApart
            /\ Layout!OneOwner
            /\ Layout!DialogAgrees)
<1>1. Init /\ part = "layout" => Layout!Init
  BY DEF Init
<1>2. [Next]_vars => ((part = "layout")' <=> part = "layout")
  BY PartStays
<1>3. part = "layout" /\ [Next]_vars => [Layout!Next]_state
  BY DEF Next, Device, vars
<1>4. Layout!Spec =>
        [](/\ Layout!TypeOK
           /\ Layout!FilesApart
           /\ Layout!OneOwner
           /\ Layout!DialogAgrees)
  <2>1. Layout!BoardLayoutAssumption
    BY Assumptions
  <2>2. QED BY <2>1, LayoutTypeCorrect, LayoutFilesApart, LayoutOneOwner,
           DialogAcceptsBoards, PTL
<1>5. QED BY <1>1, <1>2, <1>3, <1>4, PTL DEF Spec, Layout!Spec

LEMMA ProbePart ==
  Spec => [](part = "probe" =>
            /\ Probe!TypeOK
            /\ Probe!ClassifiersAgree
            /\ Probe!TimelineAddsUp
            /\ Probe!CheckpointsAreExact)
<1>1. Init /\ part = "probe" => Probe!Init
  BY DEF Init
<1>2. [Next]_vars => ((part = "probe")' <=> part = "probe")
  BY PartStays
<1>3. part = "probe" /\ [Next]_vars => [Probe!Next]_state
  BY DEF Next, Device, vars
<1>4. Probe!Spec =>
        [](/\ Probe!TypeOK
           /\ Probe!ClassifiersAgree
           /\ Probe!TimelineAddsUp
           /\ Probe!CheckpointsAreExact)
  <2>1. R!Probe!BootProbeAssumption
    BY Assumptions, ProbeSameAssumption
  <2>2. R!Probe!Spec =>
          [](/\ R!Probe!TypeOK
             /\ R!Probe!ClassifiersAgree
             /\ R!Probe!TimelineAddsUp
             /\ R!Probe!CheckpointsAreExact)
    BY <2>1, R!ReportsAreTrue, PTL
  <2>3. QED BY <2>2, ProbeSameSpec, ProbeSameTypeOK, ProbeSameClassifiersAgree,
           ProbeSameTimelineAddsUp, ProbeSameCheckpointsAreExact, PTL
<1>5. QED BY <1>1, <1>2, <1>3, <1>4, PTL DEF Spec, Probe!Spec

LEMMA SecondPart ==
  Spec => [](part = "nor" =>
            /\ Second!TypeOK
            /\ Second!CallsDoTheirWork
            /\ Second!LogIsImage)
<1>1. Init /\ part = "nor" => Second!Init
  BY DEF Init
<1>2. [Next]_vars => ((part = "nor")' <=> part = "nor")
  BY PartStays
<1>3. part = "nor" /\ [Next]_vars => [Second!Next]_state
  BY DEF Next, Device, vars
<1>4. Second!Spec => [](Second!TypeOK /\ Second!CallsDoTheirWork /\ Second!LogIsImage)
  <2>1. R!Second!NorCallsAssumption
    BY Assumptions, SecondSameAssumption
  <2>2. R!Second!Spec =>
          [](/\ R!Second!TypeOK
             /\ R!Second!CallsDoTheirWork
             /\ R!Second!LogIsImage)
    BY <2>1, R!NorCallsDoTheirWork, PTL
  <2>3. QED BY <2>2, SecondSameSpec, SecondSameTypeOK, SecondSameCallsDoTheirWork,
           SecondSameLogIsImage, PTL
<1>5. QED BY <1>1, <1>2, <1>3, <1>4, PTL DEF Spec, Second!Spec

LEMMA WatchPart == Spec => [](part = "watch" => Watch!TypeOK /\ Watch!ProbesAreComplete)
<1>1. Init /\ part = "watch" => Watch!Init
  BY DEF Init
<1>2. [Next]_vars => ((part = "watch")' <=> part = "watch")
  BY PartStays
<1>3. part = "watch" /\ [Next]_vars => [Watch!Next]_state
  BY DEF Next, Device, vars
<1>4. Watch!Spec => [](Watch!TypeOK /\ Watch!ProbesAreComplete)
  <2>1. R!Watch!NorProbeAssumption
    BY Assumptions, WatchSameAssumption
  <2>2. R!Watch!Spec => [](R!Watch!TypeOK /\ R!Watch!ProbesAreComplete)
    BY <2>1, R!RecordedProbesAreComplete, PTL
  <2>3. QED BY <2>2, WatchSameSpec, WatchSameTypeOK, WatchSameProbesAreComplete, PTL
<1>5. QED BY <1>1, <1>2, <1>3, <1>4, PTL DEF Spec, Watch!Spec

LEMMA OfferPart == Spec => [](part = "offer" => Offer!TypeOK /\ Offer!PreparedStays)
<1>1. Init /\ part = "offer" => Offer!Init
  BY DEF Init
<1>2. [Next]_vars => ((part = "offer")' <=> part = "offer")
  BY PartStays
<1>3. part = "offer" /\ [Next]_vars => [Offer!Next]_state
  BY DEF Next, Device, vars
<1>4. Offer!Spec => [](Offer!TypeOK /\ Offer!PreparedStays)
  <2>1. Offer!UpdateOfferAssumption
    BY Assumptions
  <2>2. QED BY <2>1, OfferKeepsPrepared, PTL
<1>5. QED BY <1>1, <1>2, <1>3, <1>4, PTL DEF Spec, Offer!Spec

LEMMA SettingsPart ==
  Spec => [](part = "profiles" =>
            /\ Settings!TypeOK
            /\ Settings!SavedStays
            /\ Settings!ProfilesBelong)
<1>1. Init /\ part = "profiles" => Settings!Init
  BY DEF Init
<1>2. [Next]_vars => ((part = "profiles")' <=> part = "profiles")
  BY PartStays
<1>3. part = "profiles" /\ [Next]_vars => [Settings!Next]_state
  BY DEF Next, Device, vars
<1>4. Settings!Spec => [](Settings!TypeOK /\ Settings!SavedStays /\ Settings!ProfilesBelong)
  <2>1. Settings!ProfilesAssumption
    BY Assumptions
  <2>2. QED BY <2>1, SettingsStayAndBelong, PTL
<1>5. QED BY <1>1, <1>2, <1>3, <1>4, PTL DEF Spec, Settings!Spec

LEMMA SavePart ==
  Spec => [](part = "save" =>
            /\ Save!TypeOK
            /\ Save!PairBelongs
            /\ Save!ClosePrefix)
<1>1. Init /\ part = "save" => Save!Init
  BY DEF Init
<1>2. [Next]_vars => ((part = "save")' <=> part = "save")
  BY PartStays
<1>3. part = "save" /\ [Next]_vars => [Save!Next]_Save!vars
  BY DEF Next, Device, vars, saveVars, Save!vars, Save!media, Save!session
<1>4. Save!Spec => [](Save!TypeOK /\ Save!PairBelongs /\ Save!ClosePrefix)
  <2>1. R!Save!NandSaveAssumption
    BY Assumptions, SaveSameAssumption
  <2>2. R!Save!Spec => [](R!Save!TypeOK /\ R!Save!PairBelongs /\ R!Save!ClosePrefix)
    BY <2>1, R!SavesArePairedAndPrefix, PTL
  <2>3. QED BY <2>2, SaveSameSpec, SaveSameTypeOK, SaveSamePairBelongs, SaveSameClosePrefix,
           PTL
<1>5. QED BY <1>1, <1>2, <1>3, <1>4, PTL DEF Spec, Save!Spec

LEMMA PadPart ==
  Spec => [](part = "keypad" =>
            /\ Pad!TypeOK
            /\ Pad!HeldIsDown
            /\ Pad!PressesReachGuest)
<1>1. Init /\ part = "keypad" => Pad!Init
  BY DEF Init
<1>2. [Next]_vars => ((part = "keypad")' <=> part = "keypad")
  BY PartStays
<1>3. part = "keypad" /\ [Next]_vars => [Pad!Next]_Pad!vars
  BY DEF Next, Device, vars, keypadVars,
         Pad!vars, Pad!desktop, Pad!window, Pad!worker, Pad!emulator
<1>4. Pad!Spec => [](Pad!TypeOK /\ Pad!HeldIsDown /\ Pad!PressesReachGuest)
  <2>1. Pad!KeypadAssumption
    BY Assumptions
  <2>2. QED BY <2>1, KeypadTypeCorrect, NothingHeldIsUp, PressReachesGuest, PTL
<1>5. QED BY <1>1, <1>2, <1>3, <1>4, PTL DEF Spec, Pad!Spec

(* What the guest asks of its buses is answered with its own words, and a   *)
(* scan finds the key that is held.                                        *)
THEOREM BusesAnswer == Spec => []BusAnswers
<1>1. /\ (part = "serial" => Bus!TypeOK /\ Bus!NativeUnlessAnswered /\ Bus!RequestsWait)
      /\ (part = "adc" => Adc!TypeOK /\ Adc!ReadbackIsTheAnswer)
      /\ (part = "keys" => Input!TypeOK /\ Input!ScanFindsHeldKey /\ Input!HeldKeysAreRead /\ Input!EvidenceIsOrdered)
      => BusAnswers
  BY DEF BusAnswers
<1>2. QED BY <1>1, BusPart, AdcPart, InputPart, PTL

(* A save, a layout, an offer and the settings never leave a file that is  *)
(* part of one thing and part of another.                                  *)
THEOREM EverySaveIsWhole == Spec => []SavesAreWhole
<1>1. /\ (part = "layout" => Layout!TypeOK /\ Layout!FilesApart /\ Layout!OneOwner /\ Layout!DialogAgrees)
      /\ (part = "offer" => Offer!TypeOK /\ Offer!PreparedStays)
      /\ (part = "profiles" => Settings!TypeOK /\ Settings!SavedStays /\ Settings!ProfilesBelong)
      /\ (part = "save" => Save!TypeOK /\ Save!PairBelongs /\ Save!ClosePrefix)
      => SavesAreWhole
  BY DEF SavesAreWhole
<1>2. QED BY <1>1, LayoutPart, OfferPart, SettingsPart, SavePart, PTL

(* The log of every device explains its image.                             *)
THEOREM EveryLogIsImage == Spec => []LogsAreImages
<1>1. /\ (part = "nand" => Nand!TypeOK /\ Nand!LogIsImage)
      /\ (part = "eeprom" => Eeprom!TypeOK /\ Eeprom!LogIsImage)
      /\ (part = "nor" => Second!TypeOK /\ Second!CallsDoTheirWork /\ Second!LogIsImage)
      => LogsAreImages
  BY DEF LogsAreImages
<1>2. QED BY <1>1, NandPart, EepromPart, SecondPart, PTL

(* Decisions keep to their windows, a released poll ends its wait, and the *)
(* report of a staged run is of what happened in it.                       *)
THEOREM RunsKeepCadence == Spec => []RunKeepsCadence
<1>1. /\ (part = "loop" => Loop!TypeOK /\ Loop!CadenceIgnoresSlices /\ Loop!ForcedBitsAreWaitedFor)
      /\ (part = "poll" => Register!TypeOK /\ Register!ReleasesEndWait)
      /\ (part = "probe" => Probe!TypeOK /\ Probe!ClassifiersAgree /\ Probe!TimelineAddsUp /\ Probe!CheckpointsAreExact)
      => RunKeepsCadence
  BY DEF RunKeepsCadence
<1>2. QED BY <1>1, LoopPart, RegisterPart, ProbePart, PTL

(* The guest's memory, and what a hook leaves of it.                       *)
THEOREM MemoryIsNative == Spec => []MemoryAsNative
<1> DEFINE Chips == /\ part = "memory" => Memory!PageHasOneOwner
                    /\ part = "nor" => Second!CallsDoTheirWork
                    /\ part = "watch" => Watch!ProbesAreComplete
           Hooks == /\ part = "loops" => Block!LoopsKeepTheirPromise /\ Block!LeasesInOrder
                    /\ part = "calls" => Calls!CallsAnswerAsNative /\ Calls!CompletionAnswersStart
                    /\ part = "layout" => Layout!OneOwner /\ Layout!DialogAgrees
<1>1. Chips /\ Hooks => MemoryAsNative
  BY DEF MemoryAsNative
<1>2. Spec => []Chips
  BY MemoryPart, SecondPart, WatchPart, PTL
<1>3. Spec => []Hooks
  BY BlockPart, CallsPart, LayoutPart, PTL
<1> HIDE DEF Chips, Hooks
<1>4. QED BY <1>1, <1>2, <1>3, PTL

(* A key the window holds is down for the guest.                           *)
THEOREM HeldKeysAreDown == Spec => []HeldIsDown
<1>1. /\ (part = "keypad" => Pad!TypeOK /\ Pad!HeldIsDown /\ Pad!PressesReachGuest)
      => HeldIsDown
  BY DEF HeldIsDown
<1>2. QED BY <1>1, PadPart, PTL

(* A press that was queued reaches the guest.                              *)
THEOREM EveryPressReachesGuest == Spec => []PressesReachGuest
<1>1. /\ (part = "keypad" => Pad!TypeOK /\ Pad!HeldIsDown /\ Pad!PressesReachGuest)
      => PressesReachGuest
  BY DEF PressesReachGuest
<1>2. QED BY <1>1, PadPart, PTL

(* No key stays down, if the mappings by hand keep to their own key.       *)
THEOREM EveryKeyComesUp ==
  ASSUME ManualKeepsWay
  PROVE  Spec => []NoStuckKey
<1>1. Init /\ part = "keypad" => Pad!Init
  BY DEF Init
<1>2. [Next]_vars => ((part = "keypad")' <=> part = "keypad")
  BY PartStays
<1>3. part = "keypad" /\ [Next]_vars => [Pad!Next]_Pad!vars
  BY DEF Next, Device, vars, keypadVars,
         Pad!vars, Pad!desktop, Pad!window, Pad!worker, Pad!emulator
<1>4. Pad!Spec => []Pad!NoStuckKey
  <2>1. Pad!KeypadAssumption
    BY Assumptions
  <2>2. QED BY <2>1, NoKeySticks
<1>5. (part = "keypad" => Pad!NoStuckKey) => NoStuckKey
  BY DEF NoStuckKey
<1>6. QED BY <1>1, <1>2, <1>3, <1>4, <1>5, PTL DEF Spec, Pad!Spec

(* Bits of the NAND come back only by the erase of a block.                *)
THEOREM BitsComeBackByErase == Spec => OnlyBlockEraseSetsBits
<1>1. Init /\ part = "nand" => Nand!Init
  BY DEF Init
<1>2. [Next]_vars => ((part = "nand")' <=> part = "nand")
  BY PartStays
<1>3. part = "nand" /\ [Next]_vars => [Nand!Next]_state
  BY DEF Next, Device, vars
<1>4. Nand!Spec => [][Nand!BitsComeBackByErase]_state
  <2>1. R!Nand!NandAssumption
    BY Assumptions, NandSameAssumption
  <2>2. R!Nand!Spec => [][R!Nand!BitsComeBackByErase]_state
    BY <2>1, R!NandLogsEveryChange, PTL
  <2>3. QED BY <2>2, NandSameSpec, NandSameBitsComeBackByErase, PTL
<1>5. [Next]_vars /\ [Nand!BitsComeBackByErase]_state =>
        [part = "nand" => Nand!BitsComeBackByErase]_vars
  <2>1. part = "nand" /\ state' = state /\ [Next]_vars => UNCHANGED vars
    BY DEF Next, Device, vars
  <2>2. QED BY <2>1
<1>6. [Next]_vars /\ part # "nand" => [part = "nand" => Nand!BitsComeBackByErase]_vars
  OBVIOUS
<1>7. QED BY <1>1, <1>2, <1>3, <1>4, <1>5, <1>6, PTL DEF Spec, Nand!Spec, OnlyBlockEraseSetsBits

LEMMA TypesOfParts ==
  ASSUME part \in Parts,
         part = "nand" => Nand!TypeOK,
         part = "eeprom" => Eeprom!TypeOK,
         part = "serial" => Bus!TypeOK,
         part = "adc" => Adc!TypeOK,
         part = "loop" => Loop!TypeOK,
         part = "memory" => Memory!TypeOK,
         part = "keys" => Input!TypeOK,
         part = "poll" => Register!TypeOK,
         part = "loops" => Block!TypeOK,
         part = "calls" => Calls!TypeOK,
         part = "layout" => Layout!TypeOK,
         part = "probe" => Probe!TypeOK,
         part = "nor" => Second!TypeOK,
         part = "watch" => Watch!TypeOK,
         part = "offer" => Offer!TypeOK,
         part = "profiles" => Settings!TypeOK,
         part = "save" => Save!TypeOK,
         part = "keypad" => Pad!TypeOK
  PROVE  TypeOK
<1>1. CASE part = "nand"
  BY <1>1 DEF TypeOK
<1>2. CASE part = "eeprom"
  BY <1>2 DEF TypeOK
<1>3. CASE part = "serial"
  BY <1>3 DEF TypeOK
<1>4. CASE part = "adc"
  BY <1>4 DEF TypeOK
<1>5. CASE part = "loop"
  BY <1>5 DEF TypeOK
<1>6. CASE part = "memory"
  BY <1>6 DEF TypeOK
<1>7. CASE part = "keys"
  BY <1>7 DEF TypeOK
<1>8. CASE part = "poll"
  BY <1>8 DEF TypeOK
<1>9. CASE part = "loops"
  BY <1>9 DEF TypeOK
<1>10. CASE part = "calls"
  BY <1>10 DEF TypeOK
<1>11. CASE part = "layout"
  BY <1>11 DEF TypeOK
<1>12. CASE part = "probe"
  BY <1>12 DEF TypeOK
<1>13. CASE part = "nor"
  BY <1>13 DEF TypeOK
<1>14. CASE part = "watch"
  BY <1>14 DEF TypeOK
<1>15. CASE part = "offer"
  BY <1>15 DEF TypeOK
<1>16. CASE part = "profiles"
  BY <1>16 DEF TypeOK
<1>17. CASE part = "save"
  BY <1>17 DEF TypeOK
<1>18. CASE part = "keypad"
  BY <1>18 DEF TypeOK
<1>19. QED BY <1>1, <1>2, <1>3, <1>4, <1>5, <1>6, <1>7, <1>8, <1>9, <1>10, <1>11, <1>12,
           <1>13, <1>14, <1>15, <1>16, <1>17, <1>18 DEF Parts

(* Every component keeps its types.                                        *)
THEOREM BoardTypeCorrect == Spec => []TypeOK
<1>1. Init => part \in Parts
  BY DEF Init
<1>2. part \in Parts /\ [Next]_vars => (part \in Parts)'
  BY PartStays
<1> DEFINE Chips == /\ part = "nand" => Nand!TypeOK
                    /\ part = "eeprom" => Eeprom!TypeOK
                    /\ part = "serial" => Bus!TypeOK
                    /\ part = "adc" => Adc!TypeOK
                    /\ part = "memory" => Memory!TypeOK
                    /\ part = "nor" => Second!TypeOK
           Hooks == /\ part = "loop" => Loop!TypeOK
                    /\ part = "keys" => Input!TypeOK
                    /\ part = "poll" => Register!TypeOK
                    /\ part = "loops" => Block!TypeOK
                    /\ part = "calls" => Calls!TypeOK
                    /\ part = "watch" => Watch!TypeOK
           Host  == /\ part = "layout" => Layout!TypeOK
                    /\ part = "probe" => Probe!TypeOK
                    /\ part = "offer" => Offer!TypeOK
                    /\ part = "profiles" => Settings!TypeOK
                    /\ part = "save" => Save!TypeOK
                    /\ part = "keypad" => Pad!TypeOK
<1>3. part \in Parts /\ Chips /\ Hooks /\ Host => TypeOK
  BY TypesOfParts
<1>4. Spec => []Chips
  BY NandPart, EepromPart, BusPart, AdcPart, MemoryPart, SecondPart, PTL
<1>5. Spec => []Hooks
  BY LoopPart, InputPart, RegisterPart, BlockPart, CallsPart, WatchPart, PTL
<1>6. Spec => []Host
  BY LayoutPart, ProbePart, OfferPart, SettingsPart, SavePart, PadPart, PTL
<1> HIDE DEF Chips, Hooks, Host
<1>7. QED BY <1>1, <1>2, <1>3, <1>4, <1>5, <1>6, PTL DEF Spec
===============================================================================
