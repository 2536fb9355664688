-------------------------------- MODULE MCBoard --------------------------------
(* The components behind the memory hooks, side by side.  They share no      *)
(* state, so a behaviour belongs to one of them: `part' names it, `state' is *)
(* its variable; the save of the NAND and the keypad have variables to       *)
(* themselves.                                                               *)
EXTENDS Integers, Sequences, TLC

VARIABLES part, state,
          files, disk, lock, nor, eeprom, pc, seed, image, log, rewrite, torn,
          down, focus, events, held, active, releasing, commands, pending, edged, loop,
          profile, heldKeys, sideHeld, fresh

saveVars == <<files, disk, lock, nor, eeprom, pc, seed, image, log, rewrite, torn>>
keypadVars == <<down, focus, events, held, active, releasing, commands, pending, edged, loop,
                profile, heldKeys, sideHeld, fresh>>
vars == <<part, state, saveVars, keypadVars>>

-------------------------------------------------------------------------------
(* The saves of a close, of several sessions.                                *)
CONSTANTS Sessions, Seeds, SeedImage, GuestOps, Absent, SaveCells, SaveBits, Nobody
Save == INSTANCE NandSave WITH Cells <- SaveCells, Bits <- SaveBits

(* The NAND itself.                                                          *)
CONSTANTS NandBits, PageSize, SpareSize, PagesPerBlock, NandPageCount, BusWidth, LargePage, Radix,
          NandValues, Rows, MaxCycles, MaxProgram, MaxChanges
Nand == INSTANCE NandFlash WITH nand <- state,
  Bits <- NandBits, Pages <- NandPageCount, Values <- NandValues

CONSTANTS EepromValues, EepromBlank, Descriptors, Unknown, EepromCapacity, StrictEnd, EepromFiles, MaxWrites
Eeprom == INSTANCE EepromDevice WITH eeprom <- state,
  Values <- EepromValues, Capacity <- EepromCapacity, Blank <- EepromBlank, Files <- EepromFiles

CONSTANTS Writes, BusReads
Bus == INSTANCE SerialBus WITH bus <- state, Reads <- BusReads

CONSTANTS ConverterWords, AdcValue, Channels, MaxDc0
Adc == INSTANCE BoardAdc WITH adc <- state, Words <- ConverterWords

CONSTANTS Window, Hot, Slices, Probes, Polls, Inert, HasLinker, MaxSteps
Loop == INSTANCE RunLoop WITH machine <- state

CONSTANTS Pages, Board, MemoryValues, Code, Zero, Open, MaxDynamic, MaxZero
Memory == INSTANCE MemoryBus WITH memory <- state, Values <- MemoryValues

CONSTANTS Keys, Profiles, Fillers, MaxEvents
Input == INSTANCE KeyScan WITH keys <- state

(* The loops that wait for one register.                                     *)
CONSTANTS RegisterWidth, PollLoops
Register == INSTANCE PollRelease WITH poll <- state, Width <- RegisterWidth, Loops <- PollLoops

CONSTANTS Word, LoopChunk, Unrolled, Period, Ramp, RamBase, RamEnd, IramBase, IramEnd,
          RomBase, RomEnd, AddressSpace, DataTarget, BssEnd, Slack, Scripts
Block == INSTANCE HleLoops WITH loop <- state, Chunk <- LoopChunk

CONSTANTS Width, Counter, Codes, Source
Calls == INSTANCE HleCalls WITH call <- state

CONSTANTS Space, LcdBus, LcdIndexed, LcdLate, Msm, Iram, Straps, NandPorts, UpperNor,
          TopPage, MaxFlash, MaxRam, Configs
Layout == INSTANCE BoardLayout WITH board <- state

CONSTANTS Frames, Black, Plans, ChunkSizes, MaxPublished
Probe == INSTANCE BootProbe WITH probe <- state

(* The second NOR.                                                           *)
CONSTANTS Capacity, RamSize, Base, MaxLog
Second == INSTANCE NorCalls WITH nor <- state

CONSTANTS Accesses, MaxProbes
Watch == INSTANCE NorProbe WITH watch <- state

CONSTANTS Windows, MaxCommits
Offer == INSTANCE UpdateOffer WITH offer <- state

CONSTANTS ProfileWindows, Firmwares, MaxEdits, MaxGeneration
Settings == INSTANCE Profiles WITH settings <- state, Windows <- ProfileWindows

(* The keypad, and one with another mapping by hand.                         *)
CONSTANTS PadKeys, Keyboard, Mouse, KeyOf, PadProfiles, MatrixEvents, SidebandEvent,
          Manual, ForeignManual, NoEvent, MaxPadEvents, MaxCommands
Pad == INSTANCE Keypad WITH
  Keys <- PadKeys, Profiles <- PadProfiles, MaxEvents <- MaxPadEvents
Foreign == INSTANCE Keypad WITH
  Keys <- PadKeys, Profiles <- PadProfiles, MaxEvents <- MaxPadEvents, Manual <- ForeignManual

-------------------------------------------------------------------------------
ASSUME Assumptions ==
  /\ Save!NandSaveAssumption /\ Nand!NandAssumption /\ Eeprom!EepromAssumption
  /\ Bus!SerialBusAssumption /\ Adc!BoardAdcAssumption
  /\ Loop!RunLoopAssumption /\ Memory!MemoryBusAssumption
  /\ Input!KeyScanAssumption /\ Register!PollReleaseAssumption
  /\ Block!HleLoopsAssumption /\ Calls!HleCallsAssumption
  /\ Layout!BoardLayoutAssumption /\ Probe!BootProbeAssumption
  /\ Second!NorCallsAssumption /\ Watch!NorProbeAssumption /\ Offer!UpdateOfferAssumption
  /\ Settings!ProfilesAssumption /\ Pad!KeypadAssumption /\ Foreign!KeypadAssumption

Parts == {"save", "nand", "eeprom", "serial", "adc", "loop", "memory", "keys", "poll", "loops", "calls",
          "layout", "probe", "nor", "watch",
          "offer", "profiles", "keypad"}

Unused ==
  /\ files = "none" /\ disk = "none" /\ lock = "none" /\ nor = "none" /\ eeprom = "none"
  /\ pc = "none" /\ seed = "none" /\ image = "none" /\ log = "none"
  /\ rewrite = "none" /\ torn = "none"

NoKeypad ==
  /\ down = "none" /\ focus = "none" /\ events = "none" /\ held = "none" /\ active = "none"
  /\ releasing = "none" /\ commands = "none" /\ pending = "none" /\ edged = "none"
  /\ loop = "none" /\ profile = "none" /\ heldKeys = "none" /\ sideHeld = "none" /\ fresh = "none"

Init ==
  /\ part \in Parts
  /\ CASE part = "nand"   -> Nand!Init
       [] part = "eeprom" -> Eeprom!Init
       [] part = "serial" -> Bus!Init
       [] part = "adc"    -> Adc!Init
       [] part = "loop"   -> Loop!Init
       [] part = "memory" -> Memory!Init
       [] part = "keys"   -> Input!Init
       [] part = "poll"   -> Register!Init
       [] part = "loops"  -> Block!Init
       [] part = "calls"  -> Calls!Init
       [] part = "layout" -> Layout!Init
       [] part = "probe"  -> Probe!Init
       [] part = "nor"    -> Second!Init
       [] part = "watch"  -> Watch!Init
       [] part = "offer"  -> Offer!Init
       [] part = "profiles" -> Settings!Init
       [] part \in {"save", "keypad"} -> state = "none"
  /\ IF part = "save" THEN Save!Init ELSE Unused
  /\ IF part = "keypad" THEN Pad!Init ELSE NoKeypad

Device ==
  \/ part = "nand" /\ Nand!Next
  \/ part = "eeprom" /\ Eeprom!Next
  \/ part = "serial" /\ Bus!Next
  \/ part = "adc" /\ Adc!Next
  \/ part = "loop" /\ Loop!Next
  \/ part = "memory" /\ Memory!Next
  \/ part = "keys" /\ Input!Next
  \/ part = "poll" /\ Register!Next
  \/ part = "loops" /\ Block!Next
  \/ part = "calls" /\ Calls!Next
  \/ part = "layout" /\ Layout!Next
  \/ part = "probe" /\ Probe!Next
  \/ part = "nor" /\ Second!Next
  \/ part = "watch" /\ Watch!Next
  \/ part = "offer" /\ Offer!Next
  \/ part = "profiles" /\ Settings!Next

Next ==
  \/ Device /\ UNCHANGED <<part, saveVars, keypadVars>>
  \/ part = "save" /\ Save!Next /\ UNCHANGED <<part, state, keypadVars>>
  \/ part = "keypad" /\ Pad!Next /\ UNCHANGED <<part, state, saveVars>>

Spec == Init /\ [][Next]_vars

(* The keypad with the mapping to the other key's producer, alone.           *)
ForeignSpec ==
  /\ part = "keypad" /\ state = "none" /\ Unused /\ Foreign!Init
  /\ [][Foreign!Next /\ UNCHANGED <<part, state, saveVars>>]_vars

-------------------------------------------------------------------------------
(* Properties.  Each speaks of the part that runs.                           *)

TypeOK ==
  CASE part = "nand"   -> Nand!TypeOK
    [] part = "eeprom" -> Eeprom!TypeOK
    [] part = "serial" -> Bus!TypeOK
    [] part = "adc"    -> Adc!TypeOK
    [] part = "loop"   -> Loop!TypeOK
    [] part = "memory" -> Memory!TypeOK
    [] part = "keys"   -> Input!TypeOK
    [] part = "poll"   -> Register!TypeOK
    [] part = "loops"  -> Block!TypeOK
    [] part = "calls"  -> Calls!TypeOK
    [] part = "layout" -> Layout!TypeOK
    [] part = "probe"  -> Probe!TypeOK
    [] part = "nor"    -> Second!TypeOK
    [] part = "watch"  -> Watch!TypeOK
    [] part = "offer"  -> Offer!TypeOK
    [] part = "profiles" -> Settings!TypeOK
    [] part = "save"   -> Save!TypeOK
    [] part = "keypad" -> Pad!TypeOK

(* close, _save_nand: the media that were saved are a prefix, durable once   *)
(* close has returned; an image and the JSON of its seed belong together.    *)
(* _prepare_state_paths: no file is written for two reasons.                 *)
(* prepare_update: a release is whole where the helper finds it.             *)
SavesAreWhole ==
  /\ part = "save" => Save!PairBelongs /\ Save!ClosePrefix
  /\ part = "layout" => Layout!FilesApart
  /\ part = "offer" => Offer!PreparedStays
  /\ part = "profiles" => Settings!SavedStays /\ Settings!ProfilesBelong

(* _nand_program_bytes, _nand_erase_bytes, _eeprom_write_fast: the log a     *)
(* save replays is all the guest did to the image.                           *)
LogsAreImages ==
  /\ part = "nand" => Nand!LogIsImage
  /\ part = "eeprom" => Eeprom!LogIsImage
  /\ part = "nor" => Second!LogIsImage

(* _nand_command, _nand_write_fast: bits of the NAND come back only by the   *)
(* erase of a block.                                                         *)
OnlyBlockEraseSetsBits == [][part = "nand" => Nand!BitsComeBackByErase]_vars

(* _sbi_reject, _dc0_observer_read: a tentative answer never outlives the    *)
(* hypothesis it was given for; the guest finds its own words otherwise.     *)
(* _direct_matrix_nibble, _direct_sideband_read: a scan finds the key that is held, *)
(* and the evidence for its delivery rests on what the firmware did.         *)
BusAnswers ==
  /\ part = "serial" => Bus!NativeUnlessAnswered /\ Bus!RequestsWait
  /\ part = "adc" => Adc!ReadbackIsTheAnswer
  /\ part = "keys" => Input!ScanFindsHeldKey /\ Input!HeldKeysAreRead /\ Input!EvidenceIsOrdered

(* run: decisions fall on the windows whatever the callers' slices, and a    *)
(* poll is released only when it was stuck in two of them.                   *)
(* _infer_thumb_poll_value: a loop whose poll is released is left.           *)
(* probe/boot.py: what is reported of a staged run is what happened in it.   *)
RunKeepsCadence ==
  /\ part = "loop" => Loop!CadenceIgnoresSlices /\ Loop!ForcedBitsAreWaitedFor
  /\ part = "poll" => Register!ReleasesEndWait
  /\ part = "probe" => Probe!ClassifiersAgree /\ Probe!TimelineAddsUp /\ Probe!CheckpointsAreExact

(* _unmapped, _open_bus_read: memory the guest uses keeps its owner and its  *)
(* contents.  The hooks of hle/ that do the work of the guest's code leave   *)
(* what it would have left.  _install_remaining_hooks: one device answers an *)
(* access, however many hooks look at it.                                    *)
MemoryAsNative ==
  /\ part = "memory" => Memory!PageHasOneOwner
  /\ part = "loops" => Block!LoopsKeepTheirPromise /\ Block!LeasesInOrder
  /\ part = "calls" => Calls!CallsAnswerAsNative /\ Calls!CompletionAnswersStart
  /\ part = "nor" => Second!CallsDoTheirWork
  /\ part = "watch" => Watch!ProbesAreComplete
  /\ part = "layout" => Layout!OneOwner /\ Layout!DialogAgrees

(* _run, set_key, _keyboard_press, _focus_out: a key the user let go does    *)
(* not stay down, one that is held is not lost, and a press reaches the      *)
(* guest.                                                                    *)
NoStuckKey == part = "keypad" => Pad!NoStuckKey
HeldIsDown == part = "keypad" => Pad!HeldIsDown
PressesReachGuest == part = "keypad" => Pad!PressesReachGuest

-------------------------------------------------------------------------------
(* The small instance that TLC checks.  Its numbers are in the cfg.          *)

(* One of the seeds is an erased NAND, the other has a programmed byte; the  *)
(* NAND has one one-bit byte.                                                *)
SmallSeeds ==
  LET erased == CHOOSE x \in Seeds : TRUE
  IN [x \in Seeds |-> [c \in {1} |-> IF x = erased THEN {1} ELSE {}]]
SmallOps == {[kind |-> "program", at |-> {1}, byte |-> {}],
             [kind |-> "erase", at |-> {1}, byte |-> {1}]}
SessionSymmetry == Permutations(Sessions)

(* Descriptors of two capacities and an unsupported one, state files that    *)
(* fit one capacity or the other.                                            *)
SmallCapacity == [d \in {"small", "large"} |-> IF d = "small" THEN 2 ELSE 4]
SmallFiles == {<<>>, <<0, 1>>, <<0, 1, 0, 1>>}

(* The bootstrap and validation writes of the profile and three that fit     *)
(* none of its steps.                                                        *)
SbiWrite(reg, size, value) == [reg |-> reg, size |-> size, value |-> value]
SbiWrites ==
  {SbiWrite("base", 1, 69), SbiWrite("base", 1, 197), SbiWrite("control", 2, 2143),
   SbiWrite("data", 2, 1055), SbiWrite("start", 1, 0), SbiWrite("start", 1, 1),
   SbiWrite("data", 2, 2304), SbiWrite("data", 2, 33024), SbiWrite("base", 2, 4660),
   SbiWrite("other", 2, 0)}
SbiReads == {[reg |-> "base", size |-> 2], [reg |-> "data", size |-> 2], [reg |-> "base", size |-> 1]}

(* Two polls for one bit, which cannot both be given their way, and one      *)
(* that may not be released.                                                 *)
LoopPolls == {[bit |-> 1, state |-> TRUE], [bit |-> 1, state |-> FALSE], [bit |-> 2, state |-> TRUE]}
InertPolls == {p \in LoopPolls : p.bit = 2}

BoardPages == <<"board", "bank", "bank", "gap", "lcd", "hole", "high">>

(* Two rows of two columns: a scanned matrix with a filler, one scanned      *)
(* backwards with a repeated event and known keys, one with keys named by    *)
(* the user, one with sideband producers, which may conflict, one whose      *)
(* queue is observed; a key register; and nothing.                           *)
Scan(e, n, s) ==
  [kind |-> "matrix", events |-> e, rows |-> 2, columns |-> n, senses |-> s, order |-> <<0, 1>>,
   evidenced |-> <<>>, provisional |-> <<>>, producers |-> {}, capacity |-> 0]
Side == [key |-> 2, event |-> 19, mask |-> 1]
KeyProfiles ==
  {Scan(<<11, 12, 255, 13>>, 2, 2),
   [Scan(<<11, 12, 12, 13>>, 2, 2) EXCEPT !.order = <<1, 0>>,
      !.evidenced = [b \in {0, 1} |-> IF b = 0 THEN 13 ELSE 12]],
   [Scan(<<11, 12, 13>>, 1, 1) EXCEPT !.provisional = [b \in {1} |-> 12],
      !.evidenced = [b \in {0, 1} |-> IF b = 0 THEN 11 ELSE 13]],
   [Scan(<<11, 12>>, 1, 1) EXCEPT !.producers = {Side}],
   [Scan(<<11, 12>>, 1, 1) EXCEPT !.producers = {Side, [Side EXCEPT !.key = 0]}],
   [Scan(<<11, 12>>, 1, 1) EXCEPT !.capacity = 2],
   [kind |-> "register"], [kind |-> "none"]}

(* Loops of every grammar on a register of three bits.                       *)
RegisterLoops ==
  {[kind |-> "compare", expected |-> e, condition |-> c] : e \in {0, 1, 2, 5}, c \in {"eq", "ne"}}
  \cup {[kind |-> "mask", bit |-> b] : b \in {0, 2}}
  \cup {[kind |-> "literal", expected |-> e] : e \in {2, 5}}
  \cup {[kind |-> "split"]}
  \cup {[kind |-> "extract", bits |-> n, expected |-> e, condition |-> c] :
          n \in {1, 2}, e \in {0, 1}, c \in {"eq", "ne"}}
  \cup {[kind |-> "carry", shift |-> s, condition |-> c, taken |-> t[1], fall |-> t[2]] :
          s \in {1, 3}, c \in {"hs", "lo"},
          t \in {<<"back", "exit">>, <<"exit", "back">>, <<"return", "back">>, <<"retry", "exit">>}}

(* Loops of every kind, some with a rest of a word, over the bounds of the   *)
(* RAM, the internal RAM and a NOR device; code that was changed; and boots: *)
(* the data segment, a BSS of several lengths, the internal RAM.             *)
Run(k, d, s, e) ==
  [kind |-> k, dst |-> d, src |-> s, end |-> e, turned |-> FALSE, pristine |-> TRUE, leaves |-> "strobe"]
LoopRuns ==
  {Run("copy", d, s, e) : d \in {0, 2, 4, 12}, s \in {0, 2, 6, 14, 16, 18, 20}, e \in {4, 5, 8, 14, 16}}
  \cup {Run(k, d, 0, e) : k \in {"clear", "progress", "segment", "unrolled"},
                          d \in {0, 2, 3, 4, 8}, e \in {4, 6, 8, 9, 10, 12, 14}}
  \cup {Run("call", d, s, e) : d \in {0, 2, 12}, s \in {0, 1, 13, 16}, e \in {3, 5, 14}}
  \cup {Run("ramp", 0, 0, n) : n \in {4, 6, 7, 9, 10}}
LoopScripts ==
  {<<r>> : r \in LoopRuns}
  \cup {<<[Run(k, 2, 0, 8) EXCEPT !.pristine = FALSE]>> : k \in {"clear", "progress", "segment"}}
  \cup {<<Run("copy", 0, 16, 2), Run("progress", 2, 0, e), [Run("copy", 12, 18, 14) EXCEPT !.leaves = x]>> :
          e \in {6, 8, 10, 12}, x \in {"strobe", "code"}}

(* Four megabytes of the guest's address space to a page.  Layouts with and  *)
(* without the flashes, the NAND and the registers; where the RAM, the       *)
(* linker's data and the frame buffer are; what the dump has; and the names  *)
(* of the files.                                                             *)
PlainBoard ==
  [sane |-> TRUE, unchanged |-> TRUE, flash |-> <<0, 2>>, ram |-> <<4, 6>>, available |-> 2,
   secondary |-> {}, upper |-> {}, nand |-> FALSE, eeprom |-> FALSE,
   key |-> {}, revision |-> {}, revisionSet |-> TRUE, status |-> {}, overlays |-> {<<16, 17>>},
   ownStraps |-> {}, sideband |-> {}, serial |-> {}, controller |-> {}, audio |-> {},
   linker |-> {}, framebuffer |-> {}, inner |-> {}, seed |-> <<0, 0>>,
   state |-> <<"a">>, secondaryState |-> <<"b">>, upperState |-> <<"c">>,
   firmware |-> <<"f">>, secondaryImage |-> {}, secondaryImageSize |-> 2, nandImage |-> {}]
Perhaps(values) == {{}} \cup {{v} : v \in values}
RegisterChoices ==
  {<<{}, {}, {}>>, <<{2}, {}, {}>>, <<{14}, {15}, {}>>, <<{16}, {}, {}>>, <<{}, {1}, {}>>,
   <<{}, {3}, {3}>>, <<{}, {0}, {15}>>, <<{}, {}, {3}>>, <<{}, {10}, {}>>, <<{}, {4}, {}>>}
Layouts ==
  {[PlainBoard EXCEPT !.flash = f, !.ram = r, !.secondary = s, !.upper = u, !.nand = n,
     !.key = x[1], !.revision = x[2], !.status = x[3]] :
    f \in {<<0, 2>>, <<0, 4>>, <<6, 8>>, <<11, 12>>}, r \in {<<4, 6>>, <<7, 8>>, <<2, 4>>, <<3, 9>>},
    s \in Perhaps({<<2, 4>>, <<6, 8>>, <<5, 7>>}), u \in Perhaps({<<10, 14>>, <<10, 12>>}),
    n \in BOOLEAN, x \in RegisterChoices}
Placements ==
  {[PlainBoard EXCEPT !.sane = b, !.linker = l, !.framebuffer = f, !.seed = s] :
    b \in BOOLEAN, l \in Perhaps({[data |-> 4, bss |-> 5, end |-> 6], [data |-> 5, bss |-> 6, end |-> 7]}),
    f \in Perhaps({<<4, 5>>, <<5, 7>>}), s \in {<<0, 0>>, <<1, 2>>, <<1, 3>>, <<0, 3>>, <<-1, -1>>}}
Dumps ==
  {[PlainBoard EXCEPT !.unchanged = b, !.available = a, !.secondary = s, !.inner = i,
     !.secondaryImage = g, !.secondaryImageSize = z] :
    b \in BOOLEAN, a \in {2, 4}, s \in Perhaps({<<2, 4>>, <<2, 7>>}), i \in Perhaps({<<2, 4>>}),
    g \in Perhaps({<<"i">>}), z \in {2, 3}}
FilePaths == {<<"a">>, <<"b">>, <<"f">>} \cup {<<"a", x>> : x \in {"tmp", "lock", "eeprom", "nand"}}
Namings ==
  {[PlainBoard EXCEPT !.secondary = s, !.upper = u, !.nand = n, !.eeprom = e,
     !.secondaryState = p, !.upperState = q, !.secondaryImage = i, !.nandImage = j] :
    s \in {{<<2, 4>>}}, u \in Perhaps({<<10, 14>>}), n \in BOOLEAN, e \in BOOLEAN,
    p \in FilePaths, q \in FilePaths, i \in Perhaps({<<"b">>}), j \in Perhaps({<<"a", "nand">>})}
(* Hooks of the chip over the revision register, the strap and each other,   *)
(* and an audio chip in the LCD or in an upper flash.                        *)
Ports ==
  {[PlainBoard EXCEPT !.flash = f, !.revision = r, !.revisionSet = b, !.ownStraps = o, !.sideband = k,
     !.serial = s, !.controller = c, !.audio = a, !.upper = u] :
    f \in {<<0, 2>>, <<0, 4>>}, r \in Perhaps({3, 14, 15}), b \in BOOLEAN, o \in Perhaps({<<14, 15>>}),
    k \in Perhaps({<<14, 16>>}), s \in Perhaps({<<15, 16>>}), c \in Perhaps({<<15, 16>>}),
    a \in Perhaps({<<8, 9>>, <<11, 12>>}), u \in Perhaps({<<10, 14>>})}
Boards == Layouts \cup (Placements \cup (Dumps \cup (Namings \cup Ports)))
LcdBusAt     == <<8, 10>>
LcdIndexedAt == <<10, 11>>
LcdLateAt    == <<12, 13>>
MsmAt        == <<14, 18>>
IramAt       == <<16, 17>>
StrapsAt     == {<<14, 15>>}
NandPortsAt  == {<<6, 7>>}
UpperNorAt   == <<10, 14>>
TopPageAt    == <<19, 20>>

(* One checkpoint and two.                                                   *)
SmallPlans == {<<2>>, <<1, 3>>}

(* Accesses to the words of two pages.                                       *)
FlashReads == [op : {"read"}, halfword : {TRUE}, idle : {TRUE}, command : {"other"}, page : {1}, offset : {0, 2, 4}]
FlashAccesses ==
  FlashReads
  \cup {[r EXCEPT !.page = 2] : r \in {x \in FlashReads : x.offset = 2}}
  \cup {[r EXCEPT !.halfword = FALSE] : r \in {x \in FlashReads : x.offset = 0}}
  \cup [op : {"write"}, halfword : {TRUE}, idle : {TRUE}, command : {"identify", "array"}, page : {1, 2}, offset : {0}]
  \cup [op : {"write"}, halfword : BOOLEAN, idle : {FALSE}, command : {"identify"}, page : {1}, offset : {0}]

(* Two handset keys: "1", reached by a keyboard key and by the mouse, and    *)
(* "2", reached by another keyboard key, with a cell in the matrix or a      *)
(* sideband producer.  "1" is mapped by hand to the event of a cell of the   *)
(* matrix; by ForeignByHand to the event of the other key's producer.        *)
KeyOfSource     == [s \in {"a", "b", "m"} |-> IF s = "b" THEN "2" ELSE "1"]
KeypadProfiles  == {[matrix |-> {"2"}, sideband |-> {}], [matrix |-> {}, sideband |-> {"2"}]}
Producers       == [k \in {"1", "2"} |-> "e2"]
ByHand(event)   == [k \in {"1", "2"} |-> IF k = "1" THEN event ELSE "none"]
OwnByHand       == ByHand("e1")
ForeignByHand   == ByHand("e2")
===============================================================================
