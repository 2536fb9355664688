----------------------------- MODULE BoardLayout ------------------------------
(***************************************************************************)
(* LifecycleMixin.__init__ of core/lifecycle.py: a board is built out of   *)
(* its configuration.  The layout is checked, the state files are named,   *)
(* the dump is cut into the media, registers find their place, memory is   *)
(* mapped and the hooks are installed; each step may refuse the board.     *)
(* gui/settings.py checks the same settings on its own.                    *)
(*                                                                         *)
(* An address is a page of a small address space, an interval the pair of  *)
(* its first page and the one after its last.  A path is a sequence: a     *)
(* name and the suffixes that were appended to it.  What a configuration   *)
(* may lack is a set, of the one value or of none.  Which bytes the audio  *)
(* transport takes from the LCD is AudioTransport's; the register one      *)
(* matrix family maps behind every device is left out, and so are the      *)
(* write hooks that only start something in the chip.                      *)
(***************************************************************************)
EXTENDS Integers, Sequences, FiniteSets

CONSTANTS Space,               \* ADDRESS_SPACE
          LcdBus, LcdIndexed,  \* the LCD apertures at 0x02000000 and 0x02800000
          LcdLate,             \* the one at 0x02C00000
          Msm, Iram,           \* MSM MMIO, and the internal RAM in it
          Straps,              \* STABLE_MSM_MMIO
          NandPorts,           \* NAND_MMIO_RANGES
          UpperNor,            \* where an upper flash must be
          TopPage,             \* 0xFFFFF000, the page of an all-ones pointer
          MaxFlash, MaxRam,    \* MAX_FLASH_SIZE, MAX_RAM_SIZE
          Configs              \* configurations

Covers(range) == range[1]..(range[2] - 1)
Overlaps(range, other) == Covers(range) \cap Covers(other) # {}
Size(range) == range[2] - range[1]
OverlapsAny(range, others) == \E other \in others : Overlaps(range, other)

Lcd == <<LcdBus[1], LcdIndexed[2]>>
Nand(c) == IF c.nand THEN NandPorts ELSE {}

Interval == Int \X Int
Names == Seq(STRING)

ConfigType ==
  [sane : BOOLEAN, unchanged : BOOLEAN, flash : Interval, ram : Interval, available : Nat,
   secondary : SUBSET Interval, upper : SUBSET Interval, nand : BOOLEAN, eeprom : BOOLEAN,
   key : SUBSET Int, revision : SUBSET Int, revisionSet : BOOLEAN, status : SUBSET Int,
   overlays : SUBSET Interval, ownStraps : SUBSET Interval, sideband : SUBSET Interval,
   serial : SUBSET Interval, controller : SUBSET Interval, audio : SUBSET Interval,
   linker : SUBSET [data : Int, bss : Int, end : Int], framebuffer : SUBSET Interval,
   inner : SUBSET Interval, seed : Interval, state : Names, secondaryState : Names,
   upperState : Names, firmware : Names, secondaryImage : SUBSET Names,
   secondaryImageSize : Nat, nandImage : SUBSET Names]

(* The devices of the chipset keep clear of each other; an upper flash     *)
(* begins at the indexed LCD and ends before the MSM.  Detection finds key *)
(* producers, serial ports and the interrupt controller in the MSM, and an *)
(* audio chip below it.                                                    *)
BoardLayoutAssumption ==
  /\ Space \in Nat /\ {MaxFlash, MaxRam} \subseteq Nat
  /\ {LcdBus, LcdIndexed, LcdLate, Msm, Iram, UpperNor, TopPage} \cup Straps \cup NandPorts \subseteq Interval
  /\ \A range \in {LcdBus, LcdIndexed, LcdLate, Msm, Iram, UpperNor, TopPage} \cup Straps \cup NandPorts :
       Covers(range) # {} /\ Covers(range) \subseteq 0..(Space - 1)
  /\ LcdBus[2] = LcdIndexed[1] /\ UpperNor[1] = LcdIndexed[1]
  /\ Overlaps(UpperNor, LcdLate) /\ ~Overlaps(UpperNor, Msm)
  /\ ~OverlapsAny(Msm, {Lcd, LcdLate} \cup NandPorts)
  /\ \A port \in NandPorts : ~OverlapsAny(port, {Lcd, LcdLate})
  /\ \A range \in Straps \cup {Iram} : Covers(range) \subseteq Covers(Msm)
  /\ Configs \subseteq ConfigType
  /\ \A c \in Configs :
       /\ \A f \in c.framebuffer : f[1] < f[2]    \* it has the screen's rows
       /\ \A r \in c.sideband \cup c.serial \cup c.controller : Covers(r) \subseteq Covers(Msm)
       /\ \A r \in c.audio : Covers(r) \subseteq LcdBus[1]..(Msm[1] - 1)

VARIABLE board

Stages == {"new", "valid", "named", "loaded", "stored", "placed", "mapped", "hooked", "refused"}

(* The hooks on memory in the order they are installed, which is the order *)
(* Unicorn runs those over one access in: the last that writes answers.    *)
HookOrder == <<"strap", "keys", "msm", "serial", "lcd", "audio", "open", "revision",
               "flash", "secondary", "upper", "nand", "controller">>
Handlers == {HookOrder[i] : i \in DOMAIN HookOrder}
After(h) == {g \in Handlers : \E i, j \in DOMAIN HookOrder :
                               i < j /\ HookOrder[i] = h /\ HookOrder[j] = g}

TypeOK ==
  /\ board.stage \in Stages
  /\ board.mapped \subseteq 0..(Space - 1)
  /\ board.reads \in [0..(Space - 1) -> SUBSET Handlers]
  /\ board.writes \in [0..(Space - 1) -> SUBSET Handlers]

Init ==
  \E c \in Configs :
    board = [config |-> c, stage |-> "new", mapped |-> {},
             reads |-> [a \in 0..(Space - 1) |-> {}], writes |-> [a \in 0..(Space - 1) |-> {}]]

(* A step of __init__: a failed check is a ValueError.                     *)
Step(from, to, passes) ==
  /\ board.stage = from
  /\ board' = [board EXCEPT !.stage = IF passes THEN to ELSE "refused"]

-------------------------------------------------------------------------------
(* The checks.                                                             *)

InSpace(range) == 0 <= range[1] /\ range[2] <= Space

(* Wrong: the port of the NAND is not looked at.                           *)
ClearOfDevices_NoNand(c, range) == ~OverlapsAny(range, {Lcd, LcdLate, Msm})
ClearOfDevices(c, range) == ~OverlapsAny(range, {Lcd, LcdLate, Msm} \cup Nand(c))

LinkerFits(c) ==
  \A l \in c.linker : /\ c.ram[1] <= l.data /\ l.data <= l.bss
                             /\ l.bss < l.end /\ l.end <= c.ram[2]

(* Wrong: only its start is checked.                                       *)
FramebufferFits_Start(c) == \A f \in c.framebuffer : f[1] \in Covers(c.ram)

FramebufferFits(c) ==
  \A f \in c.framebuffer : c.ram[1] <= f[1] /\ f[2] <= c.ram[2]

(* _validate_config: sane stands for the values that are checked on their  *)
(* own, such as the chipset, the screen and the entry point.               *)
ConfigValid(c) ==
  /\ c.sane
  /\ InSpace(c.flash) /\ Size(c.flash) \in 1..MaxFlash
  /\ InSpace(c.ram) /\ c.ram[1] > 0 /\ Size(c.ram) \in 1..MaxRam
  /\ ~Overlaps(c.flash, c.ram)
  /\ LinkerFits(c) /\ FramebufferFits(c)
  /\ ClearOfDevices(c, c.flash) /\ ClearOfDevices(c, c.ram)

Validate == Step("new", "valid", ConfigValid(board.config))

Temporary(path) == Append(path, "tmp")
LockOf(path) == Append(path, "lock")

(* The paths a save writes, by medium.                                     *)
Outputs(c) ==
  {<<"primary", c.state>>}
  \cup {<<"secondary", p>> : p \in IF c.secondary = {} THEN {} ELSE {c.secondaryState}}
  \cup {<<"upper", p>> : p \in IF c.upper = {} THEN {} ELSE {c.upperState}}
  \cup {<<"eeprom", p>> : p \in IF c.eeprom THEN {Append(c.state, "eeprom")} ELSE {}}
  \cup {<<o, Append(c.state, o)>> : o \in IF c.nand THEN {"nand", "nandmeta"} ELSE {}}

(* Wrong: the locks are not checked.                                       *)
Targets_NoLocks(c) ==
  {<<o[1], "file", o[2]>> : o \in Outputs(c)}
  \cup {<<o[1], "temporary", Temporary(o[2])>> : o \in Outputs(c)}

(* The NAND is saved under the primary flash's lock.                       *)
Locked(c) == {o \in Outputs(c) : o[1] \notin {"nand", "nandmeta"}}

(* _prepare_state_paths lists each file with the reason for it.            *)
Targets(c) ==
  {<<o[1], "file", o[2]>> : o \in Outputs(c)}
  \cup {<<o[1], "temporary", Temporary(o[2])>> : o \in Outputs(c)}
  \cup {<<o[1], "lock", LockOf(o[2])>> : o \in Locked(c)}

Inputs(c) ==
  {c.firmware}
  \cup (IF c.secondary = {} THEN {} ELSE c.secondaryImage)
  \cup (IF c.nand THEN c.nandImage ELSE {})

(* _prepare_state_paths.                                                   *)
Collides(c) ==
  \/ \E t, u \in Targets(c) : t # u /\ t[3] = u[3]
  \/ \E t \in Targets(c) : t[3] \in Inputs(c)

NameFiles == Step("valid", "named", ~Collides(board.config))

(* _validate_nand_geometry belongs to sane; _load_primary_image: available *)
(* pages of the dump, the seed of the second NOR (inner) and of the RAM.   *)
ImageFits(c) ==
  /\ c.unchanged
  /\ \A i \in c.inner : /\ c.secondary # {} /\ c.secondaryImage = {}
                               /\ 0 <= i[1] /\ i[1] < i[2] /\ i[2] <= c.available
  /\ c.seed[1] >= 0 /\ Size(c.seed) \in 0..Size(c.ram)
  /\ Size(c.seed) > 0 => c.seed[2] <= c.available

LoadImage == Step("named", "loaded", ImageFits(board.config))

(* Pages of the primary flash the dump has; the rest is erased.            *)
Supplied(c) == c.flash[1] + (IF c.available < Size(c.flash) THEN c.available ELSE Size(c.flash))

(* _init_nor_eeprom_state.                                                 *)
SecondaryFits(c) ==
  \A s \in c.secondary :
    /\ InSpace(s) /\ Size(s) \in 1..MaxFlash
    /\ ~OverlapsAny(s, {c.flash, c.ram, Lcd, LcdLate, Msm} \cup Nand(c))
    /\ c.secondaryImage # {} => c.secondaryImageSize <= Size(s)

UpperFits(c) ==
  \A u \in c.upper :
    u = UpperNor /\ ~OverlapsAny(u, {c.flash, c.ram} \cup c.secondary \cup Nand(c))

StoreMedia == Step("loaded", "stored", SecondaryFits(board.config) /\ UpperFits(board.config))

-------------------------------------------------------------------------------
(* _validate_register_layout.                                              *)

Register(kind, address) == {<<kind, r>> : r \in {<<a, a + 1>> : a \in address}}
Registers(c) ==
  Register("key", c.key) \cup Register("revision", c.revision) \cup Register("status", c.status)

Storages(c) == {c.flash, c.ram} \cup c.secondary \cup c.upper

(* A strap may be inside the key register.                                 *)
Reserved(c) ==
  {Lcd, LcdLate, Iram} \cup c.overlays \cup Nand(c)
  \cup {s \in Straps : ~(c.key # {} /\ Covers(s) \subseteq c.key)}

(* Wrong: the revision register may be anywhere in the primary flash.      *)
IsHole_Anywhere(c, r, other) == r[1] = "revision" /\ other = c.flash

(* The revision register may be a hole in the part of the primary flash    *)
(* the dump lacks.                                                         *)
IsHole(c, r, other) == r[1] = "revision" /\ other = c.flash /\ r[2][1] >= Supplied(c)

RegistersFit(c) ==
  \A r \in Registers(c) :
    /\ InSpace(r[2])
    /\ \A other \in Storages(c) \cup Reserved(c) : Overlaps(r[2], other) => IsHole(c, r, other)
    /\ \A s \in Registers(c) : s # r => ~Overlaps(r[2], s[2])

PlaceRegisters == Step("stored", "placed", RegistersFit(board.config))

(* _create_cpu_and_map_memory.  A status input that is not mapped cannot   *)
(* be read.                                                                *)
MappedBy(c) ==
  (UNION {Covers(r) : r \in Storages(c) \cup Straps \cup Nand(c) \cup {LcdIndexed, LcdLate, Msm, TopPage}
                            \cup {<<LcdBus[1], LcdBus[1] + 1>>}})
  \cup c.key \cup c.revision

MapMemory ==
  /\ board.stage = "placed"
  /\ LET mapped == MappedBy(board.config)
     IN board' = [board EXCEPT !.mapped = mapped,
          !.stage = IF board.config.status \subseteq mapped THEN "mapped" ELSE "refused"]

-------------------------------------------------------------------------------
(* _install_remaining_hooks, the hooks on memory.                          *)

(* Wrong: the exclusion of the second NOR is forgotten.                    *)
Excluded_NoSecondary(c) ==
  NandPorts \cup Straps \cup {Lcd, LcdLate, Msm} \cup c.upper
  \cup {r[2] : r \in Register("key", c.key) \cup Register("revision", c.revision)}

Excluded(c) ==
  NandPorts \cup Straps \cup {Lcd, LcdLate, Msm} \cup c.secondary \cup c.upper
  \cup {r[2] : r \in Register("key", c.key) \cup Register("revision", c.revision)}

(* interval_gaps: what is left of an interval.                             *)
Gaps(range, excluded) == Covers(range) \ (UNION {Covers(e) : e \in excluded})

OpenBus(c) == Gaps(<<c.flash[2], c.ram[1]>>, Excluded(c)) \cup Gaps(<<c.ram[2], LcdBus[1]>>, Excluded(c))

(* Wrong: an upper flash does not cut the aperture of the LCD.             *)
LcdWrites_Whole(c) == Covers(Lcd) \cup Covers(LcdLate)

LcdWrites(c) == IF c.upper = {} THEN Covers(Lcd) \cup Covers(LcdLate) ELSE Covers(LcdBus)

(* The ports of the LCD whose reads are looked at; those at LcdBus are     *)
(* plain memory.                                                           *)
LcdReads(c) == IF c.upper = {} THEN Covers(LcdIndexed) \cup Covers(LcdLate) ELSE {}

PagesOf(ranges) == UNION {Covers(r) : r \in ranges}

(* A strap in the key register is that register's; the guest may own one.  *)
StrapHooks(c) == {s \in Straps : ~(c.key # {} /\ Covers(s) \subseteq c.key)} \ c.ownStraps

(* Installed for reads and for writes.                                     *)
Both(c, a) ==
  {h \in Handlers : \/ h = "flash" /\ a \in Covers(c.flash)
                    \/ h = "secondary" /\ a \in PagesOf(c.secondary)
                    \/ h = "upper" /\ a \in PagesOf(c.upper)
                    \/ h = "nand" /\ a \in PagesOf(Nand(c))
                    \/ h = "serial" /\ a \in PagesOf(c.serial)
                    \/ h = "audio" /\ a \in PagesOf(c.audio)
                    \/ h = "controller" /\ a \in PagesOf(c.controller)}

ReadersOf(c, a) ==
  Both(c, a) \cup {h \in Handlers : \/ h = "strap" /\ a \in PagesOf(StrapHooks(c))
                                    \/ h = "keys" /\ a \in PagesOf(c.sideband)
                                    \/ h = "msm" /\ a \in Covers(Msm)
                                    \/ h = "lcd" /\ a \in LcdReads(c)
                                    \/ h = "open" /\ a \in OpenBus(c)
                                    \/ h = "revision" /\ c.revisionSet /\ a \in c.revision}

WritersOf(c, a) == Both(c, a) \cup {h \in Handlers : h = "lcd" /\ a \in LcdWrites(c)}

(* Wrong: the hooks of the flashes answer at the revision register.        *)
Declines_Never(c, a) == {"audio"}

(* The hooks that return without an answer: the audio transport only looks *)
(* at an access, and the flashes' hooks leave the revision register alone. *)
Declines(c, a) == {"audio"} \cup IF a \in c.revision THEN {"flash", "secondary", "upper"} ELSE {}

InstallHooks ==
  /\ board.stage = "mapped"
  /\ board' = [board EXCEPT !.stage = "hooked",
       !.reads = [a \in DOMAIN @ |-> ReadersOf(board.config, a)],
       !.writes = [a \in DOMAIN @ |-> WritersOf(board.config, a)]]

Next ==
  \/ Validate \/ NameFiles \/ LoadImage \/ StoreMedia
  \/ PlaceRegisters \/ MapMemory \/ InstallHooks

Spec == Init /\ [][Next]_board

-------------------------------------------------------------------------------
(* validate_settings_values of gui/settings.py, on the same values.        *)
SettingsValid(c) ==
  /\ c.sane
  /\ c.flash[2] <= Space /\ c.ram[1] > 0 /\ Size(c.ram) \in 1..MaxRam /\ c.ram[2] <= Space
  /\ ~Overlaps(c.flash, c.ram)
  /\ \A f \in c.framebuffer : c.ram[1] <= f[1] /\ f[1] < f[2] /\ f[2] <= c.ram[2]
  /\ c.seed[1] >= 0 /\ Size(c.seed) \in 0..Size(c.ram)
  /\ Size(c.seed) > 0 => c.seed[2] <= c.available
  /\ \A s \in c.secondary :
       /\ Size(s) \in 1..MaxFlash /\ s[2] <= Space
       /\ ~OverlapsAny(s, {c.flash, c.ram})
       /\ c.secondaryImage # {} => c.secondaryImageSize <= Size(s)

-------------------------------------------------------------------------------
(* Properties.                                                             *)

Built == board.stage = "hooked"
RamAbove(c) == c.flash[2] <= c.ram[1]

(* The device a hook speaks for: several are of the MSM.                   *)
Device(h) == IF h \in {"strap", "keys", "msm", "serial", "controller"} THEN "chip" ELSE h
Answering(hooks, a) == {Device(h) : h \in hooks[a] \ Declines(board.config, a)}

(* _install_remaining_hooks: several hooks may lie over one address, yet   *)
(* it is one device that answers it: where the revision register has a     *)
(* value it has the last word over all but the interrupt controller, and   *)
(* only the chip is behind it.  Nothing answers for the RAM, the flash     *)
(* answers what the dump has of it, and the upper one its full range       *)
(* (test_upper_nor_owns_full_range_persists_and_state_cannot_collide).     *)
(* The gap above the RAM does take in a primary flash that lies there.     *)
OneOwner ==
  Built => LET c == board.config
               registers == IF c.revisionSet THEN c.revision ELSE {} IN
    /\ \A a \in 0..(Space - 1) : Cardinality(Answering(board.writes, a)) <= 1
    /\ RamAbove(c) =>
         \A a \in 0..(Space - 1) \ registers : Cardinality(Answering(board.reads, a)) <= 1
    /\ \A a \in registers \cap 0..(Space - 1) :
         /\ "revision" \in board.reads[a] /\ Answering(board.reads, a) \subseteq {"revision", "chip"}
         /\ (board.reads[a] \ Declines(c, a)) \cap After("revision") \subseteq {"controller"}
    /\ \A a \in Covers(c.ram) : Answering(board.reads, a) = {} /\ Answering(board.writes, a) = {}
    /\ \A a \in PagesOf(c.upper) \cap 0..(Space - 1) :
         Answering(board.reads, a) = {"upper"} /\ Answering(board.writes, a) = {"upper"}
    /\ \A a \in c.flash[1]..(Supplied(c) - 1) : "flash" \in Answering(board.reads, a)

(* _prepare_state_paths: on a board that was built no file is written for  *)
(* two reasons, none that is read is written, and no lock is a state file. *)
FilesApart ==
  Built => LET c == board.config
               files == {o[2] : o \in Outputs(c)}
               locks == {LockOf(o[2]) : o \in Locked(c)} IN
    /\ Cardinality(files) = Cardinality(Outputs(c))
    /\ (files \cup locks) \cap Inputs(c) = {}
    /\ locks \cap files = {}

(* A board that can be built is not refused by the settings dialog.        *)
DialogAgrees == Built => SettingsValid(board.config)
===============================================================================
