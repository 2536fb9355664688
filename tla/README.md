# MSM5xxx emulator: specifications, model checking and proofs

This directory holds TLA+ specifications of the MSM5xxx handset emulator in
`src/msm5xxx_emulator`, the TLC configurations that check them on small
instances, and proofs of their most important properties for every value of
their constants, checked by the TLA+ proof system.

Paths in this file are relative to the package `src/msm5xxx_emulator` unless
they start with `tests/` or `README.md`.

Contents

1. The system: its parts, their state, how they interact, what is hard
2. The modules: what each one models and how it corresponds to the code
3. The runs: what is checked, on which instances, with which result
4. Fairness
5. What is proved
6. Disagreements between the code and what it says of itself
7. What is not modelled, and why
8. The plan

## 1. The system

The program executes the firmware image of a handset on an instruction
emulator (Unicorn, not part of the repository) and plays the handset's
hardware. One Python thread, the *worker*, owns one emulator and everything in
it; the Tk thread of the window owns the widgets. They talk through queues and
a few attributes both read. Several windows, and the updater's helper, are
processes of their own that meet in the file system.

| Part | State it keeps | Operations | Talks to |
| --- | --- | --- | --- |
| State files (`state_io.py`, `devices/storage/nor.py` `NORFlash`, `devices/storage/eeprom.py`) | one file per medium and firmware, its lock file, `_LOCKS` per process; per emulator `data`, `_baseline`, `_operations` | `exclusive_path_lock`, `atomic_write_bytes`, `durable_unlink`, `_load`, `save`, `_save_eeprom` | other emulators, in the same process and in others, through the files |
| NOR device (`NorMixin`, `nor.py`) | `flash_phase`, `flash_command_base`, identifiers, `flash.data`, `_flash_restore`, guest memory | `_flash_write`, `_flash_read`, `_restore_flash`, sector and chip erase, program, autoselect, the direct-probe observer | guest stores and loads (memory hooks), the block hook `_trace`, the end of `run` |
| NAND device (`devices/storage/nand.py`) | command latch, address cycles, page buffer, status; image file and seed file | command, address and data ports, save and load | as the NOR device; `core/lifecycle.py` for the save |
| EEPROM (`devices/storage/eeprom.py`) | image, log, capacity | guest read and write calls, `_save_eeprom` | calls intercepted in the guest |
| REX interrupt controller (`soc/rex.py`) | the detected or promoted route, the two gates, the arm latch, the shadow of the status register, the time of the next tick | `_rex_tick`, `_rex_irq_boundary`, the `_rex_try_…_route` gates, status read and write, arm write | block hook, idle hook, memory hooks; the firmware's handler |
| SBI and ADC (`soc/sbi.py`, `soc/adc.py`) | transaction phase, register file, rejections | register stores and loads | memory hooks |
| Memory bus (`core/memory_bus.py`) | mapped pages, dynamic pages, poll counters | `_trace`, hooks for unmapped accesses, release of hardware polls | every device |
| Run loop and lifecycle (`core/runtime.py`, `core/lifecycle.py`) | `instructions`, observation window, fault, backend fault | `run`, `close`, construction | the worker, every device |
| Host checkpoint (`core/checkpoint.py`) | none of its own | describe a fault; snapshot of registers and counters before each chunk | read by the run loop when the backend fails |
| LCD controllers (`devices/display`) | command and address state, cursor, video memory, published frames | stores of commands and data | memory hooks; frames are read by the window |
| Key input (`gui/controls.py`, `gui/worker.py`, `devices/input.py`) | `held`, `keyboard_bits`, `pending_key_releases`, the command queue; `held_keys`, `direct_sideband_held_keys` | keyboard, mouse and focus events, `confirm`, `set_key` | Tk event queue, command queue, guest registers |
| Window and workers (`gui/app.py`, `gui/worker.py`, `gui/display_view.py`) | `generation`, `closing`, `worker`, `stop`, `emulator`, `overrides`, queues of states and save errors | `_restart`, `_start_when_stopped`, `_refresh`, `_close`, `_run` | each other, the state files, the updater |
| Updater (`update.py`) | installed files, manifest, revision marker, backup directory, lock | `check_for_update`, `prepare_update`, `installation_status`, `apply_prepared_update`, `remember_update` | the window, helpers of other windows, the file system |
| Boot probe (`probe/boot.py`) | last phase, event and frame | run in chunks to each checkpoint, report | one emulator, driven sequentially |
| Audio (`devices/audio.py`, `audio_lle.py`, `smaf_audio.py`, `ma7_runtime`) | requests, players | queue, replace, decode | host audio |
| High-level emulation (`hle`) | recognised loops and calls | replace a guest routine by its effect | memory bus, devices |
| Detection (`detection`) | none, pure functions of an image | find addresses, tables and layouts | configuration |
| Settings, telemetry, bundles, log (`gui`, `diagnostics`) | settings file, counters, log files | merge, collect, write | file system |

### Which behaviours are hard

* **Sharing of files.** Two windows run the same firmware. Each loads the
  flash file once, changes its own copy and saves at its end. The save has to
  keep what the other one saved, survive a loss of power, and give its two
  locks back on every path.
* **The GUI and its worker threads.** A restart replaces the worker while the
  old one is still saving; the old one's late answers arrive; the window may be
  closed at any moment; the updater may only run when everybody has saved.
* **Hooks that run before their store.** A memory hook sees a store before it
  lands. A command written to the flash overwrites guest memory, and the device
  has to put the right bytes back before the guest looks.
* **The timer tick.** Two hooks can raise it, a third delivers it, the firmware
  masks, polls and acknowledges it; the addresses involved may become known
  only while the firmware runs.
* **Key events.** Auto-repeat produces releases of keys that are down; the way
  a key is pressed is looked up again when it is released; press and release
  may arrive within one slice of guest time.
* **Updates.** Files are replaced one by one; helpers fail, are killed, and
  meet each other.
* **Hypotheses.** Much of the hardware is found out while the firmware runs:
  serial bus, key matrix, display grammar, second NOR, interrupt route. Until it is
  proved or refuted, a hypothesis holds back writes or answers reads, and after a
  refutation nothing of it may stay.
* **Doing the guest's work.** The host replaces loops and routines by one step;
  overlaps, boundaries, changed code and busy devices make that step differ
  from the loop.

`PROJECT.json` lists the hazards one by one with the line where each bites.

### What makes each part correct

* State files: no lost update, durability of what `save` returned for, mutual
  exclusion, locks returned.
* NOR device: the guest reads the flash, only complete commands change it.
* REX: a route is complete or absent; each tick is delivered once, none is lost,
  none comes too early or before the timer is armed; ticks keep coming.
* Window and workers: one emulator at a time, the window talks to the current
  one, no error is swallowed, closing ends and leaves nobody behind.
* Keys: no key sticks, every press is seen by the guest, every release arrives.
* Updater: a rollback restores, a completed update is complete, local edits are
  overwritten only with consent; a release that a window prepared is whole
  until its helper has read it.
* NAND, EEPROM, second NOR: the log that will be saved explains the image the
  guest sees; bits come back only by erases.
* Close: the media saved are a prefix of flash, EEPROM, NAND, and all of them
  once it has returned; the two files of the NAND belong together.
* SBI and ADC: a tentative answer does not outlive the hypothesis it was given
  for.
* Memory bus and layout: memory has one owner, and of the hooks that lie over
  one access only one device's answer; a poll is released by the bit its loop
  waits for.
* Run loop: decisions fall on the same instructions however callers slice the
  run.
* HLE: what the host does for a loop or a routine is what the guest's own code
  would have done.
* LCD: a picture is one whole transfer, a write held by a candidate is not
  lost, a snapshot's pixels belong to its size.
* Audio: a snapshot keeps its bytes, no request is forgotten, nothing plays
  after `close`; of cumulative snapshots a note is played once.
* Scores: a score that breaks off keeps what was complete, page markers do not
  show, notes and human-voice notes of one score agree about the time.
* Boot probe: its classifiers agree on what is the firmware's own frame.
* Settings file: what a window saved stays, settings stay with their firmware.

## 2. The modules

| Module | Models | Kind |
| --- | --- | --- |
| `FlashImage` | images, bytes as sets of one-bits, logged operations and their composition | operators |
| `StateStore` | what a state file promises | abstract specification |
| `StateSave` | locks, atomic replacement and merge | component, implements `StateStore` |
| `NorFlash` | the NOR device behind its hooks | component |
| `RexController` | interrupt controller, tick sources and gates | component with its firmware |
| `GuiWorker` | window and worker threads | component |
| `Keypad` | desktop, window, queue, worker and key registers | component |
| `Updater` | installation helpers | component |
| `UpdateOffer` | check, offer, download and preparation of a release by several windows | component |
| `Profiles` | `last_config.json` and the settings of windows and workers | component |
| `NandSave` | `close`: flash, EEPROM and the two files of the NAND | component |
| `NandFlash`, `EepromDevice`, `NorCalls`, `NorProbe` | storage behind ports and calls | component |
| `SerialBus`, `BoardAdc` | serial bus, converter | component |
| `KeyScan` | what the guest sees of the keys, and the evidence of delivery | component |
| `RunLoop`, `MemoryBus`, `PollRelease`, `BoardLayout` | run loop, unmapped memory, polls, construction | component |
| `HleLoops`, `HleCalls` | loops and routines done by the host | component with the guest's code |
| `BootProbe` | the staged run of a firmware | component |
| `LcdHold`, `LcdReplay`, `LcdGrammar`, `LcdPage`, `LcdStream`, `LcdRaw`, `LcdFrame` | display decoders and the frame | component |
| `AudioTransport`, `AudioPlayer` | sound chip FIFOs, renderer and player | component |
| `SmafParsers` | the parsers of scores, an event at a time, and what they share | operators |
| `SmafScore`, `SnapshotNotes` | parsers of one score side by side; a score that the guest is still writing | component |
| `MCBoard`, `MCMedia` | components that share no state, side by side | composition, model checking |
| `Flash_proofs` | theorems about `StateSave` and `NorFlash` | proofs |
| `RexController_proofs`, `Updater_proofs` | theorems about the module of that name (those about `GuiWorker` stand at the end of that module) | proofs |
| `HleLoops_proofs` | induction over the numbers, and theorems about `HleLoops` | proofs |
| `Board_proofs` | theorems about `RunLoop`, `PollRelease`, `SerialBus`, `BoardAdc`, `MemoryBus`, `KeyScan`, `BootProbe`, `NandFlash`, `EepromDevice`, `NandSave`, `NorProbe`, `HleCalls` and `NorCalls` | proofs |
| `MCBoard_proofs` | theorems about `BoardLayout`, `UpdateOffer`, `Profiles` and `Keypad`, and about the sum `MCBoard` | proofs |
| `Media_proofs` | theorems about `AudioPlayer`, `LcdFrame`, `AudioTransport`, `LcdRaw`, `LcdStream` and `LcdPage`, and about the sum `MCMedia` | proofs |

The definitions of the small instances that TLC checks stand at the end of the
module they belong to (`StateSave`, `NorFlash`, `Updater`, `RexController`) or
in `MCBoard` and `MCMedia`. What is a number or a set of model values there is
a constant of the two sums, with its value in the configuration files; what has
more structure (a geometry, a firmware, a script of writes) is a definition
with the prefix of its component.

`FlashImage` is shared by `StateStore`, `StateSave` and `NorFlash`, so the image
a device changes and the image a save merges are the same thing.

### `FlashImage`, `StateStore`, `StateSave`

A byte is the set of its bits that read 1. So a program is an intersection, an
erased byte is the set of all bits, and the log of operations
(`_operations`) is represented by its *composed effect* per byte: keep these
bits, then set those. `ReplayIdempotent` and the lemmas about `Then` show that
the composition is faithful to replaying the entries one after the other.

`StateSave` has one thread per emulator. `pc` names the point inside `save`:

| `pc` | In the code |
| --- | --- |
| `wantThread`, `wantFile` | polling for `_LOCKS[lock_path]` and for the lock file, both against one deadline |
| `locked` | inside the `with`, before the file is read again |
| `merged` | the log was replayed onto the latest contents |
| `replaced` | after `os.replace` or `unlink`, before the directory's `fsync` |
| `saved`, `unlocking`, `closing`, `released` | after the sync; the `finally` clauses; after the `with` |

`file` is what a reader finds now. `possible` is the set of versions a loss of
power may leave: a replacement adds its version, the `fsync` of the directory
leaves only the present one. Actions of the environment are the death of a process
(the operating system drops its file lock), the loss of power, and an `OSError`
at any of the three steps inside the lock. The two media differ in one place:
NOR adopts the merged image after it released the locks, the EEPROM before.

`StateStore` has no locks and no intermediate states: each emulator has a
private effect, a commit applies one whole effect to the contents of that
moment, and versions stay possible until they are durable. `StateSave`
implements it with `current <- file`.

### `NorFlash`

One action per hook: `FlashWrite` (`_flash_write`, after which the store lands),
`Read` (`_flash_read`), `Flush` (`_restore_flash` from `_trace` and at the end
of `run`), and `BoardStore` for a board-revision register inside the device's
range. `contents` is `flash.data`, `visible` is guest memory, `restore` is
`_flash_restore`. Cells stand for what an address means to the device: a data
word, the first and the second unlock offset, an identifier word; a value is
its opcode, with the bits it has as data. `recent`, `previous` and `lastCell`
remember the last stores and the cell of the last one, for the properties only:
what a step may set or clear is measured by the store of that very step.

### `RexController`

`firmware` is what detection found (fixed), `rex` the emulator's side, `guest`
what the firmware has installed and where it executes. The correspondence:

| Model | Code |
| --- | --- |
| `rex.owner` | which of the `rex_irq_…` fields of the configuration are set, and by whom |
| `rex.routes`, `rex.shadow` | the route objects of the gates; the memory hooks on the status banks |
| `rex.required`, `rex.armed` | `_rex_irq_arm_required`, `_rex_irq_armed` |
| `rex.asked`, `rex.closed`, `rex.retry` | the gates' requested and disabled flags and their next attempt |
| `rex.wait`, `rex.pending` | the distance to `_rex_next_tick`; bit 9 of the first status bank |
| `Boundary` | `_trace`: copied source, candidate source, then `_rex_irq_boundary` |
| `Idle` | `_rex_tick` at the idle address |
| `ArmWrite` | the three arm hooks, of which detection installs one |
| `PendingAfterRead`, `PendingAfterWrite`, `Clears` | `_rex_irq_status_read`, `_rex_irq_status_write` |
| `EndChunk` | `self.instructions +=` in `run`: time moves only between chunks |

`Attempt` is a whole promotion: the gate's own conditions, the conflict with
fields that are already set, the validator, the two hooks (either may fail:
`hooked`) and `restore()`. The comparisons of bytes that decide whether the
firmware has installed its vector, handler and callback are one Boolean each in
`guest`, which the firmware may flip at any time; the handler is entered, reads
the status, acknowledges it with a byte, a halfword or a word, and returns.

### `GuiWorker`

Tk callbacks are single actions, because nothing else runs on the Tk thread
meanwhile: `Restart`, `StartWhenStopped`, `Refresh`, `Close`, `UpdateReady`. The
exception is the box with save errors between the checks of
`_start_when_stopped` and the start of the thread, which runs an event loop of its own: while it
is open (`prompt`), timers and the close of the window go on, and only the
buttons, and so `Restart`, are out of reach. `BoxCloses` is the start behind it, which looks
at the generation no more; if the window was destroyed meanwhile, `showerror` raises instead.
Joining the worker in `_close` is a state of its own (`window = "joining"`),
since the worker goes on. The worker's steps are those between which the window
can interleave; the look at `generation` and the assignment of `emulator`
(`gui/worker.py:115-116`) are two of them. There is one stop event per start;
`stopOf` names the one `self.stop` currently refers to.

### `Keypad`

Four queues follow each other: the desktop's event queue, the releases waiting
for `confirm` (which Tk runs when it is idle, so when the queue is empty), the
command queue, and the one command the drain loop keeps back. `SetKey` is
`set_key` of a firmware with a direct matrix, sideband producers included. The
environment pushes and lets go keys, repeats them, and takes the keyboard focus
away, in which case releases go elsewhere.

### `Updater`

A helper goes through the phases of `apply_prepared_update`: `backup`,
`install`, `remove`, `manifest`, `revision`, or `rollback`. `todo` is the rest
of the loop it is in, taken in any order; a file is a release, `Absent`,
`Edited` or `Torn`. A failure may cut a copy short (`CutShort`); files are
installed by an atomic replacement and are never torn. `Kill` leaves everything as it
is, with the lock gone, and the next helper starts from there. `met` remembers
helpers that were at work at the same time as another.

### `UpdateOffer`

The way of a release to the helper. Each window asks once (`Fetch`,
`_check_for_update`), puts the commit before the user (`Remember`, `Answer`,
`_offer_update`), prepares it under the lock of `updates/<revision>` (`Lock`,
`Look`, `Remove`, `Extract`, `Publish`, `Abort` of `prepare_update`) and closes
to launch the helper (`Launch`), which is `Updater`. `prepared[c]` is the set of
parts of a release found in its directory, the revision marker added last.

### `Profiles`

`file` is `last_config.json`, `win[w]` a window: the firmware and overrides it
uses, the document it read under the lock, and the workers whose detected
settings are on their way. `Apply` is the dialog's `apply`; the save it makes is
three steps, `LockAndRead`, `WriteProfile` or `SaveFails`, because other windows
go on meanwhile. `EditKey` and `WriteKey` are the mapping of a key by hand.

### `NandSave`

`pc` walks a session through `close`: NOR, EEPROM, then the NAND's lock, the
merge and the writes of the image and of its JSON, each of which may fail or be
the last before a crash or a loss of power. `torn` remembers a save that ended
between its two files. The NOR and EEPROM saves are one step each, which is what
`StateSave` shows of them.

### `NandFlash`, `EepromDevice`, `NorCalls`, `NorProbe`

`NandFlash` has one action per branch of `_nand_command` and one for each port
and page routine. `mode` is `nand_mode`, `address` and `program` the latched
cycles and bytes, `log` the entries a save replays. `EepromDevice` has the load
at the first call, which is when the capacity becomes known, and the two
transport calls. `NorCalls` are the hooked read and write routines of a second NOR: the
offset they make of an address, the refusals, the bytes a read delivers to its
buffer, the bulk and the verifying write. `NorProbe` follows the primary NOR's accesses one by one.

### `SerialBus`, `BoardAdc`

`bus.status` is `_sbi_profile_status`, `bus.backing` the guest's own word while
a tentative answer covers it. A hook runs before its access, so a write lands
after the state has changed (`Lands`). `BoardAdc` has the hooked reader and the
observer's epochs.

### `KeyScan`

`SetKey` has the three ways of `set_key`; `ScanRow` is the guest's read of a row
of the matrix, `ReadSideband` and `ReadRegister` reads of the others. The
observers of the firmware's queue (`EnqueueObserved`, `DequeueObserved`,
`TaskObserved`) count the evidence. `Keypad` ends where `set_key` begins.

### `RunLoop`, `MemoryBus`, `PollRelease`, `BoardLayout`

`RunLoop`: `window` is `_poll_window_remaining`, `reads` the hot reads of each
poll in the window, `Decided` what happens at its end. `PollRelease` has the
loops by their grammar: `Inferred` is `_infer_thumb_poll_value`, `Exits` what the loop's
own code does. `MemoryBus` gives each page an owner; `Unmapped` is
`_unmapped` with its order of answers. `BoardLayout` goes through the
constructor's stages; a refusal is a stage too. `board.reads[a]` and
`board.writes[a]` are all the hooks that see an access to `a`, several of them
where the code lays several: straps, sideband keys, serial bus and interrupt controller
over the range of the MSM, the audio transport over the LCD's bus, the revision register over
anything. They run in the order of installation (`HookOrder`); `Declines` are
those that return without an answer. `SettingsValid` is the dialog's own check.

### `HleLoops`, `HleCalls`

A loop runs iteration by iteration (`Native`), and at its header a hook may do
the rest. `promise` is what the loop was to leave when it was entered.
`HleCalls` has the routines answered at their entry, and overlays that put
other code there.

### The display

A panel write meets the candidates in the order of `_lcd_route_write`.
`LcdHold` and `LcdReplay` are those that hold writes back, `LcdGrammar` those
that show nothing before a whole picture has come, `LcdPage` and `LcdStream` the
controllers proper, `LcdRaw` the capture of what no decoder takes. Each of them is
one action per write of the guest; the operators are the functions it passes
through. `LcdFrame` has the two threads: drawing and `_publish_frame` in
the worker, `display_snapshot` in the window.

### `AudioTransport`, `AudioPlayer`

`AudioTransport` has the two chips' write handlers and the flush at the end of a
chunk. Buffers have an identity, since snapshots keep the `bytearray` and not
its bytes. `AudioPlayer` has the emulation thread, the renderer thread and the
threads that wait for `ffplay`; each step is what one lock covers.

### `SmafParsers`, `SmafScore`, `SnapshotNotes`

A parser of `ma7_runtime/smaf.py` is a loop over a byte cursor. `SmafParsers`
has one operator per branch of each loop; each takes the parser's record (cursor
`pos`, time `tick`, notes, controls, settings of channels, `over` for a `break`) and
gives it behind the event. `SmafScore` starts three of them on one body: `whole` on all of
it, `cut` on a beginning, `voices` the reader of human-voice notes; a step is one event
of each. `SnapshotNotes` is `_Ma2SnapshotDecoder`: the guest writes a score byte by
byte (`WriteByte`), a start of the chip hands over all that has been written, and
`Snapshot` parses it anew and plays what is not among `emitted`.

### `BootProbe`

`probe` as one process; the emulator is an environment whose counters grow.
`Phase` is `boot_phase`, `Event` is `boot_event`, read off the same counters.

### `MCBoard`, `MCMedia`

The components above share no state with each other, so a product of them would
only multiply their states. The two modules are their sum: `part` names the
component a behaviour belongs to, `state` is its variable. A theme property
(`SavesAreWhole`, `MemoryAsNative`, …) is the conjunction of what the components
under it promise; its comment names them. The instances are named for the part:
`Bus` is `SerialBus`, `Second` is `NorCalls`, `Block` is `HleLoops`, `Register`
is `PollRelease`, `Pad` is `Keypad`, `Settings` is `Profiles`, `Transport` is
`AudioTransport`; the others are plain. `Board_proofs` uses the same names.

## 3. The runs

| Run | Instance | Shows |
| --- | --- | --- |
| `StateSaveNor` | two emulators in one process and one in another, two of the three at a time, one byte of one bit, three replacements | `LocksMatchControl`, `LogExplainsImage`, `AckedSurvives`, refinement of `StateStore` |
| `NorFlash` | four cells of one bit: data and identifier, both unlock offsets, a board register in a sector of its own | `GuestSeesFlash`, `OnlyEraseSetsBits`, `OnlyProgramClearsBits` |
| `NorStaleRestore` | the same device, an erase in one block with its unlock stores | violation of `GuestSeesFlash`, section 6 |
| `RexController` | twelve outcomes of detection, an interval of three chunks | `RouteIsWhole`, `EachTickServedOnce`, `TicksAreSpaced`, `NoTickLost`, `TicksNeedArm`, `TicksKeepComing` (liveness) |
| `GuiWorker` | five generations | `OneWorker`, `EmulatorIsCurrent`, `OverridesAreCurrent`, `SaveErrorsAreShown`, `NothingRunsAfterClose`, `RestartsComplete` and `CloseCompletes` (liveness) |
| `KeypadManual` | the keypad of `Board` with a manual mapping to another key's producer | violation of `NoStuckKey`, section 6 |
| `UpdateApply` | the helpers of two windows, two files, of which the release has one | `RolledBack`, `UpdateComplete`, `EditsNeedConsent` |
| `UpdateRollback` | one helper, failures while the backup is made | violation of `RolledBack`, section 6 |
| `Board` | eighteen components side by side (below); the keypad has two keys, two keyboard sources and a mouse, queues of two | `TypeOK`, `NoStuckKey`, `HeldIsDown`, `PressesReachGuest`, `SavesAreWhole`, `LogsAreImages`, `BusAnswers`, `RunKeepsCadence`, `MemoryAsNative`, `OnlyBlockEraseSetsBits` |
| `Media` | eleven components side by side | `TypeOK`, `SoundKeepsItsBytes`, `SilentAfterClose`, `EachNoteOnce`, `PicturesAreWhole`, `SnapshotIsWhole`, `NothingWithheld` |
| `SnapshotReplay` | a score of two events, written byte by byte, with a snapshot at any byte | violation of `NoNoteReplayed`, section 6 |
| `LcdHoldOrder` | the two holding candidates of the 0x028 port | violation of `HeldInOrder`, section 6 |

What the theme properties of the two sums are made of:

| Property | Component: what it promises |
| --- | --- |
| `SavesAreWhole` | `NandSave`: `PairBelongs`, `ClosePrefix`; `BoardLayout`: `FilesApart`; `UpdateOffer`: `PreparedStays`; `Profiles`: `SavedStays`, `ProfilesBelong` |
| `LogsAreImages` | `LogIsImage` of `NandFlash`, `EepromDevice` and `NorCalls` |
| `OnlyBlockEraseSetsBits` | `NandFlash`: `BitsComeBackByErase` |
| `BusAnswers` | `SerialBus`: `NativeUnlessAnswered`, `RequestsWait`; `BoardAdc`: `ReadbackIsTheAnswer`; `KeyScan`: `ScanFindsHeldKey`, `HeldKeysAreRead`, `EvidenceIsOrdered` |
| `RunKeepsCadence` | `RunLoop`: `CadenceIgnoresSlices`, `ForcedBitsAreWaitedFor`; `PollRelease`: `ReleasesEndWait`; `BootProbe`: `ClassifiersAgree`, `TimelineAddsUp`, `CheckpointsAreExact` |
| `SoundKeepsItsBytes` | `AudioTransport`: `SnapshotKeepsItsBytes`, `VoiceIsCounted`; `SmafScore`: `NotesInOrder`, `CutKeepsTheRest`, `MarkersAreInvisible`, `VoicesKeepTime` |
| `SilentAfterClose` | `AudioPlayer` |
| `EachNoteOnce` | `AudioPlayer`: `EachNoteOnce`; `SnapshotNotes`: `SnapshotsAgree`, `OnlyTornNotesReplayed` |
| `NoStuckKey`, `HeldIsDown`, `PressesReachGuest` | `Keypad` |
| `PicturesAreWhole` | `LcdGrammar`: `PicturesAreWholeTransfers`; `LcdRaw`: `CapturesFitPanel`, `RastersFillPanel`; `LcdStream`: `StreamFillsWindow`, `PixelsAreWhole`, `StaleCursorIsUnused`; `LcdPage`: `PictureIsRam` |
| `SnapshotIsWhole` | `LcdFrame`: `SnapshotIsWhole`, `ConfiguredPanelStays` |
| `NothingWithheld` | `LcdHold`: `NothingWithheld`; `LcdReplay`: `WritesReplayedInOrder`, `WordsCapturedInOrder` |

### Why the bounds are enough

* *State files.* A lost update needs two savers and one byte; a wrong order of
  two entries of one log needs a program and an erase of one byte, both in
  `NorOps`. With one bit, `program` clears and `erase` sets it, so every order
  of two operations is distinguishable. Three replacements of the file give each emulator
  a save and leave one for a save that is repeated after an error. Two emulators of one process share the thread lock, two
  of two processes only the file lock; the three emulators, of which two run at
  a time (constraint `NotAllAtOnce`), give both cases and their succession.
  `Medium` decides the order of adopting and unlocking; the run has the NOR's, the
  proofs both.
* *NOR.* One bit suffices since commands treat all bits alike; the roles of
  cells overlap on purpose (the data cell is an identifier cell too, the value F0 is both
  datum and reset). The second sector shows that an erase spares it.
* *REX.* An interval of three leaves room for a tick raised early by one hook,
  for a retry that is not due yet, and for time before and after both. The
  firmwares are one for each way a tick can come about and the combinations in
  which two gates compete or a gate meets fields that are set.
* *Window.* Five generations allow a restart that overtakes a restart that
  overtakes a worker that is saving, and a close after that. All properties
  relate at most two workers.
* *Keys.* Two keys are needed for the matrix's single position and for a manual
  mapping to a foreign producer; two sources of one key for the release that
  must not end the other's hold. A queue of two holds an auto-repeat pair; a
  longer queue adds only pairs handled one after the other.
* *Updater.* A file common to both releases, one only the old release has, and
  the revision marker, which is not there before, are the three cases the loops
  distinguish.
* *Offer.* Three windows and two commits: one window with an older commit, one
  with a newer, one that comes later. Two windows are enough for the lock,
  the third sees what they left.
* *Settings.* Two windows on two firmwares or on one, two edits and one restart:
  a stale document, a stale worker and a failed change of firmware each need one
  of these.
* *NAND.* Two pages of a block, a page of one byte with two of spare area, so
  the data column, the spare columns and the end of the device differ; addresses
  of up to three cycles of two values also name the page behind the end.
* *Saves of a session.* Two sessions with two seeds: one whose save is torn or
  that still runs, and one of its own or the other seed; any number of sessions
  is the theorem `SavesArePairedAndPrefix`.
* *Run loop.* A window of three with slices of one and four: slices end in, at and
  behind the window. Polls that want a bit both ways, and one that may not be
  released.
* *Polls.* A register of three bits and loops of every grammar, with two
  bits to wait for.
* *Loops.* Words of two cells, RAM, internal RAM and a NOR side by side, so that
  source, destination and end can lie on either side of each boundary and
  overlap by less than, exactly or more than a word.
* *Layouts.* Four megabytes to a page: the boundaries the constructor compares
  are multiples of that except the registers, which have a page of
  their own. Some seven thousand configurations combine the flashes, the NAND, the
  registers and the file names in every pair.
* *Keys' scan.* Two rows of two columns tell a row from a column and an order
  from its reverse; one profile for every shape of event table.
* *Display.* Panels of two pixels, pictures of two bytes: a transfer can lack its
  first, its last or an inner write. Two panels of one size for the frame.
* *Audio.* A FIFO of two bytes, two snapshots, two epochs, three requests: an
  overflow behind a snapshot, and a request that replaces one in the queue.
* *Scores.* Up to three events of each format, out of eight to fifteen that take every branch of the
  parsers; the cut goes through any byte of the last one, and a page marker stands at
  any byte of it. Time bases of four and five, so a delta is not confused with a gate.
  Two events are enough for snapshots: one that is torn and one behind or before it.

Bounds that cap counters are named `Max…` and marked `bound:` where they are
declared (`MaxVersions`, replacements of the state file; `MaxGeneration`,
`MaxEvents`, `MaxCommands`, `MaxSteps`, `MaxWrites` and the like). `Interval` of
`RexController` is a constant of the code, counted in chunks.

Deadlock is checked except where the system may stop: `GuiWorker`, whose window
is destroyed in the end, and the two sums, whose parts end (a board that is
built, a probe that is over, sessions that are closed) or reach their bounds.

Every property of a passing run has at least one mutant in `PROJECT.json`: a
definition next to the right one, introduced by a comment "Wrong:", which is
what a plausible slip in the code would make of it, and under which TLC finds
the property violated. No action uses the mutants.

## 4. Fairness

Fairness is assumed only where the code or the operating system provides it.

* `GuiWorker`: weak fairness of each worker's steps (threads are scheduled; a
  slice of the guest is 25,000 instructions and ends), of the timer callbacks
  of `_start_when_stopped`, of the join's return and of `_refresh`, which
  re-arms itself. No fairness of restarts, faults or the user: a start that waits
  for the box of save errors to be read counts as having got there (`RestartsComplete`).
* `RexController`: weak fairness of `EndChunk` (`run` goes from chunk to chunk),
  strong fairness of `Boundary` and `Idle` (guest code reaches block boundaries
  and comes back to its idle loop, though not from within a handler), and weak
  fairness of the handler's and the tick routine's steps. These are assumptions
  about a firmware that works; `TicksKeepComing` adds as premises that its
  installation stays up, that it unmasks interrupts again and again, and that
  in the end its tasks do not take the tick from the handler by polling.

The other specifications state no fairness, and no liveness is claimed of them.

## 5. What is proved

Proofs are checked for *every* value of the constants, under the named
assumption of each module (`StateSaveAssumption`, `RunLoopAssumption`, …), which
TLC evaluates on the instances of the runs; the theorems about the two sums rest on those
of all their components at once. The assumptions say what detection
and the constructor guarantee: ranges of addresses and words, finite sets where
the code has a table, distinct markers. Two theorems have a premise beyond that,
`RollbackRestores` and `NoKeySticks` (with `EveryKeyComesUp`, which carries it to
the sum), and `GuestReadsFlash` has one; each premise
is the case in which section 6 shows the property violated.

A component that has a run of its own is extended by its proof module. The
components of the two sums are named instances (`Loop == INSTANCE RunLoop`). In
`Board_proofs`, which extends `HleLoops_proofs`, their constants and variables stay parameters, so a theorem
there holds for every board. `MCBoard_proofs` takes all of `Board_proofs` as one
instance, `R`, with `MCBoard`'s constants for its parameters, and shows of
each component that it speaks of the same assumption, the same specification and the
same property (`LoopSameSpec` and its like); so what is proved of any board holds
of the board the run checks, and of every other value of the constants in its
configuration. A behaviour of `MCBoard` stays with one part (`PartStays`)
and is a behaviour of that component, which gives the theorems about the sums. The table at
the end of this section says which properties of the sums they state.

*Induction.* The library's induction rules take an operator as a parameter,
which the provers cannot instantiate. Its theorem that a well-founded relation has minimal
elements takes only sets, and gives induction in another form: a set of
numbers that is not empty has a least one (`LeastNumber`), so a set that holds 0 and
with each number the next holds all up to n (`NumbersUpTo`). On it rest:

* *folds*: a fold over a finite set has a value, and one only, whichever element it
  takes first (`FoldExists`, `SameFold`, by the least cardinality of a
  subset that fails);
* *runs*: the operators that replay a log or read a string to its end are recursive
  functions of their length; two of them that agree at 0 and in each step agree
  everywhere, and one more entry is one more step (`RunExists`, `SameRun`, `RunAppend`);
* *powers of two*: that they are positive numbers, and double, is shown by the
  same induction (`PowerCounts`, `PowerNext`); so a number has exactly one set of
  bits, and any set of bits of a register is a number's (`NumberExists`, `SameBitsSame`).

**`Flash_proofs`.**

`StateSave`: `TypeCorrect`, `LocksExclude`
(`[]LocksMatchControl`), `MergeFresh`, `LogIsComplete` (`[]LogExplainsImage`),
`SavedSurvives` (`[]AckedSurvives`) and `SavesImplementStore`
(`Spec => StoreSpec`), for any number of threads and processes, bytes, bits and
operations. The argument: the locks match the control points; because only the
holder of the file lock changes the file, what it merged is still the log
replayed on the file's present contents when it replaces it (`MergeIsFresh`);
so a replacement is a `Commit` of the whole effect. After a failed save whose
replacement was made, the log stays and is replayed again on an image that has
it already; that this is harmless is `ReplayIdempotent`. Durability needs
that only the lock holder can have a version that is not yet the only possible
one. None of the invariants is inductive alone: the merge's freshness needs the
locks, the log's completeness needs the merge's freshness.

`NorFlash`: `NorTypeCorrect`; `EraseSetsBits` and `ProgramClearsBits`
(the two action properties, for every geometry, map of pages and sectors, and
set of stores: the cells that change are among those that the store of the step selects); `GuestReadsFlash`, under the premise `EraseOwnBlock` that an
erase is confirmed in a basic block of its own (section 6 says what happens
otherwise). The inductive invariant ties the command phase to the last five
stores.

**`GuiWorker`.** `TypeCorrect`, `AtMostOneWorker`, `StopArrives`,
`RunningEmulatorIsCurrent`, `OverridesStayCurrent`, `SaveErrorsShown`,
`ClosedMeansStopped`, for any number of generations. The strengthening says
that `worker` names the only thread that can be alive, that generations
after the present one have not started, where between its look and its
assignment an overtaken worker can be, and that a start which waits for the box of save
errors is the last restart's, with no other callback for it and no worker alive
(`BoxInv`): so `BoxCloses` may start its thread without another look.

**`RexController_proofs`.** `TypeCorrect`, `RouteWhole`, `ServedOnce`,
`TicksSpaced`, `TicksStay`, `ArmFirst`, for every interval and every set of
outcomes of detection. The lemmas go from the inside out: `AttemptOutcome` (an
attempt promotes a route onto none, or touches only the gate's own flags),
`AttemptSound`, `AssertedCarried`, `CopiedCarried`, `CandidateCarried`,
`SourcesCarried` (what the block hook makes of the emulator's side). The
invariant `IInv` adds to the type and to `RouteIsWhole`: a pending tick is fresh or its handler is on
its way to acknowledging it (`PendingIsFresh`), the handler runs only with a
complete route (`RouteKept`), the time since the last tick and the distance to
the next sum to at least the interval (`ClockKept`), and the latches know of
the write to the arm register (`ArmKept`). `AcknowledgementsClear` computes the
bytes of an acknowledgement.

**`Updater_proofs`.** `TypeCorrect`, `MarkerMeansComplete` (`[]UpdateComplete`),
`RollbackRestores` (`[]RolledBack` if copying to the backup cannot fail) and
`EditsGoByConsent` (`EditsNeedConsent`), for any number of helpers, files and
releases. The lock makes its holder the only helper with names left to do
(`LockIsHeld`); so for the holder the backup has every file of the start that its
phase has passed, and the target differs from the start only in names that are
backed up. Completeness has one conjunct per phase: what `install` has passed is
new, what `remove` has passed is gone, and the markers come last.

**`Board_proofs`.**

* `RunLoop`: `LoopTypeCorrect` and `LoopKeepsCadence`
  (`CadenceIgnoresSlices`, `ForcedBitsAreWaitedFor`). Instructions are whole windows
  and the part of the present one that has run; within it a poll was read no more often than
  instructions ran; a candidate was stuck in one window, a forced bit belongs to a poll that was
  stuck in two, and no bit is forced both ways.
* `SerialBus`: `BusTypeCorrect` and `BusGivesBack` (`NativeUnlessAnswered`,
  `RequestsWait`). The word that tentative answers hide is saved at the first
  of them and put back by the rejection; in between no write reaches it.
* `BoardAdc`: `ConverterAnswers` (`ReadbackIsTheAnswer`), with the epoch of the
  last start as the link between the request and the answer.
* `MemoryBus`: `PagesKeepTheirOwner` (`PageHasOneOwner`). What belongs to the
  board or to an attached NOR is mapped from then on, and only pages that
  nothing maps become dynamic or run.
* `KeyScan`: `ScanFindsWhatIsHeld` (`ScanFindsHeldKey`, `HeldKeysAreRead`,
  `EvidenceIsOrdered`). The rows read since the last change of the keys have
  put the events of their held keys down, and each piece of evidence rests on an
  earlier one that no other counts on.
* `BootProbe`: `ReportsAreTrue` (`ClassifiersAgree`, `TimelineAddsUp`,
  `CheckpointsAreExact`), for any plan of increasing checkpoints and any chunk.
* `NandSave`: `SavesArePairedAndPrefix` (`PairBelongs`, `ClosePrefix`). Under
  the lock the two files on disk are a pair or a save is between them (`torn`), and the media
  that `close` has saved are those in front of its program counter.
* `NorProbe`: `RecordedProbesAreComplete`. The accesses that are pending are the
  last ones, so the four of a recorded probe are.
* `HleCalls`: `CompletionsAnswerStarts` (`CompletionAnswersStart`) and
  `HooksAnswerAsNative` (`CallsAnswerAsNative`), for registers and counters of any width. The
  checksum's loop counts down a counter that is signed at first and cut to its width
  after each byte; that it ends after as many bytes as the hook computes is an induction over them.
* `NorCalls`: `NorCallsDoTheirWork` (`CallsDoTheirWork`, `LogIsImage`). The guest's memory shows
  the image, the log replays to it, and the record of the last call holds what was there before
  it: the bytes that a read put into its buffer are compared with the flash one by one.
* `NandFlash`: `NandLogsEveryChange` (`LogIsImage`, `BitsComeBackByErase`), for any geometry.
  A command programs or erases the image and appends the entry; one more entry
  is one more step of the replay (`RunAppend`).
* `EepromDevice`: `EepromLogsEveryWrite` (`LogIsImage`), for any capacities and files; the
  image keeps the length it was loaded with, so a write that the log replays falls where it fell.
* `PollRelease`: `ReleasesEndEveryWait` (`ReleasesEndWait`), for registers of any width. The bit that
  is inferred for a loop is one the loop waits for; of a comparison, each
  release makes the register agree with the literal in one more bit, and the bits that differ are
  fewer than the releases left.

**`HleLoops_proofs`.** `LoopLeasesInOrder` (`LeasesInOrder`): the ends that the host
remembers are those of the spans it has written; the end of the data is the first
span's, the end of the BSS is known from the second span on, and it counts as
complete only if a span has come to it. And `LoopsKeepPromise` (`LoopsKeepTheirPromise`), for
any memory, word, chunk, unrolling, watchdog period and scripts of loops. Its invariant
(`PromiseInv`) says that the loop, run by the guest from where it is, ends in what was
promised when it was entered; an iteration keeps that by definition, so what is to show is that the
host's way of completing a loop is some number of its turns:

* a turn brings the loop's measure down (`LeftFalls`), so a loop has a path of
  turns to its end, and one only (`PathExists`, `NativeTurns`), which does not depend on how
  many turns the evaluation allows;
* a copy or a clear of `n` cells is `n` over the step of its turns: the memory behind it is
  the same, whether in one go or turn by turn, if source and destination do not overlap that way
  (`ClearMoves`, `CopyMoves`, `ApartSpans`), and the source may be read (`PlainSource`);
* the strobes and the boundary of an unrolled or a watched clear fall where the
  division of what is left puts them (`MultipleRules`, `RestFits`, `RestLeapt`, `RestMissed`);
* each of the host's six ways (`HotCopyKeeps`, `HotClearKeeps`, `HotSegmentKeeps`,
  `FastClearKeeps`, `FastCopyKeeps`, `FastRampKeeps`) then leads from a state on the path to its
  end, or to a later one on it.

**`MCBoard_proofs`.**

* `BoardLayout`: `LayoutTypeCorrect`, `LayoutOneOwner` (`OneOwner`),
  `LayoutFilesApart` (`FilesApart`) and `DialogAcceptsBoards` (`DialogAgrees`).
  The invariant says, of each stage of the constructor, which of its
  validations has passed; once the hooks are set, all have, and each of the three
  properties follows from those of the chipset's ranges and of the configuration that was accepted.
  Several hooks over an address are no contradiction to `OneOwner`: it says that those that
  answer speak for one device, that where the revision register has a value only the interrupt
  controller is asked behind it and only the chip before it, and which device it is for the RAM, the
  primary flash and the upper one.
* `UpdateOffer`: `OfferKeepsPrepared` (types, `PreparedStays`,
  `MarkerMeansWhole`). A prepared release changes only under the lock of the
  window that prepares it; a window that has seen one complete relies only on
  releases with the marker, and those are neither removed nor replaced.
* `Profiles`: `SettingsStayAndBelong` (types, `SavedStays`, `ProfilesBelong`).
  Between its read and its write a window holds the lock and the file is as it
  was read, so the write replaces one entry; reports of an earlier generation
  are about another firmware only if they do not count any more.
* `Keypad`: `KeypadTypeCorrect`, `PressReachesGuest`, `NothingHeldIsUp`
  (`[]HeldIsDown`) and `NoKeySticks` (`[]NoStuckKey`), for any keys, sources,
  profiles and lengths of the two queues. For `HeldIsDown` the invariant describes the event
  queue: a source that is up has its end in the queue with no press behind it, or
  holds nothing, or is about to be confirmed (`UpEnds`), and a release of one that is
  down is followed by its press or by the loss of the focus (`DownRenews`). For
  `NoStuckKey` it says that the last command under way for a key agrees with
  what the window holds (`KeyCurrent`) and that each key keeps to one way into the
  guest (`OwnWay`). The premise `ManualKeepsWay` says that a manual mapping does not move
  a key from the matrix to another key's producer or back; `KeypadManual`
  refutes the property where it does.
* `MCBoard`: `BoardTypeCorrect` (`TypeOK`), `EverySaveIsWhole` (`SavesAreWhole`),
  `EveryLogIsImage` (`LogsAreImages`), `BusesAnswer` (`BusAnswers`), `RunsKeepCadence`
  (`RunKeepsCadence`), `HeldKeysAreDown`, `EveryPressReachesGuest`, `EveryKeyComesUp`
  (`NoStuckKey` where `ManualKeepsWay`), `BitsComeBackByErase` (`OnlyBlockEraseSetsBits`) and
  `MemoryIsNative` (`MemoryAsNative`):
  the theorems of the components, carried over as described above. The type correctness of a
  component is one of the things carried, so `BoardTypeCorrect` is that of all eighteen.

**`Media_proofs`.**

* `AudioPlayer`: `PlayerFallsSilent` (`SilentAfterClose`) and `PlayerPlaysOnce`
  (`EachNoteOnce`). `SilentAfterClose` excludes one worker from what it says of the file: one that was past
  its last look at `_closed` and had not yet written when the join gave up (`late`); a worker that
  was still rendering finds the flag and writes nothing. There is one process at most, none while another is made ready
  or after `close` has stopped the player, and the queue holds the newest
  request at most. A note that is marked was rendered, is about to be, or was
  lost, and the epochs it was rendered in only ascend (`MarksAreKept`).
* `LcdFrame`: `FrameTypeCorrect` and `FrameIsWhole` (`SnapshotIsWhole`,
  `ConfiguredPanelStays`). The lock is held exactly where its holder is
  (`LockIsHeld`); outside an adoption both buffers are of the panel, and a window
  that has read the panel's size has read the one that is still there
  (`BuffersFit`); a geometry that was given stays (`GivenIsKept`).
* `AudioTransport`: `SnapshotsKeepTheirBytes` (`SnapshotKeepsItsBytes`,
  `VoiceIsCounted`). A buffer that a snapshot shares only grows behind the length
  has noted; overflows and epochs take a new buffer.
* `LcdRaw`: `CapturesAreWhole` (`CapturesFitPanel`, `RastersFillPanel`). Each
  port holds the smaller of the words it was given and the words of a panel, also in
  the middle of a write, when the port is full and not yet handed over.
* `LcdStream`: `StreamsFillTheirWindow` (`StreamFillsWindow`, `PixelsAreWhole`,
  `StaleCursorIsUnused`). The place in the window is the count of the pixels
  before it; a stream that draws into a cursor was begun when a cursor was
  addressed; a byte that is latched is never one of an earlier command.
* `LcdPage`: `PageShowsItsRam` (`PictureIsRam`). Pages are qualified only once
  their row is known, and drawn only once they are qualified; a picture drawn from
  half the pages has the target's panel, so no adoption clears it afterwards.

* `MCMedia`: `ClosedPlayerIsSilent` (`SilentAfterClose`) and
  `EverySnapshotIsWhole` (`SnapshotIsWhole`).

What the proofs say of the properties of the sums:

| Property | Proved | Only checked |
| --- | --- | --- |
| `MCBoard.TypeOK`, `SavesAreWhole`, `LogsAreImages`, `BusAnswers`, `RunKeepsCadence`, `MemoryAsNative`, `HeldIsDown`, `PressesReachGuest`, `OnlyBlockEraseSetsBits` | whole, as theorems about `MCBoard` | |
| `NoStuckKey` | whole where `ManualKeepsWay`, as a theorem about `MCBoard` | |
| `SilentAfterClose`, `SnapshotIsWhole` | whole, as theorems about `MCMedia` | |
| `EachNoteOnce` | `AudioPlayer` | `SnapshotNotes` |
| `SoundKeepsItsBytes` | `AudioTransport` | `SmafScore` |
| `PicturesAreWhole` | `LcdRaw`, `LcdStream`, `LcdPage` | `LcdGrammar` |
| `NothingWithheld`, `MCMedia.TypeOK` | | the parts named above as only checked; `LcdHold`, `LcdReplay` |

**Only model-checked, and why.**

* Liveness (`RestartsComplete`, `CloseCompletes`, `TicksKeepComing`): the proof
  system does not handle `ENABLED`, which fairness is defined by.
* The parsers of scores (`SmafScore`, `SnapshotNotes`): the properties compare two or three
  parsers on a body and on its beginning. The invariant would have to relate their records
  event by event, for each branch of each format.
* `LcdGrammar`, `LcdHold` and `LcdReplay`: each compares a decoder with
  a function of the list of all writes before, the longest tail that is a picture and the replay
  of what was held, for every prefix a grammar allows.
* `MCMedia.TypeOK`, since it has the types of these components in it.
* `ReplayIdempotent` is stated for the composition of two effects, which is how
  `StateSave` represents a log, and not for lists of any length.

None of these but the first is out of the prover's reach in principle: they are inductions over
data, of the kind done above, which have not been carried out.

No module uses a `RECURSIVE` operator, which the proof system's SMT backend does
not support.

Proving changed the models in a few places. Assumptions became explicit that the
code grants and the instances had by accident: the constructor's plan of probes is
not empty, the marker files and the states of a file are distinct, panels have cells,
checkpoints are lists of increasing counts, the tables of keys and of FIFOs are finite, the
chipset's devices keep clear of each other, the bounds of memory are numbers, the routines the
host answers are among those the firmware can have (`HleCalls`), the
loops that are polled are those of the grammars the code infers from (`PollRelease`), a loop ends
in the address space (`HleLoops`). Three definitions turned out wrong:

* `ImageFits` of `BoardLayout` tested the place of the RAM seed only where there
  is one; the constructor tests it always. The proof of `DialogAgrees` needed
  it, and the run now has a configuration with a negative place and no seed.
* `CallsDoTheirWork` of `NorCalls` took the argument of a read for an address;
  the read routine is given an offset, whatever its size. The proof asked for it.
* `Stored` of `HleLoops` counted a store of no cells as an access to the bus behind the
  RAM. A fast ramp of no words makes none, and the proof failed there.

None of the invariants that the runs check turned out violated by the
code; most were not inductive, and the strengthenings above are what they rest on.

## 6. Disagreements between the code and what it says of itself

1. **An erase in the basic block of its unlock stores** (run
   `NorStaleRestore`). `_flash_write` keeps the bytes of the unlock offsets in
   `_flash_restore` from before the erase. If the confirming store follows in
   the same block without a read of the device, the erased range is written to guest memory, and then the old
   bytes are restored over it. The comment at `devices/storage/nor.py:488-489`
   promises that probes "still see real NOR".
2. **A rollback during the backup** (run `UpdateRollback`). An `OSError` while
   files are copied to the backup enters the rollback of the whole update,
   which removes files whose copy has not been made. The docstring at
   `update.py:238` says "Replace manifest-owned files with rollback; preserve
   every other path."
3. **A manual mapping to another key's producer** (run `KeypadManual`). The
   release does not carry the manual event, so `set_key` does not find the
   producer that was pressed, and the key stays down. `README.md:119-121`
   offers the mapping; `tests/test_input_runtime.py:244` asserts that such a
   press is accepted.

4. **A write held by the older candidate is overtaken** (run `LcdHoldOrder`).
   The comment at `devices/display/controller.py:384-385` calls an intervening
   access a mismatch. The RGB332 candidate is asked first and may hold a byte-wide write
   while the direct candidate holds a halfword; when both give up, the younger
   write reaches the ordinary decoder first.

5. **A note of a torn snapshot is played twice** (run `SnapshotReplay`).
   `_Ma2SnapshotDecoder.decode` means to leave a note that ends behind the snapshot for
   the next one (`e170_gm_audio.py:52`), but `note.raw` is a slice of the
   snapshot, so the condition never holds. When a snapshot breaks off between the two bytes of
   a gate, the note is played with a short gate, and again, with other bytes, at
   the next snapshot. The docstring at `e170_gm_audio.py:32` says "without
   replaying old notes".

Observed while modelling, without a run of their own. The models have all of
these as they are in the code; where a property is stated so as to leave one
out, its comment says so.

*State files and storage*

* Closing saves flash, EEPROM and NAND one after the other
  (`core/lifecycle.py:1129`); an exception of one leaves the later ones unsaved.
* `durable_unlink` of a file that is already gone returns without syncing the
  directory. The model has it (`NothingToUnlink`); the version number it can
  return for is one another emulator made.
* A crash between the two files of a NAND save leaves a pair that does not belong together, and
  nothing notices. `NandSave` reaches it; `PairBelongs` is stated for the other pairs only.
* After a NAND save that was torn between its two files, a session with another
  seed takes an image without its JSON for a legacy save, and ignores a JSON
  without its image.
* A pending restore of `NorFlash` may also overwrite bytes that a hooked write
  routine of the second NOR has just put there, and such a write
  leaves the instruction emulator's translation of that range as it was.

*Updates*

* `remember_update` is called before the user has answered and before the
  download (`gui/app.py:236`): a commit whose window was killed, or
  whose download failed, is not offered again; two windows may both offer it; and a
  slow window that remembers an older commit makes the newer one be offered again. The
  docstring of `remember_update` (`update.py:118`) speaks of an update that was
  answered.
* Nothing of a prepared release is synced. After a loss of power a release may
  have its marker and lack its contents; it is then found complete each time,
  and the helper refuses it each time.
* A second attempt after a kill removes the backup of the first
  (`update.py:254-255`) and takes the mixed installation for its own start; the
  properties are stated relative to that start. The check for edits precedes the
  lock, so a helper that was at work at the same time as another may overwrite an
  edit it was not asked about; `EditsNeedConsent` leaves out helpers that met
  another (`met`).

*Settings*

* If `last_config.json` cannot be read at the moment of a save, the save starts
  from an empty document and drops the profiles and key maps of other firmwares.
* A window's language preference and its overrides are those it started with:
  its save puts them over what another window of the same firmware saved. The
  cached key map of a window is not read again when another changes the file.
* The settings dialog does not check overlaps with the LCD, MSM and NAND ranges,
  which the constructor refuses; a status input outside mapped memory passes both and fails in the
  constructor as an error of the backend. `write_targets` names
  the temporary files `.tmp`, while `atomic_write_bytes` uses names of `mkstemp`.

*Devices*

* The idle hook asks `_rex_irq_arm_required`, which a promoted MSM5000-620
  candidate never sets: it may tick before its timer is armed
  (`soc/rex.py:1128`). `TicksNeedArm` is stated for the other routes.
* The branch of the idle hook that saves and restores registers around the sleep call
  (`soc/rex.py:1076-1081`, `1141-1149`) cannot be reached, because a 5 ms route
  returns before it.
* A hand-mapped sideband key is not asserted again on reads as a detected one
  is; the deletion of ready bits in `set_key` never finds one, since those never overlap the key
  register.
* A loop that compares a whole literal is released bit by bit and may wait for
  ever if an earlier release forced another bit of its register; of an extracted
  field only the lowest bit is supplied, and a retry whose exits are not proved is
  taken for one that leaves. The open-bus gap above the RAM (`core/lifecycle.py:924-931`)
  does not leave out a primary flash that lies there.
* In `page.py` a byte-wide non-zero column ends the transfer without resetting
  its count of data.
* A renderer thread that has looked at `_closed` for the last time, and has not yet
  written when the two seconds of `close` are over, writes the WAV file again behind the unlink
  (`e170_gm_audio.py:239-250`). `SilentAfterClose` leaves just this file out; the
  thread starts no process, and one that is still rendering leaves nothing.

*Scores*

* A synthesizer command (`8B`, `9E`) that breaks off is read as a note that never was; in a
  cumulative snapshot such a note is played. `CutKeepsTheRest` leaves it out.
* The reader of human-voice notes has no page marker check within the loop,
  skips an `F0 01` packet by one byte where the reader of notes skips four, and
  takes a start mark (`FF 00`) behind the first note, but before the first voice, for
  the start of the sequence: after one of these the two disagree about the time.
  `VoicesKeepTime` is stated for format 2 without them.

*High-level emulation*

* A hot copy leaves the register of the last loaded word, a progress clear its
  scratch registers as they were. The fast clear, the fast copy and the ARM clear do not
  check for the rest of a word or of an unrolled pass, and the fast clear leaves out the
  watchdog strobes of its loop. `LoopsKeepTheirPromise` is stated for whole
  words there.
* The ramp compares unsigned where the guest's branch is signed. A delay for
  a count of zero or less does not end in the "exact terminal R0/NZCV state" its docstring
  (`hle/device_calls.py:55`) claims.
* The end of the BSS is not noticed when the guest's own iteration stores its
  last boundary word. The fast-boot hook returns on re-entry without
  initialising the data segment again.

## 7. What is not modelled, and why

* *Detection* (`detection`): pattern matching over the bytes of an image. The
  models start from its possible outcomes: the profiles, layouts and loops of
  `MCBoard`, the firmwares of `RexController`.
* *The instruction emulator* is not part of the repository. The guest is
  modelled as what it can do to the devices: stores, loads, block boundaries,
  calls and loops.
* *The bytes of instructions*: whether a loop or routine is recognised is decided
  by byte patterns; the models have the loop's kind and whether its code is
  still what was recognised.
* *Encodings*: JSON, base64 pages, checksums of state files; `_unlogged_operations`,
  which turns direct edits of the image into log entries (no caller in the
  package edits the image except through the logged operations).
* *Windows*: the model's file system is POSIX. On Windows `_sync_directory` does
  nothing, and `AckedSurvives` is not claimed.
* *Message boxes* run a nested event loop while they are open. `GuiWorker` has the one in
  front of a start (`prompt`) and `UpdateOffer` the prompt that may be open for long; those of
  `_refresh`, of `_close` and of the settings dialog are part of the callback
  that opens them. That a box of a destroyed window raises `TclError` is what Tk does on X11; on
  Windows, where the box is the system's, what `showerror` does then is not modelled.
* *Colours and packed encodings* of the display, *sound synthesis*
  (`sf2_renderer.py`, `smaf_audio.py`, the synthesizer of `ma7_runtime`): numeric
  work without protocol. Of `ma7_runtime/smaf.py` the search for chunks and
  their repair, Huffman-coded scores, voices and waves, and old MMMG files are not modelled; nor
  are the parsers' arguments no caller passes (`max_tick`, `extended_controls`,
  `biased_gate_vlq`).
* *Fixed-vector and ADC ladders* of the key input, `dmd_download_fast`,
  the detection of flash identifiers, `_apply_linker` and the fast-boot hook of
  `hle`, and accesses of mixed sizes to a NOR.
* *Host checkpoint, telemetry, reproduction bundles, runtime log, wording,
  layout, command line, legacy interface*: no state that another part depends
  on.

## 8. The plan

Done: every part of section 1 whose state changes with the guest, the user or
another process, with the exceptions of section 7; the abstract store and its
refinement; the proofs of section 5.

Open, in this order:

1. The inductions not yet carried out: `NothingWithheld` of `LcdHold` and `LcdReplay`; then
   `PicturesAreWholeTransfers` of `LcdGrammar` and the parsers of scores.
2. The address and program latches of `NandFlash` against the commands they belong to.
3. The rest of `hle` and the ladders of the key input.
4. Pure procedures of detection as functions against reference definitions over
   bounded inputs: sector tables, the choice of candidates, the layout of the key
   matrix.
