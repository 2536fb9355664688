-------------------------------- MODULE MCMedia --------------------------------
(* The decoders of the display and the audio path, side by side.  They share *)
(* no state, so a behaviour belongs to one of them: `part' names it, `state' *)
(* is its variable.                                                          *)
EXTENDS Integers, Sequences

VARIABLES part, state
vars == <<part, state>>

CONSTANTS Fifos, LineRegisters, FifoLimit, SnapshotLimit, LineBytes, Timebases, KnownTimebases, Radix,
          MaxBuffers
Transport == INSTANCE AudioTransport WITH line <- state,
  Registers <- LineRegisters, Bytes <- LineBytes

CONSTANTS MaxNotes, MaxEpochs, MaxRequests
Player == INSTANCE AudioPlayer WITH player <- state

CONSTANTS HoldWidth, HoldHeight, HoldSpan, HoldBytes, Wide
Hold == INSTANCE LcdHold WITH hold <- state,
  Width <- HoldWidth, Height <- HoldHeight, MinSpan <- HoldSpan, Bytes <- HoldBytes

CONSTANTS Panels, FrameFirst, Sources, HasFramebuffer, MaxFrames
Frame == INSTANCE LcdFrame WITH display <- state, First <- FrameFirst

CONSTANTS SplitPrefixes, SplitBytes, RasterRows, RowBytes, BootCommands, BootBytes,
          Width, Height, MinPixels, Grammars
Grammar == INSTANCE LcdGrammar WITH bus <- state

CONSTANTS RowWords, ReplayLow, RefreshOrder, Words, ReplayCommands
Replay == INSTANCE LcdReplay WITH replay <- state,
  LowWords <- ReplayLow, Commands <- ReplayCommands

CONSTANTS HalfPages, Pages, Columns, WidthHint, PagePanels, MaxData
Page == INSTANCE LcdPage WITH page <- state, Panels <- PagePanels

CONSTANTS Modulus, StreamFirst, MinSpan, Commands, MaxWrites
Stream == INSTANCE LcdStream WITH lcd <- state, First <- StreamFirst

CONSTANTS RawPanels, RawFirst, Proving, LowWords, MaxWords
Raw == INSTANCE LcdRaw WITH raw <- state, Panels <- RawPanels, First <- RawFirst

CONSTANTS EventsOf, MarksOf, MsDuration, MsGate, HvChannels, MaxEvents
Score == INSTANCE SmafScore WITH score <- state

CONSTANTS SnapshotEvents, SnapshotChannels, MaxSnapshotEvents, MaxSnapshots
Snapshots == INSTANCE SnapshotNotes WITH fifo <- state, HvChannels <- SnapshotChannels,
  Events <- SnapshotEvents, MaxEvents <- MaxSnapshotEvents, MaxEpochs <- MaxSnapshots

-------------------------------------------------------------------------------
ASSUME Assumptions ==
  /\ Transport!AudioTransportAssumption /\ Player!AudioPlayerAssumption
  /\ Hold!LcdHoldAssumption /\ Frame!LcdFrameAssumption /\ Grammar!LcdGrammarAssumption
  /\ Replay!LcdReplayAssumption /\ Page!LcdPageAssumption
  /\ Stream!LcdStreamAssumption /\ Raw!LcdRawAssumption
  /\ Score!SmafScoreAssumption /\ Snapshots!SnapshotNotesAssumption

Parts == {"transport", "player", "score", "snapshots",
          "hold", "frame", "grammar", "replay", "page", "stream", "raw"}

Init ==
  /\ part \in Parts
  /\ CASE part = "transport" -> Transport!Init
       [] part = "player"    -> Player!Init
       [] part = "hold"      -> Hold!Init
       [] part = "frame"     -> Frame!Init
       [] part = "grammar"   -> Grammar!Init
       [] part = "replay"    -> Replay!Init
       [] part = "page"      -> Page!Init
       [] part = "stream"    -> Stream!Init
       [] part = "raw"       -> Raw!Init
       [] part = "score"     -> Score!Init
       [] part = "snapshots" -> Snapshots!Init

Device ==
  \/ part = "transport" /\ Transport!Next
  \/ part = "player" /\ Player!Next
  \/ part = "hold" /\ Hold!Next
  \/ part = "frame" /\ Frame!Next
  \/ part = "grammar" /\ Grammar!Next
  \/ part = "replay" /\ Replay!Next
  \/ part = "page" /\ Page!Next
  \/ part = "stream" /\ Stream!Next
  \/ part = "raw" /\ Raw!Next
  \/ part = "score" /\ Score!Next
  \/ part = "snapshots" /\ Snapshots!Next

Next == Device /\ UNCHANGED part

Spec == Init /\ [][Next]_vars

(* The candidates of the 0x028 panel port alone.                             *)
HoldSpec == part = "hold" /\ Hold!Init /\ [][Next]_vars

(* The snapshots of the MA-2 alone.                                          *)
SnapshotSpec == part = "snapshots" /\ Snapshots!Init /\ [][Next]_vars

-------------------------------------------------------------------------------
(* Properties.  Each speaks of the part that runs.                           *)

TypeOK ==
  CASE part = "transport" -> Transport!TypeOK
    [] part = "player"    -> Player!TypeOK
    [] part = "hold"      -> Hold!TypeOK
    [] part = "frame"     -> Frame!TypeOK
    [] part = "grammar"   -> Grammar!TypeOK
    [] part = "replay"    -> Replay!TypeOK
    [] part = "page"      -> Page!TypeOK
    [] part = "stream"    -> Stream!TypeOK
    [] part = "raw"       -> Raw!TypeOK
    [] part = "score"     -> Score!TypeOK
    [] part = "snapshots" -> Snapshots!TypeOK

(* _ma2_record_write, _MA5FIFOReceiver.feed: a snapshot yields the bytes of  *)
(* its start edge, and a voice as many bytes as it was announced with.  The  *)
(* parsers of smaf.py: notes come in order, a score that breaks off keeps    *)
(* all notes that were complete, the guest's page markers do not show, and   *)
(* the reader of voices agrees with the reader of notes about the time.      *)
SoundKeepsItsBytes ==
  /\ part = "transport" => Transport!SnapshotKeepsItsBytes /\ Transport!VoiceIsCounted
  /\ part = "score" => /\ Score!NotesInOrder /\ Score!CutKeepsTheRest
                       /\ Score!MarkersAreInvisible /\ Score!VoicesKeepTime

(* close of the player: no process is left, and no file that was not about   *)
(* to be written when close gave up waiting.                                 *)
SilentAfterClose == part = "player" => Player!SilentAfterClose

(* play_ma2_fifos, _worker: no note twice, no request forgotten.             *)
(* _Ma2SnapshotDecoder: snapshots agree with the whole score, and a note is  *)
(* played again only when a snapshot broke off within it.                    *)
EachNoteOnce ==
  /\ part = "player" => Player!EachNoteOnce
  /\ part = "snapshots" => Snapshots!SnapshotsAgree /\ Snapshots!OnlyTornNotesReplayed

(* The docstring of _Ma2SnapshotDecoder: cumulative FIFO snapshots are       *)
(* parsed "without replaying old notes".                                     *)
NoNoteReplayed == part = "snapshots" => Snapshots!NoNoteReplayed

(* direct.py, rgb565.py: a candidate that turns out to be none gives back    *)
(* every write it held.                                                      *)
NothingWithheld ==
  [][ /\ part = "hold" => Hold!NothingWithheld
      /\ part = "replay" => Replay!WritesReplayedInOrder /\ Replay!WordsCapturedInOrder ]_vars

(* The comment in front of the 0x028 candidates: an intervening access is a  *)
(* mismatch, so what they hold reaches the decoder in the order of the       *)
(* guest's writes.                                                           *)
HeldInOrder == [][part = "hold" => Hold!HeldInOrder]_vars

(* The decoders of whole pictures: a picture is one transfer, its window is  *)
(* filled once, it has the panel's size, and it is what the controller's RAM *)
(* holds.                                                                    *)
PicturesAreWhole ==
  /\ part = "grammar" => Grammar!PicturesAreWholeTransfers
  /\ part = "raw" => Raw!CapturesFitPanel /\ Raw!RastersFillPanel
  /\ part = "stream" => Stream!StreamFillsWindow /\ Stream!PixelsAreWhole /\ Stream!StaleCursorIsUnused
  /\ part = "page" => Page!PictureIsRam

(* display_snapshot: pixels and size belong together across a change of      *)
(* panel, and a configured panel stays.                                      *)
SnapshotIsWhole == part = "frame" => Frame!SnapshotIsWhole /\ Frame!ConfiguredPanelStays

-------------------------------------------------------------------------------
(* The small instance that TLC checks.  Its numbers are in the cfg.          *)

(* Writes of a byte and of a halfword into a panel of two pixels.            *)
SmallBytes == <<{0, 1}, {0}>>

(* Two panels of as many pixels.                                             *)
Upright == <<1, 2>>
Flat    == <<2, 1>>
SmallPanels == {Upright, Flat}
UprightPanels == {Upright}

(* The register setups of the split bus, shortened: commands and data.       *)
SplitCommand(v) == [port |-> "split-command", size |-> 2, value |-> v]
SplitDatum(v)   == [port |-> "split-data", size |-> 2, value |-> v]
SplitSetups ==
  << <<SplitCommand(0), SplitCommand(22), SplitDatum(1), SplitDatum(0),
       SplitCommand(0), SplitCommand(33), SplitCommand(34)>>,
     <<SplitCommand(0), SplitCommand(22), SplitDatum(1), SplitDatum(0),
       SplitCommand(0), SplitCommand(32), SplitDatum(0), SplitCommand(0), SplitCommand(34)>> >>
BootSetup == <<175, 235, 175, 39>>

(* A refresh of two registers.                                               *)
SmallRefresh == <<[register |-> 0, zero |-> FALSE], [register |-> 14, zero |-> TRUE]>>

(* Events of every command of the four dialects: notes, controls, voices,    *)
(* gates of one byte and of two, synthesizer commands, exclusive messages,   *)
(* ends and starts, marks, and bytes that are none; and a page marker.       *)
ScoreEvents == [
  midi |-> {<<1, 144, 60, 90, 5>>, <<2, 128, 61, 129, 0>>, <<0, 176, 7, 100>>, <<129, 1, 192, 5>>,
            <<3, 255, 0>>, <<0, 240, 7, 67, 121, 6, 127, 0, 90, 247>>, <<0, 240, 1, 9, 9, 9, 9>>,
            <<0, 158, 3, 129>>, <<0, 139, 130, 148, 140>>, <<0, 164, 0, 5>>, <<1, 224, 3, 4>>,
            <<1, 208, 3>>, <<0, 255, 47, 0>>, <<0, 5>>,
            <<254, 0, 0, 0, 5, 0, 1, 0, 0, 0, 240, 1, 7, 7, 7, 7>>},
  fmt7 |-> {<<1, 16, 60, 90, 5>>, <<2, 0, 61, 129, 0>>, <<0, 48, 7, 100>>, <<0, 48, 121, 0>>, <<129, 1, 64, 5>>,
            <<0, 240, 7, 67, 121, 6, 127, 0, 90, 247>>, <<0, 139, 130, 128, 149, 140>>, <<1, 224, 3, 4>>,
            <<1, 80, 3>>, <<1, 96, 3, 4>>, <<0, 255, 47>>, <<0, 255, 0>>, <<0, 0, 0, 0>>},
  handy |-> {<<1, 21, 5>>, <<0, 86, 129, 2>>, <<0, 16, 3>>, <<129, 0, 5, 1>>, <<0, 0, 50, 1>>, <<0, 0, 55, 100>>,
             <<0, 0, 5>>, <<0, 0, 34>>, <<0, 240, 3, 67, 1, 2>>, <<0, 255, 0>>, <<0, 255, 240, 1, 7>>,
             <<139, 130, 148, 140>>, <<0, 0, 0, 0>>},
  audio |-> {<<1, 1, 5>>, <<0, 66, 129, 2>>, <<0, 0, 55, 100>>, <<0, 0, 5>>, <<0, 255, 0>>, <<0, 255, 240, 1, 7>>,
             <<0, 255, 47, 0>>, <<0, 63>>}]
ScoreMarks == [midi |-> {<<255, 127, 1, 0, 9, 0, 8, 0, 240, 3, 0, 0, 1, 0, 255, 255>>},
               handy |-> {<<7, 7, 7, 7, 254, 0, 1, 0, 2, 0, 3, 0, 4, 0, 240, 1>>},
               fmt7 |-> {<<>>}, audio |-> {<<>>}]

(* Two notes, one with a gate of two bytes, a volume and a synthesizer       *)
(* command.                                                                  *)
FifoEvents == {<<1, 21, 5>>, <<0, 86, 129, 2>>, <<0, 0, 55, 100>>, <<0, 139, 130, 148, 140>>}
===============================================================================
