-------------------------------- MODULE LcdRaw ---------------------------------
(***************************************************************************)
(* The capture of pixel words that no panel decoder knows a use for        *)
(* (devices/display/protocols/page.py, _capture_raw_lcd_stream): each port *)
(* keeps its last words, and a port that has carried a whole panel of them *)
(* is taken for a raster and shown.  Captured words may also prove the     *)
(* panel's size, and other decoders may change it.                         *)
(*                                                                         *)
(* A panel is its number of pixels; a capture, how many words it holds and *)
(* how many it has counted.                                                *)
(***************************************************************************)
EXTENDS Integers, FiniteSets

CONSTANTS Panels,        \* the sizes a panel may have
          First,         \* the configured one
          Proving,       \* 128 * 160 in the code: a raster that proves a panel
          LowWords,      \* 96: the words of a row of low bytes
          MaxWords       \* bound: words a port counts

LcdRawAssumption ==
  /\ Panels \subseteq Nat \ {0} /\ First \in Panels /\ Proving \in Panels
  /\ LowWords \in Nat \ {0} /\ MaxWords \in Nat

VARIABLE raw

(* "020+2" is also captured in segments between two commands; "020+4" may  *)
(* carry page rows; "028+4" is cleared by a command in the middle of a     *)
(* picture, and may carry a window's pixels.                               *)
Ports == {"020+2", "020+4", "028+4"}

Least(a, b) == IF a < b THEN a ELSE b

TypeOK ==
  /\ raw.panel \in Panels
  /\ raw.auto \in BOOLEAN                                \* display_geometry_source = "auto-default"
  /\ raw.shown \in BOOLEAN                               \* frame_sequence > 0
  /\ raw.len \in [Ports -> Nat] /\ raw.count \in [Ports -> Nat]
  /\ raw.segment \in 0..Proving /\ raw.segments \in Nat  \* of port 020+2
  /\ raw.low \in BOOLEAN                                 \* a row's words were all below 256
  /\ raw.window \in Nat                                  \* pixels of the last commands' window
  /\ raw.fifo \in BOOLEAN                                \* _lcd_028_window_fifo_qualified
  /\ raw.picture \in {"none", "raster", "window", "segment"}    \* by the last write
  /\ raw.of \in Nat

Empty == [p \in Ports |-> 0]

Init ==
  \E auto \in BOOLEAN :
    raw = [panel |-> First, auto |-> auto, shown |-> FALSE, len |-> Empty, count |-> Empty,
           segment |-> 0, segments |-> 0, low |-> TRUE, window |-> 0, fifo |-> FALSE,
           picture |-> "none", of |-> 0]

Quiet(r) == [r EXCEPT !.picture = "none", !.of = 0]
Shown(r, picture, words) == [r EXCEPT !.picture = picture, !.of = words, !.shown = TRUE]
Cleared(r, port) == [r EXCEPT !.len[port] = 0, !.count[port] = 0]

-------------------------------------------------------------------------------
(* _set_display_geometry drops every capture of the old panel.             *)
Resized_Keeps(r, panel) == [r EXCEPT !.panel = panel]

Resized(r, panel) ==
  IF panel = r.panel THEN r
  ELSE [r EXCEPT !.panel = panel, !.len = Empty, !.count = Empty, !.segment = 0, !.segments = 0]

(* An automatic panel takes a proved size; the picture is still dark, or   *)
(* is not (LcdFrame).                                                      *)
Proved(r, panel, dark) ==
  IF ~r.auto THEN r
  ELSE IF panel = r.panel \/ dark THEN [Resized(r, panel) EXCEPT !.auto = FALSE] ELSE r

Kept(r, port) ==
  [r EXCEPT !.len[port] = Least(@ + 1, r.panel), !.count[port] = @ + 1,
            !.segment = IF port = "020+2" THEN Least(@ + 1, Proving) ELSE @,
            !.segments = IF port = "020+2" THEN @ + 1 ELSE @]

(* The last commands named a row of low bytes, or a window (window-fifo).  *)
PageRow(r, port, row) == port = "020+4" /\ row /\ r.low /\ r.count[port] = LowWords
WindowFull(r, port) == port = "028+4" /\ r.window # 0 /\ r.count[port] = r.window

WindowPicture(r, full, dark) ==
  LET sized == IF full /\ (r.window = r.panel \/ r.auto)
               THEN LET proved == Proved(r, r.window, dark)
                    IN [proved EXCEPT !.fifo = (proved.panel = r.window)]
               ELSE r
  IN IF sized.fifo /\ r.window <= sized.panel
     THEN Cleared(Shown(sized, "window", r.window), "028+4")
     ELSE sized

(* A whole raster: a multiple of the panel has come, and the words held    *)
(* are the last panel.                                                     *)
Raster(r, held, counted, bright) ==
  IF counted >= r.panel /\ counted % r.panel = 0 /\ held = r.panel /\ bright
  THEN Shown(r, "raster", held) ELSE r

(* The first pictures of an automatic panel: a capture of just Proving     *)
(* words proves that size.                                                 *)
Proves(r, port, counted) == ~r.shown /\ r.auto /\ port # "020+2" /\ counted = Proving

(* A word: a row of low bytes is no picture, a full window is one, and     *)
(* what is neither may complete a raster.                                  *)
LowStill(r, port, low) ==
  IF port = "020+4" THEN [r EXCEPT !.low = low /\ (@ \/ r.len[port] = 0)] ELSE r

CaptureWord ==
  \E port \in Ports, low, row, full, dark, bright \in BOOLEAN :
    LET kept    == Kept(LowStill(Quiet(raw), port, low), port)
        held    == kept.len[port]
        counted == kept.count[port]
        window  == IF WindowFull(kept, port) THEN WindowPicture(kept, full, dark) ELSE kept
        proved  == IF Proves(window, port, counted) THEN Proved(window, Proving, dark) ELSE window
    IN /\ raw.count[port] < MaxWords
       /\ raw' = CASE PageRow(kept, port, row) -> Cleared(kept, port)
                   [] ~PageRow(kept, port, row) /\ window.picture = "window" -> window
                   [] OTHER -> Raster(proved, held, counted, bright)

(* Commands name another window.                                           *)
SetWindow ==
  \E window \in Panels \cup {0} : raw' = [Quiet(raw) EXCEPT !.window = window]

(* _lcd_begin_command: the 028+4 capture of a picture cut short is dropped.*)
Command(r) == IF r.count["028+4"] % r.panel # 0 THEN Cleared(r, "028+4") ELSE r

BeginCommand == raw' = Command(Quiet(raw))

(* The selector bus takes its port back from the capture.                  *)
SelectorOpens == raw' = Cleared(Quiet(raw), "020+4")

(* _finish_020_raw_segment, at a command on the base port: one exact       *)
(* segment before any picture proves the panel and is shown.               *)
Segment(r, known, dark, bright) ==
  LET proved == Proved(r, Proving, dark)
  IN IF r.segments = Proving /\ r.auto /\ ~r.shown /\ known /\ bright
     THEN Shown(proved, "segment", Proving) ELSE r

FinishSegment ==
  \E known, dark, bright \in BOOLEAN :
    raw' = [Segment(Quiet(raw), known, dark, bright) EXCEPT !.segment = 0, !.segments = 0]

(* Another decoder proves a panel, or forces one, and shows its picture.   *)
OtherDecoder ==
  \E panel \in Panels : raw' = [Resized(Quiet(raw), panel) EXCEPT !.auto = FALSE, !.shown = TRUE]

Next ==
  CaptureWord \/ SetWindow \/ BeginCommand \/ SelectorOpens \/ FinishSegment \/ OtherDecoder

Spec == Init /\ [][Next]_raw

-------------------------------------------------------------------------------
(* Every port holds its last words, as many as the panel has: a capture    *)
(* begun for another panel, or cut short, can neither be shown nor keep a  *)
(* whole raster from being shown.                                          *)
CapturesFitPanel ==
  \A port \in Ports : raw.len[port] = Least(raw.count[port], raw.panel)

(* A raster that is shown is one panel of words.                           *)
RastersFillPanel == raw.picture = "raster" => raw.of = raw.panel
===============================================================================
