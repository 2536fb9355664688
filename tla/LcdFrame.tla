------------------------------- MODULE LcdFrame --------------------------------
(***************************************************************************)
(* The frame buffer of the display (devices/display/controller.py and      *)
(* framebuffer.py) between its two threads.  The decoders draw in it, may  *)
(* have the panel adopt a geometry they have proved, and publish it; the   *)
(* window takes snapshots.  Only the published frame and the geometry are  *)
(* under the display lock.                                                 *)
(*                                                                         *)
(* A pixel is blank (0) or not (1).  A frame keeps the geometry it was     *)
(* made for, which its bytes do not say: the code can only compare sizes.  *)
(***************************************************************************)
EXTENDS Integers, FiniteSets

CONSTANTS Panels,        \* the <<width, height>> a decoder may prove
          First,         \* the configured one
          Sources,       \* where First may come from
          HasFramebuffer,\* a frame buffer address is configured
          MaxFrames      \* bound: published frames

(* A panel has pixels: what is configured is checked by _validate_config,  *)
(* what is adopted by _set_display_geometry.                               *)
LcdFrameAssumption ==
  /\ Panels \subseteq (Nat \ {0}) \X (Nat \ {0}) /\ First \in Panels
  /\ Sources \subseteq {"auto-default", "external-config"}
  /\ HasFramebuffer \in BOOLEAN /\ MaxFrames \in Nat

VARIABLE display

Cells(panel) == 0..(panel[1] * panel[2] - 1)
Blank(panel) == [panel |-> panel, pixels |-> [c \in Cells(panel) |-> 0]]
Frames == UNION {[panel : {p}, pixels : [Cells(p) -> {0, 1}]] : p \in Panels}
Visible(frame) == \E c \in DOMAIN frame.pixels : frame.pixels[c] # 0

TypeOK ==
  /\ display.panel \in Panels                              \* config.width, height
  /\ display.source \in {"auto-default", "external-config", "runtime"}
  /\ display.given \in Sources                    \* what source was at the start
  /\ display.buffer \in Frames                             \* framebuffer
  /\ display.shown \in Frames                              \* display_frame
  /\ display.copy \in Frames                               \* what a publication copied
  /\ display.sequence \in 0..(MaxFrames + 1)               \* frame_sequence
  /\ display.firmware \in 0..display.sequence
  /\ display.index \in Nat                                 \* _lcd_index
  /\ display.dirty \in BOOLEAN                             \* _lcd_indexed_dirty
  /\ display.worker \in {"idle", "publish", "adopt", "adopted"}
  /\ display.lock \in {"free", "worker", "window"}
  /\ display.window \in {"idle", "sized", "done"}
  /\ display.format \in {"rgb", "bgr"}

Init ==
  \E source \in Sources :
    display = [panel |-> First, source |-> source, given |-> source, buffer |-> Blank(First), shown |-> Blank(First),
               copy |-> Blank(First), next |-> First, sequence |-> 0, firmware |-> 0, own |-> TRUE,
               index |-> 0, dirty |-> FALSE, worker |-> "idle", lock |-> "free",
               window |-> "idle", seen |-> First, snapshot |-> Blank(First), format |-> "rgb"]

-------------------------------------------------------------------------------
(* The decoders, on the emulation thread.                                  *)

(* _pixel: a place outside the panel is not drawn.                         *)
Drawn(d, cell, pixel) ==
  IF cell \in Cells(d.panel) THEN [d EXCEPT !.buffer.pixels[cell] = pixel] ELSE d

(* _publish_frame copies the buffer, then takes the lock.                  *)
Publishing(d, firmware) ==
  [d EXCEPT !.copy = d.buffer, !.worker = "publish", !.own = firmware]

Draw ==
  /\ display.worker = "idle"
  /\ \E panel \in Panels : \E cell \in Cells(panel), pixel \in {0, 1} :
       display' = Drawn(display, cell, pixel)

CompleteFrame ==
  /\ display.worker = "idle" /\ display.sequence < MaxFrames
  /\ display' = Publishing(display, TRUE)

Publish ==
  /\ display.worker = "publish" /\ display.lock = "free"
  /\ display' = [display EXCEPT !.shown = display.copy, !.sequence = @ + 1,
                                !.firmware = IF display.own THEN @ + 1 ELSE @,
                                !.worker = "idle"]

(* The indexed port: a pixel at the index, which counts round the panel;   *)
(* a whole round is published at once, the rest when the slice ends.       *)
IndexedPixel ==
  /\ display.worker = "idle" /\ display.sequence < MaxFrames
  /\ \E pixel \in {0, 1} :
       LET place == (display.index + 1) % Cardinality(Cells(display.panel))
           d     == [Drawn(display, display.index, pixel) EXCEPT !.index = place, !.dirty = TRUE]
       IN display' = IF place = 0 THEN Publishing([d EXCEPT !.dirty = FALSE], TRUE) ELSE d

IndexedSeek ==
  /\ display.worker = "idle"
  /\ \E panel \in Panels : \E cell \in Cells(panel) : display' = [display EXCEPT !.index = cell]

(* _flush_indexed_frame, at the end of every slice.                        *)
SliceEnds ==
  /\ display.worker = "idle" /\ display.dirty
  /\ display' = Publishing([display EXCEPT !.dirty = FALSE], TRUE)

(* Wrong: whatever the configuration said.                                 *)
Adoptable_Any(d, panel, force) == panel # d.panel /\ (~Visible(d.buffer) \/ force)

(* A panel the firmware has proved is adopted where the geometry was only  *)
(* a default; a forced one also replaces what another decoder proved, and  *)
(* a picture already drawn.                                                *)
Adoptable(d, panel, force) ==
  /\ panel # d.panel
  /\ d.source = "auto-default" \/ (force /\ d.source = "runtime")
  /\ ~Visible(d.buffer) \/ force

SetDisplayGeometry ==
  /\ display.worker = "idle"
  /\ \E panel \in Panels, force \in BOOLEAN :
       display' = CASE Adoptable(display, panel, force) ->
                         [display EXCEPT !.worker = "adopt", !.next = panel]
                    [] panel = display.panel /\ (display.source = "auto-default"
                                                  \/ (force /\ display.source = "runtime")) ->
                         [display EXCEPT !.source = "runtime"]
                    [] OTHER -> display

(* Under the lock: the geometry first, then the two buffers.               *)
AdoptPanel ==
  /\ display.worker = "adopt" /\ display.lock = "free"
  /\ display' = [display EXCEPT !.lock = "worker", !.worker = "adopted", !.panel = display.next,
                                !.source = "runtime"]

AdoptBuffers ==
  /\ display.worker = "adopted"
  /\ display' = [display EXCEPT !.lock = "free", !.worker = "idle",
                                !.buffer = Blank(display.panel), !.shown = Blank(display.panel)]

-------------------------------------------------------------------------------
(* The configured frame buffer (framebuffer.py).                           *)

(* A region of the guest's memory, cut to the panel; what it holds is      *)
(* whatever the guest wrote.                                               *)
InRegion(d, cell, x0, y0, x1, y1) ==
  /\ cell % d.panel[1] \in x0..x1
  /\ cell \div d.panel[1] \in y0..y1

Rendered(d, x0, y0, x1, y1, memory) ==
  [d EXCEPT !.buffer.pixels = [c \in DOMAIN @ |-> IF InRegion(d, c, x0, y0, x1, y1)
                                                  THEN memory[c] ELSE @[c]]]

(* _framebuffer_rows, _framebuffer_rect: the guest flushes a region; one   *)
(* outside the panel is nothing.                                           *)
GuestFlushes ==
  /\ HasFramebuffer /\ display.worker = "idle" /\ display.sequence < MaxFrames
  /\ \E panel \in Panels : \E x0, x1 \in 0..(panel[1] - 1), y0, y1 \in 0..(panel[2] - 1) :
       \E memory \in [Cells(display.panel) -> {0, 1}] :
         display' = IF x0 <= x1 /\ x0 < display.panel[1] /\ y0 <= y1 /\ y0 < display.panel[2]
                    THEN Publishing(Rendered(display, x0, y0, x1, y1, memory), TRUE)
                    ELSE display

(* set_framebuffer_format draws the panel anew; it is no frame of the      *)
(* firmware.                                                               *)
SetFramebufferFormat ==
  /\ HasFramebuffer /\ display.worker = "idle" /\ display.sequence < MaxFrames
  /\ \E format \in {"rgb", "bgr"} \ {display.format}, memory \in [Cells(display.panel) -> {0, 1}] :
       display' = Publishing([Rendered(display, 0, 0, display.panel[1] - 1, display.panel[2] - 1, memory)
                                EXCEPT !.format = format], FALSE)

-------------------------------------------------------------------------------
(* display_snapshot on the window's thread: the geometry, then the frame,  *)
(* under the lock; what differs in size is a RuntimeError.                 *)
SnapshotPanel_Unlocked(d) == d.window = "idle"

SnapshotPanel(d) == d.window = "idle" /\ d.lock = "free"

TakePanel ==
  /\ SnapshotPanel(display)
  /\ display' = [display EXCEPT !.lock = "window", !.window = "sized", !.seen = display.panel]

TakeFrame ==
  /\ display.window = "sized"
  /\ display' = [display EXCEPT !.lock = "free", !.window = "done", !.snapshot = display.shown]

Repaint ==
  /\ display.window = "done"
  /\ display' = [display EXCEPT !.window = "idle"]

Next ==
  \/ Draw \/ CompleteFrame \/ Publish \/ IndexedPixel \/ IndexedSeek \/ SliceEnds
  \/ SetDisplayGeometry \/ AdoptPanel \/ AdoptBuffers
  \/ GuestFlushes \/ SetFramebufferFormat
  \/ TakePanel \/ TakeFrame \/ Repaint

Spec == Init /\ [][Next]_display

-------------------------------------------------------------------------------
(* A snapshot is a frame of the panel it names: the "inconsistent display  *)
(* snapshot" of display_snapshot is never raised, not even between two     *)
(* panels of the same number of pixels, where its test would see nothing.  *)
SnapshotIsWhole == display.window = "done" => display.snapshot.panel = display.seen

(* A geometry the user or the descriptor gave stays, whatever the          *)
(* decoders believe they have proved.                                      *)
ConfiguredPanelStays == display.given = "external-config" => display.panel = First
===============================================================================
