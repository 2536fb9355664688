------------------------------- MODULE LcdStream -------------------------------
(***************************************************************************)
(* The command and data decoder that the parallel transports of a panel    *)
(* share (devices/display/controller.py, and the window frames of          *)
(* protocols/direct.py): commands program a window or a cursor, and a      *)
(* memory-write command starts a stream of pixels into the one or at the   *)
(* other.  Five pairs of ports lead to it; one byte-wide port sends a      *)
(* pixel as two bytes.                                                     *)
(*                                                                         *)
(* A data value is its high and low byte, a coordinate a number below      *)
(* Modulus (256 in the code).  The pixels' colours are left out.           *)
(***************************************************************************)
EXTENDS Integers, Sequences, FiniteSets

CONSTANTS Modulus,       \* of a coordinate
          First,         \* the configured panel, <<width, height>>
          MinSpan,       \* 64 in the code: the least side of a proved panel
          Commands,      \* the commands the guest gives
          MaxWrites      \* bound: writes

LcdStreamAssumption ==
  /\ Modulus \in Nat \ {0, 1} /\ First \in Nat \X Nat /\ MinSpan \in Nat
  /\ Commands \subseteq 0..255 /\ MaxWrites \in Nat

VARIABLE lcd

MemoryWrites == {\h22, \h2C, \h3C, \h5C}
ByteWindow == {\h15, \h75}                \* four bytes of a window's side
WordWindow == {\h2A, \h2B}                \* the same in two words
Edges == <<\h50, \h51, \h52, \h53>>

Bytes == 0..(Modulus - 1)
Value(hi, lo) == [hi |-> hi, lo |-> lo]
Values == {Value(hi, lo) : hi, lo \in Bytes}

Transports == {"020+2", "020+4", "028", "028+2", "028+8"}
None == [hi |-> -1, lo |-> -1]

TypeOK ==
  /\ lcd.protocol \in {"unknown", "parallel-2", "selector-4", "parallel-8", "direct"}
  /\ lcd.mode \in {0, 1}                                     \* _lcd_mode
  /\ lcd.command \in Commands \cup {0}
  /\ lcd.args \in Seq(Bytes) /\ Len(lcd.args) <= 4
  /\ lcd.x \in Bytes \X Bytes /\ lcd.y \in Bytes \X Bytes
  /\ lcd.axes \subseteq 1..4                                 \* _lcd_window_axis_mask
  /\ lcd.gram \in Nat \X Nat /\ lcd.addressed \in BOOLEAN
  /\ lcd.packed \in 0..2                                     \* _lcd_packed_21_state
  /\ lcd.expected \in Nat /\ lcd.streamed \in Nat
  /\ lcd.latch.byte \in Bytes \cup {-1} /\ lcd.latch.of \in {"none", "this", "earlier"}
  /\ lcd.published \in {"none", "part", "whole"}             \* by the last write
  /\ lcd.pixel \in {"none", "window", "cursor", "broken"}    \* what it drew

Init ==
  lcd = [protocol |-> "unknown", mode |-> 0, command |-> 0, args |-> <<>>,
         x |-> <<0, (First[1] - 1) % Modulus>>, y |-> <<0, (First[2] - 1) % Modulus>>, axes |-> {},
         panel |-> First, proved |-> FALSE, gram |-> <<0, 0>>, addressed |-> FALSE, packed |-> 0,
         expected |-> 0, streamed |-> 0, cursor |-> <<0, 0>>, window |-> First,
         origin |-> <<0, 0>>, calibrated |-> {}, latch |-> [byte |-> -1, of |-> "none"],
         published |-> "none", pixel |-> "none", cause |-> "none", drawn |-> FALSE, writes |-> 0]

-------------------------------------------------------------------------------
Span(axis) == ((axis[2] - axis[1]) % Modulus) + 1
Spans(s) == <<Span(s.x), Span(s.y)>>

(* _lcd_full_window_geometry, and the panel it may prove (LcdFrame's       *)
(* SetDisplayGeometry): the fallback panel alone gives way, and only while *)
(* the display is dark.                                                    *)
FullWindow(s) == s.x[1] = 0 /\ s.y[1] = 0 /\ Spans(s)[1] >= MinSpan /\ Spans(s)[2] >= MinSpan

Promoted(s, dark) ==
  CASE FullWindow(s) /\ ~s.proved /\ Spans(s) = s.panel -> [s EXCEPT !.proved = TRUE]
    [] FullWindow(s) /\ ~s.proved /\ Spans(s) # s.panel /\ dark ->
         [s EXCEPT !.panel = Spans(s), !.proved = TRUE, !.calibrated = {}]
    [] OTHER -> s

(* _lcd_start_direct_frame.  A window as large as the panel says where the *)
(* panel begins in it; a larger one centres the panel until one does.      *)
Smaller(s) == Spans(s)[1] <= s.panel[1] /\ Spans(s)[2] <= s.panel[2]
AllAxes(s) == s.axes = 1..4

Calibrated(s) ==
  LET spans == Spans(s)
      start == <<s.x[1], s.y[1]>>
      exact == {a \in 1..2 : AllAxes(s) /\ spans[a] = s.panel[a]}
      wide  == {a \in 1..2 : AllAxes(s) /\ spans[a] > s.panel[a]} \ s.calibrated
  IN [s EXCEPT !.calibrated = @ \cup exact,
               !.origin = [a \in 1..2 |->
                 IF a \in exact THEN start[a]
                 ELSE IF a \in wide THEN (start[a] + (spans[a] - s.panel[a]) \div 2) % Modulus
                 ELSE @[a]]]

(* Wrong: a stream starts with the count of the one before it.             *)
Started_Counts(s, dark) ==
  LET sized == Calibrated(IF AllAxes(s) /\ Smaller(s) THEN Promoted(s, dark) ELSE s)
  IN [sized EXCEPT !.window = Spans(s), !.cursor = <<0, 0>>, !.expected = Spans(s)[1] * Spans(s)[2]]

Started(s, dark) ==
  LET sized == Calibrated(IF AllAxes(s) /\ Smaller(s) THEN Promoted(s, dark) ELSE s)
  IN [sized EXCEPT !.window = Spans(s), !.cursor = <<0, 0>>, !.expected = Spans(s)[1] * Spans(s)[2],
                   !.streamed = 0]

(* _lcd_begin_command: what the last command left undone, then the new     *)
(* one.  Two or three bytes of a ByteWindow are its two ends.              *)
ArgsFinished(s) ==
  LET two == <<s.args[1], s.args[2]>>
      low == <<s.args[1], s.args[3]>>    \* four bytes: two words, the low bytes first
      of  == IF Len(s.args) >= 4 THEN low ELSE two
  IN CASE s.command \notin ByteWindow \/ Len(s.args) < 2 -> s
       [] s.command = \h15 /\ Len(s.args) >= 2 -> [s EXCEPT !.x = of, !.axes = @ \cup {1, 2}]
       [] OTHER -> [s EXCEPT !.y = of, !.axes = @ \cup {3, 4}]

FrameFinished(s) ==
  IF s.command \in MemoryWrites /\ s.expected # 0 /\ s.streamed # 0
  THEN [s EXCEPT !.published = "part", !.expected = 0] ELSE s

CursorStream(s) ==
  /\ s.protocol = "parallel-2" /\ s.command = \h22 /\ s.addressed
  /\ s.packed # 0 \/ Spans(s) = s.panel

(* A window stream ends what addressed the cursor.                         *)
Unaddressed_Keeps(s) == s
Unaddressed(s) == IF s.command = \h22 THEN [s EXCEPT !.addressed = FALSE] ELSE s

Unlatched_Keeps(s) == [s EXCEPT !.latch.of = IF @ = "this" THEN "earlier" ELSE @]
Unlatched(s) == [s EXCEPT !.latch = [byte |-> -1, of |-> "none"]]

Begun(s, command, dark) ==
  LET ended == FrameFinished(ArgsFinished(s))
      now   == Unlatched([ended EXCEPT !.command = command, !.args = <<>>, !.cause = "none",
                                       !.packed = IF command \in {\h20, \h21, \h22} THEN @ ELSE 0])
  IN CASE command \in MemoryWrites /\ ~CursorStream(now) -> Started(Unaddressed(now), dark)
       [] command \in MemoryWrites /\ CursorStream(now) -> [Promoted(now, dark) EXCEPT !.cause = "cursor"]
       [] OTHER -> now

(* _lcd_set_axis: the registers that one value programs.  The pair is the  *)
(* low byte first; PackedWindow is the one full window after which a       *)
(* cursor's two halves may come in a single value.                         *)
PackedValue == Value(1, 0)    \* 0x0230
PackedWindow(s, value) ==
  s.protocol = "parallel-2" /\ value = PackedValue /\ s.x = <<0, First[1] - 1>> /\ s.y = <<0, First[2] - 1>> /\ s.panel = First

Coordinate(value) == IF value.lo # 0 THEN value.lo ELSE value.hi

CursorAt(s, cursor) == [s EXCEPT !.gram = cursor, !.addressed = TRUE]

EdgeSet(s, edge, value) ==
  [s EXCEPT !.x = IF edge \in {1, 2} THEN [@ EXCEPT ![edge] = value.lo] ELSE @,
            !.y = IF edge \in {3, 4} THEN [@ EXCEPT ![edge - 2] = value.lo] ELSE @,
            !.axes = @ \cup {edge}]

AxisSet(s, value) ==
  LET c == s.command
  IN CASE c = \h16 -> [s EXCEPT !.x = <<value.lo, value.hi>>, !.axes = @ \cup {1, 2}]
       [] c = \h17 -> [s EXCEPT !.y = <<value.lo, value.hi>>, !.axes = @ \cup {3, 4}]
       [] \E e \in 1..4 : Edges[e] = c -> EdgeSet(s, CHOOSE e \in 1..4 : Edges[e] = c, value)
       [] c = \h05 -> [s EXCEPT !.packed = IF PackedWindow(s, value) THEN 1 ELSE 0]
       [] c = \h20 ->
            [CursorAt(s, <<Coordinate(value), s.gram[2]>>)
               EXCEPT !.packed = IF s.packed = 1 /\ value = Value(0, 0) THEN 2 ELSE 0]
       [] c = \h21 /\ s.packed = 2 /\ value.hi # 0 /\ value.lo < s.panel[1] /\ value.hi < s.panel[2] ->
            CursorAt(s, <<value.lo, value.hi>>)
       [] OTHER ->
            [CursorAt(s, <<s.gram[1], Coordinate(value)>>)
               EXCEPT !.packed = IF s.packed = 2 /\ value.hi # 0 THEN 0 ELSE @]

AxisCommands == {\h16, \h17, \h05, \h20, \h21} \cup {Edges[e] : e \in 1..4}
Taken(s, value) == s.command # \h05 \/ PackedWindow(s, value)

(* Four bytes are a side of the window; the coordinates here are single    *)
(* bytes, so the high ones are dropped.                                    *)
ArgFed(s, value) ==
  LET args == s.args \o (IF s.command \in WordWindow THEN <<value.hi, value.lo>> ELSE <<value.lo>>)
      pair == <<args[2], args[4]>>
  IN CASE Len(args) < 4 -> [s EXCEPT !.args = args]
       [] Len(args) >= 4 /\ s.command \in {\h15, \h2A} ->
            [s EXCEPT !.args = <<>>, !.x = pair, !.axes = @ \cup {1, 2}]
       [] OTHER -> [s EXCEPT !.args = <<>>, !.y = pair, !.axes = @ \cup {3, 4}]

(* _lcd_write_gram_pixel and _lcd_direct_data: a pixel, and the next place.*)
GramPixel(s) ==
  LET next == s.gram[1] + 1
  IN [s EXCEPT !.gram = IF next >= s.panel[1] THEN <<0, s.gram[2] + 1>> ELSE <<next, s.gram[2]>>,
               !.pixel = "cursor"]

WindowPixel(s) ==
  LET next == s.cursor[1] + 1
      fed  == [s EXCEPT !.cursor = IF next >= s.window[1] THEN <<0, s.cursor[2] + 1>>
                                   ELSE <<next, s.cursor[2]>>,
                        !.streamed = @ + 1, !.pixel = "window"]
  IN IF fed.streamed >= s.expected
     THEN [fed EXCEPT !.published = "whole", !.expected = 0] ELSE fed

Fed(s, value) ==
  CASE s.protocol = "parallel-2" /\ s.command = \h22 /\ s.addressed -> GramPixel(s)
    [] ~(s.protocol = "parallel-2" /\ s.command = \h22 /\ s.addressed)
         /\ s.command \in MemoryWrites -> IF s.expected = 0 THEN s ELSE WindowPixel(s)
    [] s.command \in AxisCommands /\ Taken(s, value) -> AxisSet(s, value)
    [] s.command = \h05 /\ ~Taken(s, value) -> [s EXCEPT !.packed = 0]
    [] s.command \in ByteWindow \cup WordWindow -> ArgFed(s, value)
    [] OTHER -> s      \* a raw capture's word

(* _lcd_feed_parallel_data: the first byte of a pixel waits for the next.  *)
HalfFed(s, byte) ==
  IF s.latch.byte = -1
  THEN [s EXCEPT !.latch = [byte |-> byte, of |-> "this"]]
  ELSE [Fed(Unlatched(s), Value(s.latch.byte, byte))
          EXCEPT !.pixel = IF s.latch.of = "earlier" THEN "broken" ELSE @]

ParallelFed(s, size, value) ==
  IF size = 1 /\ s.command \in MemoryWrites THEN HalfFed(s, value.lo) ELSE Fed(s, value)

-------------------------------------------------------------------------------
(* The colours are left out: a display that was drawn on may be dark.      *)
Dark(s) == IF s.drawn THEN BOOLEAN ELSE {TRUE}

Step(s) == [s EXCEPT !.published = "none", !.pixel = "none", !.writes = @ + 1,
                     !.drawn = @ \/ s.pixel # "none"]

(* _lcd_route_write, the command ports.                                    *)
WriteCommand ==
  \E transport \in Transports \cup {"028+4"}, command \in Commands, dark \in Dark(lcd) :
    LET s == Step(lcd)
        protocol == CASE transport = "028" -> IF s.protocol = "parallel-2" THEN s.protocol ELSE "direct"
                      [] transport = "028+8" -> "parallel-8"
                      [] transport \in {"020+4", "028+4"} -> s.protocol
                      [] OTHER -> "parallel-2"
    IN /\ lcd.writes < MaxWrites
       /\ transport # "028+2"
       /\ transport = "020+4" => s.protocol = "selector-4" /\ s.mode = 0
       /\ transport = "028+4" => s.protocol # "direct" /\ s.mode = 0
       /\ lcd' = Begun([s EXCEPT !.protocol = protocol], command, dark)

(* A 0 or 1 at a base port selects what its payload port means.            *)
SelectMode ==
  /\ lcd.writes < MaxWrites
  /\ \E transport \in {"020+4", "028"}, mode \in {0, 1} :
       /\ lcd.protocol \notin {"parallel-2", "direct"}
       /\ lcd' = [Step(lcd) EXCEPT !.mode = mode,
                                   !.protocol = IF transport = "020+4" THEN "selector-4" ELSE @]

(* The data ports.                                                         *)
WriteData ==
  \E transport \in Transports, size \in {1, 2}, value \in Values :
    LET s == Step(lcd)
        protocol == CASE transport = "020+4" /\ s.protocol = "selector-4" -> "selector-4"
                      [] transport = "028" -> s.protocol
                      [] transport = "028+8" -> "parallel-8"
                      [] OTHER -> "parallel-2"
        routed == [s EXCEPT !.protocol = protocol]
    IN /\ lcd.writes < MaxWrites
       /\ size = 1 => value.hi = 0
       /\ transport = "020+4" /\ s.protocol = "selector-4" => s.mode = 1
       /\ transport = "028" => s.protocol = "direct" \/ s.mode = 1
       /\ lcd' = IF transport = "028" THEN Fed(routed, value) ELSE ParallelFed(routed, size, value)

Next == WriteCommand \/ SelectMode \/ WriteData

Spec == Init /\ [][Next]_lcd

-------------------------------------------------------------------------------
(* A stream fills its window: as long as pixels are expected, the count of *)
(* those that came is the place of the next one, so a whole frame is every *)
(* place of the window once.                                               *)
StreamFillsWindow ==
  lcd.expected # 0 =>
    /\ lcd.expected = lcd.window[1] * lcd.window[2]
    /\ lcd.streamed = lcd.cursor[2] * lcd.window[1] + lcd.cursor[1]
    /\ lcd.streamed < lcd.expected

(* The two bytes of a pixel belong to one command: the first byte of an    *)
(* aborted stream is never joined to the first of the next one.            *)
PixelsAreWhole == lcd.pixel # "broken"

(* A window beats an old cursor: pixels go to the cursor only under a      *)
(* memory write that was begun as a cursor's, with the full window or the  *)
(* packed one programmed.                                                  *)
StaleCursorIsUnused == lcd.pixel = "cursor" => lcd.cause = "cursor"
===============================================================================
