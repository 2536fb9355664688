------------------------------ MODULE LcdGrammar -------------------------------
(***************************************************************************)
(* The decoders of devices/display/protocols that draw nothing until the   *)
(* exact grammar of one handset's display bus has been seen whole:         *)
(*   split     commands at 0x02000000, bytes at 0x02200000 (direct.py)     *)
(*   raster    numbered rows of bytes at 0x02000000/+2 (page.py)           *)
(*   boot      a fixed setup, then one byte picture, at 0x02800000/+2      *)
(*             (rgb565.py)                                                 *)
(*   window    four registers, then high and low bytes at 0x02000010/+11   *)
(*             (rgb565.py)                                                 *)
(*   selector  register words, then pixel words, at 0x02000004 (packed.py) *)
(*                                                                         *)
(* They share no state, so one of them is chosen at the start.  tail is    *)
(* the reference: the longest run of last writes with which a transfer of  *)
(* that grammar begins.                                                    *)
(***************************************************************************)
EXTENDS Integers, Sequences, SequencesExt, FiniteSetsExt

CONSTANTS SplitPrefixes,      \* the two register setups of the split bus
          SplitBytes,         \* bytes of its picture
          RasterRows, RowBytes,
          BootCommands, BootBytes,
          Width, Height,      \* the panel
          MinPixels,          \* 0x2000 in the code: the least window of the window bus
          Grammars            \* those to check

LcdGrammarAssumption ==
  /\ Len(SplitPrefixes) = 2 /\ BootCommands # <<>>
  /\ SplitBytes \in Nat \ {0} /\ BootBytes \in Nat \ {0}
  /\ RasterRows \in Nat \ {0} /\ RowBytes \in Nat \ {0}
  /\ Width \in Nat /\ Height \in Nat /\ MinPixels \in Nat
  /\ Grammars \subseteq {"split", "raster", "boot", "window", "selector"}

VARIABLE bus

Write(port, size, value) == [port |-> port, size |-> size, value |-> value]
Bytes == {0, 1}
ByteWrites(port) == {Write(port, 1, v) : v \in Bytes}

(* The ports of a grammar and the writes that matter to it.  "alien" is    *)
(* any other write into the LCD aperture.                                  *)
Alien == Write("alien", 2, 0)

RasterCommands == {\h05, \h03, \h0B, \h2B}
Header == <<"1A", "1B", "1C", "1D">>              \* window's registers
Registers == {\h02, \h03, \h04, \h05, \h0D}       \* selector's
Argument(value) == value % 256
Register(value) == value \div 256
Go == \h0E00                                      \* the word that opens the window

Alphabet ==
  [split |-> (UNION {Range(SplitPrefixes[p]) : p \in 1..2})
               \cup {Write("split-data", 2, v) : v \in {0, 1, 256}} \cup {Alien},
   raster |-> {Write("command", 1, v) : v \in RasterCommands} \cup ByteWrites("data"),
   boot |-> {Write("command", 1, v) : v \in Range(BootCommands)} \cup ByteWrites("data")
              \cup {Write("command", 2, BootCommands[1]), Alien},
   window |-> (UNION {ByteWrites(p) : p \in Range(Header) \cup {"high", "low"}}) \cup {Alien},
   selector |-> {Write("select", 2, v) : v \in Bytes} \cup {Write("port", 2, v) : v \in {Go, 0, 4}}
                  \cup {Write("port", 2, 256 * r) : r \in Registers}
                  \cup {Write("port", 2, 256 * r + 1) : r \in {\h04, \h0D}}
                  \cup {Write("port", 1, 0)}]

-------------------------------------------------------------------------------
(* A decoder's answer to a write: its state, whether it drew a picture,    *)
(* and whether it kept the write from the decoders behind it.              *)
Answer(state, drew, taken) == [state |-> state, drew |-> drew, taken |-> taken]

(* _lcd_split_port_write.  Both setups are followed until they differ; a   *)
(* mismatch starts again, with this write if it is the first of a setup.   *)
SplitInit == [stage |-> 0, variant |-> 0, payload |-> <<>>, qualified |-> FALSE]
SplitRest(s) == [SplitInit EXCEPT !.qualified = s.qualified]

SplitMatches(s, write) ==
  {p \in 1..2 : s.stage < Len(SplitPrefixes[p]) /\ write = SplitPrefixes[p][s.stage + 1]}

SplitMismatch_Keeps(s, write) == Answer(s, FALSE, s.qualified)
SplitMismatch(s, write) ==
  IF write = SplitPrefixes[1][1]
  THEN Answer([SplitRest(s) EXCEPT !.stage = 1], FALSE, s.qualified)
  ELSE Answer(SplitRest(s), FALSE, FALSE)

SplitPayload(s, write, adopted) ==
  LET payload == Append(s.payload, write.value)
  IN CASE Len(payload) < SplitBytes -> Answer([s EXCEPT !.payload = payload], FALSE, s.qualified)
       [] Len(payload) = SplitBytes /\ ~adopted -> Answer(SplitRest(s), FALSE, TRUE)
       [] OTHER -> Answer([SplitInit EXCEPT !.qualified = TRUE], TRUE, TRUE)

Split(s, write, adopted) ==
  LET matches == SplitMatches(s, write)
      step    == [s EXCEPT !.stage = @ + 1]
      prefix  == SplitPrefixes[s.variant]
  IN CASE s.stage = 0 /\ write # SplitPrefixes[1][1] -> Answer(s, FALSE, FALSE)
       [] s.variant = 0 /\ Cardinality(matches) = 2 -> Answer(step, FALSE, s.qualified)
       [] s.variant = 0 /\ Cardinality(matches) = 1 ->
            Answer([step EXCEPT !.variant = CHOOSE p \in matches : TRUE], FALSE, s.qualified)
       [] s.variant # 0 /\ s.stage < Len(prefix) /\ write = prefix[s.stage + 1] ->
            Answer(step, FALSE, s.qualified)
       [] s.variant # 0 /\ s.stage = Len(prefix) /\ write.port = "split-data" /\ write.value < 256 ->
            SplitPayload(s, write, adopted)
       [] OTHER -> SplitMismatch(s, write)

(* _lcd_byte_raster_write only looks on, until the command that ends a     *)
(* picture of all rows.                                                    *)
RasterInit == [stage |-> "", row |-> 0, pixels |-> <<>>]

RasterCommand(s, value) ==
  CASE s.stage = "" /\ value = \h05 -> [s EXCEPT !.stage = "row"]
    [] s.stage = "x-command" /\ value = \h03 -> [s EXCEPT !.stage = "x"]
    [] s.stage = "pixels-command" /\ value = \h0B -> [s EXCEPT !.stage = "pixels"]
    [] s.stage = "done-command" /\ value = \h2B -> [s EXCEPT !.stage = "done"]
    [] OTHER -> [RasterInit EXCEPT !.stage = IF value = \h05 THEN "row" ELSE ""]

RasterPixel(s, value) ==
  LET pixels == Append(s.pixels, value)
      row    == s.row + 1
  IN IF Len(pixels) < row * RowBytes
     THEN [s EXCEPT !.pixels = pixels]
     ELSE [stage |-> IF row = RasterRows THEN "done-command" ELSE "", row |-> row, pixels |-> pixels]

Raster(s, write, adopted) ==
  LET value == write.value
  IN CASE write.port = "command" -> Answer(RasterCommand(s, value), FALSE, FALSE)
       [] write.port = "data" /\ s.stage = "row" /\ value = s.row ->
            Answer([s EXCEPT !.stage = "x-command"], FALSE, FALSE)
       [] write.port = "data" /\ s.stage = "x" /\ value = 0 ->
            Answer([s EXCEPT !.stage = "pixels-command"], FALSE, FALSE)
       [] write.port = "data" /\ s.stage = "pixels" -> Answer(RasterPixel(s, value), FALSE, FALSE)
       [] write.port = "data" /\ s.stage = "done" /\ value = 1 ->
            Answer([s EXCEPT !.stage = "qualified"], adopted, TRUE)
       [] OTHER -> Answer(RasterInit, FALSE, FALSE)

(* _lcd_byte_rgb565_begin_command, _feed_data and _interrupt.              *)
BootInit == [commands |-> <<>>, payload |-> "none"]

BootCommand(s, write) ==
  LET known == IF s.payload = "none" THEN s.commands ELSE <<>>
      more  == Append(known, write.value)
  IN CASE IsPrefix(more, BootCommands) ->
            [commands |-> more, payload |-> IF more = BootCommands THEN <<>> ELSE "none"]
       [] ~IsPrefix(more, BootCommands) /\ write.value = BootCommands[1] ->
            [commands |-> <<write.value>>, payload |-> "none"]
       [] OTHER -> BootInit

BootData(s, write, adopted) ==
  LET payload == Append(s.payload, write.value)
  IN IF Len(payload) < BootBytes
     THEN Answer([s EXCEPT !.payload = payload], FALSE, TRUE)
     ELSE Answer(BootInit, adopted /\ \E n \in DOMAIN payload : payload[n] # 0, TRUE)

Boot(s, write, adopted) ==
  CASE write.port = "command" /\ write.size = 1 -> Answer(BootCommand(s, write), FALSE, FALSE)
    [] write.port = "data" /\ s.payload # "none" -> BootData(s, write, adopted)
    [] OTHER -> Answer(BootInit, FALSE, FALSE)

(* _lcd_window_rgb565_write.                                               *)
WindowInit == [header |-> <<>>, open |-> FALSE, pixels |-> <<>>, high |-> -1]

Area(h) == (h[3] - h[1] + 1) * (h[4] - h[2] + 1)
Opens(h) == /\ h[1] <= h[3] /\ h[3] < Width
            /\ h[2] <= h[4] /\ h[4] < Height
            /\ Area(h) >= MinPixels

WindowHeader(s, write) ==
  LET header == Append(s.header, write.value)
  IN CASE Len(header) < Len(Header) -> Answer([s EXCEPT !.header = header], FALSE, TRUE)
       [] Len(header) = Len(Header) /\ Opens(header) ->
            Answer([WindowInit EXCEPT !.open = TRUE, !.header = header], FALSE, TRUE)
       [] OTHER -> Answer(WindowInit, FALSE, FALSE)

WindowPixel(s, write) ==
  LET pixels == Append(s.pixels, <<s.high, write.value>>)
  IN IF Len(pixels) < Area(s.header)
     THEN Answer([s EXCEPT !.pixels = pixels, !.high = -1], FALSE, TRUE)
     ELSE Answer(WindowInit, \E n \in DOMAIN pixels : pixels[n] # <<0, 0>>, TRUE)

Window(s, write) ==
  LET closed == IF s.open THEN WindowInit ELSE s    \* any other write closes a window
  IN CASE s.open /\ write.port = "high" -> Answer([s EXCEPT !.high = write.value], FALSE, TRUE)
       [] s.open /\ write.port = "low" /\ s.high # -1 -> WindowPixel(s, write)
       [] ~(s.open /\ (write.port = "high" \/ (write.port = "low" /\ s.high # -1)))
            /\ write.port = Header[Len(closed.header) + 1] -> WindowHeader(closed, write)
       [] OTHER -> Answer(WindowInit, FALSE, FALSE)

(* _lcd_selector_begin_command and _lcd_selector_feed behind the selector  *)
(* of _lcd_route_write: a 0 or 1 at the base says what the port means.     *)
SelectorInit == [mode |-> 0, registers |-> <<>>, window |-> <<>>, words |-> <<>>]
Known(registers, r) == IF r \in DOMAIN registers THEN registers[r] ELSE -1
SelectorRest(s) == [s EXCEPT !.window = <<>>, !.words = <<>>]

WordsOf(registers) ==
  Area([i \in 1..4 |-> registers[i + 1]]) * (IF registers[\h0D] = 0 THEN 2 ELSE 1)

SelectorOpens(registers) ==
  /\ Known(registers, \h0D) \in {0, 1}
  /\ {2, 3, 4, 5} \subseteq DOMAIN registers
  /\ registers[2] <= registers[4] /\ registers[3] <= registers[5]

SelectorCommand(s, write) ==
  LET r    == Register(write.value)
      rest == SelectorRest(s)
      set  == IF r \in Registers THEN (r :> Argument(write.value)) @@ s.registers ELSE s.registers
  IN CASE write.size # 2 -> Answer(rest, FALSE, FALSE)
       [] write.size = 2 /\ write.value = Go /\ SelectorOpens(set) ->
            Answer([rest EXCEPT !.window = set], FALSE, TRUE)
       [] OTHER -> Answer([rest EXCEPT !.registers = set], FALSE, FALSE)

(* An RGB666 pixel is two words, of which the first has two bits.          *)
SelectorWord_Any(s, write) == write.size = 2
SelectorWord(s, write) ==
  /\ write.size = 2
  /\ s.window[\h0D] = 0 /\ Len(s.words) % 2 = 0 => write.value < 4

SelectorData(s, write, adopted) ==
  LET words == Append(s.words, write.value)
  IN CASE s.window = <<>> -> Answer(s, FALSE, FALSE)
       [] s.window # <<>> /\ ~SelectorWord(s, write) -> Answer(SelectorRest(s), FALSE, FALSE)
       [] s.window # <<>> /\ SelectorWord(s, write) /\ Len(words) < WordsOf(s.window) ->
            Answer([s EXCEPT !.words = words], FALSE, TRUE)
       [] OTHER -> Answer(SelectorRest(s),
                          adopted \/ (s.window[4] < Width /\ s.window[5] < Height), TRUE)

Selector(s, write, adopted) ==
  CASE write.port = "select" ->
         Answer([(IF write.value = 0 THEN SelectorRest(s) ELSE s) EXCEPT !.mode = write.value],
                FALSE, TRUE)
    [] write.port = "port" /\ s.mode = 0 -> SelectorCommand(s, write)
    [] OTHER -> SelectorData(s, write, adopted)

-------------------------------------------------------------------------------
(* The reference: with which sequences of writes a picture begins, and     *)
(* which of them are a whole one.                                          *)
Follows(writes, pattern) ==
  Len(writes) <= Len(pattern) /\ \A n \in DOMAIN writes : writes[n] \in pattern[n]

Repeated(set, n) == [i \in 1..n |-> set]
Exactly(writes) == [n \in DOMAIN writes |-> {writes[n]}]

SplitPattern(p) ==
  Exactly(SplitPrefixes[p]) \o Repeated({Write("split-data", 2, v) : v \in {0, 1}}, SplitBytes)

RasterRow(row) ==
  <<{Write("command", 1, \h05)}, {Write("data", 1, row)}, {Write("command", 1, \h03)},
    {Write("data", 1, 0)}, {Write("command", 1, \h0B)}>> \o Repeated(ByteWrites("data"), RowBytes)

RasterPattern ==
  FoldLeft(LAMBDA pattern, row : pattern \o RasterRow(row), <<>>, [n \in 1..RasterRows |-> n - 1])
    \o <<{Write("command", 1, \h2B)}, {Write("data", 1, 1)}>>

BootPattern ==
  Exactly([n \in DOMAIN BootCommands |-> Write("command", 1, BootCommands[n])])
    \o Repeated(ByteWrites("data"), BootBytes)

WindowPattern(writes) ==
  LET header == [n \in 1..4 |-> writes[n].value]
      pixels == IF Len(writes) >= 4 /\ Opens(header) THEN Area(header) ELSE 0
  IN [n \in 1..4 |-> ByteWrites(Header[n])]
       \o [n \in 1..(2 * pixels) |-> ByteWrites(IF n % 2 = 1 THEN "high" ELSE "low")]

(* The registers may have been set long before; the code's own are used.   *)
SelectorPattern(s) ==
  LET words == IF s.window = <<>> THEN 0 ELSE WordsOf(s.window)
      wide  == s.window # <<>> /\ s.window[\h0D] = 0
  IN <<{Write("port", 2, Go)}, {Write("select", 2, 1)}>>
       \o [n \in 1..words |-> {w \in Alphabet.selector :
              w.port = "port" /\ w.size = 2 /\ (wide /\ n % 2 = 1 => w.value < 4)}]

Patterns(which, writes, s) ==
  CASE which = "split" -> {SplitPattern(1), SplitPattern(2)}
    [] which = "raster" -> {RasterPattern}
    [] which = "boot" -> {BootPattern}
    [] which = "window" -> {WindowPattern(writes)}
    [] which = "selector" -> {SelectorPattern(s)}

Begins(which, writes, s) == \E p \in Patterns(which, writes, s) : Follows(writes, p)
IsTransfer(which, writes, s) ==
  \E p \in Patterns(which, writes, s) : Follows(writes, p) /\ Len(writes) = Len(p)

(* A second high byte replaces the first; a selection of what is selected  *)
(* says nothing.                                                           *)
Extended(s, writes, write) ==
  CASE write.port = "select" /\ write.value = s.mode -> writes
    [] write.port = "high" /\ writes # <<>> /\ Last(writes).port = "high" ->
         Append(Front(writes), write)
    [] OTHER -> Append(writes, write)

(* The longest run of last writes with which a transfer begins.            *)
NextTail(which, writes, write, s) ==
  LET all == Extended(s, writes, write)
      at  == {n \in 1..(Len(all) + 1) : Begins(which, SubSeq(all, n, Len(all)), s)}
  IN SubSeq(all, Min(at), Len(all))

-------------------------------------------------------------------------------
InitState == [split |-> SplitInit, raster |-> RasterInit, boot |-> BootInit,
              window |-> WindowInit, selector |-> SelectorInit]

TypeOK ==
  /\ bus.which \in Grammars
  /\ bus.tail \in Seq(Alphabet[bus.which])
  /\ bus.drew \in BOOLEAN /\ bus.taken \in BOOLEAN /\ bus.whole \in BOOLEAN
  /\ bus.which = "split" => bus.s.stage \in 0..Max({Len(SplitPrefixes[p]) : p \in 1..2})
  /\ bus.which = "raster" => bus.s.row \in 0..RasterRows
  /\ bus.which = "boot" => IsPrefix(bus.s.commands, BootCommands)
  /\ bus.which = "window" => Len(bus.s.header) <= 4
  /\ bus.which = "selector" => DOMAIN bus.s.registers \subseteq Registers

Init ==
  \E which \in Grammars :
    bus = [which |-> which, s |-> InitState[which], tail |-> <<>>, whole |-> FALSE,
           drew |-> FALSE, taken |-> FALSE]

AnswerOf(which, s, write, adopted) ==
  CASE which = "split" -> Split(s, write, adopted)
    [] which = "raster" -> Raster(s, write, adopted)
    [] which = "boot" -> Boot(s, write, adopted)
    [] which = "window" -> Window(s, write)
    [] which = "selector" -> Selector(s, write, adopted)

(* The guest writes; adopted says that the panel has, or takes, the size   *)
(* the grammar draws (LcdFrame's SetDisplayGeometry).                      *)
GuestWrites ==
  \E write \in Alphabet[bus.which], adopted \in BOOLEAN :
    LET answer == AnswerOf(bus.which, bus.s, write, adopted)
        tail   == NextTail(bus.which, bus.tail, write, bus.s)
    IN bus' = [bus EXCEPT !.s = answer.state, !.drew = answer.drew, !.taken = answer.taken,
                          !.tail = tail, !.whole = IsTransfer(bus.which, tail, bus.s)]

Next == GuestWrites

Spec == Init /\ [][Next]_bus

-------------------------------------------------------------------------------
(* What is drawn is the last writes on the bus, all of them and in order:  *)
(* a decoder never joins the parts of two transfers, nor skips a write in  *)
(* between.                                                                *)
PicturesAreWholeTransfers == bus.drew => bus.whole
===============================================================================
