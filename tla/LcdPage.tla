-------------------------------- MODULE LcdPage --------------------------------
(***************************************************************************)
(* The decoder of page-addressed panels (devices/display/protocols/        *)
(* page.py).  Commands select a page and a column of it; data fill the     *)
(* page's RAM from there.  Until two neighbouring whole rows have proved   *)
(* the grammar, and the pages seen the panel's height, all of it only goes *)
(* to the RAM; from then on every transfer is shown when it ends.          *)
(*                                                                         *)
(* A byte of a column is 0 or 1.  Only this decoder draws: a handset has   *)
(* one controller.                                                         *)
(***************************************************************************)
EXTENDS Integers, FiniteSets

CONSTANTS HalfPages,     \* 8 in the code: pages of the lower panel
          Pages,         \* 16: of the higher
          Columns,       \* 128: bytes of a whole row, or twice as many
          WidthHint,     \* the width the firmware names, 0 if none
          Panels,        \* the panels a configuration may have
          MaxData        \* bound: data bytes of one transfer

LcdPageAssumption ==
  /\ HalfPages \in Nat \ {0} /\ Pages \in Nat /\ HalfPages < Pages
  /\ Columns \in Nat \ {0} /\ WidthHint \in Nat /\ MaxData \in Nat
  /\ Panels \subseteq (Nat \X Nat)

VARIABLE page

None == -1
Bytes == 0..(2 * Columns - 1)     \* of a page: 256 in the code
Cells == (0..(Pages - 1)) \X Bytes
Ports == {"028", "020"}
ByteWide(port) == port = "020"

TypeOK ==
  /\ page.current \in None..(Pages - 1)
  /\ page.port \in Ports \cup {"none"}
  /\ page.high \in {None, 0, 1} /\ page.ready \in BOOLEAN
  /\ page.column \in Nat /\ page.start \in Nat /\ page.count \in 0..(2 * MaxData)
  /\ page.row \in {0, Columns, 2 * Columns}                   \* _lcd_page_row_bytes
  /\ page.rows \in 0..2                                       \* _lcd_page_candidate_rows, up to 2
  /\ page.finished \in None..(Pages - 1)                       \* _lcd_page_last_finished
  /\ page.qualified \in BOOLEAN /\ page.rendered \in BOOLEAN
  /\ page.width \in Bytes \cup {2 * Columns} /\ page.planes \in {1, 2}
  /\ page.height \in {0, HalfPages, Pages}                     \* in pages
  /\ page.seen \subseteq 0..(Pages - 1)
  /\ page.ram \in [Cells -> {0, 1}] /\ page.shown \in [Cells -> {0, 1}]
  /\ page.adoptable \in BOOLEAN

Init ==
  \E panel \in Panels, adoptable \in BOOLEAN :
    page = [current |-> None, port |-> "none", high |-> None, ready |-> FALSE, column |-> 0,
            start |-> 0, count |-> 0, row |-> 0, rows |-> 0, finished |-> None,
            qualified |-> FALSE, rendered |-> FALSE, width |-> 0, planes |-> 1, height |-> 0,
            seen |-> {}, ram |-> [c \in Cells |-> 0], shown |-> [c \in Cells |-> 0],
            panel |-> panel, adoptable |-> adoptable]

-------------------------------------------------------------------------------
Target(p) == <<p.width, p.height>>

(* _lcd_page_render_column of some pages: each column is the bytes of its  *)
(* planes, side by side in the RAM.                                        *)
Rendered(p, pages) ==
  [p EXCEPT !.shown = [c \in Cells |-> IF c[1] \in pages /\ c[2] < p.width * p.planes
                                       THEN p.ram[c] ELSE @[c]]]

(* _lcd_page_set_geometry: the panel takes the proved size if it may       *)
(* (LcdFrame's SetDisplayGeometry), and then shows what is in the RAM.     *)
Geometry(p) ==
  LET changed == Target(p) # p.panel
      adopted == IF changed /\ p.adoptable
                 THEN [p EXCEPT !.panel = Target(p), !.shown = [c \in Cells |-> 0]] ELSE p
  IN CASE ~p.qualified \/ p.width = 0 \/ p.height = 0 -> p
       [] p.qualified /\ p.width # 0 /\ p.height # 0 /\ Target(p) = adopted.panel
            /\ (changed \/ ~p.rendered) ->
            Rendered([adopted EXCEPT !.rendered = TRUE], 0..(p.height - 1))
       [] OTHER -> adopted

(* _lcd_page_render_current: the transfer's page, once all is proved.      *)
Flushed(p) ==
  LET sized == Geometry(p)
  IN CASE ~p.qualified \/ p.current = None \/ p.count = 0 -> p
       [] p.qualified /\ p.current # None /\ p.count # 0 /\ sized.panel = Target(sized)
            /\ p.current < p.height -> Rendered(sized, {p.current})
       [] OTHER -> sized

(* _lcd_page_layout: a row is one plane, or two of the width the firmware  *)
(* names.                                                                  *)
Laid(p, bytes) ==
  LET planes == IF WidthHint # 0 /\ bytes % WidthHint = 0 /\ bytes \div WidthHint \in {1, 2}
                THEN bytes \div WidthHint ELSE 1
  IN [p EXCEPT !.row = bytes, !.rows = 1, !.planes = planes, !.width = bytes \div planes]

(* _lcd_page_finish_transfer.                                              *)
WholeRow(p) == p.start = 0 /\ p.count \in {Columns, 2 * Columns}

RowCounted(p) ==
  CASE p.row = 0 -> Laid(p, p.count)
    [] p.row # 0 /\ p.count = p.row /\ p.current = p.finished + 1 -> [p EXCEPT !.rows = @ + 1]
    [] p.row # 0 /\ p.count = p.row /\ p.current # p.finished + 1 -> [p EXCEPT !.rows = 1]
    [] p.row # 0 /\ p.count # p.row /\ ~p.qualified -> Laid(p, p.count)
    [] OTHER -> p

Finished(p) ==
  LET counted == RowCounted(p)
  IN CASE WholeRow(p) ->
            Flushed([counted EXCEPT !.finished = p.current, !.qualified = @ \/ counted.rows >= 2,
                                    !.rows = IF @ > 2 THEN 2 ELSE @])
       [] ~WholeRow(p) /\ p.count # 0 /\ ~p.qualified -> Flushed([p EXCEPT !.rows = 0])
       [] OTHER -> Flushed(p)

-------------------------------------------------------------------------------
(* _lcd_page_begin_command.                                                *)

SelectPage ==
  \E port \in Ports, number \in 0..(Pages - 1) :
    LET ended == Finished(page)
        seen  == ended.seen \cup {number}
        now   == [ended EXCEPT !.current = number, !.port = port, !.high = None, !.ready = FALSE,
                               !.column = 0, !.start = 0, !.count = 0, !.seen = seen]
        tall  == CASE number >= HalfPages -> [now EXCEPT !.height = Pages]
                   [] number = 0 /\ now.height = 0 /\ (0..(HalfPages - 1)) \subseteq seen ->
                        [now EXCEPT !.height = HalfPages]
                   [] OTHER -> now
    IN page' = Geometry(tall)

(* The commands below act on the page selected through the same port; a    *)
(* byte-wide bus knows only column 0 and forgets its page at any other.    *)
Selected(port) == page.current # None /\ page.port = port

Left(p) == [p EXCEPT !.current = None, !.port = "none", !.high = None, !.ready = FALSE]

ColumnHigh ==
  \E port \in Ports, high \in {0, 1} :
    /\ Selected(port)
    /\ page' = IF ByteWide(port) /\ high # 0
               THEN Left(Finished(page))
               ELSE [Finished(page) EXCEPT !.count = 0, !.high = high, !.ready = FALSE]

ColumnLow ==
  \E port \in Ports, low \in {0, 1} :
    /\ Selected(port) /\ page.high # None
    /\ page' = IF ByteWide(port) /\ (low # 0 \/ page.high # 0)
               THEN Left(Finished(page))
               ELSE LET ended == Finished(page)
                        start == 16 * page.high + low
                    IN [ended EXCEPT !.start = start, !.count = 0, !.ready = TRUE,
                                     !.column = start * (IF ended.qualified THEN ended.planes ELSE 1)]

(* Wrong: another command ends a transfer and shows nothing of it.         *)
OtherEnds_Silently(p) == p
OtherEnds(p) == Finished(p)

OtherCommand ==
  \E port \in Ports :
    /\ Selected(port)
    /\ LET ended == [OtherEnds(page) EXCEPT !.count = 0, !.high = None, !.ready = FALSE]
       IN page' = IF ByteWide(port) THEN [ended EXCEPT !.current = None, !.port = "none"] ELSE ended

(* _lcd_page_feed_data.                                                    *)
FeedData ==
  /\ page.current # None /\ page.ready /\ page.count < MaxData
  /\ \E byte \in {0, 1} :
       LET cell == <<page.current, page.column>>
       IN page' = [page EXCEPT !.ram = IF page.column \in Bytes THEN [@ EXCEPT ![cell] = byte] ELSE @,
                               !.column = @ + 1, !.count = @ + 1]

Next == SelectPage \/ ColumnHigh \/ ColumnLow \/ OtherCommand \/ FeedData

Spec == Init /\ [][Next]_page

-------------------------------------------------------------------------------
(* Once the grammar and the panel are proved, the picture is the RAM of    *)
(* the controller, but for the page of the transfer under way: nothing the *)
(* guest wrote before the proof is missing from it, and no transfer ends   *)
(* without being shown.                                                    *)
PictureIsRam ==
  page.rendered /\ page.panel = Target(page) =>
    \A c \in Cells :
      c[1] < page.height /\ c[2] < page.width * page.planes
        /\ ~(c[1] = page.current /\ page.count # 0) => page.shown[c] = page.ram[c]
===============================================================================
