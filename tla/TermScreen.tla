------------------------------ MODULE TermScreen ------------------------------
(***************************************************************************)
(* The screen of the terminal (cui_proj): the grid of cells, the cursor,   *)
(* the scroll region and insert mode, and one action for every character   *)
(* and every control function that changes them.  What the parser collects *)
(* (parameters, private mark) arrives as the arguments of the actions.     *)
(*                                                                         *)
(* A cell is a glyph or blank; colours and attributes travel with it and   *)
(* are left out, as are lines[] and home_pos, which nothing reads, and     *)
(* temp_cur_pos, which only the right arrow key does.  Colours, cursor     *)
(* saving, the alternate screen and a change of size are in TermModes.     *)
(***************************************************************************)
EXTENDS Integers

CONSTANTS
  W, H,        (* term_size: columns and rows                               *)
  Glyph,       (* what a program prints                                     *)
  Blank,       (* a cell that holds no glyph                                *)
  MaxParam,    (* bound: the numeric parameters of control functions        *)
  MaxRow       (* bound: how far below the screen the cursor may go         *)

ASSUME ScreenAssumption ==
  /\ W \in Nat \ {0} /\ H \in Nat \ {0}
  /\ MaxParam \in Nat /\ MaxRow \in Nat
  /\ H < MaxRow /\ MaxParam <= MaxRow
  /\ Blank \notin Glyph

VARIABLES
  screen,      (* [cell, h, w]: the grid, and the cursor's row and column    *)
  margin,      (* [set, top, bottom]: the scroll region                      *)
  insert_mode,
  defined      (* FALSE once memory outside the grid was used                *)

vars == <<screen, margin, insert_mode, defined>>

Row    == 0 .. H - 1
Col    == 0 .. W - 1
Grid   == [Row -> [Col -> Glyph \cup {Blank}]]
Screen == [cell : Grid, h : 0 .. MaxRow, w : 0 .. W]
Param  == 0 .. MaxParam

BlankRow == [x \in Col |-> Blank]
NoMargin == [set |-> FALSE, top |-> 0, bottom |-> 0]

\* A missing parameter is 0 and means the first row, or once.
ZeroBased(p) == IF p > 0 THEN p - 1 ELSE 0
Times(p)     == IF p > 0 THEN p ELSE 1
AtMost(n, m) == IF n > m THEN m ELSE n

\* Mutant: the test for the first row or column is missing.
Above0_Unchecked(n) == n

Above0(n) == IF n < 0 THEN 0 ELSE n

Init ==
  /\ screen = [cell |-> [r \in Row |-> BlankRow], h |-> 0, w |-> 0]
  /\ margin = NoMargin
  /\ insert_mode = FALSE
  /\ defined = TRUE

-----------------------------------------------------------------------------
(* The grid                                                                *)

Top    == IF margin.set THEN margin.top ELSE 0
Bottom == IF margin.set THEN margin.bottom ELSE H - 1

\* scroll_region_up, n times; n < 0 is scroll_region_down, -n times.  A region
\* of one row, or one that ends below the screen, does not scroll.
Scrolled(c, n) ==
  IF Top >= Bottom \/ Bottom >= H THEN c
  ELSE [r \in Row |->
         IF r \notin Top .. Bottom THEN c[r]
         ELSE IF r + n \in Top .. Bottom THEN c[r + n] ELSE BlankRow]

\* The other way to scroll: the whole grid, whatever the region.
ScreenUp(c) == [r \in Row |-> IF r < H - 1 THEN c[r + 1] ELSE BlankRow]

char_arry_insert_chr(c, h, w, n) ==
  [c EXCEPT ![h] = [x \in Col |-> IF x < w THEN c[h][x]
                                  ELSE IF x < w + n THEN Blank ELSE c[h][x - n]]]

char_array_alignment(c, h, w, n) ==
  [c EXCEPT ![h] = [x \in Col |-> IF x < w THEN c[h][x]
                                  ELSE IF x + n < W THEN c[h][x + n] ELSE Blank]]

erase_chr(c, h, w, n) ==
  [c EXCEPT ![h] = [x \in Col |-> IF w <= x /\ x < w + n THEN Blank ELSE c[h][x]]]

\* Blanks the cells from index i to index j, counted through the rows.
Erase(c, i, j) ==
  [r \in Row |-> [x \in Col |-> IF r * W + x \in i .. j THEN Blank ELSE c[r][x]]]

-----------------------------------------------------------------------------
(* Typing: bash_str_parse in GROUND                                        *)

\* Mutant: the row below the region counts as part of it.
Wrap_LateRegion(s) ==
  LET h == s.h + 1
  IN  IF margin.set /\ h > Bottom + 1
        THEN [cell |-> Scrolled(s.cell, 1), h |-> Bottom, w |-> 0]
      ELSE IF h >= H
        THEN [cell |-> ScreenUp(s.cell), h |-> H - 1, w |-> 0]
      ELSE [cell |-> s.cell, h |-> h, w |-> 0]

\* The delayed wrap: the cursor was left behind the last column.
Wrap(s) ==
  LET h == s.h + 1
  IN  IF margin.set /\ h > Bottom
        THEN [cell |-> Scrolled(s.cell, 1), h |-> Bottom, w |-> 0]
      ELSE IF h >= H
        THEN [cell |-> ScreenUp(s.cell), h |-> H - 1, w |-> 0]
      ELSE [cell |-> s.cell, h |-> h, w |-> 0]

\* Mutant: the last row is taken to be outside the grid.
Put_ShortGrid(s, g) ==
  IF s.h < H - 1 THEN [s EXCEPT !.cell[s.h][s.w] = g, !.w = s.w + 1] ELSE s

\* A cell outside the grid is not written, and the cursor stays.
Put(s, g) ==
  IF s.h \in Row THEN [s EXCEPT !.cell[s.h][s.w] = g, !.w = s.w + 1] ELSE s

\* Mutant: a region that is set hides a cursor below the screen.
Settle_Unset(s) ==
  IF s.h < H \/ margin.set THEN s
  ELSE [s EXCEPT !.cell = ScreenUp(s.cell), !.h = H - 1]

\* The check at the end of every character that was typed.
Settle(s) ==
  IF s.h < H THEN s
  ELSE IF margin.set THEN [s EXCEPT !.h = H - 1]
  ELSE [s EXCEPT !.cell = ScreenUp(s.cell), !.h = H - 1]

\* Insert mode makes room on the row the cursor is in before the wrap.
RoomMade(s) ==
  IF insert_mode /\ s.w < W
    THEN [s EXCEPT !.cell = char_arry_insert_chr(s.cell, s.h, s.w, 1)] ELSE s

Typed(s, g) ==
  LET room == RoomMade(s)
  IN  Settle(Put(IF s.w >= W THEN Wrap(room) ELSE room, g))

LineFed(s) ==
  Settle(IF margin.set /\ s.h = Bottom
           THEN [s EXCEPT !.cell = Scrolled(s.cell, 1)]
           ELSE [s EXCEPT !.h = s.h + 1])

-----------------------------------------------------------------------------
(* Actions                                                                 *)

Rest == UNCHANGED <<margin, insert_mode, defined>>

\* An operation on the cells of the cursor's row: below the screen they are
\* memory of something else, and nothing is known of the program after it.
InRow(onScreen, s) ==
  IF onScreen THEN screen' = s /\ Rest
  ELSE defined' = FALSE /\ UNCHANGED <<screen, margin, insert_mode>>

PrintChr(g) ==
  InRow(screen.h < H \/ ~insert_mode \/ screen.w >= W, Typed(screen, g))

LineFeed  == screen' = LineFed(screen) /\ Rest
Return    == screen' = [screen EXCEPT !.w = 0] /\ Rest
Backspace == screen' = [screen EXCEPT !.w = Above0(screen.w - 1)] /\ Rest
Tab       == screen' = [screen EXCEPT !.w = AtMost((screen.w \div 8 + 1) * 8, W - 1)] /\ Rest

\* ESC M: the row above, or a scroll when the cursor is at or above the top.
RI ==
  /\ screen' = IF screen.h > Top THEN [screen EXCEPT !.h = screen.h - 1]
               ELSE [screen EXCEPT !.cell = Scrolled(screen.cell, -1)]
  /\ Rest

\* ESC E: nothing stops it at the last row.
NEL ==
  /\ screen.h < MaxRow
  /\ screen' = [screen EXCEPT !.h = screen.h + 1, !.w = 0]
  /\ Rest

\* ESC c: the cells and the cursor, not the region or a mode.
RIS ==
  /\ screen' = [cell |-> [r \in Row |-> BlankRow], h |-> 0, w |-> 0]
  /\ Rest

Moves(h, w) == screen' = [screen EXCEPT !.h = h, !.w = w] /\ Rest

CUP(p, q) == Moves(AtMost(ZeroBased(p), H - 1), AtMost(ZeroBased(q), W - 1))
CUU(p)    == Moves(Above0(screen.h - Times(p)), screen.w)
CUD(p)    == Moves(AtMost(screen.h + Times(p), H - 1), screen.w)
CUF(p)    == Moves(screen.h, AtMost(screen.w + Times(p), W - 1))
CUB(p)    == Moves(screen.h, Above0(screen.w - Times(p)))
CHA(p)    == Moves(screen.h, AtMost(ZeroBased(p), W - 1))
VPA(p)    == Moves(AtMost(ZeroBased(p), H - 1), screen.w)

\* CSI r takes the margins as they come.
DECSTBM(p, q) ==
  /\ margin' = [set |-> TRUE, top |-> ZeroBased(p),
                bottom |-> IF q > 0 THEN q - 1 ELSE H - 1]
  /\ screen' = [screen EXCEPT !.h = margin'.top, !.w = 0]
  /\ UNCHANGED <<insert_mode, defined>>

Here == screen.h * W + screen.w

ED(mode) ==
  /\ screen' = [screen EXCEPT !.cell =
       IF mode = 0 THEN Erase(@, Here, H * W)
       ELSE IF mode = 1 THEN Erase(@, 0, Here)
       ELSE Erase(@, 0, H * W)]
  /\ Rest

\* Modes 0 and 2 write the cursor's row unchecked.
EL(mode) ==
  InRow(screen.h < H \/ mode = 1,
    [screen EXCEPT !.cell =
       IF mode = 0 THEN Erase(@, Here, (screen.h + 1) * W - 1)
       ELSE IF mode = 1 THEN Erase(@, screen.h * W, Here)
       ELSE Erase(@, screen.h * W, (screen.h + 1) * W - 1)])

OnRow == screen.h < H \/ screen.w >= W

ICH(p) == InRow(OnRow, [screen EXCEPT !.cell =
            IF screen.w >= W THEN @ ELSE char_arry_insert_chr(@, screen.h, screen.w, Times(p))])
DCH(p) == InRow(OnRow, [screen EXCEPT !.cell =
            IF screen.w >= W THEN @ ELSE char_array_alignment(@, screen.h, screen.w, Times(p))])
ECH(p) == InRow(OnRow, [screen EXCEPT !.cell =
            IF screen.w >= W THEN @ ELSE erase_chr(@, screen.h, screen.w, Times(p))])

\* Mutant: the row under the region is pulled in.
LinesUp_Inclusive(c, h) ==
  [r \in Row |-> IF h <= r /\ r <= Bottom /\ r + 1 \in Row THEN c[r + 1]
                 ELSE IF r = Bottom + 1 THEN BlankRow ELSE c[r]]

\* The rows below h move up one; the last row of the region is cleared, also
\* when the cursor is below it.
LinesUp(c, h) ==
  [r \in Row |-> IF h <= r /\ r < Bottom THEN c[r + 1]
                 ELSE IF r = Bottom THEN BlankRow ELSE c[r]]

LinesDown(c, h) ==
  [r \in Row |-> IF r = h THEN BlankRow
                 ELSE IF h < r /\ r <= Bottom THEN c[r - 1] ELSE c[r]]

\* One line, whatever the parameter.
DL == InRow(Bottom < H, [screen EXCEPT !.cell = LinesUp(@, screen.h)])
IL == InRow(Bottom < H /\ screen.h < H, [screen EXCEPT !.cell = LinesDown(@, screen.h)])

SU(p) == screen' = [screen EXCEPT !.cell = Scrolled(@, Times(p))] /\ Rest
SD(p) == screen' = [screen EXCEPT !.cell = Scrolled(@, -Times(p))] /\ Rest

\* CSI n ~: home, end, page up and page down act on the screen itself.
HomeKey  == Moves(screen.h, 0)
PageUp   == screen' = [screen EXCEPT !.cell = Scrolled(@, -H)] /\ Rest
PageDown == screen' = [screen EXCEPT !.cell = Scrolled(@, H)] /\ Rest

\* To the cell after the last glyph of the row; an empty row: nowhere.
EndKey ==
  LET real == {x \in Col : screen.cell[screen.h][x] # Blank}
  IN  \/ screen.h < H /\ real = {} /\ Moves(screen.h, AtMost(screen.w, W - 1))
      \/ screen.h < H /\ \E x \in real : /\ \A y \in real : y <= x
                                         /\ Moves(screen.h, AtMost(x + 1, W - 1))
      \/ screen.h >= H /\ InRow(FALSE, screen)

\* CSI 4 h and l, and CSI 2 ~, which toggles.
IRM(on) == insert_mode' = on /\ UNCHANGED <<screen, margin, defined>>

-----------------------------------------------------------------------------
Typing == LineFeed \/ \E g \in Glyph : PrintChr(g)

Scrolling ==
  \/ Typing \/ RI \/ DL \/ IL \/ PageUp \/ PageDown
  \/ \E p \in Param : SU(p) \/ SD(p)

Editing ==
  \/ \E p \in Param : ICH(p) \/ DCH(p) \/ ECH(p)
  \/ \E mode \in 0 .. 2 : ED(mode) \/ EL(mode)
  \/ RIS

Moving ==
  \/ Return \/ Backspace \/ Tab \/ NEL \/ HomeKey \/ EndKey
  \/ \E p \in Param : CUU(p) \/ CUD(p) \/ CUF(p) \/ CUB(p) \/ CHA(p) \/ VPA(p)
  \/ \E p, q \in Param : CUP(p, q)

Next ==
  /\ defined
  /\ \/ Scrolling \/ Editing \/ Moving
     \/ \E p, q \in Param : DECSTBM(p, q)
     \/ \E on \in BOOLEAN : IRM(on)

Spec == Init /\ [][Next]_vars

-----------------------------------------------------------------------------
(* Properties                                                              *)

TypeOK ==
  /\ screen \in Screen
  /\ margin \in [set : BOOLEAN, top : 0 .. MaxRow, bottom : 0 .. MaxRow]
  /\ insert_mode \in BOOLEAN
  /\ defined \in BOOLEAN

\* A region inside the screen, and the cursor in it.
InRegion == Top <= screen.h /\ screen.h <= Bottom /\ Bottom < H

\* A glyph printed with the cursor on the screen is on the screen, just before
\* the cursor, whatever wrap, scroll, region or insert mode did on the way
\* (escape_sequence_parser.c:338-387).
PrintedIsShown ==
  [][\A g \in Glyph : PrintChr(g) /\ screen.h < H =>
       /\ screen'.w \in 1 .. W
       /\ screen'.cell[screen'.h][screen'.w - 1] = g]_vars

\* After a line feed or a glyph the cursor is on the screen, also when margins
\* or ESC E had taken it below (escape_sequence_parser.c:389-409).
TypingEndsOnScreen ==
  [][Typing /\ defined' => screen'.h < H]_vars

\* Typing in a scroll region never leaves it (escape_sequence_parser.c:308-317
\* and 347-351).
RegionHoldsCursor ==
  [][(Typing \/ RI) /\ InRegion => Top <= screen'.h /\ screen'.h <= Bottom]_vars

\* What scrolls a region with the cursor in it leaves the rows outside alone:
\* typing, line feeds, inserted and deleted lines, pages (pty_make_v1.c:450-490,
\* escape_sequence_parser.c:710-751).
RegionIsolates ==
  [][Scrolling /\ InRegion =>
       \A r \in Row \ (Top .. Bottom) : screen'.cell[r] = screen.cell[r]]_vars

-----------------------------------------------------------------------------
(* What a comment promises and the code does not keep                      *)

\* escape_sequence_parser.c:571: CSI 1 K erases "from the start of the line to
\* the cursor"; it touches no other line.
EraseStaysInLine ==
  [][\A mode \in 0 .. 2 : EL(mode) =>
       \A r \in Row \ {screen.h} : screen'.cell[r] = screen.cell[r]]_vars
=============================================================================
