--------------------------- MODULE TermScreenProofs ---------------------------
(***************************************************************************)
(* The screen of the terminal, for every number of rows and columns.  The  *)
(* type invariant is inductive by itself; the four action properties need  *)
(* nothing more than it, once every operation on the grid is known to give *)
(* a grid and to leave the rows outside the region alone.                  *)
(***************************************************************************)
EXTENDS TermScreen, TLAPS

USE ScreenAssumption

MarginOK == margin \in [set : BOOLEAN, top : 0 .. MaxRow, bottom : 0 .. MaxRow]

-----------------------------------------------------------------------------
(* The operations on the grid give a grid.                                 *)

LEMMA BlankRowType == BlankRow \in [Col -> Glyph \cup {Blank}]
BY DEF BlankRow

LEMMA RegionType == ASSUME MarginOK PROVE Top \in 0 .. MaxRow /\ Bottom \in 0 .. MaxRow
BY DEF MarginOK, Top, Bottom

LEMMA ScrolledType ==
  ASSUME MarginOK, NEW c \in Grid, NEW n \in Int
  PROVE  Scrolled(c, n) \in Grid
<1>1. CASE Top >= Bottom \/ Bottom >= H
  BY <1>1 DEF Scrolled
<1>2. CASE ~(Top >= Bottom \/ Bottom >= H)
  <2>1. \A r \in Top .. Bottom : r \in Row
    BY <1>2, RegionType DEF Row
  <2>2. ASSUME NEW r \in Row
        PROVE  (IF r \notin Top .. Bottom THEN c[r]
                ELSE IF r + n \in Top .. Bottom THEN c[r + n] ELSE BlankRow)
               \in [Col -> Glyph \cup {Blank}]
    BY <2>1, BlankRowType DEF Grid
  <2> QED BY <1>2, <2>2 DEF Scrolled, Grid
<1> QED BY <1>1, <1>2

LEMMA ScreenUpType == ASSUME NEW c \in Grid PROVE ScreenUp(c) \in Grid
<1>1. \A r \in Row : r < H - 1 => r + 1 \in Row
  BY DEF Row
<1> QED BY <1>1, BlankRowType DEF ScreenUp, Grid

LEMMA RowEditsType ==
  ASSUME NEW c \in Grid, NEW h \in Row, NEW w \in Col, NEW n \in Nat
  PROVE  /\ char_arry_insert_chr(c, h, w, n) \in Grid
         /\ char_array_alignment(c, h, w, n) \in Grid
         /\ erase_chr(c, h, w, n) \in Grid
<1>1. [x \in Col |-> IF x < w THEN c[h][x]
                     ELSE IF x < w + n THEN Blank ELSE c[h][x - n]]
      \in [Col -> Glyph \cup {Blank}]
  <2>1. \A x \in Col : ~(x < w) /\ ~(x < w + n) => x - n \in Col
    BY DEF Col
  <2> QED BY <2>1 DEF Grid
<1>2. [x \in Col |-> IF x < w THEN c[h][x]
                     ELSE IF x + n < W THEN c[h][x + n] ELSE Blank]
      \in [Col -> Glyph \cup {Blank}]
  <2>1. \A x \in Col : x + n < W => x + n \in Col
    BY DEF Col
  <2> QED BY <2>1 DEF Grid
<1>3. [x \in Col |-> IF w <= x /\ x < w + n THEN Blank ELSE c[h][x]]
      \in [Col -> Glyph \cup {Blank}]
  BY DEF Grid
<1>4. ASSUME NEW line \in [Col -> Glyph \cup {Blank}]
      PROVE  [c EXCEPT ![h] = line] \in Grid
  BY DEF Grid
<1> QED BY <1>1, <1>2, <1>3, <1>4
        DEF char_arry_insert_chr, char_array_alignment, erase_chr

LEMMA EraseType ==
  ASSUME NEW c \in Grid, NEW i, NEW j PROVE Erase(c, i, j) \in Grid
<1>1. ASSUME NEW r \in Row
      PROVE  [x \in Col |-> IF r * W + x \in i .. j THEN Blank ELSE c[r][x]]
             \in [Col -> Glyph \cup {Blank}]
  BY DEF Grid
<1> QED BY <1>1 DEF Erase, Grid

LEMMA LinesType ==
  ASSUME MarginOK, NEW c \in Grid, NEW h \in 0 .. MaxRow, Bottom < H
  PROVE  LinesUp(c, h) \in Grid /\ LinesDown(c, h) \in Grid
<1>1. \A r \in Row : r < Bottom => r + 1 \in Row
  BY RegionType DEF Row
<1>2. \A r \in Row : h < r => r - 1 \in Row
  BY DEF Row
<1> QED BY <1>1, <1>2, BlankRowType DEF LinesUp, LinesDown, Grid

-----------------------------------------------------------------------------
(* Typing gives a screen, and the cursor is on it.                         *)

LEMMA WrapType ==
  ASSUME MarginOK, NEW s \in Screen
  PROVE  /\ Wrap(s) \in Screen
         /\ Wrap(s).w = 0
         /\ ~margin.set => Wrap(s).h < H
<1>1. Scrolled(s.cell, 1) \in Grid /\ ScreenUp(s.cell) \in Grid /\ s.cell \in Grid
  BY ScrolledType, ScreenUpType DEF Screen
<1>2. 0 \in 0 .. W /\ H - 1 \in 0 .. MaxRow /\ Bottom \in 0 .. MaxRow
  BY RegionType
<1> QED BY <1>1, <1>2 DEF Wrap, Screen

LEMMA PutType ==
  ASSUME NEW s \in Screen, s.w < W, NEW g \in Glyph
  PROVE  /\ Put(s, g) \in Screen
         /\ Put(s, g).h = s.h
         /\ s.h < H => /\ Put(s, g).w = s.w + 1
                       /\ Put(s, g).cell[s.h][s.w] = g
<1>1. CASE s.h \in Row
  <2>1. s.cell \in Grid /\ s.w \in Col
    BY DEF Screen, Col
  <2> DEFINE c == [s.cell EXCEPT ![s.h][s.w] = g]
  <2>2. c \in Grid /\ c[s.h][s.w] = g
    BY <1>1, <2>1 DEF Grid
  <2>3. Put(s, g) = [cell |-> c, h |-> s.h, w |-> s.w + 1]
    BY <1>1 DEF Put, Screen
  <2> HIDE DEF c
  <2> QED BY <2>1, <2>2, <2>3 DEF Screen, Col
<1>2. CASE s.h \notin Row
  BY <1>2 DEF Put, Screen, Row
<1> QED BY <1>1, <1>2

LEMMA SettleType ==
  ASSUME NEW c \in Grid, NEW h \in 0 .. MaxRow + 1, NEW w \in 0 .. W
  PROVE  LET s == [cell |-> c, h |-> h, w |-> w]
         IN  /\ Settle(s) \in Screen
             /\ Settle(s).h < H
             /\ Settle(s).w = w
             /\ h < H => Settle(s) = s
<1> DEFINE s == [cell |-> c, h |-> h, w |-> w]
<1>1. ScreenUp(c) \in Grid
  BY ScreenUpType
<1>2. CASE h < H
  <2>1. Settle(s) = s
    BY <1>2 DEF Settle
  <2> QED BY <1>2, <2>1 DEF Screen
<1>3. CASE ~(h < H) /\ margin.set
  <2>1. Settle(s) = [cell |-> c, h |-> H - 1, w |-> w]
    BY <1>3 DEF Settle
  <2> QED BY <1>3, <2>1 DEF Screen
<1>4. CASE ~(h < H) /\ ~margin.set
  <2>1. Settle(s) = [cell |-> ScreenUp(c), h |-> H - 1, w |-> w]
    BY <1>4 DEF Settle
  <2> QED BY <1>1, <1>4, <2>1 DEF Screen
<1> QED BY <1>2, <1>3, <1>4

LEMMA RoomMadeType ==
  ASSUME NEW s \in Screen, s.h < H \/ ~insert_mode \/ s.w >= W
  PROVE  RoomMade(s) \in Screen /\ RoomMade(s).h = s.h /\ RoomMade(s).w = s.w
<1>1. CASE insert_mode /\ s.w < W
  <2>1. s.h \in Row /\ s.w \in Col /\ s.cell \in Grid
    BY <1>1 DEF Screen, Row, Col
  <2>2. char_arry_insert_chr(s.cell, s.h, s.w, 1) \in Grid
    BY <2>1, RowEditsType
  <2> QED BY <1>1, <2>1, <2>2 DEF RoomMade, Screen
<1>2. CASE ~(insert_mode /\ s.w < W)
  BY <1>2 DEF RoomMade
<1> QED BY <1>1, <1>2

\* Where a glyph goes: the room before the cursor's new place.
LEMMA TypedType ==
  ASSUME MarginOK, NEW s \in Screen, NEW g \in Glyph,
         s.h < H \/ ~insert_mode \/ s.w >= W
  PROVE  /\ Typed(s, g) \in Screen
         /\ Typed(s, g).h < H
<1> DEFINE room == RoomMade(s)
           at   == IF s.w >= W THEN Wrap(room) ELSE room
           put  == Put(at, g)
<1>1. room \in Screen
  BY RoomMadeType
<1>2. at \in Screen /\ at.w < W
  BY <1>1, WrapType, RoomMadeType DEF Screen
<1>3. put \in Screen
  BY <1>2, PutType
<1>4. put = [cell |-> put.cell, h |-> put.h, w |-> put.w]
  BY <1>3 DEF Screen
<1>5. put.cell \in Grid /\ put.h \in 0 .. MaxRow + 1 /\ put.w \in 0 .. W
  BY <1>3 DEF Screen
<1>6. Settle(put) \in Screen /\ Settle(put).h < H
  <2> HIDE DEF put
  <2> QED BY <1>4, <1>5, SettleType
<1> QED BY <1>6 DEF Typed

LEMMA LineFedType ==
  ASSUME MarginOK, NEW s \in Screen
  PROVE  LineFed(s) \in Screen /\ LineFed(s).h < H
<1>1. s = [cell |-> s.cell, h |-> s.h, w |-> s.w] /\ s.cell \in Grid
      /\ s.h \in 0 .. MaxRow /\ s.w \in 0 .. W
  BY DEF Screen
<1>2. Scrolled(s.cell, 1) \in Grid
  BY <1>1, ScrolledType
<1>3. CASE margin.set /\ s.h = Bottom
  <2>1. LineFed(s) = Settle([cell |-> Scrolled(s.cell, 1), h |-> s.h, w |-> s.w])
    BY <1>1, <1>3 DEF LineFed
  <2> QED BY <1>1, <1>2, <2>1, SettleType
<1>4. CASE ~(margin.set /\ s.h = Bottom)
  <2>1. LineFed(s) = Settle([cell |-> s.cell, h |-> s.h + 1, w |-> s.w])
    BY <1>1, <1>4 DEF LineFed
  <2>2. s.h + 1 \in 0 .. MaxRow + 1
    BY <1>1
  <2> QED BY <1>1, <2>1, <2>2, SettleType
<1> QED BY <1>3, <1>4

-----------------------------------------------------------------------------
(* The type invariant                                                      *)

LEMMA Helpers ==
  /\ \A p \in Param : ZeroBased(p) \in 0 .. MaxRow /\ Times(p) \in Nat
  /\ \A n, m \in Int : AtMost(n, m) \in Int /\ AtMost(n, m) <= m /\ AtMost(n, m) <= n
  /\ \A n, m \in Nat : AtMost(n, m) \in 0 .. m
  /\ \A n, m \in Nat : Above0(n - m) \in 0 .. n
  /\ H - 1 \in Nat /\ W - 1 \in Nat
BY DEF Param, ZeroBased, Times, AtMost, Above0

LEMMA RIType == ASSUME TypeOK, RI PROVE TypeOK'
<1>1. MarginOK /\ screen.cell \in Grid /\ screen.h \in 0 .. MaxRow /\ screen.w \in 0 .. W
  BY DEF TypeOK, MarginOK, Screen
<1>2. Top \in 0 .. MaxRow
  BY <1>1, RegionType
<1>3. Scrolled(screen.cell, -1) \in Grid
  BY <1>1, ScrolledType
<1> QED BY <1>1, <1>2, <1>3 DEF RI, Rest, TypeOK, Screen

LEMMA InRowType ==
  ASSUME TypeOK, NEW ok \in BOOLEAN, NEW s, ok => s \in Screen, InRow(ok, s)
  PROVE  TypeOK'
BY DEF InRow, Rest, TypeOK

LEMMA ScrollingType == ASSUME TypeOK, Scrolling PROVE TypeOK'
<1>1. MarginOK /\ screen \in Screen /\ screen.cell \in Grid
      /\ screen.h \in 0 .. MaxRow /\ screen.w \in 0 .. W
  BY DEF TypeOK, MarginOK, Screen
<1>2. CASE LineFeed
  BY <1>1, <1>2, LineFedType DEF LineFeed, Rest, TypeOK
<1>3. ASSUME NEW g \in Glyph, PrintChr(g) PROVE TypeOK'
  <2> DEFINE ok == screen.h < H \/ ~insert_mode \/ screen.w >= W
  <2>1. ok => Typed(screen, g) \in Screen
    BY <1>1, TypedType
  <2>2. ok \in BOOLEAN /\ InRow(ok, Typed(screen, g))
    BY <1>3 DEF PrintChr
  <2> HIDE DEF ok
  <2> QED BY <2>1, <2>2, InRowType
<1>4. CASE RI
  BY <1>4, RIType
<1>5. CASE DL
  <2>1. Bottom < H => LinesUp(screen.cell, screen.h) \in Grid
    BY <1>1, LinesType
  <2>2. Bottom < H => [screen EXCEPT !.cell = LinesUp(@, screen.h)] \in Screen
    BY <1>1, <2>1 DEF Screen
  <2>3. (Bottom < H) \in BOOLEAN
    OBVIOUS
  <2> QED BY <1>5, <2>2, <2>3, InRowType DEF DL
<1>6. CASE IL
  <2> DEFINE ok == Bottom < H /\ screen.h < H
  <2>1. ok => LinesDown(screen.cell, screen.h) \in Grid
    BY <1>1, LinesType
  <2>2. ok => [screen EXCEPT !.cell = LinesDown(@, screen.h)] \in Screen
    BY <1>1, <2>1 DEF Screen
  <2>3. ok \in BOOLEAN /\ InRow(ok, [screen EXCEPT !.cell = LinesDown(@, screen.h)])
    BY <1>6 DEF IL
  <2> HIDE DEF ok
  <2> QED BY <2>2, <2>3, InRowType
<1>7. ASSUME NEW n \in Int,
             screen' = [screen EXCEPT !.cell = Scrolled(@, n)] /\ Rest
      PROVE  TypeOK'
  <2>1. Scrolled(screen.cell, n) \in Grid
    BY <1>1, ScrolledType
  <2> QED BY <1>1, <1>7, <2>1 DEF Rest, TypeOK, Screen
<1>8. CASE PageUp \/ PageDown
  <2>1. H \in Int /\ -H \in Int
    OBVIOUS
  <2> QED BY <1>7, <1>8, <2>1 DEF PageUp, PageDown
<1>9. ASSUME NEW p \in Param, SU(p) \/ SD(p) PROVE TypeOK'
  <2>1. Times(p) \in Int /\ -Times(p) \in Int
    BY Helpers
  <2> QED BY <1>7, <1>9, <2>1 DEF SU, SD
<1> QED BY <1>2, <1>3, <1>4, <1>5, <1>6, <1>8, <1>9 DEF Scrolling, Typing

LEMMA EditingType == ASSUME TypeOK, Editing PROVE TypeOK'
<1>1. screen \in Screen /\ screen.cell \in Grid
      /\ screen.h \in 0 .. MaxRow /\ screen.w \in 0 .. W
  BY DEF TypeOK, Screen
<1>2. ASSUME NEW c \in Grid PROVE [screen EXCEPT !.cell = c] \in Screen
  BY <1>1 DEF Screen
<1>3. ASSUME NEW p \in Param, ICH(p) \/ DCH(p) \/ ECH(p) PROVE TypeOK'
  <2>1. Times(p) \in Nat
    BY Helpers
  <2>2. OnRow /\ ~(screen.w >= W) => screen.h \in Row /\ screen.w \in Col
    BY <1>1 DEF OnRow, Row, Col
  <2>3. OnRow /\ ~(screen.w >= W) =>
          /\ char_arry_insert_chr(screen.cell, screen.h, screen.w, Times(p)) \in Grid
          /\ char_array_alignment(screen.cell, screen.h, screen.w, Times(p)) \in Grid
          /\ erase_chr(screen.cell, screen.h, screen.w, Times(p)) \in Grid
    BY <1>1, <2>1, <2>2, RowEditsType
  <2>4. OnRow \in BOOLEAN
    BY DEF OnRow
  <2>5. CASE ICH(p)
    BY <1>1, <1>2, <2>3, <2>4, <2>5, InRowType DEF ICH
  <2>6. CASE DCH(p)
    BY <1>1, <1>2, <2>3, <2>4, <2>6, InRowType DEF DCH
  <2>7. CASE ECH(p)
    BY <1>1, <1>2, <2>3, <2>4, <2>7, InRowType DEF ECH
  <2> QED BY <1>3, <2>5, <2>6, <2>7
<1>4. ASSUME NEW mode \in 0 .. 2, ED(mode) PROVE TypeOK'
  BY <1>1, <1>2, <1>4, EraseType DEF ED, Rest, TypeOK
<1>5. ASSUME NEW mode \in 0 .. 2, EL(mode) PROVE TypeOK'
  <2> DEFINE c == IF mode = 0 THEN Erase(screen.cell, Here, (screen.h + 1) * W - 1)
                  ELSE IF mode = 1 THEN Erase(screen.cell, screen.h * W, Here)
                  ELSE Erase(screen.cell, screen.h * W, (screen.h + 1) * W - 1)
             ok == screen.h < H \/ mode = 1
  <2>1. c \in Grid
    BY <1>1, EraseType
  <2>2. ok \in BOOLEAN /\ InRow(ok, [screen EXCEPT !.cell = c])
    BY <1>1, <1>5 DEF EL
  <2> HIDE DEF c, ok
  <2> QED BY <1>2, <2>1, <2>2, InRowType
<1>6. CASE RIS
  <2>1. [r \in Row |-> BlankRow] \in Grid
    BY BlankRowType DEF Grid
  <2> QED BY <1>6, <2>1 DEF RIS, Rest, TypeOK, Screen
<1> QED BY <1>3, <1>4, <1>5, <1>6 DEF Editing

LEMMA MovingType == ASSUME TypeOK, Moving PROVE TypeOK'
<1>1. screen \in Screen /\ screen.cell \in Grid
      /\ screen.h \in 0 .. MaxRow /\ screen.w \in 0 .. W
  BY DEF TypeOK, Screen
<1>2. ASSUME NEW h \in 0 .. MaxRow, NEW w \in 0 .. W PROVE [screen EXCEPT !.h = h, !.w = w] \in Screen
  BY <1>1 DEF Screen
<1>3. ASSUME NEW h \in 0 .. MaxRow, NEW w \in 0 .. W, Moves(h, w) PROVE TypeOK'
  BY <1>2, <1>3 DEF Moves, Rest, TypeOK
<1>4. ASSUME NEW w \in 0 .. W PROVE [screen EXCEPT !.w = w] \in Screen
  BY <1>1 DEF Screen
<1>5. ASSUME NEW w \in 0 .. W, screen' = [screen EXCEPT !.w = w], Rest PROVE TypeOK'
  BY <1>4, <1>5 DEF Rest, TypeOK
<1>6. CASE Return
  BY <1>5, <1>6 DEF Return
<1>7. CASE Backspace
  <2>1. Above0(screen.w - 1) \in 0 .. W
    BY <1>1 DEF Above0
  <2> QED BY <1>5, <1>7, <2>1 DEF Backspace
<1>8. CASE Tab
  <2>1. AtMost((screen.w \div 8 + 1) * 8, W - 1) \in 0 .. W
    BY <1>1 DEF AtMost
  <2> QED BY <1>5, <1>8, <2>1 DEF Tab
<1>9. CASE NEL
  <2>1. screen.h + 1 \in 0 .. MaxRow /\ 0 \in 0 .. W
    BY <1>1, <1>9 DEF NEL
  <2>2. [screen EXCEPT !.h = screen.h + 1, !.w = 0] \in Screen
    BY <1>2, <2>1
  <2> QED BY <1>9, <2>2 DEF NEL, Rest, TypeOK
<1>10. CASE HomeKey
  BY <1>1, <1>3, <1>10 DEF HomeKey
<1>11. CASE EndKey
  <2> DEFINE real == {x \in Col : screen.cell[screen.h][x] # Blank}
  <2>1. CASE screen.h >= H /\ InRow(FALSE, screen)
    BY <2>1, InRowType
  <2>2. CASE Moves(screen.h, AtMost(screen.w, W - 1))
    <3>1. AtMost(screen.w, W - 1) \in 0 .. W
      BY <1>1 DEF AtMost
    <3> QED BY <1>1, <1>3, <2>2, <3>1
  <2>3. ASSUME NEW x \in real, Moves(screen.h, AtMost(x + 1, W - 1)) PROVE TypeOK'
    <3>1. AtMost(x + 1, W - 1) \in 0 .. W
      BY DEF AtMost, Col
    <3> QED BY <1>1, <1>3, <2>3, <3>1
  <2> QED BY <1>11, <2>1, <2>2, <2>3 DEF EndKey
<1>12. ASSUME NEW p \in Param, CUU(p) \/ CUD(p) \/ CUF(p) \/ CUB(p) \/ CHA(p) \/ VPA(p)
       PROVE  TypeOK'
  <2>1. Times(p) \in Nat /\ ZeroBased(p) \in Nat
    BY Helpers
  <2>2. Above0(screen.h - Times(p)) \in 0 .. MaxRow /\ Above0(screen.w - Times(p)) \in 0 .. W
    BY <1>1, <2>1 DEF Above0
  <2>3. AtMost(screen.h + Times(p), H - 1) \in 0 .. MaxRow
        /\ AtMost(screen.w + Times(p), W - 1) \in 0 .. W
    BY <1>1, <2>1 DEF AtMost
  <2>4. AtMost(ZeroBased(p), W - 1) \in 0 .. W /\ AtMost(ZeroBased(p), H - 1) \in 0 .. MaxRow
    BY <2>1 DEF AtMost
  <2> QED BY <1>1, <1>3, <1>12, <2>2, <2>3, <2>4 DEF CUU, CUD, CUF, CUB, CHA, VPA
<1>13. ASSUME NEW p \in Param, NEW q \in Param, CUP(p, q) PROVE TypeOK'
  <2>1. AtMost(ZeroBased(p), H - 1) \in 0 .. MaxRow /\ AtMost(ZeroBased(q), W - 1) \in 0 .. W
    BY Helpers DEF AtMost
  <2> QED BY <1>3, <1>13, <2>1 DEF CUP
<1> QED BY <1>6, <1>7, <1>8, <1>9, <1>10, <1>11, <1>12, <1>13 DEF Moving

LEMMA InitType == Init => TypeOK
<1>1. [r \in Row |-> BlankRow] \in Grid
  BY BlankRowType DEF Grid
<1>2. [cell |-> [r \in Row |-> BlankRow], h |-> 0, w |-> 0] \in Screen
  BY <1>1 DEF Screen
<1>3. NoMargin \in [set : BOOLEAN, top : 0 .. MaxRow, bottom : 0 .. MaxRow]
  BY DEF NoMargin
<1> QED BY <1>2, <1>3 DEF Init, TypeOK

LEMMA NextType == TypeOK /\ [Next]_vars => TypeOK'
<1> SUFFICES ASSUME TypeOK, [Next]_vars PROVE TypeOK'
  OBVIOUS
<1>1. CASE Scrolling
  BY <1>1, ScrollingType
<1>2. CASE Editing
  BY <1>2, EditingType
<1>3. CASE Moving
  BY <1>3, MovingType
<1>4. ASSUME NEW p \in Param, NEW q \in Param, DECSTBM(p, q) PROVE TypeOK'
  <2>1. ZeroBased(p) \in 0 .. MaxRow
        /\ (IF q > 0 THEN q - 1 ELSE H - 1) \in 0 .. MaxRow /\ 0 \in 0 .. W
    BY DEF ZeroBased, Param
  <2>2. [screen EXCEPT !.h = ZeroBased(p), !.w = 0] \in Screen
    BY <2>1 DEF TypeOK, Screen
  <2>3. margin'.top = ZeroBased(p)
        /\ margin' \in [set : BOOLEAN, top : 0 .. MaxRow, bottom : 0 .. MaxRow]
    BY <1>4, <2>1 DEF DECSTBM
  <2> QED BY <1>4, <2>2, <2>3 DEF DECSTBM, TypeOK
<1>5. ASSUME NEW on \in BOOLEAN, IRM(on) PROVE TypeOK'
  BY <1>5 DEF IRM, TypeOK
<1>6. CASE UNCHANGED vars
  BY <1>6 DEF vars, TypeOK
<1> QED BY <1>1, <1>2, <1>3, <1>4, <1>5, <1>6 DEF Next

\* The cursor's row and column, the margins and every cell keep their range,
\* for every size of the screen and all parameters up to the bound.
THEOREM TypeCorrect == Spec => []TypeOK
BY InitType, NextType, PTL DEF Spec

-----------------------------------------------------------------------------
(* What typing does                                                        *)

\* After a glyph or a line feed the cursor is on the screen.
THEOREM TypingEndsOnScreenAlways == Spec => TypingEndsOnScreen
<1>1. TypeOK /\ [Next]_vars => [Typing /\ defined' => screen'.h < H]_vars
  <2> SUFFICES ASSUME TypeOK, Typing, defined' PROVE screen'.h < H
    OBVIOUS
  <2>1. MarginOK /\ screen \in Screen
    BY DEF TypeOK, MarginOK
  <2>2. CASE LineFeed
    BY <2>1, <2>2, LineFedType DEF LineFeed
  <2>3. ASSUME NEW g \in Glyph, PrintChr(g) PROVE screen'.h < H
    BY <2>1, <2>3, TypedType DEF PrintChr, InRow
  <2> QED BY <2>2, <2>3 DEF Typing
<1> QED BY <1>1, TypeCorrect, PTL DEF Spec, TypingEndsOnScreen

LEMMA TypedShows ==
  ASSUME MarginOK, NEW s \in Screen, NEW g \in Glyph, s.h < H
  PROVE  LET t == Typed(s, g)
         IN  t.w \in 1 .. W /\ t.cell[t.h][t.w - 1] = g
<1> DEFINE room == RoomMade(s)
           at   == IF s.w >= W THEN Wrap(room) ELSE room
           put  == Put(at, g)
<1>1. room \in Screen /\ room.h = s.h /\ room.w = s.w
  BY RoomMadeType
<1>2. at \in Screen /\ at.w < W
  BY <1>1, WrapType DEF Screen
<1>3. put \in Screen /\ put.h = at.h
  BY <1>2, PutType
<1>4. put = [cell |-> put.cell, h |-> put.h, w |-> put.w]
      /\ put.cell \in Grid /\ put.h \in 0 .. MaxRow + 1 /\ put.w \in 0 .. W
  BY <1>3 DEF Screen
<1>5. at.h < H
  <2>1. Wrap(room).h < H
    BY <1>1, RegionType DEF Wrap, Screen
  <2> QED BY <1>1, <2>1
<1>6. put.w = at.w + 1 /\ put.cell[at.h][at.w] = g /\ put.w - 1 = at.w /\ put.w \in 1 .. W
  BY <1>2, <1>5, PutType DEF Screen
<1>7. Settle(put) = put
  <2> HIDE DEF put
  <2> QED BY <1>3, <1>4, <1>5, SettleType
<1> QED BY <1>3, <1>6, <1>7 DEF Typed

\* A glyph printed with the cursor on the screen is shown before the cursor.
THEOREM PrintedIsShownAlways == Spec => PrintedIsShown
<1>1. TypeOK /\ [Next]_vars =>
        [\A g \in Glyph : PrintChr(g) /\ screen.h < H =>
           /\ screen'.w \in 1 .. W
           /\ screen'.cell[screen'.h][screen'.w - 1] = g]_vars
  <2> SUFFICES ASSUME TypeOK, NEW g \in Glyph, PrintChr(g), screen.h < H
               PROVE  /\ screen'.w \in 1 .. W
                      /\ screen'.cell[screen'.h][screen'.w - 1] = g
    OBVIOUS
  <2>1. MarginOK /\ screen \in Screen
    BY DEF TypeOK, MarginOK
  <2>2. screen' = Typed(screen, g)
    BY DEF PrintChr, InRow
  <2> QED BY <2>1, <2>2, TypedShows
<1> QED BY <1>1, TypeCorrect, PTL DEF Spec, PrintedIsShown

-----------------------------------------------------------------------------
(* Scroll regions                                                          *)

OutsideKept(c, d) == \A r \in Row \ (Top .. Bottom) : d[r] = c[r]

LEMMA ScrolledKeeps ==
  ASSUME NEW c \in Grid, NEW n \in Int PROVE OutsideKept(c, Scrolled(c, n))
BY DEF Scrolled, OutsideKept

LEMMA RoomMadeKeeps ==
  ASSUME NEW s \in Screen, s.h \in Top .. Bottom
  PROVE  OutsideKept(s.cell, RoomMade(s).cell)
<1>1. s.cell \in Grid
  BY DEF Screen
<1>2. CASE insert_mode /\ s.w < W
  <2>1. RoomMade(s).cell = char_arry_insert_chr(s.cell, s.h, s.w, 1)
    BY <1>2 DEF RoomMade, Screen
  <2> QED BY <1>1, <2>1 DEF char_arry_insert_chr, OutsideKept, Grid
<1>3. CASE ~(insert_mode /\ s.w < W)
  BY <1>3 DEF RoomMade, OutsideKept
<1> QED BY <1>2, <1>3

LEMMA PutKeeps ==
  ASSUME NEW s \in Screen, s.w < W, s.h \in Top .. Bottom, NEW g \in Glyph
  PROVE  OutsideKept(s.cell, Put(s, g).cell)
<1>1. CASE s.h \in Row
  <2>1. s.cell \in Grid
    BY DEF Screen
  <2>2. Put(s, g).cell = [s.cell EXCEPT ![s.h][s.w] = g]
    BY <1>1 DEF Put, Screen
  <2> QED BY <2>1, <2>2 DEF OutsideKept, Grid
<1>2. CASE s.h \notin Row
  BY <1>2 DEF Put, OutsideKept
<1> QED BY <1>1, <1>2

\* In a region the wrap moves to the next row of it or scrolls it.
LEMMA WrapInRegion ==
  ASSUME MarginOK, NEW s \in Screen, s.h \in Top .. Bottom, Bottom < H
  PROVE  /\ Wrap(s).h \in Top .. Bottom
         /\ OutsideKept(s.cell, Wrap(s).cell)
<1>1. s.cell \in Grid /\ s.h \in 0 .. MaxRow
  BY DEF Screen
<1>2. CASE margin.set /\ s.h + 1 > Bottom
  <2>1. Wrap(s) = [cell |-> Scrolled(s.cell, 1), h |-> Bottom, w |-> 0]
    BY <1>2 DEF Wrap
  <2> QED BY <1>1, <2>1, RegionType, ScrolledKeeps
<1>3. CASE ~(margin.set /\ s.h + 1 > Bottom) /\ s.h + 1 >= H
  <2>1. Wrap(s) = [cell |-> ScreenUp(s.cell), h |-> H - 1, w |-> 0]
    BY <1>3 DEF Wrap
  <2>2. ~margin.set /\ Top = 0 /\ Bottom = H - 1
    BY <1>1, <1>3, RegionType DEF Top, Bottom, MarginOK
  <2>3. Row \ (Top .. Bottom) = {}
    BY <2>2 DEF Row
  <2> QED BY <2>1, <2>2, <2>3 DEF OutsideKept
<1>4. CASE ~(margin.set /\ s.h + 1 > Bottom) /\ ~(s.h + 1 >= H)
  <2>1. Wrap(s) = [cell |-> s.cell, h |-> s.h + 1, w |-> 0]
    BY <1>4 DEF Wrap
  <2>2. s.h + 1 \in Top .. Bottom
    BY <1>1, <1>4, RegionType DEF Top, Bottom, MarginOK
  <2> QED BY <2>1, <2>2 DEF OutsideKept
<1> QED BY <1>2, <1>3, <1>4

LEMMA TypedInRegion ==
  ASSUME MarginOK, NEW s \in Screen, s.h \in Top .. Bottom, Bottom < H, NEW g \in Glyph
  PROVE  /\ Typed(s, g).h \in Top .. Bottom
         /\ OutsideKept(s.cell, Typed(s, g).cell)
<1> DEFINE room == RoomMade(s)
           at   == IF s.w >= W THEN Wrap(room) ELSE room
           put  == Put(at, g)
<1>0. s.h < H
  BY RegionType DEF Screen
<1>1. room \in Screen /\ room.h = s.h /\ room.w = s.w
  BY <1>0, RoomMadeType
<1>2. at \in Screen /\ at.w < W
  BY <1>1, WrapType DEF Screen
<1>3. put \in Screen /\ put.h = at.h
  BY <1>2, PutType
<1>4. at.h \in Top .. Bottom /\ OutsideKept(room.cell, at.cell)
  BY <1>1, WrapInRegion DEF OutsideKept
<1>5. OutsideKept(s.cell, room.cell) /\ OutsideKept(at.cell, put.cell)
  BY <1>2, <1>4, RoomMadeKeeps, PutKeeps
<1>6. Settle(put) = put
  <2>1. put = [cell |-> put.cell, h |-> put.h, w |-> put.w]
        /\ put.cell \in Grid /\ put.h \in 0 .. MaxRow + 1 /\ put.w \in 0 .. W
    BY <1>3 DEF Screen
  <2>2. put.h < H
    BY <1>3, <1>4, RegionType
  <2> HIDE DEF put
  <2> QED BY <2>1, <2>2, SettleType
<1>7. Typed(s, g) = put
  BY <1>6 DEF Typed
<1>8. OutsideKept(s.cell, put.cell)
  <2> HIDE DEF room, at, put
  <2> QED BY <1>4, <1>5 DEF OutsideKept
<1> QED BY <1>3, <1>4, <1>7, <1>8

LEMMA LineFedInRegion ==
  ASSUME MarginOK, NEW s \in Screen, s.h \in Top .. Bottom, Bottom < H
  PROVE  /\ LineFed(s).h \in Top .. Bottom
         /\ OutsideKept(s.cell, LineFed(s).cell)
<1>1. s = [cell |-> s.cell, h |-> s.h, w |-> s.w] /\ s.cell \in Grid
      /\ s.h \in 0 .. MaxRow /\ s.w \in 0 .. W /\ s.h < H
  BY RegionType DEF Screen
<1>2. CASE margin.set /\ s.h = Bottom
  <2>1. Scrolled(s.cell, 1) \in Grid
    BY <1>1, ScrolledType
  <2>2. LineFed(s) = Settle([cell |-> Scrolled(s.cell, 1), h |-> s.h, w |-> s.w])
    BY <1>1, <1>2 DEF LineFed
  <2>3. LineFed(s) = [cell |-> Scrolled(s.cell, 1), h |-> s.h, w |-> s.w]
    BY <1>1, <2>1, <2>2, SettleType
  <2> QED BY <1>1, <2>3, ScrolledKeeps
<1>3. CASE ~(margin.set /\ s.h = Bottom)
  <2>1. LineFed(s) = Settle([cell |-> s.cell, h |-> s.h + 1, w |-> s.w])
    BY <1>1, <1>3 DEF LineFed
  <2>2. CASE s.h + 1 < H
    <3>1. LineFed(s) = [cell |-> s.cell, h |-> s.h + 1, w |-> s.w]
      BY <2>1, <2>2 DEF Settle
    <3>2. s.h + 1 \in Top .. Bottom
      BY <1>1, <1>3, <2>2, RegionType DEF Top, Bottom, MarginOK
    <3> QED BY <3>1, <3>2 DEF OutsideKept
  <2>3. CASE ~(s.h + 1 < H)
    <3>1. ~margin.set /\ Top = 0 /\ Bottom = H - 1
      BY <1>1, <1>3, <2>3, RegionType DEF Top, Bottom, MarginOK
    <3>2. LineFed(s) = [cell |-> ScreenUp(s.cell), h |-> H - 1, w |-> s.w]
      BY <1>1, <2>1, <2>3, <3>1 DEF Settle
    <3>3. Row \ (Top .. Bottom) = {}
      BY <3>1 DEF Row
    <3> QED BY <3>1, <3>2, <3>3 DEF OutsideKept
  <2> QED BY <2>2, <2>3
<1> QED BY <1>2, <1>3

\* Typing and reverse line feeds in a region keep the cursor in it.
THEOREM RegionHoldsCursorAlways == Spec => RegionHoldsCursor
<1>1. TypeOK /\ [Next]_vars =>
        [(Typing \/ RI) /\ InRegion => Top <= screen'.h /\ screen'.h <= Bottom]_vars
  <2> SUFFICES ASSUME TypeOK, Typing \/ RI, InRegion
               PROVE  screen'.h \in Top .. Bottom
    OBVIOUS
  <2>1. MarginOK /\ screen \in Screen /\ screen.h \in 0 .. MaxRow
    BY DEF TypeOK, MarginOK, Screen
  <2>2. screen.h \in Top .. Bottom /\ Bottom < H /\ screen.h < H
    BY <2>1, RegionType DEF InRegion
  <2>3. CASE LineFeed
    BY <2>1, <2>2, <2>3, LineFedInRegion DEF LineFeed
  <2>4. ASSUME NEW g \in Glyph, PrintChr(g) PROVE screen'.h \in Top .. Bottom
    BY <2>1, <2>2, <2>4, TypedInRegion DEF PrintChr, InRow
  <2>5. CASE RI
    BY <2>1, <2>2, <2>5, RegionType DEF RI, Screen
  <2> QED BY <2>3, <2>4, <2>5 DEF Typing
<1> QED BY <1>1, TypeCorrect, PTL DEF Spec, RegionHoldsCursor

\* What scrolls a region with the cursor in it keeps the rows outside.
THEOREM RegionIsolatesAlways == Spec => RegionIsolates
<1>1. TypeOK /\ [Next]_vars =>
        [Scrolling /\ InRegion =>
          \A r \in Row \ (Top .. Bottom) : screen'.cell[r] = screen.cell[r]]_vars
  <2> SUFFICES ASSUME TypeOK, Scrolling, InRegion
               PROVE  OutsideKept(screen.cell, screen'.cell)
    BY DEF OutsideKept
  <2>1. MarginOK /\ screen \in Screen /\ screen.cell \in Grid /\ screen.h \in 0 .. MaxRow
    BY DEF TypeOK, MarginOK, Screen
  <2>2. screen.h \in Top .. Bottom /\ Bottom < H /\ screen.h < H
    BY <2>1, RegionType DEF InRegion
  <2>3. CASE LineFeed
    BY <2>1, <2>2, <2>3, LineFedInRegion DEF LineFeed
  <2>4. ASSUME NEW g \in Glyph, PrintChr(g) PROVE OutsideKept(screen.cell, screen'.cell)
    BY <2>1, <2>2, <2>4, TypedInRegion DEF PrintChr, InRow
  <2>5. ASSUME NEW n \in Int, screen' = [screen EXCEPT !.cell = Scrolled(@, n)]
        PROVE  OutsideKept(screen.cell, screen'.cell)
    BY <2>1, <2>5, ScrolledKeeps DEF Screen
  <2>6. CASE RI
    <3>1. CASE screen.h > Top
      BY <2>1, <2>6, <3>1 DEF RI, OutsideKept, Screen
    <3>2. CASE ~(screen.h > Top)
      BY <2>5, <2>6, <3>2 DEF RI
    <3> QED BY <3>1, <3>2
  <2>7. CASE DL
    <3>1. screen'.cell = LinesUp(screen.cell, screen.h)
      BY <2>1, <2>2, <2>7 DEF DL, InRow, Screen
    <3> QED BY <2>1, <2>2, <3>1, RegionType DEF LinesUp, OutsideKept, Row
  <2>8. CASE IL
    <3>1. screen'.cell = LinesDown(screen.cell, screen.h)
      BY <2>1, <2>2, <2>8 DEF IL, InRow, Screen
    <3> QED BY <2>1, <2>2, <3>1, RegionType DEF LinesDown, OutsideKept, Row
  <2>9. CASE PageUp \/ PageDown
    BY <2>5, <2>9 DEF PageUp, PageDown
  <2>10. ASSUME NEW p \in Param, SU(p) \/ SD(p)
         PROVE  OutsideKept(screen.cell, screen'.cell)
    BY <2>5, <2>10, Helpers DEF SU, SD
  <2> QED BY <2>3, <2>4, <2>6, <2>7, <2>8, <2>9, <2>10 DEF Scrolling, Typing
<1> QED BY <1>1, TypeCorrect, PTL DEF Spec, RegionIsolates
=============================================================================
