---------------------------- MODULE TermModesProofs ----------------------------
(***************************************************************************)
(* What holds of cursor, saved cursor and selection for every size of the  *)
(* screen, every order of sizes and every use of the mouse: they point at  *)
(* places of the screen there is, and a selection leaves no trace.         *)
(*                                                                         *)
(* A place of a screen is a row times its width and a column: the first    *)
(* lemmas are about that arithmetic.                                       *)
(***************************************************************************)
EXTENDS TermModes, TLAPS

IsSize(s) == s \in [w : Nat \ {0}, h : Nat \ {0}]

-----------------------------------------------------------------------------
(* Places                                                                  *)

LEMMA Grows ==
  ASSUME NEW a \in Nat, NEW b \in Nat, NEW w \in Nat, a <= b
  PROVE  a * w <= b * w
OBVIOUS

\* Row and column of the screen make one of its cells.
LEMMA PlaceIn ==
  ASSUME NEW s, IsSize(s), NEW r \in 0 .. s.h - 1, NEW x \in 0 .. s.w - 1
  PROVE  r * s.w + x \in Index(s)
<1>1. s.w \in Nat \ {0} /\ s.h \in Nat \ {0}
  BY DEF IsSize
<1>2. (r + 1) * s.w <= s.h * s.w
  BY <1>1, Grows
<1>3. (r + 1) * s.w = r * s.w + s.w /\ s.h * s.w = s.w * s.h /\ r * s.w \in Nat
  BY <1>1
<1> QED BY <1>1, <1>2, <1>3 DEF Index

\* A cell of the screen is in one of its rows and columns.
LEMMA PlaceOf ==
  ASSUME NEW s, IsSize(s), NEW i \in Index(s)
  PROVE  /\ i \div s.w \in 0 .. s.h - 1 /\ i % s.w \in 0 .. s.w - 1
         /\ i = (i \div s.w) * s.w + (i % s.w)
<1> DEFINE q == i \div s.w
           m == i % s.w
<1>1. s.w \in Nat \ {0} /\ s.h \in Nat \ {0} /\ i \in Nat /\ i < s.w * s.h
  BY DEF IsSize, Index
<1>2. q \in Nat /\ m \in 0 .. s.w - 1 /\ i = q * s.w + m
  BY <1>1, SMTT(30)
<1> HIDE DEF q, m
<1>3. q < s.h
  <2>1. ASSUME s.h <= q
        PROVE  FALSE
    <3>1. s.h * s.w <= q * s.w
      BY <1>1, <1>2, <2>1, Grows
    <3>2. s.h * s.w = s.w * s.h
      BY <1>1
    <3>3. q * s.w \in Nat
      BY <1>1, <1>2
    <3>4. s.w * s.h \in Nat
      BY <1>1
    <3> DEFINE a == q * s.w
               b == s.w * s.h
    <3>5. b <= a /\ a \in Nat /\ b \in Nat /\ i < b /\ i = a + m
      BY <1>1, <1>2, <3>1, <3>2, <3>3, <3>4
    <3> HIDE DEF a, b
    <3>6. m \in Nat /\ i \in Nat
      BY <1>1, <1>2
    <3> QED BY <3>5, <3>6
  <2> QED BY <1>1, <1>2, <2>1
<1> QED BY <1>1, <1>2, <1>3, SMTT(30) DEF q, m

\* No two places of a screen share a cell.
LEMMA PlaceBack ==
  ASSUME NEW w \in Nat \ {0}, NEW r \in Nat, NEW x \in 0 .. w - 1
  PROVE  (r * w + x) \div w = r /\ (r * w + x) % w = x
<1> DEFINE i == r * w + x
           q == i \div w
           m == i % w
<1>1. r * w \in Nat /\ i \in Nat
  OBVIOUS
<1>2. q \in Nat /\ m \in 0 .. w - 1 /\ i = q * w + m
  <2> HIDE DEF i
  <2> QED BY <1>1
<1>3. i = r * w + x
  OBVIOUS
<1> HIDE DEF i, q, m
<1>4. ASSUME NEW a \in Nat, NEW b \in Nat, a < b
      PROVE  a * w + w <= b * w
  <2>1. (a + 1) * w <= b * w
    BY <1>4, Grows
  <2> QED BY <2>1
<1>5. ~(q < r)
  <2>1. ASSUME q < r PROVE q * w + w <= r * w
    BY <1>2, <1>4, <2>1
  <2> DEFINE a == q * w
             b == r * w
  <2>2. a \in Nat /\ b \in Nat /\ a + m = b + x
    BY <1>1, <1>2, <1>3
  <2> HIDE DEF a, b
  <2>3. ~(a + w <= b)
    BY <1>2, <2>2
  <2> QED BY <2>1, <2>3 DEF a, b
<1>6. ~(r < q)
  <2>1. ASSUME r < q PROVE r * w + w <= q * w
    BY <1>2, <1>4, <2>1
  <2> DEFINE a == q * w
             b == r * w
  <2>2. a \in Nat /\ b \in Nat /\ a + m = b + x
    BY <1>1, <1>2, <1>3
  <2> HIDE DEF a, b
  <2>3. ~(b + w <= a)
    BY <1>2, <2>2
  <2> QED BY <2>1, <2>3 DEF a, b
<1>7. q = r
  BY <1>2, <1>5, <1>6
<1>8. m = x
  BY <1>1, <1>2, <1>3, <1>7
<1> QED BY <1>7, <1>8 DEF i, q, m

\* A sequence without elements has no index.
LEMMA NoIndex == DOMAIN <<>> = {}
OBVIOUS

-----------------------------------------------------------------------------
(* Screens                                                                 *)

CellType   == [chr : Glyph \cup {Blank}, ink : Inks, given : Inks]
CellsOf(s) == [Index(s) -> CellType]

\* Each cell shows the colours it was given.
Clean(c) == \A i \in DOMAIN c : c[i].ink = c[i].given

LEMMA SizeIs == \A s \in Size : IsSize(s) /\ 0 \in Index(s)
<1>1. ASSUME NEW s \in Size
      PROVE  IsSize(s) /\ 0 \in Index(s)
  <2>1. IsSize(s)
    BY ModesAssumption DEF IsSize
  <2>2. s.w \in Nat \ {0} /\ s.h \in Nat \ {0}
    BY <2>1 DEF IsSize
  <2>3. 0 * s.w + 0 \in Index(s)
    BY <2>1, <2>2, PlaceIn
  <2> QED BY <2>1, <2>2, <2>3
<1> QED BY <1>1

LEMMA CellIs ==
  ASSUME NEW g \in Glyph \cup {Blank}, NEW ink \in Inks
  PROVE  Cell(g, ink) \in CellType /\ Cell(g, ink).ink = Cell(g, ink).given
BY DEF Cell, CellType

LEMMA BlanksAre ==
  ASSUME NEW s
  PROVE  Blanks(s, "plain") \in CellsOf(s) /\ Clean(Blanks(s, "plain"))
<1>1. "plain" \in Inks
  BY DEF Inks
<1> QED BY <1>1, CellIs DEF Blanks, CellsOf, Clean

\* Rows that move up keep their cells; the last row gets blanks.
LEMMA UpIs ==
  ASSUME NEW c \in CellsOf(term_size), NEW plain \in BOOLEAN
  PROVE  Up(c, plain) \in CellsOf(term_size) /\ (Clean(c) => Clean(Up(c, plain)))
<1>1. ASSUME NEW i \in Index(term_size)
      PROVE  /\ Up(c, plain)[i] \in CellType
             /\ Clean(c) => Up(c, plain)[i].ink = Up(c, plain)[i].given
  <2>1. CASE i + term_size.w \in Index(term_size)
    BY <1>1, <2>1 DEF Up, CellsOf, Clean
  <2>2. CASE i + term_size.w \notin Index(term_size) /\ plain
    <3>1. Up(c, plain)[i] = Cell(Blank, "plain") /\ "plain" \in Inks
      BY <1>1, <2>2 DEF Up, Inks
    <3> QED BY <3>1, CellIs
  <2>3. CASE i + term_size.w \notin Index(term_size) /\ ~plain
    <3>1. Up(c, plain)[i] = [c[i] EXCEPT !.chr = Blank] /\ c[i] \in CellType
      BY <1>1, <2>3 DEF Up, CellsOf
    <3> QED BY <3>1 DEF CellType, CellsOf, Clean
  <2> QED BY <2>1, <2>2, <2>3
<1>2. DOMAIN Up(c, plain) = Index(term_size)
  BY DEF Up
<1>3. Up(c, plain) \in CellsOf(term_size)
  BY <1>1 DEF Up, CellsOf
<1> QED BY <1>1, <1>2, <1>3 DEF Clean

\* Rows of the region that move up keep their cells, the others stay.
LEMMA RegionIs ==
  ASSUME NEW c \in CellsOf(term_size), pen \in [ink : Inks, reverse : BOOLEAN]
  PROVE  /\ scroll_region_up(c) \in CellsOf(term_size)
         /\ Clean(c) => Clean(scroll_region_up(c))
<1> DEFINE d == scroll_region_up(c)
           blank == Cell(Blank, pen.ink)
<1>1. CASE Top >= Bottom \/ Bottom >= term_size.h
  BY <1>1 DEF scroll_region_up
<1>2. CASE ~(Top >= Bottom \/ Bottom >= term_size.h)
  <2>1. blank \in CellType /\ blank.ink = blank.given
    BY CellIs
  <2>2. /\ DOMAIN d = Index(term_size)
        /\ \A i \in Index(term_size) :
             d[i] = blank \/ \E j \in Index(term_size) : d[i] = c[j]
    <3> HIDE DEF blank
    <3>1. d = [i \in Index(term_size) |->
                 LET r == i \div term_size.w
                 IN  IF r \in Top .. Bottom - 1 /\ i + term_size.w \in Index(term_size)
                       THEN c[i + term_size.w]
                     ELSE IF r = Bottom THEN blank ELSE c[i]]
      BY <1>2 DEF scroll_region_up, blank
    <3> HIDE DEF d
    <3> QED BY <3>1, Zenon
  <2> HIDE DEF d, blank
  <2>3. \A i \in Index(term_size) : d[i] \in CellType
    BY <2>1, <2>2 DEF CellsOf
  <2>4. d = [i \in Index(term_size) |-> d[i]]
    BY <1>2, <2>2 DEF d, scroll_region_up
  <2>5. Clean(c) => Clean(d)
    BY <2>1, <2>2 DEF Clean, CellsOf
  <2>6. d \in CellsOf(term_size)
    BY <2>3, <2>4 DEF CellsOf
  <2> QED BY <2>5, <2>6 DEF d
<1> QED BY <1>1, <1>2

\* A screen of another size has the old cells in the rows and columns of both.
LEMMA ReshapedIs ==
  ASSUME NEW old, NEW new, IsSize(old), IsSize(new), NEW c \in CellsOf(old),
         NEW fill \in CellType, fill.ink = fill.given
  PROVE  /\ Reshaped(c, old, new, fill) \in CellsOf(new)
         /\ Clean(c) => Clean(Reshaped(c, old, new, fill))
         /\ \A r, x : r \in 0 .. old.h - 1 /\ r \in 0 .. new.h - 1
                     /\ x \in 0 .. old.w - 1 /\ x \in 0 .. new.w - 1
              => Reshaped(c, old, new, fill)[r * new.w + x] = c[r * old.w + x]
<1> DEFINE R == Reshaped(c, old, new, fill)
<1>1. /\ old.w \in Nat \ {0} /\ old.h \in Nat \ {0}
      /\ new.w \in Nat \ {0} /\ new.h \in Nat \ {0}
  BY DEF IsSize
<1>2. DOMAIN R = Index(new)
  BY DEF Reshaped
<1>3. ASSUME NEW i \in Index(new)
      PROVE  R[i] = fill \/ \E j \in Index(old) : R[i] = c[j]
  <2>1. R[i] = IF i \div new.w < old.h /\ i % new.w < old.w
                 THEN c[(i \div new.w) * old.w + (i % new.w)] ELSE fill
    BY <1>3 DEF Reshaped
  <2>2. i \div new.w \in Nat /\ i % new.w \in Nat
    BY <1>1, <1>3, PlaceOf
  <2>3. ASSUME i \div new.w < old.h, i % new.w < old.w
        PROVE  (i \div new.w) * old.w + (i % new.w) \in Index(old)
    <3>1. i \div new.w \in 0 .. old.h - 1 /\ i % new.w \in 0 .. old.w - 1
      BY <1>1, <2>2, <2>3
    <3> QED BY <3>1, PlaceIn
  <2> HIDE DEF R
  <2> QED BY <2>1, <2>3
<1>4. ASSUME NEW r \in 0 .. old.h - 1, r \in 0 .. new.h - 1,
             NEW x \in 0 .. old.w - 1, x \in 0 .. new.w - 1
      PROVE  R[r * new.w + x] = c[r * old.w + x]
  <2> DEFINE i == r * new.w + x
  <2>1. i \in Index(new)
    BY <1>4, PlaceIn
  <2>2. i \div new.w = r /\ i % new.w = x /\ r < old.h /\ x < old.w
    <3>1. r \in Nat /\ r < old.h /\ x < old.w /\ x \in 0 .. new.w - 1
      BY <1>1, <1>4
    <3>2. i \div new.w = r /\ i % new.w = x
      BY <1>1, <3>1, PlaceBack
    <3> QED BY <3>1, <3>2
  <2>3. R[i] = IF i \div new.w < old.h /\ i % new.w < old.w
                 THEN c[(i \div new.w) * old.w + (i % new.w)] ELSE fill
    <3> HIDE DEF i
    <3> QED BY <2>1 DEF Reshaped
  <2> HIDE DEF i, R
  <2>4. R[i] = c[r * old.w + x]
    BY <2>2, <2>3
  <2> QED BY <2>4 DEF i
<1> HIDE DEF R
<1>5. R \in CellsOf(new)
  <2>1. \A i \in Index(new) : R[i] \in CellType
    BY <1>3 DEF CellsOf
  <2>2. R = [i \in Index(new) |-> R[i]]
    BY <1>2 DEF R, Reshaped
  <2> QED BY <2>1, <2>2 DEF CellsOf
<1>6. Clean(c) => Clean(R)
  BY <1>2, <1>3 DEF Clean, CellsOf
<1> QED BY <1>4, <1>5, <1>6 DEF R

LEMMA ReshapedPlaces ==
  ASSUME NEW old, NEW new, IsSize(old), IsSize(new), NEW c \in CellsOf(old),
         NEW fill \in CellType, fill.ink = fill.given, NEW d, d = Reshaped(c, old, new, fill)
  PROVE  \A r, x : r \in 0 .. old.h - 1 /\ r \in 0 .. new.h - 1
                  /\ x \in 0 .. old.w - 1 /\ x \in 0 .. new.w - 1
           => d[r * new.w + x] = c[r * old.w + x]
BY ReshapedIs

-----------------------------------------------------------------------------
(* The inductive invariant                                                 *)

Cursor == [h : Nat, w : Nat, mode : {"AP_MODE", "NORMAL_MODE"}]
Region == [set : BOOLEAN, top : Nat, bottom : Nat]

ModesTypes ==
  /\ term_size \in Size
  /\ term_cell \in CellsOf(term_size)
  /\ alt_term_cell = <<>> \/ alt_term_cell \in CellsOf(term_size)
  /\ cur \in Cursor /\ save_cur \in Cursor
  /\ margin \in Region
  /\ pen \in [ink : Inks, reverse : BOOLEAN]
  /\ copy \in [DOMAIN copy -> Inks]
  /\ overwritten \in BOOLEAN /\ astray \in BOOLEAN

\* As long as no program wrote among marked cells, the list of the selection has
\* the colours that the marked cells were given, and all others show theirs.
ListKept ==
  ~overwritten =>
    /\ \A i \in Index(term_size) :
         term_cell[i].given = IF i \in DOMAIN copy THEN copy[i] ELSE term_cell[i].ink
    /\ alt_term_cell # <<>> => Clean(alt_term_cell)

\* The screen that was put aside has the cells it had, in the rows and columns
\* that every size since then had.
AsideKept ==
  before # <<>> =>
    /\ before \in [cells : UNION {CellsOf(s) : s \in Size}, size : Size,
                   least : [w : Nat \ {0}, h : Nat \ {0}]]
    /\ alt_term_cell \in CellsOf(term_size)
    /\ before.least.w <= term_size.w /\ before.least.h <= term_size.h
    /\ \A r, x : r \in 0 .. before.least.h - 1 /\ x \in 0 .. before.least.w - 1
         => alt_term_cell[r * term_size.w + x].chr = before.cells[r * before.size.w + x].chr

IInv == ModesTypes /\ PlacesFit /\ ListKept /\ AsideKept

LEMMA IInvInit == Init => IInv
<1> SUFFICES ASSUME Init PROVE IInv
  OBVIOUS
<1>1. /\ term_size \in Size /\ IsSize(term_size) /\ 0 \in Index(term_size)
      /\ term_size.h \in Nat \ {0} /\ term_size.w \in Nat \ {0}
  BY SizeIs, ModesAssumption DEF Init, IsSize
<1>2. term_cell \in CellsOf(term_size) /\ Clean(term_cell)
  BY BlanksAre DEF Init
<1>3. copy \in [DOMAIN copy -> Inks] /\ DOMAIN copy = {}
  BY NoIndex DEF Init
<1>4. pen \in [ink : Inks, reverse : BOOLEAN]
  BY DEF Init, Inks
<1>5. cur \in Cursor /\ save_cur \in Cursor
  BY DEF Init, Cursor
<1>6. ModesTypes
  <2>1. margin \in Region
    BY DEF Init, Region
  <2> QED BY <1>1, <1>2, <1>3, <1>4, <1>5, <2>1 DEF Init, ModesTypes
<1>7. PlacesFit
  BY <1>1, <1>3 DEF Init, PlacesFit
<1>8. ListKept /\ AsideKept
  <2>1. alt_term_cell = <<>> /\ before = <<>>
    BY DEF Init
  <2>2. ASSUME NEW i \in Index(term_size)
        PROVE  term_cell[i].given = term_cell[i].ink /\ i \notin DOMAIN copy
    BY <1>2, <1>3 DEF CellsOf, Clean
  <2> QED BY <2>1, <2>2 DEF ListKept, AsideKept
<1> QED BY <1>6, <1>7, <1>8 DEF IInv

\* Colours given back: no cell shows others than it was given.
LEMMA RestoredIs ==
  ASSUME IInv
  PROVE  /\ Restored(term_cell) \in CellsOf(term_size)
         /\ ~overwritten => Clean(Restored(term_cell))
<1> DEFINE R == Restored(term_cell)
<1>1. term_cell \in CellsOf(term_size) /\ copy \in [DOMAIN copy -> Inks]
  BY DEF IInv, ModesTypes
<1>2. ASSUME NEW i \in Index(term_size)
      PROVE  /\ R[i] \in CellType
             /\ ~overwritten => R[i].ink = R[i].given
  <2>1. term_cell[i] \in CellType
    BY <1>1 DEF CellsOf
  <2>2. CASE i \in DOMAIN copy
    <3>1. R[i] = [term_cell[i] EXCEPT !.ink = copy[i]] /\ copy[i] \in Inks
      BY <1>1, <1>2, <2>2 DEF Restored, CellsOf
    <3>2. ~overwritten => term_cell[i].given = copy[i]
      BY <2>2 DEF IInv, ListKept
    <3> QED BY <2>1, <3>1, <3>2 DEF CellType
  <2>3. CASE i \notin DOMAIN copy
    <3>1. R[i] = term_cell[i]
      BY <1>1, <1>2, <2>3 DEF Restored, CellsOf
    <3>2. ~overwritten => term_cell[i].given = term_cell[i].ink
      BY <2>3 DEF IInv, ListKept
    <3> QED BY <2>1, <3>1, <3>2
  <2> QED BY <2>2, <2>3
<1>3. DOMAIN R = Index(term_size)
  BY <1>1 DEF Restored, CellsOf
<1>4. R \in CellsOf(term_size)
  BY <1>1, <1>2 DEF Restored, CellsOf
<1> QED BY <1>2, <1>3, <1>4 DEF Clean

-----------------------------------------------------------------------------
(* The program                                                             *)

\* What a program writes, it writes among no marked cells, or it is remembered.
LEMMA WroteList ==
  ASSUME IInv, NEW cells \in BOOLEAN, Output(cells),
         ~cells => term_cell' = term_cell, term_cell' \in CellsOf(term_size),
         ~overwritten /\ Clean(term_cell) => Clean(term_cell'),
         \/ alt_term_cell' = alt_term_cell
         \/ alt_term_cell' = <<>>
         \/ cells /\ alt_term_cell' = term_cell
  PROVE  ListKept'
<1>1. /\ UNCHANGED <<term_size, copy>>
      /\ overwritten' = (overwritten \/ (cells /\ copy # <<>>))
  BY DEF Output, selection
<1>2. term_cell \in CellsOf(term_size)
  BY DEF IInv, ModesTypes
<1>3. SUFFICES ASSUME ~overwritten, cells => copy = <<>>
               PROVE  /\ \A i \in Index(term_size) :
                           term_cell'[i].given = IF i \in DOMAIN copy THEN copy[i]
                                                 ELSE term_cell'[i].ink
                      /\ alt_term_cell' # <<>> => Clean(alt_term_cell')
  BY <1>1 DEF ListKept
<1>4. CASE ~cells
  BY <1>3, <1>4 DEF IInv, ListKept
<1>5. CASE cells
  <2>1. DOMAIN copy = {}
    BY <1>3, <1>5, NoIndex
  <2>2. Clean(term_cell)
    BY <1>2, <1>3, <2>1 DEF IInv, ListKept, Clean, CellsOf
  <2>3. Clean(term_cell')
    BY <1>3, <2>2
  <2>4. \A i \in Index(term_size) : term_cell'[i].given = term_cell'[i].ink
    BY <2>3 DEF Clean, CellsOf
  <2>5. alt_term_cell' # <<>> => Clean(alt_term_cell')
    BY <1>3, <2>2 DEF IInv, ListKept
  <2> QED BY <2>1, <2>4, <2>5
<1> QED BY <1>4, <1>5

\* An output that leaves what was put aside.
LEMMA OutputStep ==
  ASSUME IInv, NEW cells \in BOOLEAN, Output(cells),
         UNCHANGED <<alt_term_cell, before>>,
         ~cells => term_cell' = term_cell, term_cell' \in CellsOf(term_size),
         Clean(term_cell) => Clean(term_cell'),
         pen' \in [ink : Inks, reverse : BOOLEAN],
         margin' \in Region, astray' \in BOOLEAN, astray => astray',
         cur' \in Cursor, cur'.w <= term_size.w, cur'.h < term_size.h \/ astray',
         save_cur' = save_cur \/ save_cur' = cur
  PROVE  IInv'
<1>1. /\ UNCHANGED <<term_size, copy, start_idx, alt_term_cell, before>>
      /\ overwritten' \in BOOLEAN
  BY DEF Output, selection, IInv, ModesTypes
<1>2. ModesTypes'
  BY <1>1 DEF IInv, ModesTypes
<1>3. PlacesFit'
  <2>1. /\ cur.w <= term_size.w /\ (cur.h < term_size.h \/ astray)
        /\ save_cur.w <= term_size.w /\ (save_cur.h < term_size.h \/ astray)
        /\ DOMAIN copy \subseteq Index(term_size) /\ start_idx \in Index(term_size)
    BY DEF IInv, PlacesFit
  <2> QED BY <1>1, <2>1 DEF PlacesFit
<1>4. ListKept'
  BY WroteList
<1>5. AsideKept'
  BY <1>1 DEF IInv, AsideKept
<1> QED BY <1>2, <1>3, <1>4, <1>5 DEF IInv

\* What a character may leave: cells of the screen, none of other colours than
\* those it was given, and a cursor in a column or behind the last.
IsAt(s) ==
  /\ s \in [cells : CellsOf(term_size), h : Nat, w : Nat]
  /\ s.w <= term_size.w
  /\ Clean(term_cell) => Clean(s.cells)

LEMMA AtIs ==
  ASSUME NEW c \in CellsOf(term_size), NEW h \in Nat, NEW w \in Nat, w <= term_size.w,
         Clean(term_cell) => Clean(c)
  PROVE  IsAt(At(c, h, w)) /\ At(c, h, w).h = h /\ At(c, h, w).w = w
BY DEF At, IsAt

LEMMA HereIs ==
  ASSUME IInv
  PROVE  /\ IsSize(term_size) /\ term_size.w \in Nat \ {0} /\ term_size.h \in Nat \ {0}
         /\ cur \in Cursor /\ cur.h \in Nat /\ cur.w \in Nat /\ cur.w <= term_size.w
         /\ term_cell \in CellsOf(term_size) /\ margin \in Region
         /\ pen \in [ink : Inks, reverse : BOOLEAN] /\ Bottom \in Nat
<1>1. /\ IsSize(term_size) /\ term_size.w \in Nat \ {0} /\ term_size.h \in Nat \ {0}
  BY SizeIs DEF IInv, ModesTypes, IsSize
<1>2. Bottom \in Nat
  BY <1>1 DEF IInv, ModesTypes, Bottom, Region
<1> QED BY <1>1, <1>2 DEF IInv, ModesTypes, PlacesFit, Cursor

LEMMA WrapIs ==
  ASSUME IInv, NEW s, IsAt(s)
  PROVE  IsAt(Wrap(s)) /\ Wrap(s).w = 0
<1> DEFINE h == s.h + 1
           c == s.cells
           last == term_size.h - 1
           up == Up(c, FALSE)
<1>1. /\ h \in Nat /\ c \in CellsOf(term_size) /\ (Clean(term_cell) => Clean(c))
      /\ 0 \in Nat /\ 0 <= term_size.w /\ last \in Nat /\ Bottom \in Nat
  BY HereIs DEF IsAt
<1>2. /\ scroll_region_up(c) \in CellsOf(term_size) /\ (Clean(c) => Clean(scroll_region_up(c)))
      /\ up \in CellsOf(term_size) /\ (Clean(c) => Clean(up))
  BY <1>1, HereIs, RegionIs, UpIs
<1>3. \/ Wrap(s) = At(scroll_region_up(c), Bottom, 0)
      \/ Wrap(s) = At(up, last, 0)
      \/ Wrap(s) = At(c, h, 0)
  BY DEF Wrap
<1> HIDE DEF h, c, last, up
<1>4. CASE Wrap(s) = At(scroll_region_up(c), Bottom, 0)
  BY <1>1, <1>2, <1>4, AtIs
<1>5. CASE Wrap(s) = At(up, last, 0)
  BY <1>1, <1>2, <1>5, AtIs
<1>6. CASE Wrap(s) = At(c, h, 0)
  BY <1>1, <1>6, AtIs
<1> QED BY <1>3, <1>4, <1>5, <1>6

LEMMA PutIs ==
  ASSUME IInv, NEW s, IsAt(s), s.w < term_size.w, NEW g \in Glyph
  PROVE  IsAt(Put(s, g))
<1> DEFINE i == s.h * term_size.w + s.w
           new == Cell(g, Shown(pen))
           c == [s.cells EXCEPT ![i] = new]
           w == s.w + 1
<1>1. new \in CellType /\ new.ink = new.given
  <2>1. Shown(pen) \in Inks
    BY HereIs DEF Shown, Inks
  <2> QED BY <2>1, CellIs
<1>2. /\ s.cells \in CellsOf(term_size) /\ s.h \in Nat /\ w \in Nat /\ w <= term_size.w
      /\ Clean(term_cell) => Clean(s.cells)
  BY HereIs DEF IsAt
<1>3. Put(s, g) = s \/ Put(s, g) = At(c, s.h, w)
  BY DEF Put
<1> HIDE DEF i, new
<1>4. c \in CellsOf(term_size) /\ (Clean(s.cells) => Clean(c))
  BY <1>1, <1>2 DEF CellsOf, Clean
<1> HIDE DEF c, w
<1> QED BY <1>2, <1>3, <1>4, AtIs

\* A character ends on the screen.
LEMMA SettleIs ==
  ASSUME IInv, NEW s, IsAt(s)
  PROVE  IsAt(Settle(s)) /\ Settle(s).h \in Nat /\ Settle(s).h < term_size.h
<1> DEFINE c == s.cells
           d == IF margin.set THEN c ELSE Up(c, TRUE)
           h == term_size.h - 1
<1>1. /\ c \in CellsOf(term_size) /\ (Clean(term_cell) => Clean(c))
      /\ h \in Nat /\ h < term_size.h /\ s.h \in Nat /\ s.w \in Nat /\ s.w <= term_size.w
  BY HereIs DEF IsAt
<1>2. d \in CellsOf(term_size) /\ (Clean(term_cell) => Clean(d))
  BY <1>1, UpIs
<1>3. (s.h < term_size.h /\ Settle(s) = s) \/ Settle(s) = At(d, h, s.w)
  BY DEF Settle
<1> HIDE DEF c, d, h
<1> QED BY <1>1, <1>2, <1>3, AtIs

LEMMA WritesStep ==
  ASSUME IInv, NEW s, IsAt(s), s.h < term_size.h, Writes(s)
  PROVE  IInv'
<1> DEFINE cells == s.cells # term_cell
<1>1. /\ Output(cells) /\ cells \in BOOLEAN
      /\ term_cell' = s.cells /\ cur' = [cur EXCEPT !.h = s.h, !.w = s.w]
      /\ UNCHANGED <<margin, astray, alt_term_cell, save_cur, pen, before>>
  <2>1. OutputOnScreen(cells)
    BY DEF Writes
  <2>2. Output(cells) /\ UNCHANGED <<margin, astray>>
    BY <2>1 DEF OutputOnScreen
  <2> QED BY <2>2 DEF Writes
<1>2. /\ s.cells \in CellsOf(term_size) /\ s.h \in Nat /\ s.w \in Nat /\ s.w <= term_size.w
      /\ Clean(term_cell) => Clean(s.cells)
  BY DEF IsAt
<1>3. cur' \in Cursor /\ cur'.h = s.h /\ cur'.w = s.w
  <2>1. cur \in Cursor
    BY HereIs
  <2> QED BY <1>1, <1>2, <2>1 DEF Cursor
<1>4. pen' \in [ink : Inks, reverse : BOOLEAN] /\ margin' \in Region /\ astray' \in BOOLEAN
  BY <1>1 DEF IInv, ModesTypes
<1>5. ~cells => term_cell' = term_cell
  BY <1>1
<1>6. cur'.w <= term_size.w /\ cur'.h < term_size.h
  BY <1>2, <1>3
<1>7. /\ term_cell' \in CellsOf(term_size) /\ (Clean(term_cell) => Clean(term_cell'))
      /\ astray => astray'
  BY <1>1, <1>2
<1> HIDE DEF cells
<1> QED BY <1>1, <1>3, <1>4, <1>5, <1>6, <1>7, OutputStep

LEMMA TypedStep ==
  ASSUME IInv, NEW g \in Glyph, Typed(g)
  PROVE  IInv'
<1> DEFINE p == IF cur.w >= term_size.w THEN Wrap(Here) ELSE Here
           q == Put(p, g)
           s == Settle(q)
<1>1. IsAt(Here) /\ Here.w = cur.w
  BY HereIs, AtIs DEF Here
<1>2. IsAt(p) /\ p.w < term_size.w
  <2>1. CASE cur.w >= term_size.w
    BY <1>1, <2>1, HereIs, WrapIs
  <2>2. CASE ~(cur.w >= term_size.w)
    BY <1>1, <2>2, HereIs
  <2> QED BY <2>1, <2>2
<1>3. Writes(s)
  BY DEF Typed
<1> HIDE DEF p
<1>4. IsAt(q)
  BY <1>2, PutIs
<1> HIDE DEF q
<1>5. IsAt(s) /\ s.h < term_size.h
  BY <1>4, SettleIs
<1> HIDE DEF s
<1> QED BY <1>3, <1>5, WritesStep

LEMMA LineFeedStep ==
  ASSUME IInv, LineFeed
  PROVE  IInv'
<1> DEFINE p == IF margin.set /\ cur.h = Bottom
                  THEN At(scroll_region_up(term_cell), cur.h, cur.w)
                  ELSE At(term_cell, cur.h + 1, cur.w)
           s == Settle(p)
<1>1. IsAt(p)
  <2>1. /\ scroll_region_up(term_cell) \in CellsOf(term_size)
        /\ Clean(term_cell) => Clean(scroll_region_up(term_cell))
    BY HereIs, RegionIs
  <2>2. cur.h + 1 \in Nat
    BY HereIs
  <2> QED BY <2>1, <2>2, HereIs, AtIs
<1>2. Writes(s)
  BY DEF LineFeed
<1> HIDE DEF p
<1>3. IsAt(s) /\ s.h < term_size.h
  BY <1>1, SettleIs
<1> HIDE DEF s
<1> QED BY <1>2, <1>3, WritesStep

\* ESC E and CSI r, which lead the cursor where they like, and say so.
LEMMA LedStep ==
  ASSUME IInv, NEW h \in Nat, Led(h), margin' \in Region
  PROVE  IInv'
<1>1. /\ Output(FALSE) /\ UNCHANGED <<term_cell, alt_term_cell, save_cur, pen, before>>
      /\ cur' = [cur EXCEPT !.h = h, !.w = 0] /\ astray' = (astray \/ h >= term_size.h)
  BY DEF Led
<1>2. cur' \in Cursor /\ cur'.h = h /\ cur'.w = 0
  <2>1. cur \in Cursor
    BY HereIs
  <2> QED BY <1>1, <2>1 DEF Cursor
<1>3. /\ astray' \in BOOLEAN /\ (astray => astray')
      /\ cur'.w <= term_size.w /\ (cur'.h < term_size.h \/ astray')
  <2>1. astray \in BOOLEAN
    BY DEF IInv, ModesTypes
  <2>2. (h < term_size.h \/ h >= term_size.h) /\ 0 <= term_size.w
    BY HereIs
  <2>3. UNCHANGED term_size
    BY <1>1 DEF Output
  <2>4. astray' \in BOOLEAN /\ (astray => astray') /\ (h < term_size.h \/ astray')
    BY <1>1, <2>1, <2>2
  <2> QED BY <1>2, <2>2, <2>4
<1>4. /\ term_cell' \in CellsOf(term_size) /\ (Clean(term_cell) => Clean(term_cell'))
      /\ pen' \in [ink : Inks, reverse : BOOLEAN]
  BY <1>1, HereIs
<1>5. UNCHANGED <<alt_term_cell, before>> /\ save_cur' = save_cur /\ term_cell' = term_cell
  BY <1>1
<1>6. Output(FALSE) /\ FALSE \in BOOLEAN
  BY <1>1
<1> QED BY <1>2, <1>3, <1>4, <1>5, <1>6, OutputStep, ZenonT(60)

LEMMA AstrayStep ==
  ASSUME IInv, NEL \/ \E p, q \in Param : DECSTBM(p, q)
  PROVE  IInv' /\ before' = before
<1>1. CASE NEL
  <2>1. margin' \in Region /\ cur.h + 1 \in Nat /\ Led(cur.h + 1)
    BY <1>1, HereIs DEF NEL
  <2>2. IInv'
    BY <2>1, LedStep
  <2> QED BY <2>1, <2>2 DEF Led
<1>2. ASSUME NEW p \in Param, NEW q \in Param, DECSTBM(p, q)
      PROVE  IInv' /\ before' = before
  <2>1. p \in Nat /\ q \in Nat
    BY <1>2, ModesAssumption
  <2> DEFINE top == IF p > 0 THEN p - 1 ELSE 0
             bottom == IF q > 0 THEN q - 1 ELSE term_size.h - 1
  <2>2. top \in Nat /\ bottom \in Nat
    BY <2>1, HereIs
  <2>3. margin' = [set |-> TRUE, top |-> top, bottom |-> bottom] /\ Led(margin'.top)
    BY <1>2 DEF DECSTBM
  <2> HIDE DEF top, bottom
  <2>4. margin' \in Region /\ margin'.top \in Nat
    BY <2>2, <2>3 DEF Region
  <2>5. IInv'
    BY <2>3, <2>4, LedStep
  <2> QED BY <2>3, <2>5 DEF Led
<1> QED BY <1>1, <1>2

\* The control functions that write nothing.
LEMMA ControlStep ==
  ASSUME IInv,
         \/ \E ink \in Colours, reverse \in BOOLEAN : SGR(ink, reverse)
         \/ \E i \in Index(term_size) : CUP(i)
         \/ SaveCursor \/ RestoreCursor
         \/ \E mode \in {"AP_MODE", "NORMAL_MODE"} : CursorKeys(mode)
         \/ \E t \in Clip : SetClipboard(t)
  PROVE  IInv'
<1>1. /\ IsSize(term_size) /\ cur \in Cursor /\ save_cur \in Cursor
      /\ cur.w <= term_size.w /\ (cur.h < term_size.h \/ astray)
      /\ save_cur.w <= term_size.w /\ (save_cur.h < term_size.h \/ astray)
      /\ margin \in Region /\ astray \in BOOLEAN
      /\ term_cell \in CellsOf(term_size) /\ pen \in [ink : Inks, reverse : BOOLEAN]
  BY SizeIs DEF IInv, ModesTypes, PlacesFit
<1>2. /\ Output(FALSE) /\ UNCHANGED <<term_cell, alt_term_cell, before, margin, astray>>
  BY DEF OutputOnScreen, SGR, CUP, SaveCursor, RestoreCursor, CursorKeys, SetClipboard
<1>3. save_cur' = save_cur \/ save_cur' = cur
  BY DEF SGR, CUP, SaveCursor, RestoreCursor, CursorKeys, SetClipboard
<1>4. pen' \in [ink : Inks, reverse : BOOLEAN]
  <2>1. ASSUME NEW ink \in Colours, NEW reverse \in BOOLEAN, SGR(ink, reverse)
        PROVE  pen' \in [ink : Inks, reverse : BOOLEAN]
    BY <2>1, ModesAssumption DEF SGR, Inks
  <2> QED BY <1>1, <2>1 DEF CUP, SaveCursor, RestoreCursor, CursorKeys, SetClipboard
<1>5. cur' \in Cursor /\ cur'.w <= term_size.w /\ (cur'.h < term_size.h \/ astray)
  <2>1. ASSUME NEW i \in Index(term_size), CUP(i)
        PROVE  cur' \in Cursor /\ cur'.w <= term_size.w /\ (cur'.h < term_size.h \/ astray)
    <3>1. i \div term_size.w \in 0 .. term_size.h - 1 /\ i % term_size.w \in 0 .. term_size.w - 1
      BY <1>1, <2>1, PlaceOf
    <3>2. cur' = [cur EXCEPT !.h = i \div term_size.w, !.w = i % term_size.w]
      BY <2>1 DEF CUP
    <3>3. term_size.w \in Nat /\ term_size.h \in Nat
      BY <1>1 DEF IsSize
    <3> DEFINE q == i \div term_size.w
               m == i % term_size.w
    <3>4. cur' = [cur EXCEPT !.h = q, !.w = m] /\ q \in Nat /\ m \in Nat
          /\ q < term_size.h /\ m <= term_size.w
      BY <3>1, <3>2, <3>3
    <3> HIDE DEF q, m
    <3> QED BY <1>1, <3>4 DEF Cursor
  <2>2. ASSUME NEW mode \in {"AP_MODE", "NORMAL_MODE"}, CursorKeys(mode)
        PROVE  cur' \in Cursor /\ cur'.w <= term_size.w /\ (cur'.h < term_size.h \/ astray)
    BY <1>1, <2>2 DEF CursorKeys, Cursor
  <2> QED BY <1>1, <2>1, <2>2 DEF SGR, SaveCursor, RestoreCursor, SetClipboard
<1>6. margin' \in Region /\ astray' \in BOOLEAN /\ (astray => astray')
      /\ (cur'.h < term_size.h \/ astray')
  BY <1>1, <1>2, <1>5
<1> QED BY <1>1, <1>2, <1>3, <1>4, <1>5, <1>6, OutputStep

LEMMA RISStep ==
  ASSUME IInv, RIS
  PROVE  IInv'
<1>1. /\ term_size.w \in Nat \ {0} /\ term_size.h \in Nat \ {0} /\ cur \in Cursor
      /\ pen \in [ink : Inks, reverse : BOOLEAN]
  BY SizeIs DEF IInv, ModesTypes, IsSize
<1>2. /\ Output(TRUE) /\ term_cell' = Blanks(term_size, "plain")
      /\ cur' = [cur EXCEPT !.h = 0, !.w = 0]
      /\ UNCHANGED <<alt_term_cell, save_cur, pen, before, margin, astray>>
  BY DEF RIS, OutputOnScreen
<1>3. term_cell' \in CellsOf(term_size) /\ Clean(term_cell')
  BY <1>2, BlanksAre
<1>4. cur' \in Cursor /\ cur'.h = 0 /\ cur'.w = 0
  <2>1. cur \in Cursor /\ cur' = [cur EXCEPT !.h = 0, !.w = 0]
    BY <1>1, <1>2
  <2> QED BY <2>1 DEF Cursor
<1>5. cur'.h < term_size.h /\ cur'.w <= term_size.w
  BY <1>1, <1>4
<1>6. margin' \in Region /\ astray' \in BOOLEAN /\ (astray => astray')
  BY <1>2 DEF IInv, ModesTypes
<1> QED BY <1>1, <1>2, <1>3, <1>4, <1>5, <1>6, OutputStep

-----------------------------------------------------------------------------
(* The alternate screen                                                    *)

\* A screen has a cell.
LEMMA NotNothing ==
  ASSUME NEW s \in Size, NEW c \in CellsOf(s)
  PROVE  c # <<>>
<1>1. 0 \in DOMAIN c
  BY SizeIs DEF CellsOf
<1> QED BY <1>1, NoIndex

LEMMA EnterStep ==
  ASSUME IInv, EnterAlternate
  PROVE  IInv' /\ before' # <<>>
<1>1. /\ term_size \in Size /\ IsSize(term_size) /\ term_cell \in CellsOf(term_size)
      /\ cur \in Cursor /\ pen \in [ink : Inks, reverse : BOOLEAN]
      /\ copy \in [DOMAIN copy -> Inks]
      /\ overwritten \in BOOLEAN /\ margin \in Region /\ astray \in BOOLEAN
  BY SizeIs DEF IInv, ModesTypes
<1>2. /\ Output(TRUE) /\ save_cur' = cur /\ alt_term_cell' = term_cell
      /\ term_cell' = Blanks(term_size, "plain")
      /\ before' = [cells |-> term_cell, size |-> term_size, least |-> term_size]
      /\ UNCHANGED <<cur, pen, margin, astray>>
  BY DEF EnterAlternate, OutputOnScreen
<1>3. UNCHANGED <<term_size, copy, start_idx>> /\ overwritten' \in BOOLEAN
  BY <1>1, <1>2 DEF Output, selection
<1>4. term_cell' \in CellsOf(term_size) /\ Clean(term_cell')
  BY <1>2, BlanksAre
<1>5. ModesTypes'
  BY <1>1, <1>2, <1>3, <1>4 DEF ModesTypes
<1>6. PlacesFit'
  BY <1>2, <1>3 DEF IInv, PlacesFit
<1>7. ListKept'
  BY <1>2, <1>4, WroteList
<1>8. AsideKept'
  <2>1. before' \in [cells : UNION {CellsOf(s) : s \in Size}, size : Size,
                     least : [w : Nat \ {0}, h : Nat \ {0}]]
    <3>1. term_cell \in UNION {CellsOf(s) : s \in Size}
      BY <1>1
    <3>2. term_size \in [w : Nat \ {0}, h : Nat \ {0}]
      BY <1>1 DEF IsSize
    <3> QED BY <1>1, <1>2, <3>1, <3>2
  <2>2. /\ before'.least = term_size /\ before'.size = term_size
        /\ before'.cells = term_cell
    BY <1>2
  <2>3. term_size.w <= term_size.w /\ term_size.h <= term_size.h
    BY <1>1 DEF IsSize
  <2> QED BY <1>1, <1>2, <1>3, <2>1, <2>2, <2>3 DEF AsideKept
<1>9. before' # <<>>
  <2>1. DOMAIN before' = {"cells", "size", "least"}
    BY <1>2
  <2> QED BY <2>1, NoIndex
<1> QED BY <1>5, <1>6, <1>7, <1>8, <1>9 DEF IInv

LEMMA LeaveStep ==
  ASSUME IInv, LeaveAlternate
  PROVE  /\ IInv'
         /\ before # <<>> =>
              \A r \in 0 .. before.least.h - 1, x \in 0 .. before.least.w - 1 :
                term_cell'[r * term_size.w + x].chr = before.cells[r * before.size.w + x].chr
<1> DEFINE cells == alt_term_cell # <<>>
<1>1. /\ term_size \in Size /\ term_cell \in CellsOf(term_size)
      /\ cells => alt_term_cell \in CellsOf(term_size)
      /\ save_cur \in Cursor /\ pen \in [ink : Inks, reverse : BOOLEAN]
      /\ copy \in [DOMAIN copy -> Inks]
      /\ overwritten \in BOOLEAN /\ margin \in Region /\ astray \in BOOLEAN
  BY DEF IInv, ModesTypes
<1>2. /\ Output(cells) /\ cells \in BOOLEAN
      /\ term_cell' = IF cells THEN alt_term_cell ELSE term_cell
      /\ alt_term_cell' = <<>> /\ cur' = save_cur /\ before' = <<>>
      /\ UNCHANGED <<save_cur, pen, margin, astray>>
  <2>1. cells \in BOOLEAN
    OBVIOUS
  <2> QED BY <2>1 DEF LeaveAlternate, OutputOnScreen
<1>3. UNCHANGED <<term_size, copy, start_idx>> /\ overwritten' \in BOOLEAN
  BY <1>1, <1>2 DEF Output, selection
<1>4. term_cell' \in CellsOf(term_size)
  BY <1>1, <1>2
<1>5. ~overwritten /\ Clean(term_cell) => Clean(term_cell')
  BY <1>2 DEF IInv, ListKept
<1>6. ~cells => term_cell' = term_cell
  BY <1>2
<1>7. before # <<>> =>
        \A r \in 0 .. before.least.h - 1, x \in 0 .. before.least.w - 1 :
          term_cell'[r * term_size.w + x].chr = before.cells[r * before.size.w + x].chr
  <2> SUFFICES ASSUME before # <<>>
               PROVE  \A r \in 0 .. before.least.h - 1, x \in 0 .. before.least.w - 1 :
                        term_cell'[r * term_size.w + x].chr
                          = before.cells[r * before.size.w + x].chr
    OBVIOUS
  <2>1. alt_term_cell \in CellsOf(term_size)
    BY DEF IInv, AsideKept
  <2>2. cells
    BY <1>1, <2>1, NotNothing
  <2>3. term_cell' = alt_term_cell
    BY <1>2, <2>2
  <2> QED BY <2>3 DEF IInv, AsideKept
<1> HIDE DEF cells
<1>8. ListKept'
  BY <1>2, <1>4, <1>5, <1>6, WroteList
<1>9. ModesTypes'
  BY <1>1, <1>2, <1>3, <1>4 DEF ModesTypes
<1>10. PlacesFit'
  BY <1>2, <1>3 DEF IInv, PlacesFit
<1>11. AsideKept'
  BY <1>2 DEF AsideKept
<1> QED BY <1>7, <1>8, <1>9, <1>10, <1>11 DEF IInv

-----------------------------------------------------------------------------
(* The mouse                                                               *)

\* Marked cells have their colours in the list.
LEMMA MarkStep ==
  ASSUME IInv, MouseRest, NEW from \in Index(term_size), NEW i \in Index(term_size),
         Mark(Unmarked, from, i)
  PROVE  IInv'
<1> DEFINE c == Unmarked
           range == {k \in Range1(from, i) : c[k].ink # "marked"}
<1>1. /\ term_size \in Size /\ IsSize(term_size)
      /\ c \in CellsOf(term_size) /\ (~overwritten => Clean(c))
  BY RestoredIs, SizeIs DEF Unmarked, IInv, ModesTypes
<1>2. range \subseteq Index(term_size)
  BY <1>1 DEF Range1, Index, IsSize
<1>3. /\ copy' = [k \in range |-> c[k].ink]
      /\ term_cell' = [k \in DOMAIN c |-> IF k \in range THEN [c[k] EXCEPT !.ink = "marked"]
                                           ELSE c[k]]
      /\ start_idx' = from
  BY DEF Mark
<1>4. UNCHANGED <<term_size, alt_term_cell, cur, save_cur, pen, before, overwritten, margin, astray>>
  BY DEF MouseRest
<1> HIDE DEF c, range
<1>5. ASSUME NEW k \in Index(term_size)
      PROVE  /\ term_cell'[k] \in CellType /\ (k \in range => c[k].ink \in Inks)
             /\ term_cell'[k].given = c[k].given
             /\ k \notin range => term_cell'[k].ink = c[k].ink
  <2>1. c[k] \in CellType /\ k \in DOMAIN c /\ "marked" \in Inks
    BY <1>1 DEF CellsOf, Inks
  <2>2. CASE k \in range
    <3>1. term_cell'[k] = [c[k] EXCEPT !.ink = "marked"]
      BY <1>3, <2>1, <2>2
    <3> QED BY <2>1, <2>2, <3>1 DEF CellType
  <2>3. CASE k \notin range
    <3>1. term_cell'[k] = c[k]
      BY <1>3, <2>1, <2>3
    <3> QED BY <2>1, <2>3, <3>1
  <2> QED BY <2>2, <2>3
<1>6. term_cell' \in CellsOf(term_size)
  <2>1. DOMAIN c = Index(term_size)
    BY <1>1 DEF CellsOf
  <2>2. term_cell' = [k \in Index(term_size) |-> term_cell'[k]]
    BY <1>3, <2>1
  <2> QED BY <1>5, <2>2 DEF CellsOf
<1>7. copy' \in [DOMAIN copy' -> Inks] /\ DOMAIN copy' = range
  BY <1>2, <1>3, <1>5
<1>8. ModesTypes'
  BY <1>4, <1>6, <1>7 DEF IInv, ModesTypes
<1>9. PlacesFit'
  BY <1>2, <1>3, <1>4, <1>7 DEF IInv, PlacesFit
<1>10. ListKept'
  <2>1. ASSUME ~overwritten, NEW k \in Index(term_size)
        PROVE  term_cell'[k].given = IF k \in DOMAIN copy' THEN copy'[k] ELSE term_cell'[k].ink
    <3>1. c[k].given = c[k].ink
      BY <1>1, <2>1 DEF Clean, CellsOf
    <3>2. k \in range => copy'[k] = c[k].ink
      BY <1>3
    <3> QED BY <1>5, <1>7, <3>1, <3>2
  <2>2. ~overwritten /\ alt_term_cell # <<>> => Clean(alt_term_cell)
    BY DEF IInv, ListKept
  <2> QED BY <1>4, <2>1, <2>2 DEF ListKept
<1>11. AsideKept'
  BY <1>4 DEF IInv, AsideKept
<1> QED BY <1>8, <1>9, <1>10, <1>11 DEF IInv

LEMMA MouseStep ==
  ASSUME IInv, BeginSelection \/ Drag \/ EndSelection
  PROVE  IInv' /\ before' = before
<1>1. MouseRest /\ before' = before
  BY DEF BeginSelection, Drag, EndSelection, MouseRest
<1>2. 0 \in Index(term_size) /\ start_idx \in Index(term_size)
  BY SizeIs DEF IInv, ModesTypes, PlacesFit
<1>3. UNCHANGED <<term_size, alt_term_cell, cur, save_cur, pen, before, overwritten, margin, astray>>
  BY <1>1 DEF MouseRest
<1>4. CASE \E i \in Index(term_size) : Mark(Unmarked, i, i)
  BY <1>1, <1>4, MarkStep
<1>5. CASE \E i \in Index(term_size) :
             Mark(Unmarked, IF start_idx_block THEN start_idx ELSE i, i)
  <2>1. PICK i \in Index(term_size) :
          Mark(Unmarked, IF start_idx_block THEN start_idx ELSE i, i)
    BY <1>5
  <2> DEFINE from == IF start_idx_block THEN start_idx ELSE i
  <2>2. from \in Index(term_size) /\ Mark(Unmarked, from, i)
    BY <1>2, <2>1
  <2> HIDE DEF from
  <2> QED BY <1>1, <2>2, MarkStep
<1>6. CASE start_idx' = 0 /\ UNCHANGED <<copy, term_cell>>
  <2>1. ModesTypes' /\ ListKept' /\ AsideKept'
    BY <1>3, <1>6 DEF IInv, ModesTypes, ListKept, AsideKept
  <2>2. PlacesFit'
    BY <1>2, <1>3, <1>6 DEF IInv, PlacesFit
  <2> QED BY <1>1, <2>1, <2>2 DEF IInv
<1>7. CASE term_cell' = Restored(term_cell) /\ copy' = <<>> /\ start_idx' = start_idx
  <2>1. /\ term_cell' \in CellsOf(term_size)
        /\ ~overwritten => Clean(term_cell')
    BY <1>7, RestoredIs
  <2>2. copy' \in [DOMAIN copy' -> Inks] /\ DOMAIN copy' = {}
    BY <1>7, NoIndex
  <2>3. ModesTypes' /\ AsideKept'
    BY <1>3, <2>1, <2>2 DEF IInv, ModesTypes, AsideKept
  <2>4. PlacesFit'
    BY <1>3, <1>7, <2>2 DEF IInv, PlacesFit
  <2>5. ListKept'
    BY <1>3, <2>1, <2>2 DEF IInv, ListKept, Clean, CellsOf
  <2> QED BY <1>1, <2>3, <2>4, <2>5 DEF IInv
<1> QED BY <1>1, <1>4, <1>5, <1>6, <1>7 DEF BeginSelection, Drag, EndSelection

-----------------------------------------------------------------------------
(* Another size                                                            *)

LEMMA WithinIs ==
  ASSUME NEW c \in Cursor, NEW s \in Size
  PROVE  Within(c, s) \in Cursor /\ Within(c, s).h < s.h /\ Within(c, s).w <= s.w
<1>1. s.w \in Nat \ {0} /\ s.h \in Nat \ {0} /\ c.h \in Nat /\ c.w \in Nat
  BY SizeIs DEF IsSize, Cursor
<1> DEFINE h == Less(c.h, s.h - 1)
           w == Less(c.w, s.w - 1)
<1>2. h \in Nat /\ w \in Nat /\ h < s.h /\ w <= s.w
  BY <1>1 DEF Less
<1>3. Within(c, s) = [c EXCEPT !.h = h, !.w = w]
  BY DEF Within
<1> HIDE DEF h, w
<1> QED BY <1>2, <1>3 DEF Cursor

LEMMA ResizeStep ==
  ASSUME IInv, NEW s \in Size, resize_terminal(s)
  PROVE  IInv' /\ (before # <<>> => before' # <<>>)
<1> DEFINE fill == Cell(Blank, pen.ink)
<1>1. /\ term_size \in Size /\ IsSize(term_size) /\ IsSize(s)
      /\ s.w \in Nat \ {0} /\ s.h \in Nat \ {0}
      /\ term_size.w \in Nat \ {0} /\ term_size.h \in Nat \ {0}
      /\ cur \in Cursor /\ save_cur \in Cursor /\ pen \in [ink : Inks, reverse : BOOLEAN]
      /\ alt_term_cell = <<>> \/ alt_term_cell \in CellsOf(term_size)
  BY SizeIs DEF IInv, ModesTypes, IsSize
<1>2. fill \in CellType /\ fill.ink = fill.given
  BY <1>1, CellIs
<1>3. /\ term_cell' = Reshaped(Restored(term_cell), term_size, s, fill)
      /\ alt_term_cell' = IF alt_term_cell = <<>> THEN <<>>
                          ELSE Reshaped(alt_term_cell, term_size, s, fill)
      /\ term_size' = s /\ cur' = Within(cur, s) /\ save_cur' = Within(save_cur, s)
      /\ copy' = <<>> /\ start_idx' = 0
      /\ margin' = [margin EXCEPT !.set = FALSE] /\ astray' = FALSE
      /\ UNCHANGED <<pen, overwritten>>
  BY DEF resize_terminal, AltReshaped, SavedWithin, CopyAfter
<1>4. before' = IF before = <<>> THEN <<>>
                ELSE [before EXCEPT !.least = [w |-> Less(before.least.w, s.w),
                                               h |-> Less(before.least.h, s.h)]]
  BY DEF resize_terminal
<1> HIDE DEF fill
<1>5. term_cell' \in CellsOf(s) /\ (~overwritten => Clean(term_cell'))
  BY <1>1, <1>2, <1>3, RestoredIs, ReshapedIs
<1>6. ASSUME alt_term_cell # <<>>
      PROVE  /\ alt_term_cell' \in CellsOf(s)
             /\ ~overwritten => Clean(alt_term_cell')
             /\ \A r, x : r \in 0 .. term_size.h - 1 /\ r \in 0 .. s.h - 1
                         /\ x \in 0 .. term_size.w - 1 /\ x \in 0 .. s.w - 1
                  => alt_term_cell'[r * s.w + x] = alt_term_cell[r * term_size.w + x]
  <2>1. ~overwritten => Clean(alt_term_cell)
    BY <1>6 DEF IInv, ListKept
  <2>2. alt_term_cell' \in CellsOf(s) /\ (~overwritten => Clean(alt_term_cell'))
    BY <1>1, <1>2, <1>3, <1>6, <2>1, ReshapedIs
  <2>3. \A r, x : r \in 0 .. term_size.h - 1 /\ r \in 0 .. s.h - 1
                 /\ x \in 0 .. term_size.w - 1 /\ x \in 0 .. s.w - 1
          => alt_term_cell'[r * s.w + x] = alt_term_cell[r * term_size.w + x]
    <3>1. alt_term_cell' = Reshaped(alt_term_cell, term_size, s, fill)
      BY <1>3, <1>6
    <3>2. alt_term_cell \in CellsOf(term_size)
      BY <1>1, <1>6
    <3>3. IsSize(term_size) /\ IsSize(s)
      BY <1>1
    <3> QED BY <1>2, <3>1, <3>2, <3>3, ReshapedPlaces
  <2> QED BY <2>2, <2>3
<1>7. copy' \in [DOMAIN copy' -> Inks] /\ DOMAIN copy' = {}
  BY <1>3, NoIndex
<1>8. /\ cur' \in Cursor /\ cur'.h < s.h /\ cur'.w <= s.w
      /\ save_cur' \in Cursor /\ save_cur'.h < s.h /\ save_cur'.w <= s.w
  BY <1>1, <1>3, WithinIs
<1>9. ModesTypes'
  <2>1. alt_term_cell' = <<>> \/ alt_term_cell' \in CellsOf(s)
    BY <1>3, <1>6
  <2>2. overwritten' \in BOOLEAN
    BY <1>3 DEF IInv, ModesTypes
  <2>3. margin' \in Region
    BY <1>3 DEF IInv, ModesTypes, Region
  <2> QED BY <1>1, <1>3, <1>5, <1>7, <1>8, <2>1, <2>2, <2>3 DEF ModesTypes
<1>10. PlacesFit'
  BY <1>3, <1>7, <1>8, SizeIs DEF PlacesFit
<1>11. ListKept'
  <2>1. ASSUME ~overwritten, NEW i \in Index(s)
        PROVE  term_cell'[i].given = term_cell'[i].ink
    BY <1>5, <2>1 DEF Clean, CellsOf
  <2>2. ~overwritten /\ alt_term_cell' # <<>> => Clean(alt_term_cell')
    BY <1>3, <1>6
  <2> QED BY <1>3, <1>7, <2>1, <2>2 DEF ListKept
<1>12. CASE before = <<>>
  BY <1>4, <1>9, <1>10, <1>11, <1>12 DEF IInv, AsideKept
<1>13. CASE before # <<>>
  <2> DEFINE w == Less(before.least.w, s.w)
             h == Less(before.least.h, s.h)
  <2>1. /\ before \in [cells : UNION {CellsOf(z) : z \in Size}, size : Size,
                       least : [w : Nat \ {0}, h : Nat \ {0}]]
        /\ alt_term_cell \in CellsOf(term_size)
        /\ before.least.w <= term_size.w /\ before.least.h <= term_size.h
        /\ \A r, x : r \in 0 .. before.least.h - 1 /\ x \in 0 .. before.least.w - 1
             => alt_term_cell[r * term_size.w + x].chr = before.cells[r * before.size.w + x].chr
    BY <1>13 DEF IInv, AsideKept
  <2>2. /\ before.least.w \in Nat \ {0} /\ before.least.h \in Nat \ {0}
        /\ before.least.w <= term_size.w /\ before.least.h <= term_size.h
    BY <2>1
  <2>3. /\ w \in Nat \ {0} /\ h \in Nat \ {0} /\ w <= s.w /\ h <= s.h
        /\ w <= before.least.w /\ h <= before.least.h
    BY <1>1, <2>2 DEF Less
  <2>4. before' = [before EXCEPT !.least = [w |-> w, h |-> h]]
    BY <1>4, <1>13
  <2> HIDE DEF w, h
  <2>5. /\ before' \in [cells : UNION {CellsOf(z) : z \in Size}, size : Size,
                        least : [w : Nat \ {0}, h : Nat \ {0}]]
        /\ before'.least.w = w /\ before'.least.h = h
        /\ before'.cells = before.cells /\ before'.size = before.size
    BY <2>1, <2>3, <2>4
  <2>6. before' # <<>>
    <3>1. "least" \in DOMAIN before'
      BY <2>5
    <3> QED BY <3>1, NoIndex
  <2>7. alt_term_cell # <<>>
    BY <1>1, <2>1, NotNothing
  <2>8. ASSUME NEW r \in 0 .. h - 1, NEW x \in 0 .. w - 1
        PROVE  alt_term_cell'[r * s.w + x].chr = before.cells[r * before.size.w + x].chr
    <3>1. /\ r \in 0 .. term_size.h - 1 /\ r \in 0 .. s.h - 1
          /\ x \in 0 .. term_size.w - 1 /\ x \in 0 .. s.w - 1
          /\ r \in 0 .. before.least.h - 1 /\ x \in 0 .. before.least.w - 1
      <4>1. /\ s.w \in Nat /\ s.h \in Nat /\ term_size.w \in Nat /\ term_size.h \in Nat
        BY <1>1
      <4>2. /\ r \in Nat /\ r < h /\ x \in Nat /\ x < w
        BY <2>3
      <4>3. /\ r < term_size.h /\ r < s.h /\ r < before.least.h
        BY <2>2, <2>3, <4>1, <4>2
      <4>4. /\ x < term_size.w /\ x < s.w /\ x < before.least.w
        BY <2>2, <2>3, <4>1, <4>2
      <4> QED BY <2>2, <4>1, <4>2, <4>3, <4>4
    <3>2. alt_term_cell'[r * s.w + x] = alt_term_cell[r * term_size.w + x]
      BY <1>6, <2>7, <3>1
    <3>3. alt_term_cell[r * term_size.w + x].chr = before.cells[r * before.size.w + x].chr
      BY <2>1, <3>1
    <3> QED BY <3>2, <3>3
  <2>9. AsideKept'
    <3>1. term_size' = s
      BY <1>3
    <3>2. alt_term_cell' \in CellsOf(s)
      BY <1>6, <2>7
    <3>3. before'.least.w <= s.w /\ before'.least.h <= s.h
      BY <2>3, <2>5
    <3>4. \A r, x : r \in 0 .. before'.least.h - 1 /\ x \in 0 .. before'.least.w - 1
            => alt_term_cell'[r * s.w + x].chr = before'.cells[r * before'.size.w + x].chr
      BY <2>5, <2>8
    <3> QED BY <2>5, <3>1, <3>2, <3>3, <3>4 DEF AsideKept
  <2> QED BY <1>9, <1>10, <1>11, <2>6, <2>9 DEF IInv
<1> QED BY <1>12, <1>13

-----------------------------------------------------------------------------
(* Every step                                                              *)

\* Only leaving the alternate screen forgets what was put aside.
LEMMA IInvStep ==
  ASSUME IInv, [Next]_vars
  PROVE  IInv' /\ (before # <<>> /\ before' = <<>> => LeaveAlternate)
<1>1. CASE \E g \in Glyph : Typed(g)
  <2>1. before' = before
    BY <1>1 DEF Typed, Writes
  <2> QED BY <1>1, <2>1, TypedStep
<1>2. CASE LineFeed
  BY <1>2, LineFeedStep DEF LineFeed, Writes
<1>3. CASE \/ \E ink \in Colours, reverse \in BOOLEAN : SGR(ink, reverse)
           \/ \E i \in Index(term_size) : CUP(i)
           \/ SaveCursor \/ RestoreCursor
           \/ \E mode \in {"AP_MODE", "NORMAL_MODE"} : CursorKeys(mode)
           \/ \E t \in Clip : SetClipboard(t)
  <2>1. before' = before
    BY <1>3 DEF SGR, CUP, SaveCursor, RestoreCursor, CursorKeys, SetClipboard
  <2>2. IInv'
    BY <1>3, ControlStep
  <2> QED BY <2>1, <2>2
<1>4. CASE RIS
  BY <1>4, RISStep DEF RIS
<1>5. CASE EnterAlternate
  BY <1>5, EnterStep
<1>6. CASE LeaveAlternate
  BY <1>6, LeaveStep
<1>7. CASE BeginSelection \/ Drag \/ EndSelection
  BY <1>7, MouseStep
<1>8. CASE \E s \in Size : resize_terminal(s)
  BY <1>8, ResizeStep
<1>10. CASE NEL \/ \E p, q \in Param : DECSTBM(p, q)
  BY <1>10, AstrayStep
<1>9. CASE UNCHANGED vars
  BY <1>9 DEF vars, selection, bounds, IInv, ModesTypes, PlacesFit, ListKept, AsideKept
<1> QED BY <1>1, <1>2, <1>3, <1>4, <1>5, <1>6, <1>7, <1>8, <1>9, <1>10 DEF Next

LEMMA Always == Spec => []IInv
<1>1. IInv /\ [Next]_vars => IInv'
  BY IInvStep
<1> QED BY <1>1, IInvInit, PTL DEF Spec

\* Whatever sizes the screen has had in whatever order: the marked cells and the
\* place a selection began at are on the screen there is; cursor and saved cursor
\* are too, unless ESC E or CSI r led one below it since the last change of size
\* (escape_sequence_parser.c:64-83 and 497-509, pty_make_v1.c:85-107,
\* mouse_io.c:9-13).
THEOREM PlacesFitAlways == Spec => []PlacesFit
<1>1. IInv => PlacesFit
  BY DEF IInv
<1> QED BY <1>1, Always, PTL

\* However a selection is begun, dragged and ended, or cut off by another size:
\* without output among marked cells, no cell keeps its colours (mouse_io.c:6).
THEOREM SelectionLeavesNoTraceAlways == Spec => []SelectionLeavesNoTrace
<1>1. IInv => SelectionLeavesNoTrace
  <2> SUFFICES ASSUME IInv, copy = <<>>, ~overwritten, NEW i \in DOMAIN term_cell
               PROVE  term_cell[i].ink = term_cell[i].given
    BY DEF SelectionLeavesNoTrace
  <2>1. DOMAIN copy = {} /\ i \in Index(term_size)
    BY NoIndex DEF IInv, ModesTypes, CellsOf
  <2> QED BY <2>1 DEF IInv, ListKept
<1> QED BY <1>1, Always, PTL

\* For every order of sizes: leaving the alternate screen brings back what was
\* shown, as far as it was in each of them (escape_sequence_parser.c:672-694).
THEOREM ScreenComesBackAlways == Spec => ScreenComesBack
<1>1. IInv /\ [Next]_vars =>
        [ before # <<>> /\ before' = <<>> =>
            \A r \in 0 .. before.least.h - 1, x \in 0 .. before.least.w - 1 :
              term_cell'[r * term_size.w + x].chr = before.cells[r * before.size.w + x].chr ]_vars
  BY IInvStep, LeaveStep
<1> QED BY <1>1, Always, PTL DEF Spec, ScreenComesBack
=============================================================================
