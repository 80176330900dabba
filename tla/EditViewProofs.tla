---------------------------- MODULE EditViewProofs ----------------------------
(***************************************************************************)
(* What holds of the edit screen for every size of the terminal, every     *)
(* file, every number of lines that are loaded and every order of keys,    *)
(* clicks and wheel steps: the layout fits the screen, the rows of the view*)
(* are drawn and coloured as their lines are now, a key leaves the cursor  *)
(* in view, and a click hits the line under it.                            *)
(*                                                                         *)
(* The first lemmas say what each helper and handler does to the fields of *)
(* ed; a key is shown to ask for a drawing whenever it changes what is     *)
(* shown (Asks).  The invariants are about one round of the main loop.     *)
(***************************************************************************)
EXTENDS EditView, FiniteSetTheorems, FunctionTheorems, WellFoundedInduction, TLAPS

-----------------------------------------------------------------------------
(* Natural numbers                                                         *)

\* Induction, and the rows that are doubled until there are enough.
LEMMA LeastOf ==
  ASSUME NEW S \in SUBSET Nat, S # {}
  PROVE  \E m \in S : \A n \in S : m <= n
<1> DEFINE R == {ss \in Nat \X Nat : ss[1] < ss[2]}
<1>1. IsWellFoundedOn(R, Nat)
  BY NatLessThanWellFounded DEF OpToRel
<1>2. \A x \in Nat, y \in Nat : x < y => <<x, y>> \in R
  OBVIOUS
<1> HIDE DEF R
<1>3. PICK x \in S : \A y \in S : ~ (<<y, x>> \in R)
  BY <1>1, WFMin
<1>4. \A y \in S : ~ (y < x)
  BY <1>2, <1>3
<1> QED BY <1>4

LEMMA Induction ==
  ASSUME NEW S \in SUBSET Nat, 0 \in S, \A n \in S : n + 1 \in S
  PROVE  S = Nat
<1> SUFFICES ASSUME Nat \ S # {} PROVE FALSE
  OBVIOUS
<1>1. PICK m \in Nat \ S : \A n \in Nat \ S : m <= n
  BY LeastOf
<1>2. m # 0 /\ m - 1 \in Nat
  OBVIOUS
<1>3. m - 1 \in S
  BY <1>1, <1>2
<1> QED BY <1>3, <1>2

LEMMA Subsets ==
  ASSUME NEW n \in Nat
  PROVE  IsFiniteSet(SUBSET (1 .. n)) /\ Cardinality(SUBSET (1 .. n)) = 2 ^ n /\ 2 ^ n \in Nat
<1>1. IsFiniteSet(1 .. n) /\ Cardinality(1 .. n) = n
  BY FS_Interval
<1>2. IsFiniteSet(SUBSET (1 .. n)) /\ Cardinality(SUBSET (1 .. n)) = 2 ^ Cardinality(1 .. n)
  BY <1>1, FS_SUBSET
<1>3. Cardinality(SUBSET (1 .. n)) \in Nat
  BY <1>2, FS_CardinalityType
<1> QED BY <1>1, <1>2, <1>3

LEMMA PowerOfTwo ==
  ASSUME NEW n \in Nat
  PROVE  2 ^ (n + 1) = 2 * 2 ^ n
<1> DEFINE X == SUBSET (1 .. n)
           Y == SUBSET (1 .. n + 1)
           B == {0, 1}
           f == [p \in X \X B |-> IF p[2] = 0 THEN p[1] ELSE p[1] \cup {n + 1}]
<1>1. IsFiniteSet(X) /\ Cardinality(X) = 2 ^ n /\ 2 ^ n \in Nat
  BY Subsets
<1>11. n + 1 \in Nat
  OBVIOUS
<1>2. Cardinality(Y) = 2 ^ (n + 1)
  <2> HIDE DEF f, X, B
  <2> DEFINE m == n + 1
  <2> HIDE DEF m
  <2>1. m \in Nat
    BY <1>11 DEF m
  <2>2. Cardinality(SUBSET (1 .. m)) = 2 ^ m
    BY <2>1, Subsets
  <2> QED BY <2>2 DEF m
<1>3. IsFiniteSet(B) /\ Cardinality(B) = 2
  <2>1. B = 0 .. 1
    OBVIOUS
  <2>2. 0 \in Int /\ 1 \in Int
    OBVIOUS
  <2>3. IsFiniteSet(0 .. 1) /\ Cardinality(0 .. 1) = IF 0 > 1 THEN 0 ELSE 1 - 0 + 1
    BY <2>2, FS_Interval
  <2> QED BY <2>1, <2>3
<1>4. IsFiniteSet(X \X B) /\ Cardinality(X \X B) = 2 ^ n * 2
  <2> HIDE DEF X, B, f
  <2>1. IsFiniteSet(X \X B) /\ Cardinality(X \X B) = Cardinality(X) * Cardinality(B)
    BY <1>1, <1>3, FS_Product
  <2> QED BY <1>1, <1>3, <2>1
<1>5. f \in [X \X B -> Y]
  OBVIOUS
<1>6. \A a, b \in X \X B : f[a] = f[b] => a = b
  <2> SUFFICES ASSUME NEW a \in X \X B, NEW b \in X \X B, f[a] = f[b] PROVE a = b
    OBVIOUS
  <2>1. n + 1 \notin a[1] /\ n + 1 \notin b[1]
    OBVIOUS
  <2>2. a[2] = b[2]
    BY <2>1
  <2>3. a[1] = b[1]
    BY <2>1, <2>2
  <2> QED BY <2>2, <2>3
<1>7. \A y \in Y : \E a \in X \X B : f[a] = y
  <2> SUFFICES ASSUME NEW y \in Y PROVE \E a \in X \X B : f[a] = y
    OBVIOUS
  <2>1. CASE n + 1 \in y
    <3>1. y \ {n + 1} \in X /\ (y \ {n + 1}) \cup {n + 1} = y
      BY <2>1
    <3>2. <<y \ {n + 1}, 1>> \in X \X B
      BY <3>1
    <3>3. f[<<y \ {n + 1}, 1>>] = (y \ {n + 1}) \cup {n + 1}
      BY <3>2
    <3> QED BY <3>1, <3>2, <3>3
  <2>2. CASE n + 1 \notin y
    <3>1. y \in X
      BY <2>2
    <3>2. <<y, 0>> \in X \X B /\ f[<<y, 0>>] = y
      BY <3>1
    <3> QED BY <3>2
  <2> QED BY <2>1, <2>2
<1> HIDE DEF f, X, Y, B
<1>8. f \in Bijection(X \X B, Y)
  BY <1>5, <1>6, <1>7, Fun_IsBij
<1>9. ExistsBijection(X \X B, Y)
  BY <1>8 DEF ExistsBijection
<1>10. Cardinality(Y) = Cardinality(X \X B)
  BY <1>4, <1>9, FS_Bijection
<1> QED BY <1>1, <1>2, <1>4, <1>10

LEMMA PowerIsLarge ==
  ASSUME NEW n \in Nat
  PROVE  2 ^ n \in Nat /\ 2 ^ n >= n + 1
<1> DEFINE S == {m \in Nat : 2 ^ m >= m + 1}
<1>1. 0 \in S
  OBVIOUS
<1>2. ASSUME NEW m \in S PROVE m + 1 \in S
  <2>1. 2 ^ (m + 1) = 2 * 2 ^ m /\ 2 ^ m \in Nat /\ 2 ^ m >= m + 1
    BY PowerOfTwo, Subsets
  <2> DEFINE a == 2 ^ m
             b == 2 ^ (m + 1)
  <2>2. b = 2 * a /\ a \in Nat /\ a >= m + 1
    BY <2>1
  <2> HIDE DEF a, b
  <2>3. b >= (m + 1) + 1
    BY <2>2
  <2> QED BY <2>3 DEF b
<1> HIDE DEF S
<1>3. S = Nat
  BY <1>1, <1>2, Induction DEF S
<1> QED BY <1>3, Subsets DEF S

LEMMA DoubledIs ==
  ASSUME NEW rows \in Nat \ {0}, NEW need \in Nat
  PROVE  Doubled(rows, need) \in Nat /\ Doubled(rows, need) >= need /\ Doubled(rows, need) >= rows
<1> DEFINE S == {k \in Nat : rows * 2 ^ k >= need}
<1>1. need \in S
  <2> DEFINE a == 2 ^ need
  <2>1. a \in Nat /\ a >= need + 1
    BY PowerIsLarge
  <2> HIDE DEF a
  <2>2. rows * a >= a
    BY <2>1
  <2>3. rows * a >= need
    BY <2>1, <2>2
  <2> QED BY <2>3 DEF a
<1>2. PICK k \in S : \A j \in S : k <= j
  BY <1>1, LeastOf
<1> DEFINE n == rows * 2 ^ k
<1>3. k \in 0 .. need
  BY <1>1, <1>2
<1>4. n \in Nat /\ n >= need
  BY PowerIsLarge
<1>5. n = rows \/ n < 2 * need
  <2>1. CASE k = 0
    BY <2>1
  <2>2. CASE k # 0
    <3> DEFINE j == k - 1
               a == 2 ^ j
    <3>1. j \in Nat /\ k = j + 1
      BY <2>2
    <3>2. j \notin S
      BY <1>2, <3>1
    <3> HIDE DEF j
    <3>3. a \in Nat /\ 2 ^ k = 2 * a
      BY <3>1, PowerIsLarge, PowerOfTwo
    <3>4. rows * a < need
      BY <3>1, <3>2, <3>3
    <3> HIDE DEF a
    <3>5. n = 2 * (rows * a)
      BY <3>3
    <3> QED BY <3>3, <3>4, <3>5
  <2> QED BY <2>1, <2>2
<1>6. n >= rows
  <2> DEFINE a == 2 ^ k
  <2>1. a \in Nat /\ a >= k + 1
    BY PowerIsLarge
  <2> HIDE DEF a
  <2>2. rows * a >= rows
    BY <2>1
  <2> QED BY <2>2 DEF a
<1>7. n <= rows + 2 * need
  BY <1>4, <1>5
<1>8. \E m \in rows .. rows + 2 * need :
        m >= need /\ (m = rows \/ m < 2 * need) /\ \E i \in 0 .. need : m = rows * 2 ^ i
  <2> HIDE DEF S
  <2>1. n \in rows .. rows + 2 * need
    BY <1>4, <1>6, <1>7
  <2> QED BY <1>3, <1>4, <1>5, <2>1
<1>9. Doubled(rows, need) \in rows .. rows + 2 * need /\ Doubled(rows, need) >= need
  BY <1>8, Zenon DEF Doubled
<1> HIDE DEF n, S
<1> QED BY <1>9

-----------------------------------------------------------------------------
(* The fields of ed                                                        *)

Lengths == UNION {[0 .. n - 1 -> Nat] : n \in Nat}
Colours == UNION {[I -> Nat \X Nat] : I \in SUBSET Nat}

Record ==
  [y : Nat, x : Int, start : Nat, x0 : Nat, x1 : Int, y0 : Nat, y1 : Int, w : Nat, h : Nat \ {0},
   rows : Nat \ {0}, counter : 0 .. D, end : Nat, open : BOOLEAN, shown : BOOLEAN,
   redraw : BOOLEAN, screen : {"edit", "tree", "over"}, size : OnScreen,
   tree : [show : BOOLEAN, w : Nat, h : Nat], len : Lengths, syn : Colours]

Laid(s) ==
  /\ s.x1 = s.size[1] - 1
  /\ \E b \in Bars : /\ s.y0 = (IF b = "top" THEN 2 ELSE 0)
                     /\ s.y1 = (IF b = "bottom" THEN s.size[2] - 1 ELSE s.size[2])
  /\ s.h = s.y1 - s.y0
  /\ s.x0 = NumberSpace + 1 + (IF s.tree.show THEN s.tree.w + 1 ELSE 0)
  /\ s.w = Most(s.x1 - s.x0, 0)

Fits(s) == s.len \in [0 .. s.rows - 1 -> Nat] /\ Laid(s)
IsEd(s) == s \in Record /\ Fits(s)

\* What is drawn besides the layout.
SameText(s, t) ==
  t.len = s.len /\ t.rows = s.rows /\ t.counter = s.counter /\ t.open = s.open
SameFrame(s, t) ==
  /\ t.x0 = s.x0 /\ t.x1 = s.x1 /\ t.y0 = s.y0 /\ t.y1 = s.y1
  /\ t.w = s.w /\ t.h = s.h /\ t.size = s.size /\ t.tree = s.tree

\* A handler that takes s to t asks for the drawing of what it changes.
Asks(s, t) ==
  /\ IsEd(t) /\ SameFrame(s, t) /\ t.screen = s.screen
  /\ s.redraw => t.redraw
  /\ t.redraw \/ (SameText(s, t) /\ t.start = s.start)

LEMMA AsksAgain == 
  ASSUME NEW s, NEW t, NEW u, Asks(s, t), Asks(t, u)
  PROVE  Asks(s, u)
BY DEF Asks, SameFrame, SameText

LEMMA AsksItself == ASSUME NEW s, IsEd(s) PROVE Asks(s, s)
BY DEF Asks, SameFrame, SameText

LEMMA Parts ==
  ASSUME NEW s, IsEd(s)
  PROVE  /\ s.y \in Nat /\ s.x \in Int /\ s.start \in Nat
         /\ s.x0 \in Nat /\ s.x1 \in Int /\ s.y0 \in Nat /\ s.y1 \in Int
         /\ s.w \in Nat /\ s.h \in Nat \ {0}
         /\ s.rows \in Nat \ {0} /\ s.counter \in 0 .. D /\ s.end \in Nat
         /\ s.open \in BOOLEAN /\ s.shown \in BOOLEAN /\ s.redraw \in BOOLEAN
         /\ s.tree \in [show : BOOLEAN, w : Nat, h : Nat] /\ s.size \in OnScreen
         /\ s.screen \in {"edit", "tree", "over"}
         /\ s.len \in [0 .. s.rows - 1 -> Nat]
         /\ s.syn \in Colours
BY DEF IsEd, Record, Fits

LEMMA Lens ==
  ASSUME NEW s, IsEd(s)
  PROVE  s.rows \in Nat \ {0} /\ s.len \in [0 .. s.rows - 1 -> Nat] /\ s.len[0] \in Nat
<1>1. s.rows \in Nat \ {0} /\ s.len \in [0 .. s.rows - 1 -> Nat]
  BY Parts
<1>2. 0 \in 0 .. s.rows - 1
  BY <1>1
<1> QED BY <1>1, <1>2

LEMMA Limits ==
  ASSUME NEW s, IsEd(s)
  PROVE  editor_line_limit(s) \in 0 .. s.rows
<1>1. D \in Nat /\ s.rows \in Nat /\ s.counter \in 0 .. D
  BY ViewAssumption, Parts
<1>2. editor_line_limit(s) = s.rows \/ editor_line_limit(s) = Least(s.counter, s.rows)
  BY DEF editor_line_limit
<1> QED BY <1>1, <1>2 DEF Least

LEMMA LineLen ==
  ASSUME NEW s, IsEd(s), NEW l \in Int
  PROVE  /\ editor_line_len(s, l) \in Nat
         /\ l \in 0 .. editor_line_limit(s) - 1 => l \in DOMAIN s.len /\ editor_line_len(s, l) = s.len[l]
         /\ l \notin 0 .. editor_line_limit(s) - 1 => editor_line_len(s, l) = 0
<1>1. editor_line_limit(s) \in 0 .. s.rows /\ s.rows \in Nat /\ s.len \in [0 .. s.rows - 1 -> Nat]
  BY Limits, Parts
<1> QED BY <1>1 DEF editor_line_len

LEMMA ClampCol ==
  ASSUME NEW s, IsEd(s), NEW l \in Int, NEW c \in Int
  PROVE  /\ editor_clamp_col(s, l, c) \in 0 .. Least(editor_line_len(s, l), s.w)
         /\ editor_clamp_col(s, l, c) \in Nat
<1>1. editor_line_len(s, l) \in Nat /\ s.w \in Nat
  BY LineLen, Parts
<1> QED BY <1>1 DEF editor_clamp_col, Clamp, Least

\* Only the cursor moves.
Moves(s, t) ==
  /\ IsEd(t) /\ SameFrame(s, t) /\ SameText(s, t)
  /\ t.start = s.start /\ t.syn = s.syn /\ t.end = s.end
  /\ t.shown = s.shown /\ t.redraw = s.redraw /\ t.screen = s.screen

LEMMA MovesAsks == ASSUME NEW s, NEW t, Moves(s, t) PROVE Asks(s, t)
BY DEF Moves, Asks

Put(s, l, c) == [s EXCEPT !.y = l, !.x = c]

LEMMA PutIs ==
  ASSUME NEW s, IsEd(s), NEW l \in Nat, NEW c \in Int
  PROVE  Moves(s, Put(s, l, c)) /\ Put(s, l, c).y = l /\ Put(s, l, c).x = c
<1> DEFINE t == Put(s, l, c)
<1>1. t \in Record
  BY DEF IsEd, Record, Put
<1>2. /\ t.x = c /\ t.y = l /\ t.start = s.start /\ SameText(s, t) /\ SameFrame(s, t)
      /\ t.syn = s.syn /\ t.shown = s.shown /\ t.end = s.end /\ t.redraw = s.redraw
      /\ t.screen = s.screen
  BY DEF IsEd, Record, Put, SameText, SameFrame
<1>3. Fits(t)
  BY <1>2 DEF IsEd, Fits, Laid, SameText, SameFrame
<1> QED BY <1>1, <1>2, <1>3 DEF Moves, IsEd

LEMMA SetX ==
  ASSUME NEW s, IsEd(s), NEW c \in Int
  PROVE  [s EXCEPT !.x = c] = Put(s, s.y, c) /\ s.y \in Nat
BY DEF IsEd, Record, Put

LEMMA SyncIs ==
  ASSUME NEW s, IsEd(s)
  PROVE  /\ Moves(s, Sync(s)) /\ Sync(s).y = s.y
         /\ Sync(s).x = editor_clamp_col(s, s.y, s.x)
<1>1. editor_clamp_col(s, s.y, s.x) \in Int
  BY ClampCol, Parts
<1>2. Sync(s) = Put(s, s.y, editor_clamp_col(s, s.y, s.x)) /\ s.y \in Nat
  BY <1>1, SetX DEF Sync
<1> QED BY <1>1, <1>2, PutIs

LEMMA SetCursorIs ==
  ASSUME NEW s, IsEd(s), NEW l \in Int, NEW c \in Int
  PROVE  LET t == editor_set_cursor(s, l, c)
             limit == editor_line_limit(s)
         IN  /\ Moves(s, t)
             /\ limit = 0 => t.y = 0
             /\ limit > 0 => t.y = Clamp(l, 0, limit - 1) /\ t.y \in 0 .. limit - 1
                             /\ t.x = editor_clamp_col(s, t.y, c)
<1> DEFINE limit == editor_line_limit(s)
           line  == Clamp(l, 0, limit - 1)
<1>1. limit \in Nat
  BY Limits, Parts
<1>2. CASE limit = 0
  <2>1. editor_set_cursor(s, l, c) = Put(s, 0, 0)
    BY <1>2 DEF editor_set_cursor, Put
  <2> QED BY <1>2, <2>1, PutIs
<1>3. CASE limit > 0
  <2>1. line \in 0 .. limit - 1
    BY <1>1, <1>3 DEF Clamp
  <2>2. editor_set_cursor(s, l, c) = Put(s, line, editor_clamp_col(s, line, c))
    BY <1>1, <1>3 DEF editor_set_cursor, Put
  <2>3. line \in Nat /\ editor_clamp_col(s, line, c) \in Int
    BY <1>1, <2>1, ClampCol
  <2> HIDE DEF line
  <2>4. /\ Moves(s, editor_set_cursor(s, l, c)) /\ editor_set_cursor(s, l, c).y = line
        /\ editor_set_cursor(s, l, c).x = editor_clamp_col(s, line, c)
    BY <2>2, <2>3, PutIs
  <2> QED BY <1>3, <2>1, <2>4 DEF line
<1> QED BY <1>1, <1>2, <1>3

LEMMA MoveLine ==
  ASSUME NEW s, IsEd(s), NEW d \in Int
  PROVE  LET t == editor_move_cursor_line(s, d)
         IN  Moves(s, t) /\ t.y = IF s.y + d \in 0 .. editor_line_limit(s) - 1 THEN s.y + d ELSE s.y
<1>1. s.y \in Nat /\ s.x \in Int /\ editor_line_limit(s) \in Nat
  BY Limits, Parts
<1>2. CASE s.y + d \in 0 .. editor_line_limit(s) - 1
  <2> DEFINE u == [s EXCEPT !.y = @ + d]
  <2>1. u = Put(s, s.y + d, s.x)
    BY DEF IsEd, Record, Put
  <2>2. s.y + d \in Nat
    BY <1>1, <1>2
  <2>3. Moves(s, u) /\ u.y = s.y + d
    BY <1>1, <2>1, <2>2, PutIs
  <2>4. Moves(u, Sync(u)) /\ Sync(u).y = s.y + d
    BY <2>3, SyncIs DEF Moves
  <2>5. Moves(s, Sync(u))
    BY <2>3, <2>4 DEF Moves, SameFrame, SameText
  <2> QED BY <1>2, <2>4, <2>5 DEF editor_move_cursor_line
<1>3. CASE s.y + d \notin 0 .. editor_line_limit(s) - 1
  BY <1>3 DEF editor_move_cursor_line, Moves, SameFrame, SameText
<1> QED BY <1>2, <1>3

-----------------------------------------------------------------------------
(* Colours                                                                 *)

\* Only the colours change.
Shades(s, t) ==
  /\ IsEd(t) /\ SameFrame(s, t) /\ SameText(s, t)
  /\ t.start = s.start /\ t.y = s.y /\ t.x = s.x /\ t.end = s.end
  /\ t.shown = s.shown /\ t.redraw = s.redraw /\ t.screen = s.screen

Shade(s, c) == [s EXCEPT !.syn = c]

LEMMA ShadeIs ==
  ASSUME NEW s, IsEd(s), NEW c \in Colours
  PROVE  Shades(s, Shade(s, c)) /\ Shade(s, c).syn = c
<1> DEFINE t == Shade(s, c)
<1>1. t \in Record
  BY DEF IsEd, Record, Shade
<1>2. /\ t.x = s.x /\ t.y = s.y /\ t.start = s.start /\ SameText(s, t) /\ SameFrame(s, t)
      /\ t.syn = c /\ t.shown = s.shown /\ t.end = s.end /\ t.redraw = s.redraw
      /\ t.screen = s.screen
  BY DEF IsEd, Record, Shade, SameText, SameFrame
<1>3. Fits(t)
  BY <1>2 DEF IsEd, Fits, Laid, SameText, SameFrame
<1> QED BY <1>1, <1>2, <1>3 DEF Shades, IsEd

LEMMA ColourType ==
  ASSUME NEW I \in SUBSET Nat, NEW c, c \in [I -> Nat \X Nat]
  PROVE  c \in Colours
BY DEF Colours

LEMMA ColoursOf ==
  ASSUME NEW c \in Colours
  PROVE  DOMAIN c \in SUBSET Nat /\ \A i \in DOMAIN c : c[i] \in Nat \X Nat
<1>1. PICK I \in SUBSET Nat : c \in [I -> Nat \X Nat]
  BY DEF Colours
<1> QED BY <1>1

LEMMA ScannedType ==
  ASSUME NEW s, IsEd(s), NEW i \in Int, s.start + i \in 0 .. editor_line_limit(s) - 1
  PROVE  Scanned(s, i) \in Nat \X Nat
<1>1. editor_line_limit(s) \in 0 .. s.rows
  BY Limits
<1>2. s.rows \in Nat \ {0} /\ s.len \in [0 .. s.rows - 1 -> Nat]
  BY Lens
<1>3. s.start + i \in 0 .. s.rows - 1
  BY <1>1, <1>2
<1>4. s.len[s.start + i] \in Nat
  BY <1>2, <1>3
<1> QED BY <1>2, <1>3, <1>4 DEF Scanned

\* The rows of the view have the colours of the lines they show.
Coloured(s) ==
  /\ DOMAIN s.syn \subseteq 0 .. s.h - 1
  /\ \A i \in 0 .. s.h - 1 :
       IF i \in DOMAIN s.syn
       THEN s.start + i < editor_line_limit(s) => s.syn[i] = Scanned(s, i)
       ELSE editor_line_len(s, s.start + i) = 0

\* What the colours are compared with.
LEMMA SameLines ==
  ASSUME NEW s, NEW t, SameText(s, t)
  PROVE  /\ editor_line_limit(t) = editor_line_limit(s)
         /\ \A l : editor_line_len(t, l) = editor_line_len(s, l)
BY DEF SameText, editor_line_limit, editor_line_len

LEMMA SameColours ==
  ASSUME NEW s, NEW t, SameText(s, t), t.start = s.start, t.h = s.h, t.syn = s.syn, Coloured(s)
  PROVE  Coloured(t)
<1>1. \A i : Scanned(t, i) = Scanned(s, i)
  BY DEF Scanned, SameText
<1> QED BY <1>1, SameLines DEF Coloured

LEMMA SetSyntax ==
  ASSUME NEW s, IsEd(s)
  PROVE  Shades(s, set_syntax_data(s)) /\ Coloured(set_syntax_data(s))
<1> DEFINE I == {j \in 0 .. s.h - 1 : s.start + j < editor_line_limit(s)}
           c == [i \in I |-> Scanned(s, i)]
           t == set_syntax_data(s)
<1>1. s.start \in Nat /\ s.h \in Nat /\ editor_line_limit(s) \in Nat
  BY Limits, Parts
<1>2. I \in SUBSET Nat /\ I \subseteq 0 .. s.h - 1
  BY <1>1
<1>3. \A i \in I : Scanned(s, i) \in Nat \X Nat
  BY <1>1, ScannedType
<1>4. c \in [I -> Nat \X Nat] /\ DOMAIN c = I
  BY <1>3
<1>5. t = Shade(s, c)
  BY DEF set_syntax_data, Shade
<1>6. c \in Colours
  BY <1>2, <1>4, ColourType
<1> HIDE DEF c, t
<1>7. Shades(s, t) /\ t.syn = c
  BY <1>2, <1>4, <1>5, <1>6, ShadeIs
<1>8. SameText(s, t) /\ t.start = s.start /\ t.h = s.h
  BY <1>7 DEF Shades, SameFrame
<1>9. \A i : Scanned(t, i) = Scanned(s, i)
  BY <1>8 DEF Scanned, SameText
<1>10. ASSUME NEW i \in 0 .. s.h - 1, i \notin I
       PROVE  editor_line_len(s, s.start + i) = 0
  BY <1>1, <1>10, LineLen
<1>11. \A i \in I : c[i] = Scanned(s, i)
  BY DEF c
<1>12. Coloured(t)
  BY <1>4, <1>7, <1>8, <1>9, <1>10, <1>11, SameLines DEF Coloured
<1> QED BY <1>7, <1>12 DEF t

LEMMA UpdateLine ==
  ASSUME NEW s, IsEd(s), NEW i \in 0 .. s.h - 1
  PROVE  LET t == update_line_syntax_data(s, i)
         IN  /\ Shades(s, t)
             /\ \A j \in (DOMAIN s.syn) \ {i} : j \in DOMAIN t.syn /\ t.syn[j] = s.syn[j]
             /\ DOMAIN t.syn \subseteq DOMAIN s.syn \cup {i}
             /\ s.start + i \in 0 .. editor_line_limit(s) - 1
                  => i \in DOMAIN t.syn /\ t.syn[i] = Scanned(s, i)
<1> DEFINE I == (DOMAIN s.syn) \cup {i}
           c == [j \in I |-> IF j = i THEN Scanned(s, i) ELSE s.syn[j]]
           t == update_line_syntax_data(s, i)
<1>1. s.h \in Nat /\ s.syn \in Colours
  BY Parts
<1>2. CASE s.start + i \notin 0 .. editor_line_limit(s) - 1
  <2>1. t = s
    BY <1>2 DEF update_line_syntax_data
  <2> QED BY <1>2, <2>1 DEF Shades, SameText, SameFrame
<1>3. CASE s.start + i \in 0 .. editor_line_limit(s) - 1
  <2>1. Scanned(s, i) \in Nat \X Nat
    BY <1>1, <1>3, ScannedType
  <2>2. \A j \in DOMAIN s.syn : s.syn[j] \in Nat \X Nat
    BY <1>1, ColoursOf
  <2>3. I \in SUBSET Nat
    BY <1>1, ColoursOf
  <2>4. c \in [I -> Nat \X Nat] /\ DOMAIN c = I
    BY <2>1, <2>2
  <2>5. c \in Colours
    BY <2>3, <2>4, ColourType
  <2>6. t = Shade(s, c)
    BY <1>3 DEF update_line_syntax_data, Shade, IsEd, Record
  <2>7. c[i] = Scanned(s, i) /\ \A j \in (DOMAIN s.syn) \ {i} : c[j] = s.syn[j]
    OBVIOUS
  <2> HIDE DEF c, t
  <2>8. Shades(s, t) /\ t.syn = c
    BY <2>3, <2>4, <2>5, <2>6, ShadeIs
  <2> QED BY <2>4, <2>7, <2>8 DEF t
<1> QED BY <1>2, <1>3

LEMMA ScrollSyntax ==
  ASSUME NEW s, IsEd(s), NEW num \in Int
  PROVE  LET t == scroll_syntax_pos_data(s, num)
         IN  /\ Shades(s, t)
             /\ DOMAIN t.syn = {i \in 0 .. s.h - 1 : i - num \in DOMAIN s.syn}
             /\ \A i \in DOMAIN t.syn : t.syn[i] = s.syn[i - num]
<1> DEFINE I == {i \in 0 .. s.h - 1 : i - num \in DOMAIN s.syn}
           c == [i \in I |-> s.syn[i - num]]
           t == scroll_syntax_pos_data(s, num)
<1>1. s.h \in Nat /\ s.syn \in Colours
  BY Parts
<1>2. \A j \in DOMAIN s.syn : s.syn[j] \in Nat \X Nat
  BY <1>1, ColoursOf
<1>3. I \in SUBSET Nat /\ I \subseteq 0 .. s.h - 1
  BY <1>1
<1>4. c \in [I -> Nat \X Nat] /\ DOMAIN c = I /\ \A i \in I : c[i] = s.syn[i - num]
  BY <1>2
<1>5. c \in Colours
  BY <1>3, <1>4, ColourType
<1>6. t = Shade(s, c)
  BY DEF scroll_syntax_pos_data, Shade, IsEd, Record
<1> HIDE DEF c, t
<1>7. Shades(s, t) /\ t.syn = c
  BY <1>3, <1>4, <1>5, <1>6, ShadeIs
<1> QED BY <1>4, <1>7 DEF t

\* The colours are those of the view before it moved by num rows.
Carried(s, num) ==
  \A i \in 0 .. s.h - 1 :
    IF i \in DOMAIN s.syn
    THEN s.start - num + i < editor_line_limit(s)
           => s.syn[i] = <<s.start - num + i, s.len[s.start - num + i]>>
    ELSE editor_line_len(s, s.start - num + i) = 0

LEMMA RecolouredIs ==
  ASSUME NEW s, IsEd(s), NEW num \in {-1, 1}
  PROVE  /\ Shades(s, Recoloured(s, num))
         /\ Carried(s, num) => Coloured(Recoloured(s, num))
<1> DEFINE u == scroll_syntax_pos_data(s, -num)
           edge == IF num > 0 THEN s.h - 1 ELSE 0
           t == update_line_syntax_data(u, edge)
           limit == editor_line_limit(s)
<1>1. /\ s.h \in Nat \ {0} /\ s.start \in Nat /\ limit \in Nat
      /\ s.len \in [0 .. s.rows - 1 -> Nat]
  BY Limits, Parts
<1>2. edge \in 0 .. s.h - 1 /\ -num \in Int /\ \A i \in Int : i - (-num) = i + num
  BY <1>1
<1>3. /\ Shades(s, u)
      /\ DOMAIN u.syn = {i \in 0 .. s.h - 1 : i + num \in DOMAIN s.syn}
      /\ \A i \in DOMAIN u.syn : u.syn[i] = s.syn[i + num]
  BY <1>2, ScrollSyntax
<1> HIDE DEF u, edge
<1>4. IsEd(u) /\ u.h = s.h /\ SameText(s, u) /\ u.start = s.start
  BY <1>3 DEF Shades, SameFrame
<1>5. /\ Shades(u, t)
      /\ \A j \in (DOMAIN u.syn) \ {edge} : j \in DOMAIN t.syn /\ t.syn[j] = u.syn[j]
      /\ DOMAIN t.syn \subseteq DOMAIN u.syn \cup {edge}
      /\ u.start + edge \in 0 .. editor_line_limit(u) - 1
           => edge \in DOMAIN t.syn /\ t.syn[edge] = Scanned(u, edge)
  BY <1>2, <1>4, UpdateLine
<1> HIDE DEF t
<1>6. Shades(s, t)
  BY <1>3, <1>5 DEF Shades, SameText, SameFrame
<1>7. t = Recoloured(s, num)
  BY DEF t, u, edge, Recoloured
<1>8. t.h = s.h /\ SameText(s, t) /\ t.start = s.start
  BY <1>6 DEF Shades, SameFrame
<1>9. /\ editor_line_limit(t) = limit /\ editor_line_limit(u) = limit
      /\ \A l : editor_line_len(t, l) = editor_line_len(s, l)
      /\ \A i : Scanned(t, i) = Scanned(s, i) /\ Scanned(u, i) = Scanned(s, i)
  BY <1>4, <1>8, SameLines DEF Scanned, SameText
<1>10. ASSUME Carried(s, num), NEW i \in 0 .. s.h - 1
       PROVE  IF i \in DOMAIN t.syn
              THEN s.start + i < limit => t.syn[i] = Scanned(s, i)
              ELSE editor_line_len(s, s.start + i) = 0
  <2>1. CASE i = edge
    <3>1. CASE s.start + i < limit
      BY <1>1, <1>4, <1>5, <1>9, <2>1, <3>1
    <3>2. CASE ~ (s.start + i < limit)
      <4>1. s.start + i \in Int /\ s.start + i \notin 0 .. limit - 1
        BY <1>1, <3>2
      <4>2. editor_line_len(s, s.start + i) = 0
        BY <4>1, LineLen
      <4> QED BY <3>2, <4>2
    <3> QED BY <3>1, <3>2
  <2>2. CASE i # edge
    <3>1. i + num \in 0 .. s.h - 1
      BY <1>1, <2>2 DEF edge
    <3>2. s.start - num + (i + num) = s.start + i
      BY <1>1
    <3>3. CASE i \in DOMAIN u.syn
      <4>1. i + num \in DOMAIN s.syn /\ i \in DOMAIN t.syn /\ t.syn[i] = s.syn[i + num]
        BY <1>3, <1>5, <2>2, <3>3
      <4>2. s.start + i < limit => s.syn[i + num] = <<s.start + i, s.len[s.start + i]>>
        BY <1>10, <3>1, <3>2, <4>1 DEF Carried
      <4> QED BY <4>1, <4>2 DEF Scanned
    <3>4. CASE i \notin DOMAIN u.syn
      <4>1. i + num \notin DOMAIN s.syn /\ i \notin DOMAIN t.syn
        BY <1>3, <1>5, <2>2, <3>4
      <4> QED BY <1>10, <3>1, <3>2, <4>1 DEF Carried
    <3> QED BY <3>3, <3>4
  <2> QED BY <2>1, <2>2
<1>11. DOMAIN t.syn \subseteq 0 .. s.h - 1
  BY <1>2, <1>3, <1>5
<1>12. Carried(s, num) => Coloured(t)
  BY <1>8, <1>9, <1>10, <1>11 DEF Coloured
<1> QED BY <1>6, <1>7, <1>12

-----------------------------------------------------------------------------
(* The view                                                                *)

LEMMA RedrawnIs ==
  ASSUME NEW s, IsEd(s)
  PROVE  LET t == Redrawn(s)
         IN  /\ IsEd(t) /\ SameText(s, t) /\ SameFrame(s, t) /\ t.redraw = TRUE
             /\ t.y = s.y /\ t.x = s.x /\ t.start = s.start /\ t.syn = s.syn /\ t.end = s.end
             /\ t.shown = s.shown /\ t.screen = s.screen
<1> DEFINE t == Redrawn(s)
<1>1. t \in Record
  BY DEF IsEd, Record, Redrawn
<1>2. /\ t.x = s.x /\ t.y = s.y /\ t.start = s.start /\ SameText(s, t) /\ SameFrame(s, t)
      /\ t.syn = s.syn /\ t.shown = s.shown /\ t.end = s.end /\ t.redraw = TRUE
      /\ t.screen = s.screen
  BY DEF IsEd, Record, Redrawn, SameText, SameFrame
<1>3. Fits(t)
  BY <1>2 DEF IsEd, Fits, Laid, SameText, SameFrame
<1> QED BY <1>1, <1>2, <1>3 DEF IsEd

\* The first row of the view, and the line of the cursor.
Shifts(s, t) ==
  /\ IsEd(t) /\ SameFrame(s, t) /\ SameText(s, t) /\ t.x = s.x /\ t.syn = s.syn /\ t.end = s.end
  /\ t.shown = s.shown /\ t.redraw = s.redraw /\ t.screen = s.screen

Shift(s, l, v) == [s EXCEPT !.y = l, !.start = v]

LEMMA ShiftIs ==
  ASSUME NEW s, IsEd(s), NEW l \in Nat, NEW v \in Nat
  PROVE  Shifts(s, Shift(s, l, v)) /\ Shift(s, l, v).y = l /\ Shift(s, l, v).start = v
<1> DEFINE t == Shift(s, l, v)
<1>1. t \in Record
  BY DEF IsEd, Record, Shift
<1>2. /\ t.x = s.x /\ t.y = l /\ t.start = v /\ SameText(s, t) /\ SameFrame(s, t)
      /\ t.syn = s.syn /\ t.shown = s.shown /\ t.end = s.end /\ t.redraw = s.redraw
      /\ t.screen = s.screen
  BY DEF IsEd, Record, Shift, SameText, SameFrame
<1>3. Fits(t)
  BY <1>2 DEF IsEd, Fits, Laid, SameText, SameFrame
<1> QED BY <1>1, <1>2, <1>3 DEF IsEd, Shifts

\* s.h rows are shown.
LEMMA Visible ==
  ASSUME NEW s, IsEd(s)
  PROVE  editor_cursor_is_visible(s) <=> s.y - s.start \in 0 .. s.h - 1
BY DEF IsEd, Fits, Laid, editor_cursor_is_visible

LEMMA ScreenMoveLine ==
  ASSUME NEW s, IsEd(s), NEW num \in {-1, 1}
  PROVE  LET t == editor_screen_move_line(s, num)
         IN  /\ Asks(s, t) /\ SameText(s, t) /\ t.shown = s.shown /\ t.end = s.end
             /\ \/ t.y = s.y /\ t.start = s.start
                \/ t.y = s.y + num /\ t.start = s.start + num /\ t.redraw
<1> DEFINE t == editor_screen_move_line(s, num)
<1>1. s.y \in Nat /\ s.start \in Nat /\ D \in Nat
  BY Parts, ViewAssumption
<1>2. CASE s.y + num \notin 0 .. D - 1 \/ s.start + num < 0
  <2>1. t = s
    BY <1>2 DEF editor_screen_move_line
  <2> QED BY <2>1, AsksItself DEF SameText
<1>3. CASE ~ (s.y + num \notin 0 .. D - 1 \/ s.start + num < 0)
  <2> DEFINE a == Shift(s, s.y + num, s.start + num)
             b == Sync(a)
             c == Recoloured(b, num)
  <2>1. s.y + num \in Nat /\ s.start + num \in Nat
    BY <1>1, <1>3
  <2>2. Shifts(s, a) /\ a.y = s.y + num /\ a.start = s.start + num
    BY <2>1, ShiftIs
  <2>3. a = [s EXCEPT !.y = @ + num, !.start = @ + num]
    BY DEF Shift, IsEd, Record
  <2> HIDE DEF a
  <2>4. Moves(a, b) /\ b.y = a.y
    BY <2>2, SyncIs DEF Shifts
  <2> HIDE DEF b
  <2>5. Shades(b, c)
    BY <2>4, RecolouredIs DEF Moves
  <2> HIDE DEF c
  <2>6. t = Redrawn(c)
    BY <1>3, <2>3 DEF editor_screen_move_line, b, c
  <2>7. IsEd(c)
    BY <2>5 DEF Shades
  <2>8. /\ IsEd(t) /\ SameText(c, t) /\ SameFrame(c, t) /\ t.redraw = TRUE
        /\ t.y = c.y /\ t.start = c.start /\ t.end = c.end /\ t.shown = c.shown /\ t.screen = c.screen
    BY <2>6, <2>7, RedrawnIs
  <2> HIDE DEF t
  <2>9. SameText(s, t) /\ SameFrame(s, t)
    BY <2>2, <2>4, <2>5, <2>8 DEF Moves, Shades, Shifts, SameText, SameFrame
  <2>10. /\ t.y = s.y + num /\ t.start = s.start + num /\ t.screen = s.screen
         /\ t.shown = s.shown /\ t.end = s.end
    BY <2>2, <2>4, <2>5, <2>8 DEF Moves, Shades, Shifts
  <2> QED BY <2>8, <2>9, <2>10 DEF Asks, t
<1> QED BY <1>2, <1>3

\* A line before the D-th is in the view that is moved to it.
LEMMA StartLine ==
  ASSUME NEW s, IsEd(s), NEW l \in Nat
  PROVE  LET v == draw_start_line_for_target(s, l)
         IN  v \in Nat /\ (l < D => l - v \in 0 .. s.h - 1)
<1>1. s.h \in Nat \ {0} /\ Context \in Nat /\ D \in Nat \ {0}
  BY Parts, ViewAssumption
<1> DEFINE above == Clamp(s.h - 1, 0, Context)
<1>2. above \in 0 .. s.h - 1
  BY <1>1 DEF Clamp
<1> HIDE DEF above
<1>3. CASE l + s.h > D
  <2>1. draw_start_line_for_target(s, l) = Most(D - s.h + above - above, 0)
    BY <1>1, <1>2, <1>3 DEF draw_start_line_for_target, above
  <2>2. draw_start_line_for_target(s, l) = Most(D - s.h, 0)
    BY <1>1, <1>2, <2>1
  <2> QED BY <1>1, <1>3, <2>2 DEF Most
<1>4. CASE ~ (l + s.h > D)
  <2>1. draw_start_line_for_target(s, l) = Most(l - above, 0)
    BY <1>1, <1>2, <1>4 DEF draw_start_line_for_target, above
  <2> QED BY <1>1, <1>2, <2>1 DEF Most
<1> QED BY <1>3, <1>4

LEMMA MoveView ==
  ASSUME NEW s, IsEd(s), NEW l \in Int, NEW c \in Int
  PROVE  LET t == move_view_to_line(s, l, c)
             line == Clamp(l, 0, Most(editor_line_limit(s) - 1, 0))
         IN  /\ Asks(s, t) /\ SameText(s, t) /\ t.redraw = TRUE
             /\ t.y = line /\ t.shown = s.shown /\ t.end = s.end /\ t.syn = s.syn
             /\ line < D => editor_cursor_is_visible(t)
<1> DEFINE limit == editor_line_limit(s)
           line == Clamp(l, 0, Most(limit - 1, 0))
           v == draw_start_line_for_target(s, line)
           a == Shift(s, s.y, v)
           b == editor_set_cursor(a, line, c)
           m == Sync(b)
           t == move_view_to_line(s, l, c)
<1>1. limit \in Nat /\ s.y \in Nat /\ s.start \in Nat
  BY Limits, Parts
<1>2. line \in Nat
  BY <1>1 DEF Clamp, Most
<1>3. v \in Nat /\ (line < D => line - v \in 0 .. s.h - 1)
  BY <1>2, StartLine
<1>4. a = [s EXCEPT !.start = v]
  BY DEF Shift, IsEd, Record
<1>5. t = Redrawn(m)
  BY <1>4 DEF move_view_to_line
<1>6. limit = 0 => line = 0
  BY DEF Clamp, Most
<1>7. limit > 0 => line \in 0 .. limit - 1 /\ Clamp(line, 0, limit - 1) = line
  BY <1>1 DEF Clamp, Most
<1> HIDE DEF line, v
<1>8. Shifts(s, a) /\ a.start = v
  BY <1>1, <1>3, ShiftIs
<1> HIDE DEF a
<1>9. editor_line_limit(a) = limit /\ IsEd(a)
  BY <1>8, SameLines DEF Shifts
<1>10. Moves(a, b) /\ b.y = line
  BY <1>1, <1>2, <1>6, <1>7, <1>8, <1>9, SetCursorIs
<1> HIDE DEF b
<1>11. Moves(b, m) /\ m.y = line
  BY <1>10, SyncIs DEF Moves
<1> HIDE DEF m
<1>12. /\ IsEd(t) /\ SameText(m, t) /\ SameFrame(m, t) /\ t.redraw = TRUE
       /\ t.y = m.y /\ t.start = m.start /\ t.end = m.end /\ t.shown = m.shown /\ t.screen = m.screen
       /\ t.syn = m.syn
      /\ t.syn = m.syn
  BY <1>5, <1>11, RedrawnIs DEF Moves
<1> HIDE DEF t
<1>13. SameText(s, t) /\ SameFrame(s, t)
  BY <1>8, <1>10, <1>11, <1>12 DEF Moves, Shifts, SameText, SameFrame
<1>14. /\ t.y = line /\ t.start = v /\ t.screen = s.screen /\ t.shown = s.shown
       /\ t.end = s.end /\ t.syn = s.syn
  BY <1>8, <1>10, <1>11, <1>12 DEF Moves, Shifts
<1>15. line < D => editor_cursor_is_visible(t)
  BY <1>3, <1>12, <1>13, <1>14, Visible DEF SameFrame
<1> QED BY <1>12, <1>13, <1>14, <1>15 DEF Asks, t, line

-----------------------------------------------------------------------------
(* The layout                                                              *)

\* Only the layout changes.
Reframes(s, t) ==
  /\ IsEd(t) /\ SameText(s, t) /\ t.start = s.start /\ t.y = s.y /\ t.x = s.x /\ t.syn = s.syn
  /\ t.end = s.end /\ t.shown = s.shown /\ t.redraw = s.redraw /\ t.screen = s.screen

Frame(s, z, e, x1, y1, h, x0, w) ==
  [s EXCEPT !.size = z, !.tree = e, !.x1 = x1, !.y1 = y1, !.h = h, !.x0 = x0, !.w = w]

Trees == [show : BOOLEAN, w : Nat, h : Nat]
LeftOf(e) == NumberSpace + 1 + (IF e.show THEN e.w + 1 ELSE 0)

LEMMA FrameTyped ==
  ASSUME NEW s \in Record, NEW z \in OnScreen, NEW e \in Trees, NEW x1 \in Int, NEW y1 \in Int,
         NEW h \in Nat \ {0}, NEW x0 \in Nat, NEW w \in Nat
  PROVE  Frame(s, z, e, x1, y1, h, x0, w) \in Record
BY DEF Frame, Record, Trees

LEMMA FrameIs ==
  ASSUME NEW s, IsEd(s), NEW z \in OnScreen, NEW e \in Trees, NEW y1 \in Int, NEW h \in Nat \ {0},
         NEW b \in Bars, s.y0 = (IF b = "top" THEN 2 ELSE 0),
         y1 = (IF b = "bottom" THEN z[2] - 1 ELSE z[2]), h = y1 - s.y0
  PROVE  LET t == Frame(s, z, e, z[1] - 1, y1, h, LeftOf(e), Most(z[1] - 1 - LeftOf(e), 0))
         IN  Reframes(s, t) /\ t.size = z /\ t.tree = e /\ t.h = h
<1> DEFINE x1 == z[1] - 1
           x0 == LeftOf(e)
           w == Most(x1 - x0, 0)
           t == Frame(s, z, e, x1, y1, h, x0, w)
<1>1. z[1] \in Nat /\ z[2] \in Nat
  BY ViewAssumption DEF OnScreen
<1>2. x0 \in Nat
  BY ViewAssumption DEF LeftOf, Trees
<1>3. x1 \in Int /\ w \in Nat
  BY <1>1, <1>2 DEF Most
<1>4. x1 = z[1] - 1 /\ x0 = LeftOf(e) /\ w = Most(x1 - x0, 0)
  OBVIOUS
<1> HIDE DEF x1, x0, w
<1>5. t \in Record
  <2>1. s \in Record
    BY DEF IsEd
  <2> HIDE DEF t
  <2> QED BY <1>2, <1>3, <2>1, FrameTyped DEF t
<1>6. /\ t.x = s.x /\ t.y = s.y /\ t.start = s.start /\ SameText(s, t) /\ t.y0 = s.y0
      /\ t.syn = s.syn /\ t.shown = s.shown /\ t.end = s.end /\ t.redraw = s.redraw
      /\ t.screen = s.screen
  BY DEF IsEd, Record, Frame, SameText
<1>7. t.size = z /\ t.tree = e /\ t.x1 = x1 /\ t.y1 = y1 /\ t.h = h /\ t.x0 = x0 /\ t.w = w
  BY DEF IsEd, Record, Frame
<1>8. t.len \in [0 .. t.rows - 1 -> Nat]
  <2>1. t.len = s.len /\ t.rows = s.rows
    BY <1>6 DEF SameText
  <2> QED BY <2>1, Lens
<1> HIDE DEF t
<1>9. Laid(t)
  BY <1>4, <1>6, <1>7 DEF Laid, LeftOf
<1>10. Reframes(s, t)
  BY <1>5, <1>6, <1>8, <1>9 DEF Reframes, IsEd, Fits
<1> QED BY <1>7, <1>10 DEF t, x1, x0, w

LEMMA TreeIs ==
  ASSUME NEW s, IsEd(s), NEW e \in Trees
  PROVE  LET t == editor_apply_write_area([s EXCEPT !.tree = e])
         IN  Reframes(s, t) /\ t.h = s.h
<1> DEFINE t == editor_apply_write_area([s EXCEPT !.tree = e])
           z == s.size
           y1 == s.y1
           h == s.h
<1>1. PICK b \in Bars : /\ s.y0 = (IF b = "top" THEN 2 ELSE 0)
                        /\ s.y1 = (IF b = "bottom" THEN s.size[2] - 1 ELSE s.size[2])
  BY DEF IsEd, Fits, Laid
<1>2. z \in OnScreen /\ h \in Nat \ {0} /\ y1 \in Int
  BY Parts
<1>3. h = y1 - s.y0 /\ s.x1 = z[1] - 1
  BY DEF IsEd, Fits, Laid
<1>4. t = Frame(s, z, e, z[1] - 1, y1, h, LeftOf(e), Most(z[1] - 1 - LeftOf(e), 0))
  BY <1>3 DEF editor_apply_write_area, Frame, LeftOf, IsEd, Record
<1> HIDE DEF t, z, y1, h
<1>5. y1 = (IF b = "bottom" THEN z[2] - 1 ELSE z[2])
  BY <1>1 DEF y1, z
<1> QED BY <1>1, <1>2, <1>3, <1>4, <1>5, FrameIs DEF h, t

\* Only the screen and whether the cursor is shown.
Mode(s, c, b) == [s EXCEPT !.screen = c, !.shown = b]

Modes(s, t) ==
  /\ IsEd(t) /\ SameText(s, t) /\ SameFrame(s, t) /\ t.start = s.start /\ t.y = s.y /\ t.x = s.x
  /\ t.syn = s.syn /\ t.end = s.end /\ t.redraw = s.redraw

LEMMA ModeIs ==
  ASSUME NEW s, IsEd(s), NEW c \in {"edit", "tree", "over"}, NEW b \in BOOLEAN
  PROVE  Modes(s, Mode(s, c, b)) /\ Mode(s, c, b).screen = c /\ Mode(s, c, b).shown = b
<1> DEFINE t == Mode(s, c, b)
<1>1. t \in Record
  BY DEF IsEd, Record, Mode
<1>2. /\ t.x = s.x /\ t.y = s.y /\ t.start = s.start /\ SameText(s, t) /\ SameFrame(s, t)
      /\ t.syn = s.syn /\ t.shown = b /\ t.end = s.end /\ t.redraw = s.redraw
      /\ t.screen = c
  BY DEF IsEd, Record, Mode, SameText, SameFrame
<1>3. Fits(t)
  BY <1>2 DEF IsEd, Fits, Laid, SameText, SameFrame
<1> QED BY <1>1, <1>2, <1>3 DEF IsEd, Modes

LEMMA ShowIs ==
  ASSUME NEW s, IsEd(s), NEW b \in BOOLEAN
  PROVE  LET t == [s EXCEPT !.shown = b]
         IN  Modes(s, t) /\ t.screen = s.screen /\ t.shown = b
<1> DEFINE c == s.screen
           t == [s EXCEPT !.shown = b]
<1>1. t = Mode(s, c, b) /\ c = s.screen
  BY DEF IsEd, Record, Mode
<1>2. c \in {"edit", "tree", "over"}
  BY Parts
<1> HIDE DEF c, t
<1> QED BY <1>1, <1>2, ModeIs DEF t

LEMMA ScreenIs ==
  ASSUME NEW s, IsEd(s), NEW c \in {"edit", "tree", "over"}
  PROVE  LET t == [s EXCEPT !.screen = c]
         IN  Modes(s, t) /\ t.screen = c /\ t.shown = s.shown
<1> DEFINE b == s.shown
           t == [s EXCEPT !.screen = c]
<1>1. t = Mode(s, c, b) /\ b = s.shown
  BY DEF IsEd, Record, Mode
<1>2. b \in BOOLEAN
  BY Parts
<1> HIDE DEF b, t
<1> QED BY <1>1, <1>2, ModeIs DEF t

\* A handler that ends by asking for a drawing, with the text and view as they were.
Anew(s, t) ==
  /\ IsEd(t) /\ SameText(s, t) /\ t.start = s.start /\ t.y = s.y /\ t.syn = s.syn
  /\ t.end = s.end /\ t.redraw = TRUE

LEMMA ShowTree ==
  ASSUME NEW s, IsEd(s), NEW w \in Nat, NEW h \in Nat
  PROVE  LET t == show_filetree(s, w, h)
         IN  Anew(s, t) /\ t.h = s.h /\ t.shown = s.shown /\ t.screen = s.screen
<1> DEFINE e == [show |-> TRUE, w |-> w, h |-> h]
           a == editor_apply_write_area([s EXCEPT !.tree = e])
           b == Sync(a)
           t == show_filetree(s, w, h)
<1>1. e \in Trees
  BY DEF Trees
<1>2. t = Redrawn(b)
  BY DEF show_filetree
<1> HIDE DEF e
<1>3. Reframes(s, a) /\ a.h = s.h
  BY <1>1, TreeIs
<1> HIDE DEF a
<1>4. Moves(a, b) /\ b.y = a.y
  BY <1>3, SyncIs DEF Reframes
<1> HIDE DEF b, t
<1>5. /\ IsEd(t) /\ SameText(b, t) /\ SameFrame(b, t) /\ t.redraw = TRUE
      /\ t.y = b.y /\ t.start = b.start /\ t.syn = b.syn /\ t.end = b.end
      /\ t.shown = b.shown /\ t.screen = b.screen
  BY <1>2, <1>4, RedrawnIs DEF Moves
<1>6. SameText(s, t) /\ t.h = s.h
  BY <1>3, <1>4, <1>5 DEF Reframes, Moves, SameText, SameFrame
<1> QED BY <1>3, <1>4, <1>5, <1>6 DEF Reframes, Moves, Anew, t

LEMMA RestoreIs ==
  ASSUME NEW s, IsEd(s)
  PROVE  LET t == restore_edit_screen(s)
         IN  Anew(s, t) /\ SameFrame(s, t) /\ t.shown = TRUE /\ t.screen = "edit"
<1> DEFINE a == Mode(s, "edit", TRUE)
           b == Sync(a)
           t == restore_edit_screen(s)
<1>1. t = Redrawn(b)
  BY DEF restore_edit_screen, Mode
<1>2. Modes(s, a) /\ a.screen = "edit" /\ a.shown = TRUE
  BY ModeIs
<1> HIDE DEF a
<1>3. Moves(a, b) /\ b.y = a.y
  BY <1>2, SyncIs DEF Modes
<1> HIDE DEF b, t
<1>4. /\ IsEd(t) /\ SameText(b, t) /\ SameFrame(b, t) /\ t.redraw = TRUE
      /\ t.y = b.y /\ t.start = b.start /\ t.syn = b.syn /\ t.end = b.end
      /\ t.shown = b.shown /\ t.screen = b.screen
  BY <1>1, <1>3, RedrawnIs DEF Moves
<1>5. SameText(s, t) /\ SameFrame(s, t)
  BY <1>2, <1>3, <1>4 DEF Modes, Moves, SameText, SameFrame
<1> QED BY <1>2, <1>3, <1>4, <1>5 DEF Modes, Moves, Anew, t

LEMMA HandleResize ==
  ASSUME NEW s, IsEd(s), NEW z \in OnScreen
  PROVE  LET t == handle_resize(s, z)
         IN  /\ IsEd(t) /\ SameText(s, t) /\ t.redraw = TRUE
             /\ t.screen = s.screen /\ t.shown = s.shown
             /\ s.screen = "edit" /\ s.y < D => editor_cursor_is_visible(t)
<1> DEFINE X1 == z[1] - (s.size[1] - s.x1)
           Y1 == z[2] - (s.size[2] - s.y1)
           H == Y1 - s.y0
           e == s.tree
           a == editor_apply_write_area([s EXCEPT !.size = z, !.x1 = X1, !.y1 = Y1])
           f == [a EXCEPT !.h = a.y1 - a.y0]
           m == Sync(f)
           t == handle_resize(s, z)
<1>1. PICK b \in Bars : /\ s.y0 = (IF b = "top" THEN 2 ELSE 0)
                        /\ s.y1 = (IF b = "bottom" THEN s.size[2] - 1 ELSE s.size[2])
  BY DEF IsEd, Fits, Laid
<1>2. s.x1 = s.size[1] - 1
  BY DEF IsEd, Fits, Laid
<1>3. /\ z[1] \in Nat /\ z[2] \in Nat /\ z[2] >= MinY /\ MinY > 2 /\ MinY \in Nat
      /\ s.size[1] \in Nat /\ s.size[2] \in Nat
  BY Parts, ViewAssumption DEF OnScreen
<1>4. X1 = z[1] - 1 /\ Y1 = (IF b = "bottom" THEN z[2] - 1 ELSE z[2])
  BY <1>1, <1>2, <1>3
<1>5. Y1 \in Int /\ H \in Nat \ {0}
  BY <1>1, <1>3, <1>4
<1>6. e \in Trees
  BY Parts DEF Trees
<1>7. t = update_screen_ratio(m)
  BY DEF handle_resize
<1>9. H = Y1 - s.y0
  OBVIOUS
<1> HIDE DEF X1, Y1
<1>8. f = Frame(s, z, e, X1, Y1, H, LeftOf(e), Most(X1 - LeftOf(e), 0))
  <2> DEFINE g == [s EXCEPT !.size = z, !.x1 = X1, !.y1 = Y1]
             k == Frame(s, z, e, X1, Y1, H, LeftOf(e), Most(X1 - LeftOf(e), 0))
  <2>1. g.tree = e /\ g.x1 = X1 /\ g.y1 = Y1 /\ g.y0 = s.y0
    BY DEF IsEd, Record
  <2>2. a = [g EXCEPT !.x0 = LeftOf(e), !.w = Most(X1 - LeftOf(e), 0)]
    BY <2>1 DEF editor_apply_write_area, LeftOf
  <2> HIDE DEF a
  <2>3. a.y1 = Y1 /\ a.y0 = s.y0
    BY <2>2 DEF IsEd, Record
  <2>4. f = [a EXCEPT !.h = H]
    BY <2>3
  <2> QED BY <2>2, <2>4 DEF Frame, IsEd, Record
<1> HIDE DEF f, e, H
<1>10. Reframes(s, f)
  BY <1>1, <1>4, <1>5, <1>6, <1>8, <1>9, FrameIs
<1>11. Moves(f, m) /\ m.y = f.y
  BY <1>10, SyncIs DEF Reframes
<1> HIDE DEF m, t
<1>12. IsEd(m) /\ SameText(s, m) /\ m.screen = s.screen /\ m.shown = s.shown /\ m.y = s.y
  BY <1>10, <1>11 DEF Reframes, Moves, SameText
<1>13. m.tree.w \in Nat /\ m.tree.h \in Nat /\ m.y \in Nat /\ m.x \in Int /\ D \in Nat \ {0}
  BY <1>12, Parts, ViewAssumption
<1>14. CASE m.screen = "tree"
  <2>1. t = show_filetree(m, m.tree.w, m.tree.h)
    BY <1>7, <1>14 DEF update_screen_ratio
  <2>2. Anew(m, t) /\ t.shown = m.shown /\ t.screen = m.screen
    BY <1>12, <1>13, <2>1, ShowTree
  <2> QED BY <1>12, <1>14, <2>2 DEF Anew, SameText, t
<1>15. CASE m.screen = "edit" /\ ~ editor_cursor_is_visible(m)
  <2> DEFINE l == m.y
             c == m.x
             line == Clamp(l, 0, Most(editor_line_limit(m) - 1, 0))
  <2>1. t = move_view_to_line(m, l, c)
    BY <1>7, <1>15 DEF update_screen_ratio
  <2>2. line <= m.y
    BY <1>12, <1>13, Limits DEF Clamp, Most
  <2>3. line \in Nat
    BY <1>12, <1>13, Limits DEF Clamp, Most
  <2>6. l \in Int /\ c \in Int
    BY <1>13
  <2> HIDE DEF l, c
  <2>4. /\ Asks(m, t) /\ SameText(m, t) /\ t.redraw = TRUE /\ t.shown = m.shown
        /\ line < D => editor_cursor_is_visible(t)
    BY <1>12, <2>1, <2>6, MoveView
  <2> HIDE DEF line
  <2>5. m.y < D => editor_cursor_is_visible(t)
    BY <1>13, <2>2, <2>3, <2>4
  <2> QED BY <1>12, <2>4, <2>5 DEF Asks, SameText, t
<1>16. CASE ~ (m.screen = "tree") /\ ~ (m.screen = "edit" /\ ~ editor_cursor_is_visible(m))
  <2> DEFINE u == Sync(m)
  <2>1. t = Redrawn(u)
    BY <1>7, <1>16 DEF update_screen_ratio
  <2>2. Moves(m, u) /\ u.y = m.y
    BY <1>12, SyncIs
  <2> HIDE DEF u
  <2>3. /\ IsEd(t) /\ SameText(u, t) /\ SameFrame(u, t) /\ t.redraw = TRUE
        /\ t.y = u.y /\ t.start = u.start /\ t.shown = u.shown /\ t.screen = u.screen
    BY <2>1, <2>2, RedrawnIs DEF Moves
  <2>4. /\ SameText(s, t) /\ t.h = m.h /\ t.y = m.y /\ t.start = m.start
        /\ t.screen = s.screen /\ t.shown = s.shown
    BY <1>12, <2>2, <2>3 DEF Moves, SameText, SameFrame
  <2>5. editor_cursor_is_visible(m) => editor_cursor_is_visible(t)
    BY <1>12, <2>3, <2>4, Visible
  <2> QED BY <1>12, <1>16, <2>3, <2>4, <2>5 DEF t
<1> QED BY <1>14, <1>15, <1>16

-----------------------------------------------------------------------------
(* Keys that change the text                                               *)

\* Only the rows, their lengths and how many there are.
Edits(s, t) ==
  /\ IsEd(t) /\ SameFrame(s, t) /\ t.start = s.start /\ t.y = s.y /\ t.x = s.x /\ t.syn = s.syn
  /\ t.shown = s.shown /\ t.redraw = s.redraw /\ t.screen = s.screen /\ t.open = s.open

Text(s, n, f, c, e) == [s EXCEPT !.rows = n, !.len = f, !.counter = c, !.end = e]

LEMMA TextIs ==
  ASSUME NEW s, IsEd(s), NEW n \in Nat \ {0}, NEW f \in [0 .. n - 1 -> Nat], NEW c \in 0 .. D,
         NEW e \in Nat
  PROVE  /\ Edits(s, Text(s, n, f, c, e))
         /\ Text(s, n, f, c, e).rows = n /\ Text(s, n, f, c, e).len = f
         /\ Text(s, n, f, c, e).counter = c /\ Text(s, n, f, c, e).end = e
<1> DEFINE t == Text(s, n, f, c, e)
<1>1. f \in Lengths
  BY DEF Lengths
<1>2. t \in Record
  BY <1>1 DEF IsEd, Record, Text
<1>3. /\ t.x = s.x /\ t.y = s.y /\ t.start = s.start /\ SameFrame(s, t) /\ t.open = s.open
      /\ t.syn = s.syn /\ t.shown = s.shown /\ t.redraw = s.redraw /\ t.screen = s.screen
  BY DEF IsEd, Record, Text, SameFrame
<1>4. t.rows = n /\ t.len = f /\ t.counter = c /\ t.end = e
  BY DEF IsEd, Record, Text
<1> HIDE DEF t
<1>5. Fits(t)
  BY <1>3, <1>4 DEF IsEd, Fits, Laid, SameFrame
<1> QED BY <1>2, <1>3, <1>4, <1>5 DEF IsEd, Edits, t

\* The order in which the fields are written makes no difference.
EndFirst(s, n, f, e, c) == [s EXCEPT !.rows = n, !.len = f, !.end = e, !.counter = c]

LEMMA AnyOrder ==
  ASSUME NEW s, IsEd(s), NEW n, NEW f, NEW c, NEW e
  PROVE  EndFirst(s, n, f, e, c) = Text(s, n, f, c, e)
BY DEF EndFirst, Text, IsEd, Record

End(s, e) == [s EXCEPT !.end = e]

LEMMA EndIs ==
  ASSUME NEW s, IsEd(s), NEW e \in Nat
  PROVE  /\ Edits(s, End(s, e)) /\ SameText(s, End(s, e))
         /\ End(s, e).rows = s.rows /\ End(s, e).len = s.len /\ End(s, e).end = e
<1> DEFINE n == s.rows
           f == s.len
           c == s.counter
<1>1. n \in Nat \ {0} /\ f \in [0 .. n - 1 -> Nat] /\ c \in 0 .. D
  BY Parts
<1>2. End(s, e) = Text(s, n, f, c, e)
  BY DEF End, Text, IsEd, Record
<1>3. n = s.rows /\ f = s.len /\ c = s.counter
  OBVIOUS
<1> HIDE DEF n, f, c
<1>4. /\ Edits(s, Text(s, n, f, c, e))
      /\ Text(s, n, f, c, e).rows = n /\ Text(s, n, f, c, e).len = f
      /\ Text(s, n, f, c, e).counter = c /\ Text(s, n, f, c, e).end = e
  BY <1>1, TextIs
<1>5. Text(s, n, f, c, e).open = s.open
  BY <1>4 DEF Edits
<1> QED BY <1>2, <1>3, <1>4, <1>5 DEF SameText

\* What a key that asks for a drawing makes of text and view.
LEMMA DrawnAgain ==
  ASSUME NEW s, NEW t, IsEd(t), SameFrame(s, t), t.screen = s.screen, t.redraw = TRUE
  PROVE  Asks(s, t)
BY DEF Asks

\* A glyph changes the row of the cursor.
LEMMA HandleChar ==
  ASSUME NEW s, IsEd(s)
  PROVE  LET t == handle_char_input(s)
         IN  /\ Asks(s, t) /\ t.start = s.start /\ t.shown = s.shown /\ t.rows = s.rows
             /\ \A r \in DOMAIN s.len : t.len[r] # s.len[r] => r = s.y /\ s.y < editor_line_limit(s)
<1> DEFINE l == s.y
           limit == editor_line_limit(s)
           x == editor_clamp_col(s, l, Clamp(s.x, 0, s.w - 1))
           t == [s EXCEPT !.len[l] = @ + 1, !.end = Most(@, l + 1), !.x = x + 1]
           u == editor_move_cursor_line(t, 1)
           m == [u EXCEPT !.x = 0]
           d == [m EXCEPT !.end = Most(@, m.y + 1)]
           r == handle_char_input(s)
<1>1. /\ l \in Nat /\ s.x \in Int /\ s.w \in Nat /\ s.end \in Nat /\ s.counter \in 0 .. D
      /\ limit \in 0 .. s.rows /\ s.rows \in Nat \ {0} /\ s.len \in [0 .. s.rows - 1 -> Nat]
  BY Limits, Parts
<1>2. CASE l >= limit \/ s.w = 0
  <2>1. r = s
    BY <1>2 DEF handle_char_input
  <2> QED BY <2>1, AsksItself
<1>3. CASE ~ (l >= limit \/ s.w = 0)
  <2> DEFINE g == [s.len EXCEPT ![l] = @ + 1]
             e == Most(s.end, l + 1)
             n == s.rows
             c == s.counter
             a == Text(s, n, g, c, e)
  <2>1. Clamp(s.x, 0, s.w - 1) \in Int
    BY <1>1 DEF Clamp
  <2>2. x \in Nat
    BY <1>1, <2>1, ClampCol
  <2>3. g \in [0 .. s.rows - 1 -> Nat] /\ \A k \in 0 .. s.rows - 1 : k # l => g[k] = s.len[k]
    <3> DEFINE R == 0 .. s.rows - 1
    <3>1. s.len \in [R -> Nat]
      BY <1>1
    <3>2. l \in R
      BY <1>1, <1>3
    <3> HIDE DEF R, l
    <3>3. s.len[l] + 1 \in Nat
      BY <3>1, <3>2
    <3>4. g \in [R -> Nat]
      BY <3>1, <3>3
    <3>5. \A k \in R : k # l => g[k] = s.len[k]
      BY <3>1
    <3> QED BY <3>4, <3>5 DEF R
  <2>4. e \in Nat
    <3>1. l + 1 \in Nat /\ s.end \in Nat
      BY <1>1
    <3> QED BY <3>1 DEF Most
  <2>5. r = Redrawn(IF x >= s.w - 1 /\ l + 1 < limit THEN d ELSE t)
    BY <1>3 DEF handle_char_input
  <2> HIDE DEF x
  <2>6. t = Put(a, l, x + 1)
    BY DEF Put, Text, IsEd, Record
  <2>24. n \in Nat \ {0} /\ c \in 0 .. D /\ g \in [0 .. n - 1 -> Nat]
    BY <1>1, <2>3
  <2>25. n = s.rows /\ c = s.counter
    OBVIOUS
  <2> HIDE DEF t, g, e, n, c
  <2>7. Edits(s, a) /\ a.len = g /\ a.rows = n /\ a.counter = c /\ a.end = e
    BY <2>4, <2>24, TextIs
  <2> HIDE DEF a
  <2>8. x + 1 \in Int
    BY <2>2
  <2>9. Moves(a, t)
    BY <1>1, <2>6, <2>7, <2>8, PutIs DEF Edits
  <2>10. Moves(t, u)
    BY <2>9, MoveLine DEF Moves
  <2> HIDE DEF u
  <2>11. m = Put(u, u.y, 0) /\ u.y \in Nat
    BY <2>10, SetX DEF Moves
  <2> HIDE DEF m
  <2>12. Moves(u, m)
    BY <2>10, <2>11, PutIs DEF Moves
  <2>13. IsEd(m)
    BY <2>12 DEF Moves
  <2>14. Most(m.end, m.y + 1) \in Nat
    BY <2>13, Parts DEF Most
  <2>15. d = End(m, Most(m.end, m.y + 1))
    BY DEF End
  <2> HIDE DEF d
  <2>16. Edits(m, d) /\ d.rows = m.rows /\ d.len = m.len
    BY <2>13, <2>14, <2>15, EndIs
  <2> DEFINE q == IF x >= s.w - 1 /\ l + 1 < limit THEN d ELSE t
  <2>17. q = d \/ q = t
    OBVIOUS
  <2> HIDE DEF q
  <2>18. /\ IsEd(q) /\ SameFrame(s, q) /\ q.start = s.start /\ q.shown = s.shown
         /\ q.screen = s.screen /\ q.rows = s.rows /\ q.len = g
    <3>1. CASE q = t
      BY <3>1, <2>7, <2>9, <2>25 DEF Edits, Moves, SameFrame, SameText
    <3>2. CASE q = d
      BY <3>2, <2>7, <2>9, <2>10, <2>12, <2>16, <2>25 DEF Edits, Moves, SameFrame, SameText
    <3> QED BY <2>17, <3>1, <3>2
  <2>19. r = Redrawn(q)
    BY <2>5 DEF q
  <2> HIDE DEF r
  <2>20. /\ IsEd(r) /\ SameText(q, r) /\ SameFrame(q, r) /\ r.redraw = TRUE
         /\ r.start = q.start /\ r.shown = q.shown /\ r.screen = q.screen
    BY <2>18, <2>19, RedrawnIs
  <2>21. SameFrame(s, r) /\ r.len = g /\ r.rows = s.rows
    BY <2>18, <2>20 DEF SameFrame, SameText
  <2>22. Asks(s, r)
    BY <2>18, <2>20, <2>21, DrawnAgain
  <2>23. \A k \in DOMAIN s.len : r.len[k] # s.len[k] => k = s.y /\ s.y < limit
    BY <1>1, <1>3, <2>3, <2>21
  <2> QED BY <2>18, <2>20, <2>21, <2>22, <2>23 DEF r
<1> QED BY <1>2, <1>3

\* The function of a tab exists, for any number of spaces.
LEMMA TabFunction ==
  ASSUME NEW s, NEW n \in Nat
  PROVE  \E f : f = [k \in 0 .. n |-> IF k = 0 THEN s ELSE handle_char_input(f[k - 1])]
<1> DEFINE Is(f, m) == f = [k \in 0 .. m |-> IF k = 0 THEN s ELSE handle_char_input(f[k - 1])]
           S == {m \in Nat : \E f : Is(f, m)}
<1>1. 0 \in S
  <2> DEFINE f == [k \in 0 .. 0 |-> s]
  <2>1. f = [k \in 0 .. 0 |-> IF k = 0 THEN s ELSE handle_char_input(f[k - 1])]
    OBVIOUS
  <2> HIDE DEF f
  <2>2. Is(f, 0)
    BY <2>1
  <2> QED BY <2>2
<1>2. ASSUME NEW m \in S PROVE m + 1 \in S
  <2>1. PICK f : Is(f, m)
    BY <1>2
  <2> DEFINE g == [k \in 0 .. m + 1 |-> IF k <= m THEN f[k] ELSE handle_char_input(f[m])]
             h == [k \in 0 .. m + 1 |-> IF k = 0 THEN s ELSE handle_char_input(g[k - 1])]
  <2>2. m \in Nat
    OBVIOUS
  <2>3. \A k \in 0 .. m : f[k] = IF k = 0 THEN s ELSE handle_char_input(f[k - 1])
    BY <2>1
  <2>4. ASSUME NEW k \in 0 .. m + 1 PROVE g[k] = h[k]
    <3>1. CASE k = m + 1
      BY <2>2, <3>1
    <3>2. CASE k # m + 1 /\ k # 0
      <4>1. k \in 0 .. m /\ k - 1 \in 0 .. m + 1 /\ k - 1 <= m
        BY <2>2, <3>2
      <4>2. g[k] = f[k] /\ g[k - 1] = f[k - 1]
        BY <4>1
      <4>3. h[k] = handle_char_input(g[k - 1])
        BY <3>2
      <4> QED BY <2>3, <3>2, <4>1, <4>2, <4>3
    <3>3. CASE k = 0
      BY <2>2, <2>3, <3>3
    <3> QED BY <3>1, <3>2, <3>3
  <2>5. g = h
    BY <2>4
  <2>6. Is(g, m + 1)
    BY <2>5
  <2> HIDE DEF g, Is
  <2> QED BY <2>2, <2>6
<1> HIDE DEF S
<1>3. S = Nat
  BY <1>1, <1>2, Induction DEF S
<1> QED BY <1>3 DEF S

LEMMA HandleTab ==
  ASSUME NEW s, IsEd(s)
  PROVE  Asks(s, handle_tab(s))
<1> DEFINE f[n \in 0 .. Indent] == IF n = 0 THEN s ELSE handle_char_input(f[n - 1])
<1>1. Indent \in Nat
  BY ViewAssumption
<1>2. f = [n \in 0 .. Indent |-> IF n = 0 THEN s ELSE handle_char_input(f[n - 1])]
  BY <1>1, TabFunction
<1>3. handle_tab(s) = f[Indent]
  BY DEF handle_tab
<1> HIDE DEF f
<1> DEFINE S == {n \in Nat : n \in 0 .. Indent => Asks(s, f[n])}
<1>4. 0 \in S
  BY <1>1, <1>2, AsksItself
<1>5. ASSUME NEW n \in S PROVE n + 1 \in S
  <2>1. CASE n + 1 \in 0 .. Indent
    <3>1. Asks(s, f[n])
      BY <1>1, <2>1
    <3>2. Asks(f[n], handle_char_input(f[n]))
      BY <3>1, HandleChar DEF Asks
    <3>3. f[n + 1] = handle_char_input(f[n])
      <4>1. n \in Nat /\ n + 1 # 0 /\ (n + 1) - 1 = n
        OBVIOUS
      <4>2. f[n + 1] = IF n + 1 = 0 THEN s ELSE handle_char_input(f[(n + 1) - 1])
        BY <1>2, <2>1
      <4> QED BY <4>1, <4>2
    <3> QED BY <3>1, <3>2, <3>3, AsksAgain
  <2>2. CASE n + 1 \notin 0 .. Indent
    BY <2>2
  <2> QED BY <2>1, <2>2
<1> HIDE DEF S
<1>6. S = Nat
  BY <1>4, <1>5, Induction DEF S
<1> QED BY <1>1, <1>3, <1>6 DEF S

\* A new row, and memory for it.
LEMMA NewLineSpace ==
  ASSUME NEW s, IsEd(s), s.y < editor_line_limit(s)
  PROVE  Edits(s, make_new_line_space(s))
<1> DEFINE l == s.y
           used == Most(s.end, l + 1)
           rows == Doubled(s.rows, used + 1)
           col == Clamp(s.x, 0, s.len[l])
           Old(r) == IF r < s.rows THEN s.len[r] ELSE 0
           f == [r \in 0 .. rows - 1 |->
                   IF r = l THEN col
                   ELSE IF r = l + 1 THEN s.len[l] - col
                   ELSE IF r \in l + 2 .. used THEN Old(r - 1) ELSE Old(r)]
           c == IF s.counter < D THEN s.counter + 1 ELSE s.counter
           e == used + 1
<1>1. /\ l \in Nat /\ s.x \in Int /\ s.end \in Nat /\ s.counter \in 0 .. D /\ D \in Nat
      /\ editor_line_limit(s) \in 0 .. s.rows /\ s.rows \in Nat \ {0}
      /\ s.len \in [0 .. s.rows - 1 -> Nat]
  BY Limits, Parts, ViewAssumption
<1>2. used \in Nat /\ used >= l + 1
  BY <1>1 DEF Most
<1> HIDE DEF used
<1>3. rows \in Nat /\ rows >= used + 1 /\ rows >= s.rows
  <2> DEFINE n == s.rows
             need == used + 1
  <2>1. n \in Nat \ {0}
    BY <1>1
  <2>2. need \in Nat
    BY <1>2
  <2> HIDE DEF n, need
  <2>3. Doubled(n, need) \in Nat /\ Doubled(n, need) >= need /\ Doubled(n, need) >= n
    BY <2>1, <2>2, DoubledIs
  <2> QED BY <2>3 DEF n, need
<1> HIDE DEF rows
<1>4. s.len[l] \in Nat
  BY <1>1
<1>5. col \in Nat /\ s.len[l] - col \in Nat
  BY <1>1, <1>4 DEF Clamp
<1> HIDE DEF col
<1>6. \A r \in Nat : Old(r) \in Nat
  BY <1>1
<1> HIDE DEF Old
<1>7. ASSUME NEW r \in 0 .. rows - 1 PROVE f[r] \in Nat
  <2>1. r \in Nat /\ (r \in l + 2 .. used => r - 1 \in Nat)
    BY <1>1, <1>3
  <2> QED BY <1>4, <1>5, <1>6, <2>1
<1>8. f \in [0 .. rows - 1 -> Nat]
  BY <1>7
<1>9. c \in 0 .. D /\ e \in Nat /\ rows \in Nat \ {0}
  <2>1. c \in 0 .. D
    BY <1>1
  <2>2. e \in Nat
    BY <1>2
  <2>3. rows \in Nat \ {0}
    BY <1>2, <1>3
  <2> QED BY <2>1, <2>2, <2>3
<1>10. make_new_line_space(s) = Text(s, rows, f, c, e)
  <2>1. make_new_line_space(s) = EndFirst(s, rows, f, e, c)
    BY DEF make_new_line_space, rows, used, col, Old, EndFirst
  <2> HIDE DEF f, c, e
  <2> QED BY <2>1, AnyOrder
<1> HIDE DEF f, c, e
<1> QED BY <1>8, <1>9, <1>10, TextIs

LEMMA HandleNewline ==
  ASSUME NEW s, IsEd(s)
  PROVE  LET t == handle_newline(s)
         IN  /\ Asks(s, t) /\ t.shown = s.shown
             /\ editor_cursor_is_visible(s) => editor_cursor_is_visible(t)
<1> DEFINE m == make_new_line_space(s)
           d == IF s.y - s.start + 1 < s.h
                THEN editor_move_cursor_line(m, 1) ELSE editor_screen_move_line(m, 1)
           u == [d EXCEPT !.x = 0]
           v == [d EXCEPT !.x = 0, !.end = Most(@, d.y + 1)]
           t == handle_newline(s)
<1>1. s.y \in Nat /\ s.start \in Nat /\ s.h \in Nat \ {0} /\ editor_line_limit(s) \in Nat
  BY Limits, Parts
<1>2. CASE s.y >= editor_line_limit(s)
  <2>1. t = s
    BY <1>2 DEF handle_newline
  <2> QED BY <2>1, AsksItself
<1>3. CASE ~ (s.y >= editor_line_limit(s))
  <2>1. t = Redrawn(v)
    BY <1>3 DEF handle_newline
  <2>2. Edits(s, m)
    BY <1>1, <1>3, NewLineSpace
  <2> HIDE DEF m
  <2>3. /\ IsEd(d) /\ SameFrame(m, d) /\ d.shown = m.shown /\ d.screen = m.screen
        /\ \/ d.y = m.y /\ d.start = m.start
           \/ d.y = m.y + 1 /\ d.start = m.start /\ s.y - s.start + 1 < s.h
           \/ d.y = m.y + 1 /\ d.start = m.start + 1
    <3>1. CASE s.y - s.start + 1 < s.h
      <4>1. d = editor_move_cursor_line(m, 1)
        BY <3>1
      <4> HIDE DEF d
      <4>2. Moves(m, d) /\ (d.y = m.y + 1 \/ d.y = m.y)
        BY <2>2, <4>1, MoveLine DEF Edits
      <4> QED BY <3>1, <4>2 DEF Moves
    <3>2. CASE ~ (s.y - s.start + 1 < s.h)
      <4>1. d = editor_screen_move_line(m, 1)
        BY <3>2
      <4> HIDE DEF d
      <4>2. /\ Asks(m, d) /\ d.shown = m.shown
            /\ \/ d.y = m.y /\ d.start = m.start
               \/ d.y = m.y + 1 /\ d.start = m.start + 1
        BY <2>2, <4>1, ScreenMoveLine DEF Edits
      <4> QED BY <4>2 DEF Asks
    <3> QED BY <3>1, <3>2
  <2> HIDE DEF d
  <2>4. d.y \in Nat /\ d.end \in Nat
    BY <2>3, Parts
  <2>5. u = Put(d, d.y, 0)
    BY <2>3, SetX
  <2> DEFINE e == Most(d.end, d.y + 1)
  <2>6. e \in Nat
    BY <2>4 DEF Most
  <2> HIDE DEF u, e
  <2>7. Moves(d, u) /\ u.y = d.y
    BY <2>3, <2>4, <2>5, PutIs
  <2>8. v = End(u, e)
    BY <2>3, <2>5, <2>7 DEF End, Put, e, IsEd, Record, Moves
  <2> HIDE DEF v
  <2>9. Edits(u, v)
    BY <2>6, <2>7, <2>8, EndIs DEF Moves
  <2> HIDE DEF t
  <2>10. /\ IsEd(t) /\ SameFrame(v, t) /\ t.redraw = TRUE /\ t.screen = v.screen
         /\ t.y = v.y /\ t.start = v.start /\ t.shown = v.shown
    BY <2>1, <2>9, RedrawnIs DEF Edits
  <2>11. SameFrame(s, t) /\ t.screen = s.screen /\ t.shown = s.shown
    BY <2>2, <2>3, <2>7, <2>9, <2>10 DEF Edits, Moves, SameFrame
  <2>12. Asks(s, t)
    BY <2>10, <2>11, DrawnAgain
  <2>13. /\ t.h = s.h
         /\ \/ t.y = s.y /\ t.start = s.start
            \/ t.y = s.y + 1 /\ t.start = s.start /\ s.y - s.start + 1 < s.h
            \/ t.y = s.y + 1 /\ t.start = s.start + 1
    BY <2>2, <2>3, <2>7, <2>9, <2>10, <2>11 DEF Edits, Moves, SameFrame
  <2>14. editor_cursor_is_visible(s) => editor_cursor_is_visible(t)
    <3>1. s.y - s.start \in 0 .. s.h - 1 => t.y - t.start \in 0 .. s.h - 1
      BY <1>1, <2>13
    <3> QED BY <2>10, <2>13, <3>1, Visible
  <2> QED BY <2>11, <2>12, <2>14 DEF t
<1> QED BY <1>2, <1>3

\* A row joined to the one above.
LEMMA JoinedText ==
  ASSUME NEW s, IsEd(s), s.y > 0, s.y < editor_line_limit(s)
  PROVE  Edits(s, remove_line_join_str_data(s))
<1> DEFINE n == s.rows
           f == [r \in DOMAIN s.len |->
                   IF r < s.y - 1 THEN s.len[r]
                   ELSE IF r = s.y - 1 THEN s.len[r] + s.len[s.y]
                   ELSE IF r = s.rows - 1 THEN 0 ELSE s.len[r + 1]]
           c == Most(s.counter - 1, 0)
           e == Most(s.end - 1, 0)
<1>1. /\ s.y \in Nat /\ s.end \in Nat /\ s.counter \in 0 .. D /\ D \in Nat
      /\ editor_line_limit(s) \in 0 .. s.rows /\ s.rows \in Nat \ {0}
      /\ s.len \in [0 .. s.rows - 1 -> Nat]
  BY Limits, Parts, ViewAssumption
<1>2. f \in [0 .. n - 1 -> Nat]
  <2>1. ASSUME NEW r \in 0 .. n - 1 PROVE f[r] \in Nat
    <3>1. s.len[r] \in Nat /\ s.len[s.y] \in Nat
      <4>1. s.y \in 0 .. s.rows - 1
        BY <1>1
      <4>2. s.len \in [0 .. s.rows - 1 -> Nat]
        BY <1>1
      <4> QED BY <4>1, <4>2
    <3>2. r # s.rows - 1 => s.len[r + 1] \in Nat
      <4> SUFFICES ASSUME r # s.rows - 1 PROVE s.len[r + 1] \in Nat
        OBVIOUS
      <4>1. r + 1 \in 0 .. s.rows - 1
        BY <1>1
      <4>2. s.len \in [0 .. s.rows - 1 -> Nat]
        BY <1>1
      <4> QED BY <4>1, <4>2
    <3>3. DOMAIN s.len = 0 .. s.rows - 1
      BY <1>1
    <3>4. \/ f[r] \in {s.len[r], s.len[r] + s.len[s.y], 0}
          \/ r # s.rows - 1 /\ f[r] = s.len[r + 1]
      BY <3>3
    <3> HIDE DEF f
    <3>5. s.len[r] + s.len[s.y] \in Nat
      BY <3>1
    <3> QED BY <3>1, <3>2, <3>4, <3>5
  <2>2. DOMAIN s.len = 0 .. n - 1
    BY <1>1
  <2> QED BY <2>1, <2>2
<1>3. n \in Nat \ {0} /\ c \in 0 .. D /\ e \in Nat
  BY <1>1 DEF Most
<1>4. remove_line_join_str_data(s) = Text(s, n, f, c, e)
  <2>1. remove_line_join_str_data(s) = [s EXCEPT !.len = f, !.end = e, !.counter = c]
    BY DEF remove_line_join_str_data, IsEd, Record
  <2>2. n = s.rows
    OBVIOUS
  <2> HIDE DEF n, f, c, e
  <2> QED BY <2>1, <2>2 DEF Text, IsEd, Record
<1> HIDE DEF n, f, c, e
<1> QED BY <1>2, <1>3, <1>4, TextIs

LEMMA JoinedIs ==
  ASSUME NEW s, IsEd(s), s.y > 0, s.y < editor_line_limit(s)
  PROVE  LET t == Joined(s)
         IN  /\ Asks(s, t) /\ t.shown = s.shown
             /\ editor_cursor_is_visible(s) => editor_cursor_is_visible(t)
<1> DEFINE j == remove_line_join_str_data(s)
           m == IF s.y > s.start
                THEN editor_move_cursor_line(j, -1) ELSE editor_screen_move_line(j, -1)
           col == editor_clamp_col(m, m.y, editor_line_len(s, s.y - 1))
           u == [m EXCEPT !.x = col]
           t == Joined(s)
<1>1. s.y \in Nat /\ s.start \in Nat /\ s.h \in Nat \ {0} /\ s.y - 1 \in Int /\ -1 \in Int
      /\ -1 \in {-1, 1}
  BY Parts
<1>2. t = Redrawn(u)
  BY DEF Joined
<1>3. Edits(s, j)
  BY JoinedText
<1> HIDE DEF j
<1>4. /\ IsEd(m) /\ SameFrame(j, m) /\ m.shown = j.shown /\ m.screen = j.screen
      /\ \/ m.y = j.y /\ m.start = j.start
         \/ m.y = j.y - 1 /\ m.start = j.start /\ s.y > s.start
         \/ m.y = j.y - 1 /\ m.start = j.start - 1
  <2>1. CASE s.y > s.start
    <3>1. m = editor_move_cursor_line(j, -1)
      BY <2>1
    <3> HIDE DEF m
    <3>2. Moves(j, m) /\ (m.y = j.y + -1 \/ m.y = j.y)
      BY <1>1, <1>3, <3>1, MoveLine DEF Edits
    <3>3. j.y + -1 = j.y - 1
      BY <1>3, Parts DEF Edits
    <3> QED BY <2>1, <3>2, <3>3 DEF Moves
  <2>2. CASE ~ (s.y > s.start)
    <3>1. m = editor_screen_move_line(j, -1)
      BY <2>2
    <3> HIDE DEF m
    <3>2. /\ Asks(j, m) /\ m.shown = j.shown
          /\ \/ m.y = j.y /\ m.start = j.start
             \/ m.y = j.y + -1 /\ m.start = j.start + -1
      BY <1>1, <1>3, <3>1, ScreenMoveLine DEF Edits
    <3>3. j.y + -1 = j.y - 1 /\ j.start + -1 = j.start - 1
      BY <1>3, Parts DEF Edits
    <3> QED BY <3>2, <3>3 DEF Asks
  <2> QED BY <2>1, <2>2
<1> HIDE DEF m
<1>5. editor_line_len(s, s.y - 1) \in Int /\ m.y \in Nat
  <2> DEFINE l == s.y - 1
  <2>1. l \in Int
    BY <1>1
  <2> HIDE DEF l
  <2>2. editor_line_len(s, l) \in Nat
    BY <2>1, LineLen
  <2> QED BY <1>4, <2>2, Parts DEF l
<1>6. col \in Int
  BY <1>4, <1>5, ClampCol
<1> HIDE DEF col
<1>7. u = Put(m, m.y, col)
  BY <1>4, <1>6, SetX
<1> HIDE DEF u, t
<1>8. Moves(m, u) /\ u.y = m.y
  BY <1>4, <1>5, <1>6, <1>7, PutIs
<1>9. /\ IsEd(t) /\ SameFrame(u, t) /\ t.redraw = TRUE /\ t.screen = u.screen
      /\ t.y = u.y /\ t.start = u.start /\ t.shown = u.shown
  BY <1>2, <1>8, RedrawnIs DEF Moves
<1>10. SameFrame(s, t) /\ t.screen = s.screen /\ t.shown = s.shown
  BY <1>3, <1>4, <1>8, <1>9 DEF Edits, Moves, SameFrame
<1>11. Asks(s, t)
  BY <1>9, <1>10, DrawnAgain
<1>12. /\ t.h = s.h
       /\ \/ t.y = s.y /\ t.start = s.start
          \/ t.y = s.y - 1 /\ t.start = s.start /\ s.y > s.start
          \/ t.y = s.y - 1 /\ t.start = s.start - 1
  BY <1>3, <1>4, <1>8, <1>9, <1>10 DEF Edits, Moves, SameFrame
<1>13. editor_cursor_is_visible(s) => editor_cursor_is_visible(t)
  <2>1. s.y - s.start \in 0 .. s.h - 1 => t.y - t.start \in 0 .. s.h - 1
    BY <1>1, <1>12
  <2> QED BY <1>9, <1>12, <2>1, Visible
<1> QED BY <1>10, <1>11, <1>13 DEF t

\* What is drawn and where the cursor is in it does not depend on its column.
LEMMA MovesVisible ==
  ASSUME NEW s, NEW t, Moves(s, t), t.y = s.y
  PROVE  editor_cursor_is_visible(s) => editor_cursor_is_visible(t)
BY DEF Moves, SameFrame, editor_cursor_is_visible

LEMMA HandleBackspace ==
  ASSUME NEW s, IsEd(s), NEW joins \in BOOLEAN
  PROVE  LET t == handle_backspace(s, joins)
         IN  /\ Asks(s, t) /\ t.shown = s.shown
             /\ editor_cursor_is_visible(s) => editor_cursor_is_visible(t)
<1> DEFINE b == Sync(s)
           t == handle_backspace(s, joins)
           v == [b EXCEPT !.len[b.y] = @ - 1, !.x = @ - 1]
<1>1. s.y \in Nat /\ editor_line_limit(s) \in Nat /\ s.x \in Int
  BY Limits, Parts
<1>2. /\ Moves(s, b) /\ b.y = s.y
      /\ b.x = editor_clamp_col(s, s.y, s.x)
  BY SyncIs
<1>3. CASE s.y >= editor_line_limit(s)
  <2>1. t = s
    BY <1>3 DEF handle_backspace
  <2> QED BY <2>1, AsksItself
<1>4. CASE ~ (s.y >= editor_line_limit(s)) /\ b.x > 0
  <2> DEFINE n == b.rows
             f == [b.len EXCEPT ![b.y] = @ - 1]
             c == b.counter
             e == b.end
             a == Text(b, n, f, c, e)
  <2>1. t = Redrawn(v)
    BY <1>4 DEF handle_backspace
  <2> HIDE DEF b
  <2>2. IsEd(b) /\ editor_line_limit(b) = editor_line_limit(s)
    BY <1>2, SameLines DEF Moves
  <2>3. /\ b.y \in 0 .. editor_line_limit(b) - 1
        /\ b.x \in 0 .. Least(editor_line_len(b, b.y), b.w)
    <3>1. s.y \in 0 .. editor_line_limit(s) - 1
      BY <1>1, <1>4
    <3>2. b.x \in 0 .. Least(editor_line_len(s, s.y), s.w)
      BY <1>1, <1>2, ClampCol
    <3>3. editor_line_len(s, s.y) = editor_line_len(b, b.y) /\ b.w = s.w
      BY <1>2, SameLines DEF Moves, SameFrame
    <3> QED BY <1>2, <2>2, <3>1, <3>2, <3>3
  <2>4. /\ b.len \in [0 .. b.rows - 1 -> Nat] /\ b.rows \in Nat \ {0} /\ b.w \in Nat
        /\ b.counter \in 0 .. D /\ b.end \in Nat /\ editor_line_limit(b) \in 0 .. b.rows
    BY <2>2, Parts, Limits
  <2>5. b.len[b.y] \in Nat /\ b.x \in 0 .. b.len[b.y]
    <3>1. editor_line_len(b, b.y) = b.len[b.y]
      BY <2>2, <2>3, LineLen
    <3>2. b.len[b.y] \in Nat
      BY <2>3, <2>4
    <3> QED BY <2>3, <2>4, <3>1, <3>2 DEF Least
  <2>6. f \in [0 .. n - 1 -> Nat]
    <3>1. b.len[b.y] - 1 \in Nat
      BY <1>4, <2>5
    <3> QED BY <2>4, <3>1
  <2>7. n \in Nat \ {0} /\ c \in 0 .. D /\ e \in Nat
    BY <2>4
  <2>8. v = Put(a, b.y, b.x - 1)
    BY <2>2 DEF Put, Text, IsEd, Record
  <2> HIDE DEF n, f, c, e, v
  <2>9. Edits(b, a)
    BY <2>2, <2>6, <2>7, TextIs
  <2> HIDE DEF a
  <2> DEFINE l == b.y
             x == b.x - 1
  <2>10. l \in Nat /\ x \in Int /\ v = Put(a, l, x)
    BY <2>3, <2>5, <2>8
  <2>11. l = b.y
    OBVIOUS
  <2> HIDE DEF l, x
  <2>12. Moves(a, v) /\ v.y = b.y
    BY <2>9, <2>10, <2>11, PutIs DEF Edits
  <2> HIDE DEF t
  <2>13. /\ IsEd(t) /\ SameFrame(v, t) /\ t.redraw = TRUE /\ t.screen = v.screen
         /\ t.y = v.y /\ t.start = v.start /\ t.shown = v.shown
    BY <2>1, <2>12, RedrawnIs DEF Moves
  <2>14. /\ SameFrame(s, t) /\ t.screen = s.screen /\ t.shown = s.shown
         /\ t.y = s.y /\ t.start = s.start
    BY <1>2, <2>9, <2>12, <2>13 DEF Edits, Moves, SameFrame
  <2>15. Asks(s, t)
    BY <2>13, <2>14, DrawnAgain
  <2>16. editor_cursor_is_visible(s) => editor_cursor_is_visible(t)
    BY <2>14 DEF SameFrame, editor_cursor_is_visible
  <2> QED BY <2>14, <2>15, <2>16 DEF t
<1>5. CASE ~ (s.y >= editor_line_limit(s)) /\ ~ (b.x > 0)
  <2>1. CASE b.y > 0 /\ joins
    <3>1. t = Joined(b)
      BY <1>5, <2>1 DEF handle_backspace
    <3> HIDE DEF b
    <3>2. IsEd(b) /\ b.y < editor_line_limit(b)
      BY <1>1, <1>2, <1>5, SameLines DEF Moves
    <3>3. /\ Asks(b, t) /\ t.shown = b.shown
          /\ editor_cursor_is_visible(b) => editor_cursor_is_visible(t)
      BY <2>1, <3>1, <3>2, JoinedIs
    <3>4. Asks(s, b) /\ b.shown = s.shown
      BY <1>2, MovesAsks DEF Moves
    <3>5. editor_cursor_is_visible(s) => editor_cursor_is_visible(b)
      BY <1>2, MovesVisible
    <3> QED BY <3>3, <3>4, <3>5, AsksAgain
  <2>2. CASE ~ (b.y > 0 /\ joins)
    <3>1. t = b
      BY <1>5, <2>2 DEF handle_backspace
    <3>2. Asks(s, b) /\ b.shown = s.shown
      BY <1>2, MovesAsks DEF Moves
    <3> QED BY <1>2, <3>1, <3>2, MovesVisible
  <2> QED BY <2>1, <2>2
<1> QED BY <1>3, <1>4, <1>5

-----------------------------------------------------------------------------
(* Arrow keys                                                              *)

\* A key asks for a drawing, and leaves the cursor in view.
Keeps(s, t) ==
  /\ Asks(s, t) /\ t.shown = s.shown
  /\ editor_cursor_is_visible(s) => editor_cursor_is_visible(t)

LEMMA KeepsAgain ==
  ASSUME NEW s, NEW t, NEW u, Keeps(s, t), Keeps(t, u)
  PROVE  Keeps(s, u)
BY AsksAgain DEF Keeps

LEMMA MovesKeeps ==
  ASSUME NEW s, NEW t, Moves(s, t), t.y = s.y
  PROVE  Keeps(s, t)
BY MovesAsks, MovesVisible DEF Keeps, Moves

LEMMA PutKeeps ==
  ASSUME NEW s, IsEd(s), NEW c \in Int
  PROVE  Keeps(s, [s EXCEPT !.x = c])
<1> DEFINE l == s.y
           t == [s EXCEPT !.x = c]
<1>1. t = Put(s, l, c) /\ l \in Nat
  BY SetX
<1>2. l = s.y
  OBVIOUS
<1> HIDE DEF l, t
<1>3. Moves(s, t) /\ t.y = s.y
  BY <1>1, <1>2, PutIs
<1> QED BY <1>3, MovesKeeps DEF t

LEMMA LineKeeps ==
  ASSUME NEW s, IsEd(s), NEW d \in {-1, 1},
         IF d = 1 THEN s.y - s.start + 1 < s.h ELSE s.y > s.start
  PROVE  Keeps(s, editor_move_cursor_line(s, d))
<1> DEFINE t == editor_move_cursor_line(s, d)
<1>1. s.y \in Nat /\ s.start \in Nat /\ s.h \in Nat \ {0} /\ d \in Int
  BY Parts
<1>2. Moves(s, t) /\ (t.y = s.y + d \/ t.y = s.y)
  BY <1>1, MoveLine
<1> HIDE DEF t
<1>3. Asks(s, t) /\ t.shown = s.shown /\ t.h = s.h /\ t.start = s.start /\ IsEd(t)
  BY <1>2, MovesAsks DEF Moves, SameFrame
<1>4. s.y - s.start \in 0 .. s.h - 1 => t.y - s.start \in 0 .. s.h - 1
  <2>1. CASE d = 1
    BY <1>1, <1>2, <2>1
  <2>2. CASE d = -1
    BY <1>1, <1>2, <2>2
  <2> QED BY <2>1, <2>2
<1>5. editor_cursor_is_visible(s) => editor_cursor_is_visible(t)
  BY <1>3, <1>4, Visible
<1> QED BY <1>3, <1>5 DEF Keeps, t

LEMMA ScreenKeeps ==
  ASSUME NEW s, IsEd(s), NEW d \in {-1, 1}
  PROVE  Keeps(s, editor_screen_move_line(s, d))
<1> DEFINE t == editor_screen_move_line(s, d)
<1>1. s.y \in Nat /\ s.start \in Nat /\ d \in Int
  BY Parts
<1>2. /\ Asks(s, t) /\ t.shown = s.shown
      /\ (t.y = s.y /\ t.start = s.start) \/ (t.y = s.y + d /\ t.start = s.start + d)
  BY ScreenMoveLine
<1> HIDE DEF t
<1>3. t.y - t.start = s.y - s.start
  BY <1>1, <1>2
<1>4. t.h = s.h /\ IsEd(t)
  BY <1>2 DEF Asks, SameFrame
<1>5. editor_cursor_is_visible(s) => editor_cursor_is_visible(t)
  BY <1>3, <1>4, Visible
<1> QED BY <1>2, <1>5 DEF Keeps, t

LEMMA ArrowKeeps ==
  ASSUME NEW s, IsEd(s), NEW k \in Arrow
  PROVE  Keeps(s, handle_input_allow(s, k))
<1> DEFINE b == Sync(s)
           upper == s.y > s.start /\ s.y > 0
           lower == s.y - s.start + 1 < s.h
           up == editor_move_cursor_line(b, -1)
           down == editor_move_cursor_line(b, 1)
           end == editor_clamp_col(up, up.y, editor_line_len(up, up.y))
           t == handle_input_allow(s, k)
<1>1. Moves(s, b) /\ b.y = s.y
  BY SyncIs
<1>2. Keeps(s, b) /\ IsEd(b) /\ b.start = s.start /\ b.h = s.h
  BY <1>1, MovesKeeps DEF Moves, SameFrame
<1>3. b.x \in Int
  BY <1>2, Parts
<1>4. k = "up" => t = IF upper THEN up ELSE IF s.start > 0 THEN editor_screen_move_line(b, -1) ELSE b
  BY DEF handle_input_allow
<1>5. k = "down" => t = IF s.y + 1 >= D THEN b
                        ELSE IF lower THEN down ELSE editor_screen_move_line(b, 1)
  BY DEF handle_input_allow
<1>6. k = "left" => t = IF b.x > 0 THEN [b EXCEPT !.x = @ - 1]
                        ELSE IF upper THEN [up EXCEPT !.x = end] ELSE b
  BY DEF handle_input_allow
<1>7. k = "right" => t = IF s.y >= D THEN b
                         ELSE IF b.x < editor_clamp_col(b, b.y, editor_line_len(b, b.y))
                         THEN [b EXCEPT !.x = @ + 1]
                         ELSE IF lower /\ s.y + 1 < D THEN [down EXCEPT !.x = 0] ELSE b
  BY DEF handle_input_allow
<1>8. upper => Keeps(b, up)
  BY <1>1, <1>2, LineKeeps
<1>9. lower => Keeps(b, down)
  BY <1>1, <1>2, LineKeeps
<1>10. Keeps(b, editor_screen_move_line(b, -1)) /\ Keeps(b, editor_screen_move_line(b, 1))
  BY <1>2, ScreenKeeps
<1> HIDE DEF b, t
<1>11. Keeps(b, [b EXCEPT !.x = @ - 1]) /\ Keeps(b, [b EXCEPT !.x = @ + 1])
  <2>1. b.x - 1 \in Int /\ b.x + 1 \in Int
    BY <1>3
  <2> QED BY <1>2, <2>1, PutKeeps
<1>12. upper => Keeps(up, [up EXCEPT !.x = end])
  <2> HIDE DEF upper, up
  <2>1. upper => IsEd(up)
    BY <1>8 DEF Keeps, Asks
  <2>2. upper => up.y \in Int
    BY <2>1, Parts
  <2>4. upper => editor_line_len(up, up.y) \in Int
    BY <2>1, <2>2, LineLen
  <2>3. upper => end \in Int
    BY <2>1, <2>2, <2>4, ClampCol
  <2> HIDE DEF end
  <2> QED BY <2>1, <2>3, PutKeeps
<1>13. lower => Keeps(down, [down EXCEPT !.x = 0])
  <2> HIDE DEF lower, down
  <2>1. lower => IsEd(down)
    BY <1>9 DEF Keeps, Asks
  <2> QED BY <2>1, PutKeeps
<1> HIDE DEF upper, lower, up, down, end
<1>14. t = b \/ Keeps(b, t)
  <2>1. CASE k = "up"
    BY <1>4, <1>8, <1>10, <2>1
  <2>2. CASE k = "down"
    BY <1>5, <1>9, <1>10, <2>2
  <2>3. CASE k = "left"
    BY <1>6, <1>8, <1>11, <1>12, <2>3, KeepsAgain
  <2>4. CASE k = "right"
    <3>1. CASE s.y >= D
      BY <1>7, <2>4, <3>1
    <3>2. CASE ~ (s.y >= D) /\ b.x < editor_clamp_col(b, b.y, editor_line_len(b, b.y))
      BY <1>7, <1>11, <2>4, <3>2
    <3>3. CASE ~ (s.y >= D) /\ ~ (b.x < editor_clamp_col(b, b.y, editor_line_len(b, b.y)))
      BY <1>7, <1>9, <1>13, <2>4, <3>3, KeepsAgain
    <3> QED BY <3>1, <3>2, <3>3
  <2> QED BY <2>1, <2>2, <2>3, <2>4 DEF Arrow
<1> QED BY <1>2, <1>14, KeepsAgain DEF t

-----------------------------------------------------------------------------
(* Files                                                                   *)

\* A file replaces the text and the place in it.
Opens(s, n, g, e) ==
  [s EXCEPT !.open = TRUE, !.counter = n, !.rows = n, !.end = e, !.len = g,
            !.start = 0, !.y = 0, !.x = 0]

LEMMA OpensIs ==
  ASSUME NEW s, IsEd(s), NEW n, NEW g, NEW e
  PROVE  Opens(s, n, g, e) = Put(Shift(Text([s EXCEPT !.open = TRUE], n, g, n, e), 0, 0), 0, 0)
BY DEF Opens, Text, Shift, Put, IsEd, Record

LEMMA LoadedIs ==
  ASSUME NEW s, IsEd(s), NEW f \in Files
  PROVE  LET t == Loaded(s, f)
         IN  /\ IsEd(t) /\ SameFrame(s, t) /\ Coloured(t) /\ t.redraw = TRUE
             /\ t.screen = s.screen /\ t.shown = s.shown
<1> DEFINE rows == Least(Len(f) + 1, D)
           g == [r \in 0 .. rows - 1 |-> IF r < Len(f) THEN f[r + 1] ELSE 0]
           e == IF Len(f) < D THEN Len(f) ELSE s.end
           a == load_screen_size(s, f)
           b == editor_set_cursor(a, 0, 0)
           c == Redrawn(b)
           t == Loaded(s, f)
<1>1. f \in Seq(Nat) /\ Len(f) \in Nat /\ D \in Nat \ {0} /\ s.end \in Nat
  BY ViewAssumption, Parts
<1>2. \A i \in 1 .. Len(f) : f[i] \in Nat
  BY <1>1
<1>3. rows \in Nat \ {0} /\ rows \in 0 .. D
  BY <1>1 DEF Least
<1>4. g \in [0 .. rows - 1 -> Nat]
  <2>1. ASSUME NEW r \in 0 .. rows - 1 PROVE g[r] \in Nat
    <3>1. r \in Nat /\ (r < Len(f) => r + 1 \in 1 .. Len(f))
      BY <1>1, <1>3
    <3> QED BY <1>2, <3>1
  <2> QED BY <2>1
<1>5. e \in Nat
  <2>1. e = Len(f) \/ e = s.end
    OBVIOUS
  <2> QED BY <1>1, <2>1
<1> DEFINE o == [s EXCEPT !.open = TRUE]
           x == Text(o, rows, g, rows, e)
<1>6. a = Put(Shift(x, 0, 0), 0, 0)
  <2>1. a = Opens(s, rows, g, e)
    BY DEF load_screen_size, Opens
  <2> HIDE DEF a, rows, g, e
  <2> QED BY <2>1, OpensIs
<1> HIDE DEF rows, g, e, a
<1>7. IsEd(o) /\ SameFrame(s, o) /\ o.screen = s.screen /\ o.shown = s.shown
  <2>1. o \in Record
    BY DEF IsEd, Record
  <2>2. /\ SameFrame(s, o) /\ o.y0 = s.y0 /\ o.screen = s.screen /\ o.shown = s.shown
        /\ o.len = s.len /\ o.rows = s.rows
    BY DEF IsEd, Record, SameFrame
  <2> HIDE DEF o
  <2>3. o.len \in [0 .. o.rows - 1 -> Nat]
    BY <2>2, Lens
  <2>4. Laid(o)
    BY <2>2 DEF IsEd, Fits, Laid, SameFrame
  <2> QED BY <2>1, <2>2, <2>3, <2>4 DEF IsEd, Fits
<1> HIDE DEF o
<1>8. Edits(o, x)
  BY <1>3, <1>4, <1>5, <1>7, TextIs
<1> HIDE DEF x
<1>9. Shifts(x, Shift(x, 0, 0))
  BY <1>8, ShiftIs DEF Edits
<1>10. IsEd(a) /\ SameFrame(s, a) /\ a.screen = s.screen /\ a.shown = s.shown
  <2>1. Moves(Shift(x, 0, 0), a)
    BY <1>6, <1>9, PutIs DEF Shifts
  <2> QED BY <1>7, <1>8, <1>9, <2>1 DEF Moves, Edits, Shifts, SameFrame
<1>11. Moves(a, b)
  BY <1>10, SetCursorIs
<1> HIDE DEF b
<1>12. /\ IsEd(c) /\ SameFrame(b, c) /\ c.redraw = TRUE /\ c.shown = b.shown /\ c.screen = b.screen
  BY <1>11, RedrawnIs DEF Moves
<1>13. t = set_syntax_data(c)
  BY DEF Loaded, a, b
<1> HIDE DEF c, t
<1>14. Shades(c, t) /\ Coloured(t)
  BY <1>12, <1>13, SetSyntax
<1>15. SameFrame(s, t)
  BY <1>10, <1>11, <1>12, <1>14 DEF Moves, Shades, SameFrame
<1> QED BY <1>10, <1>11, <1>12, <1>14, <1>15 DEF Moves, Shades, t

-----------------------------------------------------------------------------
(* One input                                                               *)

\* What one input makes of ed: the colours are right, and what it changes of the
\* drawing it asks for.
Draws(s, t) ==
  /\ IsEd(t) /\ Coloured(t)
  /\ s.redraw => t.redraw
  /\ \/ t.redraw
     \/ /\ SameText(s, t) /\ t.start = s.start /\ t.h = s.h /\ t.w = s.w
        /\ s.screen = "over" => t.screen = "over"

LEMMA DrawsAgain ==
  ASSUME NEW s, NEW t, NEW u, Draws(s, t), Draws(t, u)
  PROVE  Draws(s, u)
BY DEF Draws, SameText

LEMMA SetSyntaxDraws ==
  ASSUME NEW s, NEW t, Asks(s, t)
  PROVE  Asks(s, set_syntax_data(t)) /\ Draws(s, set_syntax_data(t))
<1> DEFINE u == set_syntax_data(t)
<1>1. Shades(t, u) /\ Coloured(u)
  BY SetSyntax DEF Asks
<1> HIDE DEF u
<1>2. Asks(s, u)
  BY <1>1 DEF Asks, Shades, SameText, SameFrame
<1>3. Draws(s, u)
  BY <1>1, <1>2 DEF Draws, Asks, SameFrame
<1> QED BY <1>2, <1>3 DEF u

LEMMA ModeDraws ==
  ASSUME NEW s, NEW t, Coloured(s), Modes(s, t), s.screen = "over" => t.screen = "over"
  PROVE  Draws(s, t)
BY SameColours DEF Modes, Draws, SameFrame

\* Without lines there is nothing to colour.
LEMMA NothingColoured ==
  ASSUME NEW s, IsEd(s), editor_line_limit(s) = 0, DOMAIN s.syn \subseteq 0 .. s.h - 1
  PROVE  Coloured(s)
<1>1. s.start \in Nat /\ s.h \in Nat
  BY Parts
<1>2. \A i \in 0 .. s.h - 1 : ~ (s.start + i < 0) /\ s.start + i \in Int
  BY <1>1
<1>3. \A l \in Int : editor_line_len(s, l) = 0
  BY LineLen
<1> QED BY <1>2, <1>3 DEF Coloured

LEMMA UncoveredIs ==
  ASSUME NEW s, IsEd(s), editor_line_limit(s) > 0
  PROVE  LET t == Uncovered(s)
         IN  /\ Asks(s, t) /\ SameText(s, t)
             /\ s.y < D => editor_cursor_is_visible(t)
<1> DEFINE l == s.y
           c == s.x
           line == Clamp(l, 0, Most(editor_line_limit(s) - 1, 0))
           m == move_view_to_line(s, l, c)
           t == Uncovered(s)
<1>1. l \in Int /\ c \in Int /\ D \in Nat
  BY Parts, ViewAssumption
<1>2. line \in Nat /\ line <= s.y
  BY Limits, Parts DEF Clamp, Most
<1>3. t = [m EXCEPT !.shown = TRUE]
  BY DEF Uncovered
<1>5. s.y < D => line < D
  BY <1>1, <1>2
<1> HIDE DEF l, c
<1>6. Asks(s, m) /\ SameText(s, m) /\ (line < D => editor_cursor_is_visible(m))
  BY <1>1, MoveView
<1> HIDE DEF m, line, t
<1>7. IsEd(m)
  BY <1>6 DEF Asks
<1>9. Modes(m, t) /\ t.screen = m.screen
  BY <1>3, <1>7, ShowIs
<1>10. Asks(s, t) /\ SameText(s, t)
  BY <1>6, <1>9 DEF Asks, Modes, SameText, SameFrame
<1>11. editor_cursor_is_visible(m) => editor_cursor_is_visible(t)
  BY <1>9 DEF Modes, SameFrame, editor_cursor_is_visible
<1> QED BY <1>5, <1>6, <1>10, <1>11 DEF t

\* The cursor's row is in view, or a handler knows that it is not.
InView(s) == s.shown => editor_cursor_is_visible(s)

\* A glyph changes a row of the view.
LEMMA TypedIs ==
  ASSUME NEW s, IsEd(s), DOMAIN s.syn \subseteq 0 .. s.h - 1
  PROVE  LET t == Typed(s)
         IN  /\ Asks(s, t) /\ Draws(s, t)
             /\ InView(s) /\ s.y < D =>
                  \A r \in DOMAIN s.len : t.len[r] # s.len[r] => r - t.start \in 0 .. t.h - 1
<1> DEFINE t == Typed(s)
           Hits(u) == \A r \in DOMAIN s.len : u.len[r] # s.len[r] => r - u.start \in 0 .. u.h - 1
<1>1. ASSUME NEW u, IsEd(u), SameText(s, u), t = set_syntax_data(handle_char_input(u)), Asks(s, u)
      PROVE  /\ Asks(s, t) /\ Draws(s, t)
             /\ editor_cursor_is_visible(u) => Hits(t)
  <2> DEFINE c == handle_char_input(u)
  <2>1. /\ Asks(u, c) /\ c.start = u.start
        /\ \A r \in DOMAIN u.len : c.len[r] # u.len[r] => r = u.y /\ u.y < editor_line_limit(u)
    BY <1>1, HandleChar
  <2> HIDE DEF c, t
  <2>2. Asks(s, c)
    BY <1>1, <2>1, AsksAgain
  <2>3. t = set_syntax_data(c)
    BY <1>1 DEF c
  <2>4. Asks(s, t) /\ Draws(s, t)
    BY <2>2, <2>3, SetSyntaxDraws
  <2>5. Shades(c, t)
    BY <2>1, <2>3, SetSyntax DEF Asks
  <2>6. t.len = c.len /\ t.start = u.start /\ t.h = u.h /\ u.len = s.len
    BY <1>1, <2>1, <2>5 DEF Asks, Shades, SameText, SameFrame
  <2>7. editor_cursor_is_visible(u) => u.y - u.start \in 0 .. u.h - 1
    BY <1>1, Visible
  <2>8. ASSUME editor_cursor_is_visible(u) PROVE Hits(t)
    BY <2>1, <2>6, <2>7, <2>8
  <2> QED BY <2>4, <2>8
<1>2. CASE s.shown
  <2>1. t = set_syntax_data(handle_char_input(s))
    BY <1>2 DEF Typed
  <2>2. SameText(s, s) /\ Asks(s, s)
    BY AsksItself DEF SameText
  <2>3. Asks(s, t) /\ Draws(s, t) /\ (editor_cursor_is_visible(s) => Hits(t))
    BY <1>1, <2>1, <2>2
  <2> QED BY <1>2, <2>3 DEF InView
<1>3. CASE ~ s.shown /\ editor_line_limit(s) = 0
  <2>1. t = s
    BY <1>3 DEF Typed
  <2>2. Coloured(s) /\ Asks(s, s)
    BY <1>3, NothingColoured, AsksItself
  <2>3. Draws(s, s)
    BY <2>2 DEF Draws, SameText
  <2> QED BY <2>1, <2>2, <2>3
<1>4. CASE ~ s.shown /\ editor_line_limit(s) # 0
  <2> DEFINE u == Uncovered(s)
  <2>1. t = set_syntax_data(handle_char_input(u))
    BY <1>4 DEF Typed
  <2>2. editor_line_limit(s) > 0
    BY <1>4, Limits, Parts
  <2>3. Asks(s, u) /\ SameText(s, u) /\ (s.y < D => editor_cursor_is_visible(u))
    BY <2>2, UncoveredIs
  <2> HIDE DEF u
  <2>4. IsEd(u)
    BY <2>3 DEF Asks
  <2>5. Asks(s, t) /\ Draws(s, t) /\ (editor_cursor_is_visible(u) => Hits(t))
    BY <1>1, <2>1, <2>3, <2>4
  <2> QED BY <2>3, <2>5
<1> QED BY <1>2, <1>3, <1>4

LEMMA ArrowedIs ==
  ASSUME NEW s, IsEd(s), NEW k \in Arrow
  PROVE  LET t == Arrowed(s, k)
         IN  Draws(s, t) /\ (InView(s) /\ s.y < D => editor_cursor_is_visible(t))
<1> DEFINE t == Arrowed(s, k)
<1>1. ASSUME NEW u, Asks(s, u), t = set_syntax_data(u)
      PROVE  Draws(s, t) /\ (editor_cursor_is_visible(u) => editor_cursor_is_visible(t))
  <2> HIDE DEF t
  <2>1. Draws(s, t)
    BY <1>1, SetSyntaxDraws
  <2>2. Shades(u, t)
    BY <1>1, SetSyntax DEF Asks
  <2> QED BY <2>1, <2>2 DEF Shades, SameFrame, editor_cursor_is_visible
<1>2. CASE s.shown
  <2> DEFINE u == handle_input_allow(s, k)
  <2>1. t = set_syntax_data(u)
    BY <1>2 DEF Arrowed
  <2>2. Keeps(s, u)
    BY ArrowKeeps
  <2> HIDE DEF u, t
  <2> QED BY <1>1, <1>2, <2>1, <2>2 DEF Keeps, InView, t
<1>3. CASE ~ s.shown
  <2> DEFINE l == s.y - 1
             c == 0
             line == Clamp(l, 0, Most(editor_line_limit(s) - 1, 0))
             m == move_view_to_line(s, l, c)
             u == [m EXCEPT !.shown = TRUE]
  <2>1. t = set_syntax_data(u)
    BY <1>3 DEF Arrowed
  <2>2. l \in Int /\ c \in Int /\ D \in Nat \ {0}
    BY Parts, ViewAssumption
  <2>3. line \in Nat /\ (s.y < D => line < D)
    BY <2>2, Limits, Parts DEF Clamp, Most
  <2> HIDE DEF l, c
  <2>4. Asks(s, m) /\ (line < D => editor_cursor_is_visible(m))
    BY <2>2, MoveView
  <2> HIDE DEF m, line, t
  <2>5. IsEd(m)
    BY <2>4 DEF Asks
  <2>6. Modes(m, u) /\ u.screen = m.screen
    BY <2>5, ShowIs
  <2> HIDE DEF u
  <2>7. Asks(s, u)
    BY <2>4, <2>6 DEF Asks, Modes, SameText, SameFrame
  <2>8. editor_cursor_is_visible(m) => editor_cursor_is_visible(u)
    BY <2>6 DEF Modes, SameFrame, editor_cursor_is_visible
  <2>9. Draws(s, t) /\ (editor_cursor_is_visible(u) => editor_cursor_is_visible(t))
    BY <1>1, <2>1, <2>7 DEF t
  <2> QED BY <2>3, <2>4, <2>8, <2>9 DEF t
<1> QED BY <1>2, <1>3

\* A press in the tree or the text.
LEMMA TreePressIs ==
  ASSUME NEW s, IsEd(s), Coloured(s), s.screen # "over", NEW p \in Int \X Int,
         NEW f, f = <<>> \/ \E g \in Files : f = <<g>>
  PROVE  Draws(s, TreePress(s, p, f)) 
<1> DEFINE at == editor_pos_to_buffer_pos(s, editor_mouse_to_buffer_pos(s, p))
           l == at[1]
           c == IF s.len[0] <= at[2] THEN s.len[0] ELSE at[2]
           m == editor_set_cursor(s, l, c)
           t == TreePress(s, p, f)
<1>1. Draws(s, s)
  BY DEF Draws, SameText
<1>2. CASE InTree(s, p)
  <2>1. CASE f = <<>>
    BY <1>1, <1>2, <2>1 DEF TreePress
  <2>2. CASE \E g \in Files : f = <<g>>
    <3>1. PICK g \in Files : f = <<g>>
      BY <2>2
    <3>2. f # <<>> /\ f[1] = g
      BY <3>1
    <3>3. t = Loaded(s, g)
      BY <1>2, <3>2 DEF TreePress
    <3> HIDE DEF t
    <3>4. IsEd(t) /\ Coloured(t) /\ t.redraw = TRUE
      BY <3>3, LoadedIs
    <3> QED BY <3>4 DEF Draws, t
  <2> QED BY <2>1, <2>2
<1>3. CASE ~ InTree(s, p) /\ OverText(s, p)
  <2>1. l \in Int /\ at[2] \in Int /\ s.len[0] \in Nat
    <3>1. s.start \in Nat /\ s.x0 \in Nat /\ s.y0 \in Nat
      BY Parts
    <3>2. s.rows \in Nat \ {0} /\ s.len \in [0 .. s.rows - 1 -> Nat]
      BY Parts
    <3>3. p[1] - s.x0 \in Int /\ p[2] - s.y0 \in Int
      BY <3>1
    <3>4. at = <<s.start + (p[2] - s.y0), p[1] - s.x0>>
      BY DEF editor_pos_to_buffer_pos, editor_mouse_to_buffer_pos
    <3>5. l = s.start + (p[2] - s.y0) /\ at[2] = p[1] - s.x0
      BY <3>4
    <3> HIDE DEF at
    <3>6. l \in Int /\ at[2] \in Int
      BY <3>1, <3>3, <3>5
    <3>7. s.len[0] \in Nat
      BY <3>2
    <3> QED BY <3>6, <3>7
  <2>2. c \in Int
    BY <2>1
  <2>3. t = Mode(m, "edit", TRUE)
    BY <1>3 DEF TreePress, Mode
  <2> HIDE DEF l, c
  <2>4. Moves(s, m)
    BY <2>1, <2>2, SetCursorIs
  <2> HIDE DEF m, t
  <2>5. Modes(m, t) /\ t.screen = "edit"
    BY <2>3, <2>4, ModeIs DEF Moves
  <2>6. /\ SameText(s, t) /\ t.start = s.start /\ t.h = s.h /\ t.w = s.w /\ t.syn = s.syn
        /\ IsEd(t) /\ t.redraw = s.redraw
    BY <2>4, <2>5 DEF Moves, Modes, SameText, SameFrame
  <2>7. Coloured(t)
    BY <2>6, SameColours
  <2> QED BY <2>6, <2>7 DEF Draws, t
<1>4. CASE ~ InTree(s, p) /\ ~ OverText(s, p)
  BY <1>1, <1>4 DEF TreePress
<1> QED BY <1>2, <1>3, <1>4

LEMMA EditPressIs ==
  ASSUME NEW s, IsEd(s), Coloured(s), s.screen = "edit", NEW p \in Int \X Int,
         NEW f, f = <<>> \/ \E g \in Files : f = <<g>>
  PROVE  Draws(s, EditPress(s, p, f))
<1> DEFINE l == PressedLine(s, p)
           c == p[1] - s.x0
           m == IF OverText(s, p) THEN editor_set_cursor(s, l, c) ELSE s
           t == EditPress(s, p, f)
<1>1. CASE OverTree(s, p)
  <2> DEFINE u == [s EXCEPT !.screen = "tree"]
  <2>1. t = TreePress(u, p, f)
    BY <1>1 DEF EditPress
  <2>2. Modes(s, u) /\ u.screen = "tree"
    BY ScreenIs
  <2> HIDE DEF u, t
  <2>3. Draws(s, u)
    BY <2>2, ModeDraws
  <2>4. Draws(u, t)
    BY <2>1, <2>2, <2>3, TreePressIs DEF Draws
  <2> QED BY <2>3, <2>4, DrawsAgain DEF t
<1>2. CASE ~ OverTree(s, p)
  <2> DEFINE b == editor_cursor_is_visible(m)
  <2>1. t = [m EXCEPT !.shown = b]
    BY <1>2 DEF EditPress
  <2>2. b \in BOOLEAN
    BY DEF editor_cursor_is_visible
  <2>3. l \in Int /\ c \in Int
    <3>1. s.start \in Nat /\ s.x0 \in Nat /\ s.y0 \in Nat
      BY Parts
    <3>2. s.rows \in Nat \ {0} /\ s.len \in [0 .. s.rows - 1 -> Nat]
      BY Parts
    <3>3. s.start + p[2] - s.y0 \in Int /\ c \in Int
      BY <3>1
    <3>4. 0 \in 0 .. s.rows - 1
      BY <3>2
    <3>5. s.len[0] \in Nat
      BY <3>2, <3>4
    <3> QED BY <3>3, <3>5 DEF PressedLine
  <2> HIDE DEF l, c
  <2>4. Moves(s, editor_set_cursor(s, l, c))
    BY <2>3, SetCursorIs
  <2>5. Moves(s, s)
    BY DEF Moves, SameFrame, SameText
  <2>6. Moves(s, m)
    BY <2>4, <2>5
  <2> HIDE DEF m, b
  <2>7. Modes(m, t) /\ t.screen = m.screen
    BY <2>1, <2>2, <2>6, ShowIs DEF Moves
  <2> HIDE DEF t
  <2>8. /\ SameText(s, t) /\ t.start = s.start /\ t.h = s.h /\ t.w = s.w /\ t.syn = s.syn
        /\ IsEd(t) /\ t.redraw = s.redraw /\ t.screen = s.screen
    BY <2>6, <2>7 DEF Moves, Modes, SameText, SameFrame
  <2>9. Coloured(t)
    BY <2>8, SameColours
  <2> QED BY <2>8, <2>9 DEF Draws, t
<1> QED BY <1>1, <1>2

LEMMA EditWheelIs ==
  ASSUME NEW s, IsEd(s), Coloured(s), s.screen = "edit", NEW over \in BOOLEAN,
         NEW num \in {-1, 1}, Scrolls(s, num)
  PROVE  Draws(s, EditWheel(s, over, num))
<1> DEFINE u == [s EXCEPT !.screen = "tree"]
           a == [s EXCEPT !.start = @ + num]
           c == Recoloured(a, num)
           d == Redrawn(c)
           m == IF s.tree.show /\ ~ over THEN u ELSE d
           b == editor_cursor_is_visible(m)
           t == EditWheel(s, over, num)
<1>1. t = [m EXCEPT !.shown = b]
  BY DEF EditWheel
<1>2. b \in BOOLEAN
  BY DEF editor_cursor_is_visible
<1>3. Draws(s, u)
  BY ScreenIs, ModeDraws
<1>4. Draws(s, d)
  <2> DEFINE l == s.y
             v == s.start + num
  <2>1. s.start \in Nat /\ l \in Nat /\ s.h \in Nat
    BY Parts
  <2>2. v \in Nat /\ v - num = s.start
    BY <2>1 DEF Scrolls
  <2>3. a = Shift(s, l, v)
    BY DEF Shift, IsEd, Record
  <2> HIDE DEF a, l, v
  <2>4. Shifts(s, a) /\ a.start = v
    BY <2>1, <2>2, <2>3, ShiftIs
  <2>5. IsEd(a) /\ SameText(s, a) /\ a.h = s.h /\ a.syn = s.syn
    BY <2>4 DEF Shifts, SameFrame
  <2>6. /\ editor_line_limit(a) = editor_line_limit(s) /\ a.len = s.len
        /\ \A i : editor_line_len(a, i) = editor_line_len(s, i)
    BY <2>5, SameLines DEF SameText
  <2>7. Carried(a, num)
    BY <2>2, <2>4, <2>5, <2>6 DEF Carried, Coloured, Scanned
  <2>8. Shades(a, c) /\ Coloured(c)
    BY <2>5, <2>7, RecolouredIs
  <2> HIDE DEF c
  <2>9. IsEd(d) /\ SameText(c, d) /\ SameFrame(c, d) /\ d.redraw = TRUE /\ d.start = c.start /\ d.syn = c.syn
    BY <2>8, RedrawnIs DEF Shades
  <2> HIDE DEF d
  <2>10. Coloured(d)
    BY <2>8, <2>9, SameColours DEF SameFrame
  <2> QED BY <2>9, <2>10 DEF Draws
<1> HIDE DEF u, d
<1>5. Draws(s, m)
  BY <1>3, <1>4
<1> HIDE DEF m, b, t
<1>6. Modes(m, t) /\ t.screen = m.screen
  BY <1>1, <1>2, <1>5, ShowIs DEF Draws
<1>7. Draws(m, t)
  BY <1>5, <1>6, ModeDraws DEF Draws
<1> QED BY <1>5, <1>7, DrawsAgain DEF t

-----------------------------------------------------------------------------
(* The invariant                                                           *)

\* What holds between two rounds of the main loop.
ViewInv ==
  /\ IsEd(ed) /\ Coloured(ed) /\ ed.redraw = FALSE
  /\ ed.screen # "over" => drawn = draw_file_data(ed)
  /\ ed.x \in 0 .. Least(editor_line_len(ed, ed.y), ed.w)

IInv == ViewInv /\ edits \in 0 .. MaxEdits

LEMMA SameDrawing ==
  ASSUME NEW s, NEW t, SameText(s, t), t.start = s.start, t.h = s.h, t.w = s.w
  PROVE  draw_file_data(t) = draw_file_data(s)
<1>1. \A l : draw_editor_buffer_line(t, l) = draw_editor_buffer_line(s, l)
  BY SameLines DEF draw_editor_buffer_line, SameText
<1> QED BY <1>1 DEF draw_file_data

\* A round keeps the invariant when its input asked for what it changed.
LEMMA RoundIs ==
  ASSUME ViewInv, NEW s, Draws(ed, s), Round(s)
  PROVE  ViewInv'
<1> DEFINE c == Sync(s)
           t == [c EXCEPT !.redraw = FALSE]
<1>1. /\ Moves(s, c) /\ c.y = s.y /\ c.x = editor_clamp_col(s, s.y, s.x)
  BY SyncIs DEF Draws
<1>2. ed' = t /\ drawn' = IF s.redraw THEN draw_file_data(c) ELSE drawn
  BY DEF Round
<1> HIDE DEF c
<1>3. IsEd(c)
  BY <1>1 DEF Moves
<1>4. t \in Record
  BY <1>3 DEF IsEd, Record
<1>5. /\ SameText(c, t) /\ SameFrame(c, t) /\ t.start = c.start /\ t.y = c.y /\ t.x = c.x
      /\ t.syn = c.syn /\ t.screen = c.screen /\ t.redraw = FALSE
  BY <1>3 DEF IsEd, Record, SameText, SameFrame
<1> HIDE DEF t
<1>6. IsEd(t)
  BY <1>3, <1>4, <1>5 DEF IsEd, Fits, Laid, SameText, SameFrame
<1>7. /\ SameText(s, t) /\ t.start = s.start /\ t.h = s.h /\ t.w = s.w /\ t.syn = s.syn
      /\ t.screen = s.screen /\ t.y = s.y
  BY <1>1, <1>5 DEF Moves, SameText, SameFrame
<1>8. Coloured(t)
  BY <1>7, SameColours DEF Draws
<1>9. t.x \in 0 .. Least(editor_line_len(t, t.y), t.w)
  <2> DEFINE l == s.y
             x == s.x
  <2>1. l \in Int /\ x \in Int
    BY Parts DEF Draws
  <2>2. t.x = editor_clamp_col(s, l, x) /\ t.y = l
    BY <1>1, <1>5
  <2> HIDE DEF l, x
  <2>3. t.x \in 0 .. Least(editor_line_len(s, l), s.w)
    BY <2>1, <2>2, ClampCol DEF Draws
  <2> QED BY <1>7, <2>2, <2>3, SameLines
<1>10. draw_file_data(t) = draw_file_data(s) /\ draw_file_data(c) = draw_file_data(s)
  BY <1>1, <1>7, SameDrawing DEF Moves, SameFrame
<1>11. t.screen # "over" => drawn' = draw_file_data(t)
  <2>1. CASE s.redraw
    BY <1>2, <1>10, <2>1
  <2>2. CASE ~ s.redraw
    <3>1. /\ SameText(ed, s) /\ s.start = ed.start /\ s.h = ed.h /\ s.w = ed.w
          /\ ed.screen = "over" => s.screen = "over"
      BY <2>2 DEF Draws
    <3>2. draw_file_data(s) = draw_file_data(ed)
      BY <3>1, SameDrawing
    <3> QED BY <1>2, <1>7, <1>10, <2>2, <3>1, <3>2 DEF ViewInv
  <2> QED BY <2>1, <2>2
<1>12. /\ IsEd(ed') /\ Coloured(ed') /\ (ed').redraw = FALSE
       /\ (ed').screen # "over" => drawn' = draw_file_data(ed')
       /\ (ed').x \in 0 .. Least(editor_line_len(ed', (ed').y), (ed').w)
  BY <1>2, <1>5, <1>6, <1>8, <1>9, <1>11
<1> QED BY <1>12 DEF ViewInv, IsEd, Record, Lengths, Colours, Fits, Laid, Coloured, Most, Least,
      draw_file_data, draw_editor_buffer_line, editor_line_limit, editor_line_len, Scanned, OnScreen

LEMMA EmptyIs ==
  ASSUME NEW z \in OnScreen, NEW b \in Bars
  PROVE  LET s == Empty(z, b) IN IsEd(s) /\ Coloured(s) /\ s.redraw = FALSE /\ s.x = 0
<1> DEFINE y0 == IF b = "top" THEN 2 ELSE 0
           y1 == IF b = "bottom" THEN z[2] - 1 ELSE z[2]
           h == y1 - y0
           x1 == z[1] - 1
           e == [show |-> FALSE, w |-> 0, h |-> 0]
           f == [r \in 0 .. D - 1 |-> 0]
           c == [i \in {} |-> <<>>]
           x0 == LeftOf(e)
           w == Most(x1 - x0, 0)
           r ==
             [y |-> 0, x |-> 0, shown |-> TRUE, start |-> 0,
              x0 |-> 0, x1 |-> x1, y0 |-> y0, y1 |-> y1, w |-> 0, h |-> h,
              size |-> z, tree |-> e, screen |-> "edit",
              len |-> f, rows |-> D, counter |-> 0, open |-> FALSE, end |-> 0,
              syn |-> c, redraw |-> FALSE]
           s == Empty(z, b)
<1>1. /\ z[1] \in Nat /\ z[2] \in Nat /\ z[2] >= MinY /\ MinY > 2 /\ MinY \in Nat
      /\ D \in Nat \ {0} /\ NumberSpace \in Nat
  <2>1. z[1] \in Nat /\ z[2] \in Nat /\ z[2] >= MinY
    BY ViewAssumption DEF OnScreen
  <2> QED BY <2>1, ViewAssumption
<1>2. y0 \in Nat /\ y1 \in Int /\ h \in Nat \ {0} /\ x1 \in Int
  <2>1. y0 \in {0, 2} /\ y1 \in {z[2] - 1, z[2]} /\ (y0 = 2 => y1 = z[2])
    OBVIOUS
  <2>2. x1 = z[1] - 1 /\ h = y1 - y0
    OBVIOUS
  <2> HIDE DEF y0, y1, x1, h
  <2>3. y0 \in Nat /\ y1 \in Int /\ x1 \in Int
    BY <1>1, <2>1, <2>2
  <2> QED BY <1>1, <2>1, <2>2, <2>3
<1>3. e \in Trees /\ x0 \in Nat /\ x0 = NumberSpace + 1 + (IF e.show THEN e.w + 1 ELSE 0)
  BY <1>1 DEF Trees, LeftOf
<1>4. w \in Nat /\ w = Most(x1 - x0, 0)
  BY <1>2, <1>3 DEF Most
<1>5. f \in [0 .. D - 1 -> Nat] /\ f \in Lengths
  BY <1>1 DEF Lengths
<1>6. c \in Colours /\ DOMAIN c = {}
  <2>1. c \in [{} -> Nat \X Nat]
    OBVIOUS
  <2> QED BY <2>1 DEF Colours
<1>7. s = [r EXCEPT !.x0 = x0, !.w = w]
  BY <1>3 DEF Empty, editor_apply_write_area, LeftOf
<1>8. h = y1 - y0 /\ x1 = z[1] - 1
  OBVIOUS
<1>9. /\ y0 = (IF b = "top" THEN 2 ELSE 0)
      /\ y1 = (IF b = "bottom" THEN z[2] - 1 ELSE z[2])
  OBVIOUS
<1>10. \A l \in 0 .. D - 1 : f[l] = 0
  OBVIOUS
<1> HIDE DEF x0, w, x1, y0, y1, h, e, f, c
<1>11. r \in Record
  <2>1. D \in Nat \ {0} /\ 0 \in 0 .. D
    BY <1>1
  <2>2. e \in [show : BOOLEAN, w : Nat, h : Nat]
    BY <1>3 DEF Trees
  <2> QED BY <1>2, <1>3, <1>5, <1>6, <2>1, <2>2 DEF Record
<1>19. /\ r.size = z /\ r.x1 = x1 /\ r.y0 = y0 /\ r.y1 = y1 /\ r.h = h
       /\ r.tree = e /\ r.len = f /\ r.rows = D /\ r.open = FALSE /\ r.syn = c /\ r.redraw = FALSE
       /\ r.x = 0 /\ r.start = 0
  OBVIOUS
<1> HIDE DEF s, r
<1>12. s \in Record
  <2>1. x0 \in Nat /\ w \in Nat
    BY <1>3, <1>4
  <2> QED BY <1>7, <1>11, <2>1 DEF Record
<1>13. /\ s.size = z /\ s.x0 = x0 /\ s.x1 = x1 /\ s.y0 = y0 /\ s.y1 = y1 /\ s.w = w /\ s.h = h
       /\ s.tree = e /\ s.len = f /\ s.rows = D /\ s.open = FALSE /\ s.syn = c /\ s.redraw = FALSE
       /\ s.x = 0 /\ s.start = 0
  BY <1>7, <1>11, <1>19 DEF Record
<1>14. Laid(s)
  BY <1>3, <1>4, <1>8, <1>9, <1>13 DEF Laid
<1>15. IsEd(s)
  BY <1>5, <1>12, <1>13, <1>14 DEF IsEd, Fits
<1>16. editor_line_limit(s) = D
  BY <1>13 DEF editor_line_limit
<1>17. \A l \in Int : editor_line_len(s, l) = 0
  BY <1>10, <1>13, <1>16 DEF editor_line_len
<1>18. Coloured(s)
  BY <1>2, <1>6, <1>13, <1>17 DEF Coloured
<1> QED BY <1>13, <1>15, <1>18 DEF s

LEMMA InitIs == ASSUME Init PROVE IInv
<1>1. PICK z \in OnScreen, b \in Bars : ed = Empty(z, b)
  BY DEF Init
<1>2. IsEd(ed) /\ Coloured(ed) /\ ed.redraw = FALSE /\ ed.x = 0
  BY <1>1, EmptyIs
<1>3. drawn = draw_file_data(ed) /\ edits \in 0 .. MaxEdits
  BY ViewAssumption DEF Init
<1>4. ed.x \in 0 .. Least(editor_line_len(ed, ed.y), ed.w)
  <2>1. ed.y \in Int /\ ed.w \in Nat
    BY <1>2, Parts
  <2>2. editor_line_len(ed, ed.y) \in Nat
    BY <1>2, <2>1, LineLen
  <2> QED BY <1>2, <2>1, <2>2 DEF Least
<1> QED BY <1>2, <1>3, <1>4 DEF IInv, ViewInv

\* Moving the cursor as a settings program does.
LEMMA UserMoves ==
  ASSUME NEW s, IsEd(s), NEW r \in Nat, NEW c \in Nat
  PROVE  LET t == set_text_cursor_col(set_text_cursor_row(s, r), c)
         IN  Asks(s, t) /\ t.syn = s.syn
<1> DEFINE x == 0
           m == move_view_to_line(s, r, x)
           n == editor_line_len(m, m.y)
           k == Least(c, n)
           t == set_text_cursor_col(m, c)
<1>1. r \in Int /\ x \in Int
  OBVIOUS
<1>2. set_text_cursor_row(s, r) = m
  BY DEF set_text_cursor_row
<1> HIDE DEF x
<1>3. Asks(s, m) /\ m.syn = s.syn
  BY <1>1, MoveView
<1> HIDE DEF m
<1>4. IsEd(m)
  BY <1>3 DEF Asks
<1>5. m.y \in Nat
  BY <1>4, Parts
<1>6. n \in Nat
  BY <1>4, <1>5, LineLen
<1>7. k \in Int
  BY <1>6 DEF Least
<1>8. t = m \/ t = [m EXCEPT !.x = k]
  BY DEF set_text_cursor_col
<1> HIDE DEF n, k, t
<1> DEFINE l == m.y
           u == [m EXCEPT !.x = k]
<1>9. u = Put(m, l, k) /\ l \in Nat
  BY <1>4, <1>7, SetX
<1> HIDE DEF l, u
<1>10. Moves(m, u)
  BY <1>4, <1>7, <1>9, PutIs
<1>11. Asks(s, u) /\ u.syn = s.syn
  BY <1>3, <1>10, MovesAsks, AsksAgain DEF Moves
<1>12. Asks(s, t) /\ t.syn = s.syn
  BY <1>3, <1>8, <1>11 DEF u
<1> QED BY <1>2, <1>12 DEF t

LEMMA NextIs ==
  ASSUME IInv, [Next]_vars
  PROVE  IInv'
<1>1. IsEd(ed) /\ Coloured(ed) /\ ViewInv /\ DOMAIN ed.syn \subseteq 0 .. ed.h - 1
      /\ MaxEdits \in Nat /\ edits \in 0 .. MaxEdits
  BY ViewAssumption DEF IInv, ViewInv, Coloured
<1>2. ASSUME NEW s, Draws(ed, s), Round(s), Enters \/ edits' = edits
      PROVE  IInv'
  <2>1. ViewInv'
    BY <1>1, <1>2, RoundIs
  <2>2. edits' \in 0 .. MaxEdits
    BY <1>1, <1>2 DEF Enters
  <2> QED BY <2>1, <2>2 DEF IInv
<1>3. CASE Type
  BY <1>1, <1>2, <1>3, TypedIs DEF Type
<1>4. CASE Tab
  <2>1. Draws(ed, set_syntax_data(handle_tab(ed)))
    BY <1>1, HandleTab, SetSyntaxDraws
  <2> QED BY <1>2, <1>4, <2>1 DEF Tab
<1>5. CASE Enter
  <2>1. Draws(ed, set_syntax_data(handle_newline(ed)))
    BY <1>1, HandleNewline, SetSyntaxDraws
  <2> QED BY <1>2, <1>5, <2>1 DEF Enter
<1>6. CASE Backspace
  <2>1. PICK joins \in BOOLEAN : Round(set_syntax_data(handle_backspace(ed, joins)))
    BY <1>6 DEF Backspace
  <2>2. Draws(ed, set_syntax_data(handle_backspace(ed, joins)))
    BY <1>1, HandleBackspace, SetSyntaxDraws
  <2> QED BY <1>2, <1>6, <2>1, <2>2 DEF Backspace
<1>7. ASSUME NEW k \in Arrow, ArrowKey(k) PROVE IInv'
  <2>1. Draws(ed, Arrowed(ed, k))
    BY <1>1, ArrowedIs
  <2> QED BY <1>2, <1>7, <2>1 DEF ArrowKey
<1>8. ASSUME NEW r \in 0 .. D, UserEvent(r, 1) PROVE IInv'
  <2> DEFINE c == 1
             s == set_text_cursor_col(set_text_cursor_row(ed, r), c)
  <2>1. r \in Nat /\ c \in Nat
    BY ViewAssumption
  <2>2. Enters /\ Round(Typed(s))
    BY <1>8 DEF UserEvent
  <2> HIDE DEF c
  <2>3. Asks(ed, s) /\ s.syn = ed.syn
    BY <1>1, <2>1, UserMoves
  <2> HIDE DEF s
  <2>4. IsEd(s) /\ s.h = ed.h /\ DOMAIN s.syn \subseteq 0 .. s.h - 1
    BY <1>1, <2>3 DEF Asks, SameFrame
  <2>5. Draws(s, Typed(s)) /\ Asks(s, Typed(s))
    BY <2>4, TypedIs
  <2>6. Asks(ed, Typed(s))
    BY <2>3, <2>5, AsksAgain
  <2>7. Draws(ed, Typed(s))
    BY <2>5, <2>6 DEF Draws, Asks, SameFrame
  <2> QED BY <1>2, <2>2, <2>7
<1>9. CASE ToTree
  <2> DEFINE s == [ed EXCEPT !.screen = "tree"]
             w == ed.size[1] \div TreePart
             h == ed.size[2]
             t == show_filetree(s, w, h)
             u == IF t.shown THEN set_syntax_data(t) ELSE t
  <2>1. Round(u) /\ edits' = edits
    BY <1>9 DEF ToTree
  <2>2. w \in Nat /\ h \in Nat
    <3>1. ed.size[1] \in Nat /\ h \in Nat
      BY <1>1, Parts, ViewAssumption DEF OnScreen
    <3>2. TreePart \in Nat \ {0}
      BY ViewAssumption
    <3> DEFINE a == ed.size[1]
    <3> HIDE DEF a
    <3>3. a \div TreePart \in Nat
      BY <3>1, <3>2 DEF a
    <3> QED BY <3>1, <3>3 DEF a
  <2>3. Modes(ed, s)
    BY <1>1, ScreenIs
  <2> HIDE DEF s, w, h
  <2>4. Anew(s, t) /\ t.h = s.h
    BY <2>2, <2>3, ShowTree DEF Modes
  <2> HIDE DEF t
  <2>5. IsEd(t) /\ SameText(ed, t) /\ t.start = ed.start /\ t.h = ed.h /\ t.syn = ed.syn /\ t.redraw
    BY <2>3, <2>4 DEF Modes, Anew, SameText, SameFrame
  <2>6. Coloured(t)
    BY <1>1, <2>5, SameColours
  <2>7. Shades(t, set_syntax_data(t)) /\ Coloured(set_syntax_data(t))
    BY <2>5, SetSyntax
  <2>8. Draws(ed, u)
    BY <2>5, <2>6, <2>7 DEF Draws, Shades
  <2> QED BY <1>2, <2>1, <2>8
<1>10. CASE ToJump
  <2> DEFINE s == Mode(ed, "over", FALSE)
  <2>1. Round(s) /\ edits' = edits
    BY <1>10 DEF ToJump, Mode
  <2>2. Modes(ed, s) /\ s.screen = "over"
    BY <1>1, ModeIs
  <2> HIDE DEF s
  <2>3. Draws(ed, s)
    BY <1>1, <2>2, ModeDraws
  <2> QED BY <1>2, <2>1, <2>3
<1>11. CASE HideTree
  <2> DEFINE e == [show |-> FALSE, w |-> 0, h |-> 0]
             s == editor_apply_write_area([ed EXCEPT !.tree = e])
             t == restore_edit_screen(s)
  <2>1. Round(t) /\ edits' = edits
    BY <1>11 DEF HideTree
  <2>2. e \in Trees
    BY DEF Trees
  <2> HIDE DEF e
  <2>3. Reframes(ed, s) /\ s.h = ed.h
    BY <1>1, <2>2, TreeIs
  <2> HIDE DEF s
  <2>4. Anew(s, t) /\ SameFrame(s, t)
    BY <2>3, RestoreIs DEF Reframes
  <2> HIDE DEF t
  <2>5. IsEd(t) /\ SameText(ed, t) /\ t.start = ed.start /\ t.h = ed.h /\ t.syn = ed.syn /\ t.redraw
    BY <2>3, <2>4 DEF Reframes, Anew, SameText, SameFrame
  <2>6. Draws(ed, t)
    BY <1>1, <2>5, SameColours DEF Draws
  <2> QED BY <1>2, <2>1, <2>6
<1>12. ASSUME NEW d \in {-1, 1}, change_file_tree_width(d) PROVE IInv'
  <2> DEFINE s == [ed EXCEPT !.shown = FALSE]
             w == s.tree.w + d
             h == s.tree.h
             t == show_filetree(s, w, h)
  <2>1. /\ edits' = edits
        /\ Round(IF s.tree.w <= 0 \/ s.size[1] <= s.tree.w THEN s ELSE t)
    BY <1>12 DEF change_file_tree_width
  <2>2. Modes(ed, s) /\ s.screen = ed.screen
    BY <1>1, ShowIs
  <2> HIDE DEF s
  <2>3. Draws(ed, s)
    BY <1>1, <2>2, ModeDraws
  <2>4. CASE s.tree.w <= 0 \/ s.size[1] <= s.tree.w
    BY <1>2, <2>1, <2>3, <2>4
  <2>5. CASE ~ (s.tree.w <= 0 \/ s.size[1] <= s.tree.w)
    <3>1. s.tree.w \in Nat /\ h \in Nat
      BY <2>3, Parts DEF Draws
    <3>2. w \in Nat
      BY <2>5, <3>1
    <3>3. Round(t)
      BY <2>1, <2>5
    <3> HIDE DEF w, h
    <3>4. Anew(s, t) /\ t.h = s.h
      BY <2>3, <3>1, <3>2, ShowTree DEF Draws
    <3> HIDE DEF t
    <3>5. Coloured(t) /\ IsEd(t) /\ t.redraw
      BY <2>3, <3>4, SameColours DEF Draws, Anew
    <3>6. Draws(ed, t)
      BY <3>5 DEF Draws
    <3> QED BY <1>2, <2>1, <3>3, <3>6
  <2> QED BY <2>4, <2>5
<1>13. ASSUME NEW n \in 1 .. D, Jump(n) PROVE IInv'
  <2> DEFINE l == n - 1
             x == 0
             m == move_view_to_line(ed, l, x)
             t == Mode(m, "edit", TRUE)
             u == set_syntax_data(t)
  <2>1. Round(u) /\ edits' = edits
    BY <1>13 DEF Jump, Mode
  <2>2. l \in Int /\ x \in Int
    OBVIOUS
  <2> HIDE DEF l, x
  <2>3. IsEd(m) /\ m.redraw = TRUE
    BY <1>1, <2>2, MoveView DEF Asks
  <2> HIDE DEF m
  <2>4. Modes(m, t)
    BY <2>3, ModeIs
  <2> HIDE DEF t
  <2>5. Shades(t, u) /\ Coloured(u)
    BY <2>4, SetSyntax DEF Modes
  <2> HIDE DEF u
  <2>6. Draws(ed, u)
    BY <2>3, <2>4, <2>5 DEF Draws, Modes, Shades
  <2> QED BY <1>2, <2>1, <2>6
<1>14. CASE Back
  <2> DEFINE t == restore_edit_screen(ed)
  <2>1. Round(t) /\ edits' = edits
    BY <1>14 DEF Back
  <2>2. Anew(ed, t) /\ SameFrame(ed, t)
    BY <1>1, RestoreIs
  <2> HIDE DEF t
  <2>3. Draws(ed, t)
    BY <1>1, <2>2, SameColours DEF Draws, Anew, SameFrame
  <2> QED BY <1>2, <2>1, <2>3
<1>15. ASSUME NEW f \in Files, Open(f) PROVE IInv'
  <2> DEFINE s == Loaded(ed, f)
             t == restore_edit_screen(s)
             u == set_syntax_data(t)
  <2>1. Round(u) /\ edits' = edits
    BY <1>15 DEF Open
  <2>2. IsEd(s)
    BY <1>1, LoadedIs
  <2> HIDE DEF s
  <2>3. IsEd(t) /\ t.redraw = TRUE
    BY <2>2, RestoreIs DEF Anew
  <2> HIDE DEF t
  <2>4. Shades(t, u) /\ Coloured(u)
    BY <2>3, SetSyntax
  <2> HIDE DEF u
  <2>5. Draws(ed, u)
    BY <2>3, <2>4 DEF Draws, Shades
  <2> QED BY <1>2, <2>1, <2>5
<1>16. ASSUME NEW p \in Points, Press(p) PROVE IInv'
  <2>1. PICK f \in {<<>>} \cup (IF InTree(ed, p) THEN {<<g>> : g \in Files} ELSE {}) :
           \/ InEdit /\ Round(EditPress(ed, p, f))
           \/ ed.screen = "tree" /\ Round(TreePress([ed EXCEPT !.shown = FALSE], p, f))
    BY <1>16 DEF Press
  <2>2. f = <<>> \/ \E g \in Files : f = <<g>>
    OBVIOUS
  <2>3. edits' = edits
    BY <1>16 DEF Press
  <2>4. p \in Int \X Int
    BY DEF Points
  <2>5. CASE InEdit /\ Round(EditPress(ed, p, f))
    <3>1. Draws(ed, EditPress(ed, p, f))
      BY <1>1, <2>2, <2>4, <2>5, EditPressIs DEF InEdit
    <3> QED BY <1>2, <2>3, <2>5, <3>1
  <2>6. CASE ed.screen = "tree" /\ Round(TreePress([ed EXCEPT !.shown = FALSE], p, f))
    <3> DEFINE s == [ed EXCEPT !.shown = FALSE]
    <3>1. Round(TreePress(s, p, f))
      BY <2>6
    <3>2. Modes(ed, s) /\ s.screen = ed.screen
      BY <1>1, ShowIs
    <3> HIDE DEF s
    <3>3. Draws(ed, s)
      BY <1>1, <3>2, ModeDraws
    <3>4. Draws(s, TreePress(s, p, f))
      BY <2>2, <2>4, <2>6, <3>2, <3>3, TreePressIs DEF Draws
    <3>5. Draws(ed, TreePress(s, p, f))
      BY <3>3, <3>4, DrawsAgain
    <3> QED BY <1>2, <2>3, <3>1, <3>5
  <2> QED BY <2>1, <2>5, <2>6
<1>17. ASSUME NEW over \in {OverText(ed, p) : p \in Points}, NEW num \in {-1, 1}, Wheel(over, num)
       PROVE  IInv'
  <2>1. over \in BOOLEAN
    BY DEF OverText, box_contains_point
  <2>2. edits' = edits
    BY <1>17 DEF Wheel
  <2>3. CASE InEdit /\ Scrolls(ed, num) /\ Round(EditWheel(ed, over, num))
    <3>1. Draws(ed, EditWheel(ed, over, num))
      BY <1>1, <2>1, <2>3, EditWheelIs DEF InEdit
    <3> QED BY <1>2, <2>2, <2>3, <3>1
  <2>4. CASE ed.screen = "tree" /\ Round(TreeWheel([ed EXCEPT !.shown = FALSE], over))
    <3> DEFINE s == [ed EXCEPT !.shown = FALSE]
               t == TreeWheel(s, over)
    <3>1. Round(t)
      BY <2>4
    <3>2. Modes(ed, s) /\ s.screen = ed.screen
      BY <1>1, ShowIs
    <3>3. t = s \/ t = Mode(s, "edit", TRUE)
      BY DEF TreeWheel, Mode
    <3> HIDE DEF s, t
    <3>4. Draws(ed, s)
      BY <1>1, <3>2, ModeDraws
    <3> DEFINE m == Mode(s, "edit", TRUE)
    <3>5. Modes(s, m)
      BY <3>4, ModeIs DEF Draws
    <3> HIDE DEF m
    <3>6. Draws(s, m)
      BY <2>4, <3>2, <3>4, <3>5, ModeDraws DEF Draws
    <3>8. t = s \/ t = m
      BY <3>3 DEF m
    <3>7. Draws(ed, t)
      BY <3>4, <3>6, <3>8, DrawsAgain
    <3> QED BY <1>2, <2>2, <3>1, <3>7
  <2> QED BY <1>17, <2>3, <2>4 DEF Wheel
<1>18. ASSUME NEW z \in OnScreen, Resize(z) PROVE IInv'
  <2> DEFINE t == handle_resize(ed, z)
             u == set_syntax_data(t)
  <2>1. Round(u) /\ edits' = edits
    BY <1>18 DEF Resize
  <2>2. IsEd(t) /\ t.redraw = TRUE
    BY <1>1, HandleResize
  <2>5. u = set_syntax_data(t)
    OBVIOUS
  <2> HIDE DEF t, u
  <2>3. Shades(t, u) /\ Coloured(u)
    BY <2>2, <2>5, SetSyntax
  <2>4. Draws(ed, u)
    BY <2>2, <2>3 DEF Draws, Shades
  <2> QED BY <1>2, <2>1, <2>4
<1>19. CASE UNCHANGED vars
  <2>1. ed' = ed /\ drawn' = drawn /\ edits' = edits
    BY <1>19 DEF vars
  <2>2. IsEd(ed)' /\ Coloured(ed)' /\ draw_file_data(ed)' = draw_file_data(ed)
    BY <1>1, <2>1
  <2>3. editor_line_len(ed, ed.y)' = editor_line_len(ed, ed.y)
    BY <2>1
  <2> QED BY <1>1, <2>1, <2>2, <2>3 DEF IInv, ViewInv, Least
<1> QED BY <1>3, <1>4, <1>5, <1>6, <1>7, <1>8, <1>9, <1>10, <1>11, <1>12, <1>13, <1>14, <1>15,
           <1>16, <1>17, <1>18, <1>19 DEF Next

-----------------------------------------------------------------------------
(* What the invariant says                                                 *)

LEMMA TypeFromInv == IInv => TypeOK
<1> SUFFICES ASSUME IInv PROVE TypeOK
  OBVIOUS
<1>1. IsEd(ed) /\ Coloured(ed)
  BY DEF IInv, ViewInv
<1>2. /\ ed.rows \in Nat \ {0} /\ ed.len \in [0 .. ed.rows - 1 -> Nat] /\ ed.y \in Nat
      /\ ed.start \in Nat /\ ed.counter \in 0 .. D /\ ed.end \in Nat
      /\ {ed.open, ed.shown, ed.redraw} \subseteq BOOLEAN
      /\ ed.screen \in {"edit", "tree", "over"} /\ ed.size \in OnScreen
      /\ ed.tree \in [show : BOOLEAN, w : Nat, h : Nat]
  BY <1>1, Parts
<1>3. ed.tree.show \in BOOLEAN /\ ed.tree.w \in Nat /\ ed.tree.h \in Nat
  BY <1>2
<1>4. DOMAIN ed.syn \subseteq 0 .. ed.h - 1
  BY <1>1 DEF Coloured
<1>5. DOMAIN drawn = 0 .. ed.h - 1 \/ ed.screen = "over"
  BY DEF IInv, ViewInv, draw_file_data
<1> QED BY <1>2, <1>3, <1>4, <1>5 DEF TypeOK, IInv, ViewInv

LEMMA KeysFromInv == IInv => KeysKeepView
<1> SUFFICES ASSUME IInv, InEdit, Placed, ed.y < D
    PROVE /\ \A k \in Arrow : editor_cursor_is_visible(Arrowed(ed, k))
          /\ \A z \in OnScreen : editor_cursor_is_visible(handle_resize(ed, z))
          /\ ed.shown => /\ editor_cursor_is_visible(handle_newline(ed))
                         /\ editor_cursor_is_visible(handle_backspace(ed, TRUE))
          /\ LET t == Typed(ed)
             IN  \A r \in DOMAIN ed.len : t.len[r] # ed.len[r] => r - t.start \in 0 .. t.h - 1
  BY DEF KeysKeepView
<1>1. IsEd(ed) /\ DOMAIN ed.syn \subseteq 0 .. ed.h - 1
  BY DEF IInv, ViewInv, Coloured
<1>2. InView(ed)
  BY DEF InView, Placed
<1>3. \A k \in Arrow : editor_cursor_is_visible(Arrowed(ed, k))
  BY <1>1, <1>2, ArrowedIs
<1>4. \A z \in OnScreen : editor_cursor_is_visible(handle_resize(ed, z))
  BY <1>1, HandleResize DEF InEdit
<1>5. ed.shown => editor_cursor_is_visible(handle_newline(ed))
  BY <1>1, <1>2, HandleNewline DEF InView
<1>6. ed.shown => editor_cursor_is_visible(handle_backspace(ed, TRUE))
  <2>1. editor_cursor_is_visible(ed) => editor_cursor_is_visible(handle_backspace(ed, TRUE))
    BY <1>1, HandleBackspace
  <2> QED BY <1>2, <2>1 DEF InView
<1>7. \A r \in DOMAIN ed.len : Typed(ed).len[r] # ed.len[r]
        => r - Typed(ed).start \in 0 .. Typed(ed).h - 1
  BY <1>1, <1>2, TypedIs
<1> QED BY <1>3, <1>4, <1>5, <1>6, <1>7

LEMMA ClickFromInv == IInv => ClickHits
<1> SUFFICES ASSUME IInv, NEW p \in Points, ed.screen # "over", ~ OverTree(ed, p), OverText(ed, p),
                    ed.start + p[2] - ed.y0 <= ed.end,
                    ed.start + p[2] - ed.y0 < editor_line_limit(ed)
    PROVE LET l == ed.start + p[2] - ed.y0
              t == IF InEdit THEN EditPress(ed, p, <<>>) ELSE TreePress(ed, p, <<>>)
          IN  /\ t.screen = "edit" /\ t.y = l
              /\ InEdit => t.x = editor_clamp_col(ed, l, p[1] - ed.x0)
  BY DEF ClickHits
<1> DEFINE l == ed.start + p[2] - ed.y0
           limit == editor_line_limit(ed)
<1>1. IsEd(ed)
  BY DEF IInv, ViewInv
<1>2. p[1] \in Int /\ p[2] \in Int
  BY DEF Points
<1>3. ed.start \in Nat /\ ed.y0 \in Nat /\ ed.x0 \in Nat /\ ed.h \in Nat /\ ed.end \in Nat
  BY <1>1, Parts
<1>4. limit \in Nat
  <2>1. limit \in 0 .. ed.rows
    BY <1>1, Limits
  <2> QED BY <2>1
<1>5. p[2] >= ed.y0
  BY <1>2, <1>3 DEF OverText, box_contains_point
<1>6. l \in 0 .. limit - 1 /\ ~ (ed.end < l) /\ l \in Int
  BY <1>2, <1>3, <1>4, <1>5
<1>7. Clamp(l, 0, limit - 1) = l /\ limit > 0
  BY <1>4, <1>6 DEF Clamp
<1>8. ASSUME NEW c \in Int
      PROVE  LET m == editor_set_cursor(ed, l, c)
             IN  Moves(ed, m) /\ m.y = l /\ m.x = editor_clamp_col(ed, l, c)
  <2> HIDE DEF l
  <2> QED BY <1>1, <1>6, <1>7, SetCursorIs
<1>9. CASE InEdit
  <2> DEFINE c == p[1] - ed.x0
             m == editor_set_cursor(ed, l, c)
             b == editor_cursor_is_visible(m)
             t == EditPress(ed, p, <<>>)
  <2>1. PressedLine(ed, p) = l
    BY <1>6 DEF PressedLine
  <2>2. t = [m EXCEPT !.shown = b]
    BY <2>1 DEF EditPress
  <2>3. c \in Int /\ b \in BOOLEAN
    BY <1>2, <1>3 DEF editor_cursor_is_visible
  <2>4. c = p[1] - ed.x0
    OBVIOUS
  <2> HIDE DEF c
  <2>5. Moves(ed, m) /\ m.y = l /\ m.x = editor_clamp_col(ed, l, c)
    BY <1>8, <2>3
  <2> HIDE DEF m, b, t, l
  <2>6. Modes(m, t) /\ t.screen = m.screen
    BY <2>2, <2>3, <2>5, ShowIs DEF Moves
  <2>7. t.y = l /\ t.x = editor_clamp_col(ed, l, c) /\ t.screen = "edit"
    BY <1>9, <2>5, <2>6 DEF Moves, Modes, InEdit
  <2> QED BY <1>9, <2>4, <2>7 DEF t, l
<1>10. CASE ~ InEdit
  <2> DEFINE at == editor_pos_to_buffer_pos(ed, editor_mouse_to_buffer_pos(ed, p))
             c == IF ed.len[0] <= at[2] THEN ed.len[0] ELSE at[2]
             m == editor_set_cursor(ed, l, c)
             t == TreePress(ed, p, <<>>)
  <2>1. ~ InTree(ed, p)
    <3>1. ed.tree \in [show : BOOLEAN, w : Nat, h : Nat]
      BY <1>1, Parts
    <3> QED BY <1>2, <3>1 DEF InTree, OverTree, box_contains_point
  <2>2. at = <<ed.start + (p[2] - ed.y0), p[1] - ed.x0>>
    BY DEF editor_pos_to_buffer_pos, editor_mouse_to_buffer_pos
  <2>3. at[1] = l /\ at[2] = p[1] - ed.x0
    BY <1>2, <1>3, <2>2
  <2> HIDE DEF at
  <2>4. ed.len[0] \in Nat
    BY <1>1, Lens
  <2>5. c \in Int
    BY <1>2, <1>3, <2>3, <2>4
  <2>6. t = Mode(m, "edit", TRUE)
    BY <2>1, <2>3 DEF TreePress, Mode, at
  <2> HIDE DEF c
  <2>7. Moves(ed, m) /\ m.y = l
    BY <1>8, <2>5
  <2> HIDE DEF m, t, l
  <2>8. Modes(m, t) /\ t.screen = "edit"
    BY <2>6, <2>7, ModeIs DEF Moves
  <2>9. t.y = l /\ t.screen = "edit"
    BY <2>7, <2>8 DEF Modes
  <2> QED BY <1>10, <2>9 DEF t, l
<1> QED BY <1>9, <1>10

LEMMA FromInv ==
  IInv => TypeOK /\ SyntaxOfShownLines /\ ShownLinesDrawn /\ LayoutKept /\ KeysKeepView /\ ClickHits
<1>1. IInv => SyntaxOfShownLines
  BY DEF IInv, ViewInv, Coloured, SyntaxOfShownLines
<1>2. IInv => ShownLinesDrawn
  BY DEF IInv, ViewInv, ShownLinesDrawn
<1>3. IInv => LayoutKept
  BY DEF IInv, ViewInv, IsEd, Fits, Laid, LayoutKept
<1> QED BY <1>1, <1>2, <1>3, TypeFromInv, KeysFromInv, ClickFromInv

\* Between two rounds of the main loop of the editor, the layout, what is drawn
\* and the colours of the view are those of the text (main.c:441-540).
THEOREM Invariance == Spec => []IInv
<1> QED BY InitIs, NextIs, PTL DEF Spec

\* The rows have their lengths, and the cursor is in the columns of its row
\* (txt_editor.h:442-450 and 522-529).
THEOREM TypeCorrect == Spec => []TypeOK
<1> QED BY Invariance, FromInv, PTL

\* However the view is scrolled by keys, wheel and changes of the text, the
\* colours of its rows are those of the lines they show
\* (txt_editor_syntax.c:277-313 and 559-574).
THEOREM SyntaxOfShownLinesAlways == Spec => []SyntaxOfShownLines
<1> QED BY Invariance, FromInv, PTL

\* Before the next input is read, the terminal shows the lines of the view as
\* they are: no handler forgets to ask for the drawing
\* (txt_editor_draw.c:427-428 and 620-738).
THEOREM ShownLinesDrawnAlways == Spec => []ShownLinesDrawn
<1> QED BY Invariance, FromInv, PTL

\* In every order of resizing and of showing, widening and hiding the tree, the
\* write area fits the screen (txt_editor_func.c:84-123).
THEOREM LayoutKeptAlways == Spec => []LayoutKept
<1> QED BY Invariance, FromInv, PTL

\* Keys and a resize leave the cursor in view, and a glyph changes a row of the
\* view (txt_editor_func.c:196-205 and 386-437, txt_editor_state.c:214-230).
THEOREM KeysKeepViewAlways == Spec => []KeysKeepView
<1> QED BY Invariance, FromInv, PTL

\* A click puts the cursor into the line under it (editor_mouse.c:139-162).
THEOREM ClickHitsAlways == Spec => []ClickHits
<1> QED BY Invariance, FromInv, PTL
=============================================================================
