------------------------------ MODULE TextBuffer ------------------------------
(***************************************************************************)
(* The edit buffer of my_txt_editor and the keys that change it.           *)
(*                                                                         *)
(* All rows share one array of cells.  A row is an offset into it, a       *)
(* capacity and a length; a row that outgrows its capacity pushes every    *)
(* later row back, Enter cuts a row in two and Backspace at the start of a *)
(* row joins it to the row above.  A glyph of two columns takes two cells, *)
(* the second of which is 0.  What is saved is the first                   *)
(* description_line_end rows; what may be edited is bounded by the rows    *)
(* there is memory for and, once a file is open, by the lines found in it. *)
(*                                                                         *)
(* ed is struct editor_state cut down to what the text depends on; the      *)
(* handlers are functions from one ed to the next.  The main loop ends every *)
(* round with editor_sync_cursor (Sync).  A tab or an accepted completion    *)
(* enters several glyphs: they wait in todo, and no key is read before it is *)
(* empty.                                                                    *)
(*                                                                         *)
(* Which rows are in view is not state of this module: the arrow keys, the *)
(* mouse and the line jump are MoveCursor, and a handler that scrolls when *)
(* the cursor is at the edge of the view is told so (scrolls).  Left out:  *)
(* drawing, syntax colours, completion, the language server, and lines     *)
(* longer than max_line_size.                                              *)
(*                                                                         *)
(* Names a specification usually has begin with TB here, because the proofs *)
(* extend this module and EditorSession.                                   *)
(***************************************************************************)
EXTENDS Integers, Sequences, FiniteSets

CONSTANTS
  Narrow, Wide,  (* glyphs of one and of two columns                         *)
  Nul,           (* the value 0 of a cell                                    *)
  Slack,         (* EDITOR_LINE_COL_SLACK                                    *)
  ColMax,        (* EDITOR_LINE_COL_MAX                                      *)
  LoadLines,     (* default_load_line_size                                   *)
  ScratchCols,   (* columns of a row before a file is opened                 *)
  Views,         (* widths the edit area may have                            *)
  Files,         (* what a file may hold: sequences of lines                 *)
  Words,         (* what Tab and a completion enter                          *)
  MaxCells,      (* bound: cells and rows the buffer may grow to (realloc    *)
  MaxRows,       (*        fails beyond)                                     *)
  MaxLines,      (* bound: lines somebody types                              *)
  MaxText        (* bound: glyphs of text somebody types                     *)

Glyph == Narrow \cup Wide

ASSUME BufferAssumption ==
  /\ Narrow \cap Wide = {} /\ Nul \notin Glyph
  /\ Slack \in Nat \ {0} /\ ColMax \in Nat /\ Slack <= ColMax
  /\ LoadLines \in Nat \ {0} /\ ScratchCols \in Nat \ {0}
  /\ Views \subseteq Nat \ {0}
  /\ MaxText \in Nat /\ MaxLines \in Nat /\ MaxCells \in Nat /\ LoadLines * ScratchCols <= MaxCells
  /\ MaxRows \in Nat /\ LoadLines < MaxRows
  /\ Files \subseteq Seq(Seq(Glyph)) /\ \A f \in Files : \A l \in DOMAIN f : Len(f[l]) <= ColMax
  /\ Words \subseteq Seq(Glyph)

VARIABLES
  ed,            (* [cells, total, off, cap, len, rows: struct str_data; end,
                    counter, open: struct file_data; x, y: the cursor;
                    view: write_area.w]                                      *)
  todo           (* what a tab or a completion has still to enter            *)
TBvars == <<ed, todo>>

Rows(s) == 0 .. s.rows - 1
Least(a, b) == IF a < b THEN a ELSE b
Clamp(v, lo, hi) == IF v < lo THEN lo ELSE IF v > hi THEN hi ELSE v
Width(g) == IF g \in Wide THEN 2 ELSE 1

-------------------------------------------------------------------------------
(* Reading the buffer.                                                       *)

editor_line_limit(s) == IF s.open THEN Least(s.counter, s.rows) ELSE s.rows
editor_line_len(s, l) ==
  IF l < editor_line_limit(s) THEN Least(s.len[l], s.cap[l]) ELSE 0

editor_clamp_col(s, l, col) == Clamp(col, 0, Least(editor_line_len(s, l), s.view))
Cell(s, l, col) == s.cells[s.off[l] + col]
HasCells(s, l) == l \in Rows(s) /\ s.off[l] < s.total

(* The largest column up to col that does not hold the second half of a glyph. *)
Start(s, l, col) ==
  CHOOSE c \in 0 .. col :
    /\ c = 0 \/ Cell(s, l, c) # Nul
    /\ \A b \in c + 1 .. col : Cell(s, l, b) = Nul

\* Mutant: the cursor may stop inside a wide glyph.
editor_cursor_col_boundary_Inside(s, l, col) == editor_clamp_col(s, l, col)
editor_cursor_col_boundary(s, l, col) ==
  LET c == editor_clamp_col(s, l, col)
  IN  IF HasCells(s, l) /\ c < editor_line_len(s, l) THEN Start(s, l, c) ELSE c

editor_previous_char_col(s, l, col) == IF HasCells(s, l) THEN Start(s, l, col - 1) ELSE col - 1

(* What row r holds, cell by cell, and the lines a save writes.              *)
Row(s, r) == [i \in 1 .. s.len[r] |-> Cell(s, r, i - 1)]
editor_buffer_to_utf8(s) ==
  [l \in 1 .. s.end |->
     SelectSeq([i \in 1 .. editor_line_len(s, l - 1) |-> Cell(s, l - 1, i - 1)],
               LAMBDA c : c # Nul)]

-------------------------------------------------------------------------------
(* Making room.                                                              *)

(* base doubled until it is at least need, and at most ColMax.               *)
Doubled(base, need) ==
  CHOOSE v \in base .. base + 2 * need :
    /\ v >= need /\ (v = base \/ v < 2 * need)
    /\ \E k \in 0 .. need : v = base * 2 ^ k

(* The rows behind row l begin delta cells later.                            *)
\* Mutant: the first of them is left where it was.
Shifted_Late(s, l, delta) == [r \in Rows(s) |-> IF r > l + 1 THEN s.off[r] + delta ELSE s.off[r]]
Shifted(s, l, delta) == [r \in Rows(s) |-> IF r > l THEN s.off[r] + delta ELSE s.off[r]]

(* The cells, of which there are z, with delta empty ones put in at cell at. *)
Opened(cells, z, at, delta) ==
  [i \in 0 .. z + delta - 1 |->
     IF i < at THEN cells[i] ELSE IF i < at + delta THEN Nul ELSE cells[i - delta]]

(* The cells row l needs beyond those it has.                                *)
Missing(s, l, need) ==
  Least(Doubled(IF s.cap[l] > 0 THEN s.cap[l] ELSE Slack, need), ColMax) - s.cap[l]

editor_ensure_line_cap(s, l, need) ==
  LET delta == Missing(s, l, need)
  IN  IF l \notin Rows(s) \/ need <= s.cap[l] \/ need > ColMax \/ s.total + delta > MaxCells
      THEN s
      ELSE [s EXCEPT !.cells  = Opened(@, s.total, s.off[l] + s.cap[l], delta),
                     !.total  = @ + delta,
                     !.off    = Shifted(s, l, delta),
                     !.cap[l] = @ + delta]

(* f, one entry for each of m rows, and v for each row up to n behind them.  *)
Extended(f, m, n, v) == [r \in 0 .. n - 1 |-> IF r < m THEN f[r] ELSE v]

editor_ensure_row_capacity(s, need) ==
  LET n == Doubled(s.rows, need)
  IN  IF need <= s.rows \/ n > MaxRows THEN s
      ELSE [s EXCEPT !.off = Extended(@, s.rows, n, s.total), !.cap = Extended(@, s.rows, n, 0),
                     !.len = Extended(@, s.rows, n, 0), !.rows = n]

-------------------------------------------------------------------------------
(* Moving the cursor.                                                        *)

editor_set_cursor(s, l, col) ==
  LET limit == editor_line_limit(s)
      line  == Clamp(l, 0, limit - 1)
  IN  IF limit = 0 THEN [s EXCEPT !.y = 0, !.x = 0]
      ELSE [s EXCEPT !.y = line, !.x = editor_cursor_col_boundary(s, line, col)]

editor_move_cursor_line(s, delta) ==
  IF s.y + delta \in 0 .. editor_line_limit(s) - 1
  THEN [s EXCEPT !.y = s.y + delta, !.x = editor_cursor_col_boundary(s, s.y + delta, s.x)]
  ELSE s

(* The view scrolls with the cursor: only the number of lines bounds it.     *)
editor_screen_move_line(s, num) ==
  IF s.y + num \in 0 .. LoadLines - 1
  THEN [s EXCEPT !.y = s.y + num, !.x = editor_cursor_col_boundary(s, s.y + num, s.x)]
  ELSE s

MovedBy(s, num, scrolls) ==
  IF scrolls THEN editor_screen_move_line(s, num) ELSE editor_move_cursor_line(s, num)

Sync(s) == [s EXCEPT !.x = editor_cursor_col_boundary(s, s.y, s.x)]

-------------------------------------------------------------------------------
(* Changing the text.                                                        *)

editor_col_limit(s, l) == Least(s.view, s.cap[l])

(* ch put into w cells from at on, what follows it up to end moved right.    *)
CellsWith(cells, at, end, ch, w) ==
  [i \in DOMAIN cells |->
     IF i = at THEN ch
     ELSE IF i \in at + 1 .. at + w - 1 THEN Nul
     ELSE IF i \in at + w .. end + w - 1 THEN cells[i - w] ELSE cells[i]]

Inserted(s, l, x, ch) ==
  LET w == Width(ch)
  IN  [s EXCEPT
        !.cells = CellsWith(@, s.off[l] + x, s.off[l] + editor_line_len(s, l), ch, w),
        !.len[l] = IF @ <= x THEN x + w ELSE IF @ + w <= s.cap[l] THEN @ + w ELSE @,
        !.end = IF l >= @ THEN l + 1 ELSE @,
        !.x = x + w]

(* Behind the last visible column typing goes on in the next row.            *)
Overflowed(s) ==
  LET m == [editor_move_cursor_line(s, 1) EXCEPT !.x = 0]
  IN  [m EXCEPT !.end = IF m.y >= @ THEN m.y + 1 ELSE @]

handle_char_input(s, ch) ==
  LET l    == s.y
      x    == editor_cursor_col_boundary(s, l, Clamp(s.x, 0, s.view - 1))
      len  == editor_line_len(s, l)
      need == (IF x < len THEN len ELSE x) + Width(ch)
      room == [editor_ensure_line_cap(s, l, need) EXCEPT !.x = x]
  IN  IF l >= editor_line_limit(s) THEN s
      ELSE IF room.cap[l] < need \/ x + Width(ch) > editor_col_limit(room, l) THEN room
      ELSE IF x >= s.view - 1 /\ l + 1 < editor_line_limit(s)
           THEN Overflowed(Inserted(room, l, x, ch))
           ELSE Inserted(room, l, x, ch)

(* The w cells from at on taken out, what follows them up to end moved left. *)
CellsWithout(cells, at, end, w) ==
  [i \in DOMAIN cells |->
     IF i \in at .. end - w - 1 THEN cells[i + w]
     ELSE IF i \in end - w .. end - 1 THEN Nul ELSE cells[i]]

(* The glyph left of the cursor is taken out of its row.                     *)
Deleted(s) ==
  LET l   == s.y
      at  == editor_previous_char_col(s, l, s.x)
      len == editor_line_len(s, l)
      w   == Least(IF Cell(s, l, at) \in Glyph THEN Width(Cell(s, l, at)) ELSE 1, len - at)
  IN  IF s.cap[l] = 0 \/ at >= editor_col_limit(s, l) \/ at >= s.len[l] THEN s
      ELSE [s EXCEPT
             !.cells = CellsWithout(@, s.off[l] + at, s.off[l] + len, w),
             !.len[l] = len - w,
             !.x = at]

(* The n cells at from moved to cell to, and the rest up to end emptied.     *)
CellsMoved(cells, from, n, to, end) ==
  [i \in DOMAIN cells |->
     IF i \in to .. to + n - 1 THEN cells[from + i - to]
     ELSE IF i \in to + n .. end - 1 THEN Nul ELSE cells[i]]

(* The rows behind row p move up by one: row p gets v, the last of m last.   *)
Up(f, m, p, v, last) ==
  [r \in 0 .. m - 1 |->
     IF r < p THEN f[r] ELSE IF r = p THEN v ELSE IF r = m - 1 THEN last ELSE f[r + 1]]

(* Row l is appended to row l - 1, and the rows below move up by one.        *)
remove_line_join_str_data(s, l) ==
  LET p   == l - 1
      end == s.off[l] + s.cap[l]
  IN  [s EXCEPT
        !.cells = CellsMoved(@, s.off[l], s.len[l], s.off[p] + s.len[p], end),
        !.off = Up(@, s.rows, p, s.off[p], s.total),
        !.cap = Up(@, s.rows, p, end - s.off[p], 0),
        !.len = Up(@, s.rows, p, s.len[p] + s.len[l], 0),
        !.end = IF @ > 0 THEN @ - 1 ELSE @,
        !.counter = IF @ > 0 THEN @ - 1 ELSE @]

Joined(s, scrolls) ==
  LET m == MovedBy(remove_line_join_str_data(s, s.y), -1, scrolls)
  IN  IF HasCells(s, s.y - 1) /\ HasCells(s, s.y)
      THEN [m EXCEPT !.x = editor_clamp_col(m, m.y, editor_line_len(s, s.y - 1))]
      ELSE s

handle_backspace(s, scrolls) ==
  LET b == Sync(s)
  IN  IF s.y >= editor_line_limit(s) THEN s
      ELSE IF b.x > 0 THEN (IF HasCells(b, b.y) THEN Deleted(b) ELSE b)
      ELSE IF b.y > 0 THEN Joined(b, scrolls) ELSE b

(* The rows in use when row l is cut: those counted, and row l.              *)
\* Mutant: the rows below l are forgotten.
Used_Above(s, l) == l + 1
Used(s, l) == IF s.end < l + 1 THEN l + 1 ELSE s.end

(* The rows l + 1 .. used - 1 move down by one: rows l and l + 1 get v and w.*)
Down(f, m, l, used, v, w) ==
  [r \in 0 .. m - 1 |->
     IF r = l THEN v ELSE IF r = l + 1 THEN w
     ELSE IF r \in l + 2 .. used THEN f[r - 1] ELSE f[r]]

(* Row l is cut before column col.                                           *)
Cut(s, l, used, col) ==
  [s EXCEPT !.off = Down(@, s.rows, l, used, @[l], @[l] + col),
            !.cap = Down(@, s.rows, l, used, col, @[l] - col),
            !.len = Down(@, s.rows, l, used, col, @[l] - col)]

(* A row without cells gets some.                                            *)
WithCells(s, l) == IF s.cap[l] <= 0 THEN editor_ensure_line_cap(s, l, Slack) ELSE s

(* Row l is cut at the cursor; the rows in use below it move down by one.    *)
make_new_line_space(s, l) ==
  LET used == Used(s, l)
      b    == editor_ensure_row_capacity(s, used + 1)
      cut  == Cut(b, l, used, Clamp(b.x, 0, b.len[l]))
  IN  [WithCells(WithCells(cut, l + 1), l) EXCEPT
         !.end = used + 1, !.counter = IF @ < LoadLines THEN @ + 1 ELSE @]

CanSplit(s) ==
  /\ s.y < editor_line_limit(s)
  /\ editor_ensure_row_capacity(s, Used(s, s.y) + 1).rows > Used(s, s.y)

handle_newline(s, scrolls) ==
  LET m == MovedBy(make_new_line_space(s, s.y), 1, scrolls)
  IN  IF CanSplit(s)
      THEN [m EXCEPT !.x = 0, !.end = IF m.y >= @ THEN m.y + 1 ELSE @]
      ELSE s

-------------------------------------------------------------------------------
(* Files.                                                                    *)

(* The lines of a file are counted up to LoadLines; the end is only recorded *)
(* when the file has fewer.                                                  *)
set_line_memory(s, n) ==
  [s EXCEPT !.counter = Least(n + 1, LoadLines),
            !.end = IF n < LoadLines THEN n ELSE @]

Bytes(g) == IF g \in Wide THEN 3 ELSE 1

(* What count_line_cells counts in the lines that are loaded.                *)
file_total_str_size(f) ==
  Cardinality({p \in (DOMAIN f) \X (1 .. ColMax) \X (1 .. 3) :
                 p[1] <= LoadLines /\ p[2] <= Len(f[p[1]]) /\ p[3] <= Bytes(f[p[1]][p[2]])})

loaded_rows(f)  == Least(Len(f) + 1, LoadLines)
loaded_cells(f) == file_total_str_size(f) + loaded_rows(f) * Slack

(* The columns of the first k glyphs of a line, and of those that fit.       *)
Columns(line, k) == Cardinality({p \in (1 .. k) \X (1 .. 2) : p[2] <= Width(line[p[1]])})
Fitted(line, room) ==
  Cardinality({p \in (DOMAIN line) \X (1 .. 2) :
                 p[2] <= Width(line[p[1]]) /\ Columns(line, p[1]) <= room})

(* Row r of a loaded file begins at cell at: what it shows and what it gets. *)
LoadedLen(f, r, at) ==
  LET room == loaded_cells(f) - at
      line_room == IF room < Slack THEN room ELSE room - Slack
  IN  IF r < Len(f) THEN Fitted(f[r + 1], line_room) ELSE 0
LoadedCap(f, r, at) == Least(LoadedLen(f, r, at) + Slack, loaded_cells(f) - at)

(* Where the rows of a loaded file begin: each one where the one before ends.*)
Offsets == [f \in Files |->
  {o \in [0 .. loaded_rows(f) -> 0 .. loaded_cells(f)] :
     /\ o[0] = 0
     /\ \A r \in 0 .. loaded_rows(f) - 1 : o[r + 1] = o[r] + LoadedCap(f, r, o[r])}]

LoadedCell(f, o, i) ==
  LET here == {p \in (0 .. Least(Len(f), LoadLines) - 1) \X (1 .. ColMax) :
                 /\ p[2] <= Len(f[p[1] + 1])
                 /\ i = o[p[1]] + Columns(f[p[1] + 1], p[2] - 1)
                 /\ Columns(f[p[1] + 1], p[2]) <= LoadedLen(f, p[1], o[p[1]])}
  IN  IF here = {} THEN Nul
      ELSE LET at == CHOOSE p \in here : TRUE IN f[at[1] + 1][at[2]]

Buffers == [f \in Files |->
  {[cells |-> [i \in 0 .. loaded_cells(f) - 1 |-> LoadedCell(f, o, i)],
    off   |-> [r \in 0 .. loaded_rows(f) - 1 |-> o[r]],
    len   |-> [r \in 0 .. loaded_rows(f) - 1 |-> LoadedLen(f, r, o[r])],
    cap   |-> [r \in 0 .. loaded_rows(f) - 1 |-> LoadedCap(f, r, o[r])]] : o \in Offsets[f]}]

-------------------------------------------------------------------------------
TBInit ==
  /\ todo = <<>>
  /\ \E v \in Views :
       ed = [cells |-> [i \in 0 .. LoadLines * ScratchCols - 1 |-> Nul],
             total |-> LoadLines * ScratchCols,
             off |-> [r \in 0 .. LoadLines - 1 |-> r * ScratchCols],
             cap |-> [r \in 0 .. LoadLines - 1 |-> ScratchCols],
             len |-> [r \in 0 .. LoadLines - 1 |-> 0],
             rows |-> LoadLines, end |-> 0, counter |-> 0, open |-> FALSE,
             x |-> 0, y |-> 0, view |-> v]

(* A key is handled, and the round of the main loop ends.                    *)
Handled(s) == todo = <<>> /\ ed' = Sync(s) /\ UNCHANGED todo

(* Bound: there is room for w more glyphs of text.                           *)
Short(w) ==
  Cardinality({p \in Rows(ed) \X (DOMAIN ed.cells) :
                 p[2] < ed.len[p[1]] /\ Cell(ed, p[1], p[2]) # Nul}) + w <= MaxText

Type(ch) == Short(1) /\ Handled(handle_char_input(ed, ch))

EnterWord(w) == todo = <<>> /\ Short(Len(w)) /\ todo' = w /\ UNCHANGED ed

TypeNext ==
  /\ todo # <<>>
  /\ todo' = Tail(todo)
  /\ ed' = LET s == handle_char_input(ed, Head(todo))
           IN  IF Len(todo) = 1 THEN Sync(s) ELSE s

Backspace == \E scrolls \in BOOLEAN : Handled(handle_backspace(ed, scrolls))
Newline   == ed.end < MaxLines /\ \E scrolls \in BOOLEAN : Handled(handle_newline(ed, scrolls))

(* Keys and mouse put the cursor into a row that may be edited; scrolling    *)
(* down puts it below the last of them.                                      *)
MoveCursor(l, col) == Handled(editor_set_cursor(ed, l, col))
ScrollCursor(num)  == Handled(editor_screen_move_line(ed, num))

Resize(v) == v # ed.view /\ Handled([ed EXCEPT !.view = v])

Open(f) ==
  \E b \in Buffers[f] :
    Handled([set_line_memory(ed, Len(f)) EXCEPT
               !.cells = b.cells, !.total = loaded_cells(f),
               !.off = b.off, !.cap = b.cap, !.len = b.len, !.rows = loaded_rows(f),
               !.open = TRUE, !.x = 0, !.y = 0])

(* The file was opened and its lines counted, but it cannot be read.         *)
OpenUnread(f) ==
  Handled([set_line_memory(ed, Len(f)) EXCEPT
             !.open = TRUE, !.x = 0, !.y = 0])

(* The buffer is written to a new file that then replaces the old one.       *)
Save ==
  /\ ed.end <= ed.rows
  /\ Handled([set_line_memory(ed, ed.end) EXCEPT !.open = TRUE])

TBNext ==
  \/ \E ch \in Glyph : Type(ch)
  \/ \E w \in Words : EnterWord(w)
  \/ TypeNext \/ Backspace \/ Newline
  \/ \E l \in 0 .. editor_line_limit(ed) - 1 : \E col \in 0 .. ed.len[l] : MoveCursor(l, col)
  \/ \E num \in {-1, 1} : ScrollCursor(num)
  \/ \E v \in Views : Resize(v)
  \/ \E f \in Files : Open(f) \/ OpenUnread(f)
  \/ Save

TBSpec == TBInit /\ [][TBNext]_TBvars

-------------------------------------------------------------------------------
(* Properties.                                                               *)

\* The arrays have one entry for each row and cell they are said to have, and
\* the cursor stays in the columns of the view (txt_editor.h:522-544).
TBTypeOK ==
  /\ DOMAIN ed.cells = 0 .. ed.total - 1 /\ ed.total \in Nat
  /\ \A i \in DOMAIN ed.cells : ed.cells[i] \in Glyph \cup {Nul}
  /\ ed.rows \in 1 .. MaxRows
  /\ \A f \in {ed.off, ed.cap, ed.len} :
       DOMAIN f = Rows(ed) /\ \A r \in Rows(ed) : f[r] \in 0 .. ed.total
  /\ ed.end \in 0 .. MaxRows /\ ed.counter \in 0 .. LoadLines /\ ed.open \in BOOLEAN
  /\ ed.y \in 0 .. MaxRows - 1 /\ ed.x \in 0 .. ed.view /\ ed.view \in Views
  /\ \A i \in DOMAIN todo : todo[i] \in Glyph

\* No two rows share a cell, whatever grew, was cut or was joined: each row
\* ends before the next one begins, and the last inside the buffer
\* (txt_editor_file.c:246-276, txt_editor_func.c:463-493 and 549-572).
RowsDisjoint ==
  \A r \in Rows(ed) :
    /\ ed.len[r] <= ed.cap[r]
    /\ ed.off[r] + ed.cap[r] <= (IF r + 1 \in Rows(ed) THEN ed.off[r + 1] ELSE ed.total)

\* No key leaves half of a wide glyph behind: in a row every such glyph is
\* followed by its 0, and every 0 follows such a glyph (txt_editor.h:533-561,
\* txt_editor_func.c:325-336).
GlyphsWhole ==
  \A r \in Rows(ed) : \A i \in 1 .. ed.len[r] :
    /\ Row(ed, r)[i] \in Wide => i < ed.len[r] /\ Row(ed, r)[i + 1] = Nul
    /\ Row(ed, r)[i] = Nul => i > 1 /\ Row(ed, r)[i - 1] \in Wide

(* The text the buffer stands for: its rows up to the last that is not empty.*)
Line(s, r) == SelectSeq(Row(s, r), LAMBDA c : c # Nul)
TextOf(s) ==
  LET full == {r \in Rows(s) : s.len[r] > 0}
      last == IF full = {} THEN -1 ELSE CHOOSE r \in full : \A q \in full : q <= r
  IN  SubSeq([l \in 1 .. s.rows |-> Line(s, l - 1)], 1, last + 1)

Counted == Len(TextOf(ed)) <= ed.end
Cells   == <<ed.cells, ed.off, ed.len>>
Doc     == INSTANCE TextDoc

\* The buffer implements the text of TextDoc: whatever a key does to offsets,
\* capacities and cells (txt_editor_func.c:143-375 and 441-581, load_all_lines),
\* the text gains or loses one glyph, has one line cut or joined, or is that
\* of a file.  It holds as long as every row with text is counted in
\* description_line_end: the rows behind are those SaveWritesAll is about.
EditsText ==
  [][Cells' # Cells /\ Counted =>
       LET old == TextOf(ed)
           new == TextOf(ed')
       IN  old = new \/ Doc!Edited(old, new)]_TBvars

-------------------------------------------------------------------------------
(* What a comment promises and the code does not keep.                       *)

\* txt_editor.h:106 and txt_editor_func.c:346-347: description_line_end counts
\* the lines to be saved, so that nothing typed is lost: a save writes every
\* line of the text.
SaveWritesAll ==
  [][Save => /\ Counted
             /\ \A l \in DOMAIN TextOf(ed) : editor_buffer_to_utf8(ed)[l] = TextOf(ed)[l]]_TBvars
===============================================================================
