------------------------------- MODULE EditView -------------------------------
(***************************************************************************)
(* What the edit screen of my_txt_editor shows, and where the cursor is in *)
(* it: the first visible row, the write area beside the file tree and the  *)
(* status bar, the rows that were drawn, the colours kept per row of the    *)
(* view, and every key, click and wheel step that moves them.              *)
(*                                                                         *)
(* The handlers are functions from one ed to the next; one round of the    *)
(* main loop (main.c:441-540) handles one input, clamps the column of the  *)
(* cursor and draws what was asked for (Round).  A line is its length: the *)
(* cells of a row, wide glyphs and the memory behind the rows are          *)
(* TextBuffer's, and so is a Backspace that finds no memory (joins).       *)
(*                                                                         *)
(* Left out: the other screens (EditorSession), completion, the language   *)
(* server, line numbers and the drawing of everything but the text, the    *)
(* width of the status bar, and the dragging of the tree's border, which   *)
(* waits for double clicks that mouseinterval(0) never reports.            *)
(***************************************************************************)
EXTENDS Integers, Sequences, FiniteSets

CONSTANTS
  D,             (* default_load_line_size and DEFAULT_LOAD_LINE_SIZE        *)
  Context,       (* 15: rows kept above a line the view is moved to          *)
  NumberSpace,   (* line_number_space                                        *)
  Indent,        (* indent_range                                             *)
  TreePart,      (* 10: the tree gets this part of the screen                *)
  MinX, MinY,    (* 60 and 25: a screen not larger is waited out             *)
  Sizes,         (* sizes <<x, y>> the terminal may have                     *)
  Bars,          (* where the status bar may be: "none", "top", "bottom"     *)
  Files,         (* what a file may hold: the lengths of its lines           *)
  MaxTree,       (* bound: width the tree is given                           *)
  MaxEdits       (* bound: keys that change the text                         *)

ASSUME ViewAssumption ==
  /\ D \in Nat \ {0} /\ Context \in Nat /\ NumberSpace \in Nat /\ Indent \in Nat
  /\ TreePart \in Nat \ {0} /\ {MinX, MinY, MaxTree, MaxEdits} \subseteq Nat
  /\ MinY > 2                      \* a row besides the status bar
  /\ Sizes \subseteq Nat \X Nat /\ Files \subseteq Seq(Nat)
  /\ Bars \subseteq {"none", "top", "bottom"}
  /\ \E z \in Sizes : z[1] > MinX /\ z[2] >= MinY

VARIABLES
  ed,            (* struct editor_state cut down to the view: y, x, shown:   *)
                 (* the cursor; start: scr_start_num; x0, x1, y0, y1, w, h:  *)
                 (* write_area; size: scr_size; tree: file_tree_data; screen;*)
                 (* len, rows, counter, open, end: the text; syn: the colours*)
                 (* of each row of the view; redraw: RENDER_FILE_DATA; bar   *)
  drawn,         (* what the rows of the view show on the terminal           *)
  edits          (* bound: how many of them may still come                   *)
vars == <<ed, drawn, edits>>

Least(a, b) == IF a < b THEN a ELSE b
Most(a, b)  == IF a > b THEN a ELSE b
Clamp(v, lo, hi) == IF v < lo THEN lo ELSE IF v > hi THEN hi ELSE v
OnScreen == {z \in Sizes : z[1] > MinX /\ z[2] >= MinY}

-------------------------------------------------------------------------------
(* Reading the state.                                                        *)

editor_line_limit(s) == IF s.open THEN Least(s.counter, s.rows) ELSE s.rows
editor_line_len(s, l) == IF l \in 0 .. editor_line_limit(s) - 1 THEN s.len[l] ELSE 0
editor_clamp_col(s, l, col) == Clamp(col, 0, Least(editor_line_len(s, l), s.w))

editor_cursor_is_visible(s) == s.y - s.start \in 0 .. s.y1 - s.y0 - 1

(* A row of the view as it is drawn, and the line its colours are made from. *)
draw_editor_buffer_line(s, l) ==
  IF l < editor_line_limit(s) THEN <<l, Least(s.len[l], s.w)>> ELSE <<>>
draw_file_data(s) == [i \in 0 .. s.h - 1 |-> draw_editor_buffer_line(s, s.start + i)]
Scanned(s, i) == <<s.start + i, s.len[s.start + i]>>

(* A box contains its right and lower edge.                                  *)
box_contains_point(x, y, w, h, p) == p[1] \in x .. x + w /\ p[2] \in y .. y + h
OverTree(s, p) == box_contains_point(0, 0, s.tree.w, s.tree.h, p)
OverText(s, p) == box_contains_point(s.x0, s.y0, s.w, s.h, p)

-------------------------------------------------------------------------------
(* Colours.                                                                  *)

set_syntax_data(s) ==
  [s EXCEPT !.syn = [i \in {j \in 0 .. s.h - 1 : s.start + j < editor_line_limit(s)} |->
                       Scanned(s, i)]]

update_line_syntax_data(s, i) ==
  IF s.start + i \notin 0 .. editor_line_limit(s) - 1 THEN s
  ELSE [s EXCEPT !.syn = [j \in (DOMAIN @) \cup {i} |-> IF j = i THEN Scanned(s, i) ELSE @[j]]]

(* The colours of every row move by num rows; those that leave the view go.  *)
\* Mutant: they move the way the first visible row does.
scroll_syntax_pos_data_Along(s, num) ==
  [s EXCEPT !.syn = [i \in {j \in 0 .. s.h - 1 : j + num \in DOMAIN @} |-> @[i + num]]]
scroll_syntax_pos_data(s, num) ==
  [s EXCEPT !.syn = [i \in {j \in 0 .. s.h - 1 : j - num \in DOMAIN @} |-> @[i - num]]]

(* After the view moved by num rows, one row at its edge is new.             *)
Recoloured(s, num) ==
  update_line_syntax_data(scroll_syntax_pos_data(s, -num), IF num > 0 THEN s.h - 1 ELSE 0)

-------------------------------------------------------------------------------
(* Moving the cursor and the view.                                           *)

Redrawn(s) == [s EXCEPT !.redraw = TRUE]
Sync(s)    == [s EXCEPT !.x = editor_clamp_col(s, s.y, s.x)]

editor_set_cursor(s, l, col) ==
  LET limit == editor_line_limit(s)
      line  == Clamp(l, 0, limit - 1)
  IN  IF limit <= 0 THEN [s EXCEPT !.y = 0, !.x = 0]
      ELSE [s EXCEPT !.y = line, !.x = editor_clamp_col(s, line, col)]

editor_move_cursor_line(s, delta) ==
  IF s.y + delta \in 0 .. editor_line_limit(s) - 1
  THEN Sync([s EXCEPT !.y = @ + delta]) ELSE s

(* Cursor and view move together; what bounds them is not the file but the   *)
(* number of lines that are loaded at most.                                  *)
\* Mutant: the text is not asked to be drawn again.
editor_screen_move_line_Undrawn(s, num) ==
  IF s.y + num \notin 0 .. D - 1 \/ s.start + num < 0 THEN s
  ELSE Recoloured(Sync([s EXCEPT !.y = @ + num, !.start = @ + num]), num)
editor_screen_move_line(s, num) ==
  IF s.y + num \notin 0 .. D - 1 \/ s.start + num < 0 THEN s
  ELSE Redrawn(Recoloured(Sync([s EXCEPT !.y = @ + num, !.start = @ + num]), num))

(* A line the view is moved to gets up to Context rows above it, fewer at    *)
(* the last of the D lines.                                                  *)
draw_start_line_for_target(s, l) ==
  LET above == Clamp(s.h - 1, 0, Context)
      t     == IF l + s.h > D THEN D - s.h + above ELSE l
  IN  Most(t - above, 0)

move_view_to_line(s, l, col) ==
  LET t == Clamp(l, 0, Most(editor_line_limit(s) - 1, 0))
  IN  Redrawn(Sync(editor_set_cursor(
        [s EXCEPT !.start = draw_start_line_for_target(s, t)], t, col)))

(* The write area begins behind the line numbers and the tree.               *)
editor_apply_write_area(s) ==
  LET x0 == NumberSpace + 1 + (IF s.tree.show THEN s.tree.w + 1 ELSE 0)
  IN  [s EXCEPT !.x0 = x0, !.w = Most(s.x1 - x0, 0)]

show_filetree(s, w, h) ==
  Redrawn(Sync(editor_apply_write_area([s EXCEPT !.tree = [show |-> TRUE, w |-> w, h |-> h]])))

restore_edit_screen(s) == Redrawn(Sync([s EXCEPT !.screen = "edit", !.shown = TRUE]))

-------------------------------------------------------------------------------
(* Keys that change the text.                                                *)

handle_char_input(s) ==
  LET l == s.y
      x == editor_clamp_col(s, l, Clamp(s.x, 0, s.w - 1))
      t == [s EXCEPT !.len[l] = @ + 1, !.end = Most(@, l + 1), !.x = x + 1]
      m == [editor_move_cursor_line(t, 1) EXCEPT !.x = 0]
  IN  IF l >= editor_line_limit(s) \/ s.w = 0 THEN s
      ELSE Redrawn(IF x >= s.w - 1 /\ l + 1 < editor_line_limit(s)
                   THEN [m EXCEPT !.end = Most(@, m.y + 1)] ELSE t)

(* A tab enters Indent spaces one by one.                                    *)
handle_tab(s) ==
  LET f[n \in 0 .. Indent] == IF n = 0 THEN s ELSE handle_char_input(f[n - 1]) IN f[Indent]

(* The rows there is memory for are doubled until there are enough.          *)
Doubled(rows, need) ==
  CHOOSE n \in rows .. rows + 2 * need :
    n >= need /\ (n = rows \/ n < 2 * need) /\ \E k \in 0 .. need : n = rows * 2 ^ k

make_new_line_space(s) ==
  LET l    == s.y
      used == Most(s.end, l + 1)
      rows == Doubled(s.rows, used + 1)
      col  == Clamp(s.x, 0, s.len[l])
      Old(r) == IF r < s.rows THEN s.len[r] ELSE 0
  IN  [s EXCEPT
        !.rows = rows,
        !.len = [r \in 0 .. rows - 1 |->
                   IF r = l THEN col
                   ELSE IF r = l + 1 THEN s.len[l] - col
                   ELSE IF r \in l + 2 .. used THEN Old(r - 1) ELSE Old(r)],
        !.end = used + 1,
        !.counter = IF @ < D THEN @ + 1 ELSE @]

(* The cursor goes on in the new row; below the last row of the view, the    *)
(* view goes with it.                                                        *)
handle_newline(s) ==
  LET m == make_new_line_space(s)
      d == IF s.y - s.start + 1 < s.h
           THEN editor_move_cursor_line(m, 1) ELSE editor_screen_move_line(m, 1)
  IN  IF s.y >= editor_line_limit(s) THEN s
      ELSE Redrawn([d EXCEPT !.x = 0, !.end = Most(@, d.y + 1)])

(* The row of the cursor is appended to the one above.                       *)
remove_line_join_str_data(s) ==
  [s EXCEPT
    !.len = [r \in DOMAIN @ |->
               IF r < s.y - 1 THEN @[r]
               ELSE IF r = s.y - 1 THEN @[r] + @[s.y]
               ELSE IF r = s.rows - 1 THEN 0 ELSE @[r + 1]],
    !.end = Most(@ - 1, 0),
    !.counter = Most(@ - 1, 0)]

Joined(s) ==
  LET j == remove_line_join_str_data(s)
      m == IF s.y > s.start THEN editor_move_cursor_line(j, -1) ELSE editor_screen_move_line(j, -1)
  IN  Redrawn([m EXCEPT !.x = editor_clamp_col(m, m.y, editor_line_len(s, s.y - 1))])

handle_backspace(s, joins) ==
  LET b == Sync(s)
  IN  IF s.y >= editor_line_limit(s) THEN s
      ELSE IF b.x > 0 THEN Redrawn([b EXCEPT !.len[b.y] = @ - 1, !.x = @ - 1])
      ELSE IF b.y > 0 /\ joins THEN Joined(b) ELSE b

(* Rows without text may have no memory: then they are not joined.           *)
MayFail(s) == s.y > 0 /\ s.y < editor_line_limit(s) /\ (s.len[s.y] = 0 \/ s.len[s.y - 1] = 0)

-------------------------------------------------------------------------------
(* Arrow keys.                                                               *)

Arrow == {"up", "down", "left", "right"}

handle_input_allow(s, k) ==
  LET b     == Sync(s)
      upper == s.y > s.start /\ s.y > 0
      lower == s.y - s.start + 1 < s.h
      Moved(d) == editor_move_cursor_line(b, d)
      EndOf(m) == [m EXCEPT !.x = editor_clamp_col(m, m.y, editor_line_len(m, m.y))]
  IN  CASE k = "up" ->
             IF upper THEN Moved(-1)
             ELSE IF s.start > 0 THEN editor_screen_move_line(b, -1) ELSE b
        [] k = "down" ->
             IF s.y + 1 >= D THEN b
             ELSE IF lower THEN Moved(1) ELSE editor_screen_move_line(b, 1)
        [] k = "left" ->
             IF b.x > 0 THEN [b EXCEPT !.x = @ - 1]
             ELSE IF upper THEN EndOf(Moved(-1)) ELSE b
        [] k = "right" ->
             IF s.y >= D THEN b
             ELSE IF b.x < editor_clamp_col(b, b.y, editor_line_len(b, b.y))
             THEN [b EXCEPT !.x = @ + 1]
             ELSE IF lower /\ s.y + 1 < D THEN [Moved(1) EXCEPT !.x = 0] ELSE b

-------------------------------------------------------------------------------
(* Files, and the size of the terminal.                                      *)

load_screen_size(s, f) ==
  LET rows == Least(Len(f) + 1, D)
  IN  [s EXCEPT !.open = TRUE, !.counter = rows, !.rows = rows,
                !.end = IF Len(f) < D THEN Len(f) ELSE @,
                !.len = [r \in 0 .. rows - 1 |-> IF r < Len(f) THEN f[r + 1] ELSE 0],
                !.start = 0, !.y = 0, !.x = 0]

Loaded(s, f) == set_syntax_data(Redrawn(editor_set_cursor(load_screen_size(s, f), 0, 0)))

(* Each screen is put into its new size: the edit screen moves the view when *)
(* the cursor would be outside, the tree screen shows its tree again.        *)
update_screen_ratio(s) ==
  IF s.screen = "tree" THEN show_filetree(s, s.tree.w, s.tree.h)
  ELSE IF s.screen = "edit" /\ ~ editor_cursor_is_visible(s) THEN move_view_to_line(s, s.y, s.x)
  ELSE Redrawn(Sync(s))

(* The right and lower margin of the write area are kept.                    *)
\* Mutant: the left edge is settled before the right one.
handle_resize_Early(s, z) ==
  LET a == [editor_apply_write_area([s EXCEPT !.size = z])
              EXCEPT !.x1 = z[1] - (s.size[1] - s.x1), !.y1 = z[2] - (s.size[2] - s.y1)]
  IN  update_screen_ratio(Sync([a EXCEPT !.h = a.y1 - a.y0]))
handle_resize(s, z) ==
  LET a == editor_apply_write_area(
             [s EXCEPT !.size = z,
                       !.x1 = z[1] - (s.size[1] - s.x1), !.y1 = z[2] - (s.size[2] - s.y1)])
  IN  update_screen_ratio(Sync([a EXCEPT !.h = a.y1 - a.y0]))

-------------------------------------------------------------------------------
(* The mouse.                                                                *)

(* A row and a column of the view; the text position is row first.           *)
editor_mouse_to_buffer_pos(s, p) == <<p[1] - s.x0, p[2] - s.y0>>
\* Mutant: column first.
editor_pos_to_buffer_pos_Turned(s, p) == <<p[1], s.start + p[2]>>
editor_pos_to_buffer_pos(s, p) == <<s.start + p[2], p[1]>>

(* A press in the tree may open the file under it (f), a press in the text   *)
(* ends the tree screen.  The column is held to the length of row 0.         *)
InTree(s, p) == box_contains_point(0, 0, s.tree.w - 1, s.tree.h, p)
TreePress(s, p, f) ==
  LET at == editor_pos_to_buffer_pos(s, editor_mouse_to_buffer_pos(s, p))
      col == IF s.len[0] <= at[2] THEN s.len[0] ELSE at[2]
  IN  IF InTree(s, p) THEN (IF f = <<>> THEN s ELSE Loaded(s, f[1]))
      ELSE IF OverText(s, p)
      THEN [editor_set_cursor(s, at[1], col) EXCEPT !.screen = "edit", !.shown = TRUE]
      ELSE s

TreeWheel(s, over) == IF over THEN [s EXCEPT !.screen = "edit", !.shown = TRUE] ELSE s

(* Below the last line, a press goes to the row numbered like the length of  *)
(* row 0.                                                                    *)
PressedLine(s, p) ==
  LET l == s.start + p[2] - s.y0 IN IF s.end < l THEN s.len[0] ELSE l

EditPress(s, p, f) ==
  IF OverTree(s, p) THEN TreePress([s EXCEPT !.screen = "tree"], p, f)
  ELSE LET m == IF OverText(s, p) THEN editor_set_cursor(s, PressedLine(s, p), p[1] - s.x0) ELSE s
       IN  [m EXCEPT !.shown = editor_cursor_is_visible(m)]

(* A wheel step moves the view and leaves the cursor in its line; beside the *)
(* text (over is FALSE) it changes to the tree screen.                       *)
Scrolls(s, num) == IF num > 0 THEN s.start + s.h < editor_line_limit(s) ELSE s.start > 0

EditWheel(s, over, num) ==
  LET m == IF s.tree.show /\ ~ over THEN [s EXCEPT !.screen = "tree"]
           ELSE Redrawn(Recoloured([s EXCEPT !.start = @ + num], num))
  IN  [m EXCEPT !.shown = editor_cursor_is_visible(m)]

-------------------------------------------------------------------------------
Empty(z, b) ==
  LET y0 == IF b = "top" THEN 2 ELSE 0
      y1 == IF b = "bottom" THEN z[2] - 1 ELSE z[2]
  IN  editor_apply_write_area(
        [y |-> 0, x |-> 0, shown |-> TRUE, start |-> 0,
         x0 |-> 0, x1 |-> z[1] - 1, y0 |-> y0, y1 |-> y1, w |-> 0, h |-> y1 - y0,
         size |-> z, tree |-> [show |-> FALSE, w |-> 0, h |-> 0], screen |-> "edit",
         len |-> [r \in 0 .. D - 1 |-> 0], rows |-> D, counter |-> 0, open |-> FALSE, end |-> 0,
         syn |-> [i \in {} |-> <<>>], redraw |-> FALSE])

Init ==
  /\ \E z \in OnScreen : \E b \in Bars : ed = Empty(z, b)
  /\ drawn = draw_file_data(ed)
  /\ edits = MaxEdits

(* The round ends: the column is clamped, and what was asked for is drawn.   *)
Round(s) ==
  /\ ed' = [Sync(s) EXCEPT !.redraw = FALSE]
  /\ drawn' = IF s.redraw THEN draw_file_data(Sync(s)) ELSE drawn

InEdit == ed.screen = "edit"
Enters == edits > 0 /\ edits' = edits - 1

(* A glyph goes to the cursor; a cursor that is not shown is first brought   *)
(* back into view.                                                           *)
\* Mutant: it is only shown again.
Uncovered_There(s) == [s EXCEPT !.shown = TRUE]
Uncovered(s) == [move_view_to_line(s, s.y, s.x) EXCEPT !.shown = TRUE]

Typed(s) ==
  IF s.shown THEN set_syntax_data(handle_char_input(s))
  ELSE IF editor_line_limit(s) = 0 THEN s
  ELSE set_syntax_data(handle_char_input(Uncovered(s)))

Type  == InEdit /\ Enters /\ Round(Typed(ed))
Tab   == InEdit /\ ed.shown /\ Enters /\ Round(set_syntax_data(handle_tab(ed)))
Enter == InEdit /\ ed.shown /\ Enters /\ Round(set_syntax_data(handle_newline(ed)))
Backspace ==
  /\ InEdit /\ ed.shown /\ Enters
  /\ \E joins \in BOOLEAN :
       /\ joins \/ MayFail(ed)
       /\ Round(set_syntax_data(handle_backspace(ed, joins)))

(* An arrow key with no cursor shown brings the line above it into view.     *)
Arrowed(s, k) ==
  set_syntax_data(IF s.shown THEN handle_input_allow(s, k)
                  ELSE [move_view_to_line(s, s.y - 1, 0) EXCEPT !.shown = TRUE])
ArrowKey(k) == InEdit /\ Round(Arrowed(ed, k)) /\ UNCHANGED edits

(* A settings program moves the cursor, before the key it waited for is      *)
(* typed.                                                                    *)
set_text_cursor_row(s, r) == move_view_to_line(s, r, 0)
set_text_cursor_col(s, c) ==
  IF editor_line_len(s, s.y) = 0 THEN s ELSE [s EXCEPT !.x = Least(c, editor_line_len(s, s.y))]
UserEvent(r, c) ==
  InEdit /\ Enters /\ Round(Typed(set_text_cursor_col(set_text_cursor_row(ed, r), c)))

(* Leaving the edit screen.                                                  *)
ToTree ==
  LET t == show_filetree([ed EXCEPT !.screen = "tree"], ed.size[1] \div TreePart, ed.size[2])
  IN  InEdit /\ Round(IF t.shown THEN set_syntax_data(t) ELSE t) /\ UNCHANGED edits

(* The line jump and the file browser lie over the text ("over"), and both   *)
(* end by showing the cursor: whether it is shown meanwhile does not matter. *)
ToJump ==
  /\ ed.screen \in {"edit", "tree"} /\ UNCHANGED edits
  /\ Round([ed EXCEPT !.screen = "over", !.shown = FALSE])

(* The tree screen hides the cursor with the first key it gets.              *)
HideTree ==
  /\ ed.screen = "tree" /\ UNCHANGED edits
  /\ Round(restore_edit_screen(editor_apply_write_area(
       [ed EXCEPT !.tree = [show |-> FALSE, w |-> 0, h |-> 0]])))
change_file_tree_width(d) ==
  /\ ed.screen = "tree" /\ ed.tree.w + d <= MaxTree /\ UNCHANGED edits
  /\ LET s == [ed EXCEPT !.shown = FALSE]
     IN  Round(IF s.tree.w <= 0 \/ s.size[1] <= s.tree.w THEN s
               ELSE show_filetree(s, s.tree.w + d, s.tree.h))

(* The line jump confirmed; the jump or the browser left by the key that     *)
(* began it; a file opened.                                                  *)
Jump(n) ==
  /\ ed.screen = "over" /\ UNCHANGED edits
  /\ Round(set_syntax_data([move_view_to_line(ed, n - 1, 0) EXCEPT !.shown = TRUE, !.screen = "edit"]))
Back == ed.screen = "over" /\ Round(restore_edit_screen(ed)) /\ UNCHANGED edits
Open(f) ==
  ed.screen = "over" /\ Round(set_syntax_data(restore_edit_screen(Loaded(ed, f)))) /\ UNCHANGED edits

Press(p) ==
  /\ UNCHANGED edits
  /\ \E f \in {<<>>} \cup (IF InTree(ed, p) THEN {<<g>> : g \in Files} ELSE {}) :
       /\ \/ InEdit /\ Round(EditPress(ed, p, f))
          \/ ed.screen = "tree" /\ Round(TreePress([ed EXCEPT !.shown = FALSE], p, f))
Wheel(over, num) ==
  /\ UNCHANGED edits
  /\ \/ InEdit /\ Scrolls(ed, num) /\ Round(EditWheel(ed, over, num))
     \/ ed.screen = "tree" /\ Round(TreeWheel([ed EXCEPT !.shown = FALSE], over))

(* The terminal gets another size, perhaps after having been too small.      *)
Resize(z) == Round(set_syntax_data(handle_resize(ed, z))) /\ UNCHANGED edits

Points == (0 .. ed.size[1] - 1) \X (0 .. ed.size[2] - 1)

Next ==
  \/ Type \/ Tab \/ Enter \/ Backspace
  \/ \E k \in Arrow : ArrowKey(k)
  \/ \E r \in 0 .. D : UserEvent(r, 1)
  \/ ToTree \/ ToJump \/ HideTree
  \/ \E d \in {-1, 1} : change_file_tree_width(d)
  \/ \E n \in 1 .. D : Jump(n)
  \/ Back
  \/ \E f \in Files : Open(f)
  \/ \E p \in Points : Press(p)
  \/ \E over \in {OverText(ed, p) : p \in Points}, num \in {-1, 1} : Wheel(over, num)
  \/ \E z \in OnScreen : Resize(z)

Spec == Init /\ [][Next]_vars

-------------------------------------------------------------------------------
(* Properties.                                                               *)

\* The rows have their lengths, the cursor is in the columns of its row and of
\* the view, and only rows of the view have colours (txt_editor.h:442-450 and
\* 522-529, txt_editor_syntax.c:559-574).
TypeOK ==
  /\ ed.rows \in Nat \ {0} /\ ed.len \in [0 .. ed.rows - 1 -> Nat]
  /\ ed.y \in Nat /\ ed.x \in 0 .. Least(editor_line_len(ed, ed.y), ed.w) /\ ed.start \in Nat
  /\ ed.counter \in 0 .. D /\ ed.end \in Nat /\ {ed.open, ed.shown, ed.redraw} \subseteq BOOLEAN
  /\ ed.screen \in {"edit", "tree", "over"} /\ ed.size \in OnScreen
  /\ ed.tree.show \in BOOLEAN /\ ed.tree.w \in Nat /\ ed.tree.h \in Nat
  /\ DOMAIN ed.syn \subseteq 0 .. ed.h - 1
  /\ DOMAIN drawn = 0 .. ed.h - 1 \/ ed.screen = "over"
  /\ edits \in 0 .. MaxEdits

\* Wheel, arrow keys, Enter and Backspace shift the colours of the rows by hand
\* and scan one row anew: afterwards every row of the view still has the
\* colours of the line it shows, as long as that line is now, and a row without
\* colours shows no text (txt_editor_draw.c:420-425, editor_mouse.c:102-130,
\* txt_editor_syntax.c:277-313 and 559-574).
SyntaxOfShownLines ==
  \A i \in 0 .. ed.h - 1 :
    IF i \in DOMAIN ed.syn
    THEN ed.start + i < editor_line_limit(ed) => ed.syn[i] = Scanned(ed, i)
    ELSE editor_line_len(ed, ed.start + i) = 0

\* Drawing is asked for by flags that every handler has to set for itself:
\* before the next key is read, the text screens show the lines of the view as
\* they are now (txt_editor_draw.c:427-428 and 620-738, editor_mouse.c:54-63).
ShownLinesDrawn == ed.screen # "over" => drawn = draw_file_data(ed)

\* Whatever was shown, hidden, widened and resized in whatever order, the write
\* area ends one column before the screen and at the status bar, begins behind
\* line numbers and tree, and its width and height fit
\* (txt_editor.h:409-429, txt_editor_func.c:84-123).
LayoutKept ==
  /\ ed.x1 = ed.size[1] - 1
  /\ \E b \in Bars : /\ ed.y0 = (IF b = "top" THEN 2 ELSE 0)
                     /\ ed.y1 = (IF b = "bottom" THEN ed.size[2] - 1 ELSE ed.size[2])
  /\ ed.h = ed.y1 - ed.y0
  /\ ed.x0 = NumberSpace + 1 + (IF ed.tree.show THEN ed.tree.w + 1 ELSE 0)
  /\ ed.w = Most(ed.x1 - ed.x0, 0)

(* The cursor is in view, or a handler knows that it is not.                 *)
Placed == ed.shown => editor_cursor_is_visible(ed)

\* Arrow keys, Enter, Backspace and a resize of the edit screen leave the cursor
\* in view when it was there or was hidden: scrolling by one row at the edges
\* never loses it, up to the last of the D lines the view is moved to.  And a
\* glyph changes a row that is in view: typed while the cursor is hidden, because
\* the view was scrolled away from it, it brings its line back
\* (txt_editor_func.c:196-205, 229-236 and 386-437, txt_editor_state.c:214-230,
\* txt_editor_edit_screen.c:129-144).
KeysKeepView ==
  InEdit /\ Placed /\ ed.y < D =>
    /\ \A k \in Arrow : editor_cursor_is_visible(Arrowed(ed, k))
    /\ \A z \in OnScreen : editor_cursor_is_visible(handle_resize(ed, z))
    /\ ed.shown => /\ editor_cursor_is_visible(handle_newline(ed))
                   /\ editor_cursor_is_visible(handle_backspace(ed, TRUE))
    /\ LET t == Typed(ed)
       IN  \A r \in DOMAIN ed.len : t.len[r] # ed.len[r] => r - t.start \in 0 .. t.h - 1

\* A press on a row of the text puts the cursor into the line this row shows,
\* and from the edit screen into the column, or the end of the line
\* (editor_mouse.c:139-162, 248-266 and 325-329).
ClickHits ==
  \A p \in Points :
    LET l == ed.start + p[2] - ed.y0
        t == IF InEdit THEN EditPress(ed, p, <<>>) ELSE TreePress(ed, p, <<>>)
    IN  /\ ed.screen # "over" /\ ~ OverTree(ed, p) /\ OverText(ed, p)
        /\ l <= ed.end /\ l < editor_line_limit(ed)
        => /\ t.screen = "edit" /\ t.y = l
           /\ InEdit => t.x = editor_clamp_col(ed, l, p[1] - ed.x0)
=============================================================================
