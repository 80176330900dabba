------------------------------ MODULE TermModes ------------------------------
(***************************************************************************)
(* What outlives a single character on the screen of the terminal: colours,*)
(* the saved cursor, the alternate screen, the selection of the mouse, the *)
(* clipboard, and all of them when the window gets another size.           *)
(*                                                                         *)
(* Cells are numbered through the rows, as the program numbers them.  A    *)
(* pair of colours is "plain" (white on black), the selection's pair       *)
(* "marked" (black on white, which a program may use as well) or another;  *)
(* bold is left out.  The full set of control functions is in TermScreen;  *)
(* here are those that move the cursor out of the screen, and enough of the *)
(* others to write on all of it.  When a resize happens is in TermLoop.    *)
(***************************************************************************)
EXTENDS Naturals, Sequences, SequencesExt

CONSTANTS
  Size,        (* sizes of the screen: [w, h]                                *)
  InitSize,
  Glyph, Blank,
  Colours,     (* pairs a program chooses                                    *)
  Param,       (* rows a program gives as margins, from 1 on; 0 for none      *)
  Clip,        (* texts a program puts on the clipboard: sequences of bytes  *)
  MaxWrites,   (* bound: characters and control functions                    *)
  MaxResizes   (* bound: changes of the size                                 *)

ASSUME ModesAssumption ==
  /\ Size \subseteq [w : Nat \ {0}, h : Nat \ {0}] /\ InitSize \in Size
  /\ Blank \notin Glyph
  /\ Colours \subseteq {"plain", "marked", "other"}
  /\ Param \subseteq Nat
  /\ Clip \subseteq Seq(1 .. 255)
  /\ MaxWrites \in Nat /\ MaxResizes \in Nat

VARIABLES
  (* struct term_context *)
  term_size, term_cell,
  alt_term_cell,   (* the screen that is put aside, or <<>>                  *)
  cur, save_cur,   (* [h, w, mode]: mode is what the arrow keys send         *)
  margin,          (* [set, top, bottom]: fixrd_cur_scr_range                *)
  pen,             (* [ink, reverse]: now_fg_color, now_bg_color, ...        *)
  clipboard,
  (* copy_data *)
  copy,            (* the cells the selection has marked: [index -> colours] *)
  start_copy, start_idx, start_idx_block,
  (* history *)
  before,          (* the screen that was put aside, as it was, its size and *)
                   (* the least size since                                   *)
  overwritten,     (* a program wrote on the screen while cells were marked  *)
  astray,          (* ESC E or CSI r led below the screen since the last size *)
  writes, resizes

selection == <<copy, start_copy, start_idx, start_idx_block>>
bounds    == <<writes, resizes>>
vars      == <<term_size, term_cell, alt_term_cell, cur, save_cur, margin, pen, clipboard,
               selection, before, overwritten, astray, bounds>>

-----------------------------------------------------------------------------
(* The screen                                                              *)

Index(s) == 0 .. s.w * s.h - 1
Inks     == {"plain", "marked", "other"}

\* A cell remembers the colours it was given, beside those it shows.
Cell(g, ink) == [chr |-> g, ink |-> ink, given |-> ink]

Blanks(s, ink) == [i \in Index(s) |-> Cell(Blank, ink)]

\* Reverse video swaps the two colours of a pair.
Shown(p) ==
  IF ~p.reverse THEN p.ink
  ELSE CASE p.ink = "plain" -> "marked" [] p.ink = "marked" -> "plain"
         [] OTHER -> "other"

\* The rows move up; the last one is blank and gets new colours, or keeps them.
Up(c, plain) ==
  [i \in Index(term_size) |->
     IF i + term_size.w \in Index(term_size) THEN c[i + term_size.w]
     ELSE IF plain THEN Cell(Blank, "plain") ELSE [c[i] EXCEPT !.chr = Blank]]

Top    == IF margin.set THEN margin.top ELSE 0
Bottom == IF margin.set THEN margin.bottom ELSE term_size.h - 1

\* The rows of the region move up; its last one is blank, in the colours of the
\* pen.  A region of one row, or one that ends below the screen, does not scroll.
scroll_region_up(c) ==
  IF Top >= Bottom \/ Bottom >= term_size.h THEN c
  ELSE [i \in Index(term_size) |->
          LET r == i \div term_size.w
          IN  IF r \in Top .. Bottom - 1 /\ i + term_size.w \in Index(term_size)
                THEN c[i + term_size.w]
              ELSE IF r = Bottom THEN Cell(Blank, pen.ink) ELSE c[i]]

\* Mutant: rows of the old screen are looked up with the new width.
Reshaped_Stride(c, old, new, fill) ==
  [i \in Index(new) |->
     LET r == i \div new.w  x == i % new.w
     IN  IF r < old.h /\ x < old.w /\ r * new.w + x \in DOMAIN c
           THEN c[r * new.w + x] ELSE fill]

\* What is in the same row and column of both sizes stays.
Reshaped(c, old, new, fill) ==
  [i \in Index(new) |->
     LET r == i \div new.w  x == i % new.w
     IN  IF r < old.h /\ x < old.w THEN c[r * old.w + x] ELSE fill]

-----------------------------------------------------------------------------
(* The clipboard                                                           *)

Bits(n, width) == [i \in 1 .. width |-> (n \div (2 ^ (width - i))) % 2]
Number(bits)   == FoldLeft(LAMBDA v, b : (2 * v) + b, 0, bits)

\* The n-th group of `width' bits; bits that are missing are 0.
Group(bits, width, n) ==
  Number([i \in 1 .. width |->
            LET k == ((n - 1) * width) + i IN IF k <= Len(bits) THEN bits[k] ELSE 0])
Groups(bits, width) ==
  [n \in 1 .. (Len(bits) + width - 1) \div width |-> Group(bits, width, n)]

\* Base64 of a program: groups of six bits, filled with "=" to a multiple of 4.
Base64(t) ==
  LET six == Groups(FlattenSeq([i \in DOMAIN t |-> Bits(t[i], 8)]), 6)
  IN  [digits |-> six, fill |-> (4 - (Len(six) % 4)) % 4]

\* Mutant: the bits of a digit come out in the order they are computed.
conbert_chr_to_binary_table_Reversed(d) == Reverse(Bits(d, 6))

conbert_chr_to_binary_table(d) == Bits(d, 6)

\* A C string ends at the first zero.
CString(s) ==
  IF \E i \in DOMAIN s : s[i] = 0
    THEN SubSeq(s, 1, (CHOOSE i \in DOMAIN s :
                         s[i] = 0 /\ \A j \in 1 .. i - 1 : s[j] # 0) - 1)
    ELSE s

\* The table has no terminating zero: looking "=" up runs on behind it, and
\* finds nothing or some place; `strays' are the digits that come of it.
base64_decoder(code, strays) ==
  CString(Groups(FlattenSeq([i \in DOMAIN (code.digits \o strays) |->
                   conbert_chr_to_binary_table((code.digits \o strays)[i])]), 8))
Strays(n) == UNION {[1 .. k -> {63}] : k \in {0, n}}

\* What the clipboard may hold when a program sends t.
Decoded == [t \in Clip |-> {base64_decoder(Base64(t), s) : s \in Strays(Base64(t).fill)}]

-----------------------------------------------------------------------------
\* save_cur is zeroed memory, and mode 0 is AP_MODE.
Init ==
  /\ term_size = InitSize /\ term_cell = Blanks(InitSize, "plain") /\ alt_term_cell = <<>>
  /\ cur = [h |-> 0, w |-> 0, mode |-> "NORMAL_MODE"]
  /\ save_cur = [h |-> 0, w |-> 0, mode |-> "AP_MODE"]
  /\ margin = [set |-> FALSE, top |-> 0, bottom |-> 0]
  /\ pen = [ink |-> "plain", reverse |-> FALSE]
  /\ clipboard = <<>>
  /\ copy = <<>> /\ start_copy = FALSE /\ start_idx = 0 /\ start_idx_block = FALSE
  /\ before = <<>> /\ overwritten = FALSE /\ astray = FALSE
  /\ writes = 0 /\ resizes = 0

\* A character or control function; `cells' says whether it writes on the screen.
Output(cells) ==
  /\ writes < MaxWrites /\ writes' = writes + 1
  /\ overwritten' = (overwritten \/ (cells /\ copy # <<>>))
  /\ UNCHANGED <<term_size, selection, resizes>>

\* Most of them leave the margins, and the cursor on the screen.
OutputOnScreen(cells) == Output(cells) /\ UNCHANGED <<margin, astray>>

-----------------------------------------------------------------------------
(* The program                                                             *)

\* What a character leaves: the cells, and the row and the column of the cursor.
At(c, h, w) == [cells |-> c, h |-> h, w |-> w]

\* The wrap that the last character of the row put off.
Wrap(s) ==
  LET h == s.h + 1
  IN  IF margin.set /\ h > Bottom THEN At(scroll_region_up(s.cells), Bottom, 0)
      ELSE IF h >= term_size.h     THEN At(Up(s.cells, FALSE), term_size.h - 1, 0)
      ELSE At(s.cells, h, 0)

\* Below the screen nothing is written and the cursor stays.
Put(s, g) ==
  IF s.h >= term_size.h THEN s
  ELSE At([s.cells EXCEPT ![s.h * term_size.w + s.w] = Cell(g, Shown(pen))], s.h, s.w + 1)

\* The check after every character.
Settle(s) ==
  IF s.h < term_size.h THEN s
  ELSE At(IF margin.set THEN s.cells ELSE Up(s.cells, TRUE), term_size.h - 1, s.w)

Here == At(term_cell, cur.h, cur.w)

Writes(s) ==
  /\ OutputOnScreen(s.cells # term_cell)
  /\ term_cell' = s.cells
  /\ cur' = [cur EXCEPT !.h = s.h, !.w = s.w]
  /\ UNCHANGED <<alt_term_cell, save_cur, pen, clipboard, before>>

Typed(g) == Writes(Settle(Put(IF cur.w >= term_size.w THEN Wrap(Here) ELSE Here, g)))

LineFeed ==
  Writes(Settle(IF margin.set /\ cur.h = Bottom
                  THEN At(scroll_region_up(term_cell), cur.h, cur.w)
                  ELSE At(term_cell, cur.h + 1, cur.w)))

\* CSI m, and OSC 10 and 11.
SGR(ink, reverse) ==
  /\ OutputOnScreen(FALSE)
  /\ pen' = [ink |-> ink, reverse |-> reverse]
  /\ UNCHANGED <<term_cell, alt_term_cell, cur, save_cur, clipboard, before>>

\* CSI H to a place on the screen.
CUP(i) ==
  /\ OutputOnScreen(FALSE)
  /\ cur' = [cur EXCEPT !.h = i \div term_size.w, !.w = i % term_size.w]
  /\ UNCHANGED <<term_cell, alt_term_cell, save_cur, pen, clipboard, before>>

\* The cursor goes to the first column of row h, wherever that is.
Led(h) ==
  /\ Output(FALSE)
  /\ cur' = [cur EXCEPT !.h = h, !.w = 0]
  /\ astray' = (astray \/ h >= term_size.h)
  /\ UNCHANGED <<term_cell, alt_term_cell, save_cur, pen, clipboard, before>>

\* ESC E.
NEL == Led(cur.h + 1) /\ UNCHANGED margin

\* CSI r takes the margins as they come.
DECSTBM(p, q) ==
  /\ margin' = [set |-> TRUE, top |-> IF p > 0 THEN p - 1 ELSE 0,
                bottom |-> IF q > 0 THEN q - 1 ELSE term_size.h - 1]
  /\ Led(margin'.top)

\* ESC c.
RIS ==
  /\ OutputOnScreen(TRUE)
  /\ term_cell' = Blanks(term_size, "plain")
  /\ cur' = [cur EXCEPT !.h = 0, !.w = 0]
  /\ UNCHANGED <<alt_term_cell, save_cur, pen, clipboard, before>>

\* ESC 7 and CSI s, ESC 8 and CSI u: the whole struct, with what it says of keys.
SaveCursor ==
  /\ OutputOnScreen(FALSE)
  /\ save_cur' = cur
  /\ UNCHANGED <<term_cell, alt_term_cell, cur, pen, clipboard, before>>

RestoreCursor ==
  /\ OutputOnScreen(FALSE)
  /\ cur' = save_cur
  /\ UNCHANGED <<term_cell, alt_term_cell, save_cur, pen, clipboard, before>>

\* CSI ? 1 h and l.
CursorKeys(mode) ==
  /\ OutputOnScreen(FALSE)
  /\ cur' = [cur EXCEPT !.mode = mode]
  /\ UNCHANGED <<term_cell, alt_term_cell, save_cur, pen, clipboard, before>>

\* CSI ? 1049 h puts the screen aside, whichever it is; l brings it back.
EnterAlternate ==
  /\ OutputOnScreen(TRUE)
  /\ save_cur' = cur
  /\ alt_term_cell' = term_cell
  /\ term_cell' = Blanks(term_size, "plain")
  /\ before' = [cells |-> term_cell, size |-> term_size, least |-> term_size]
  /\ UNCHANGED <<cur, pen, clipboard>>

LeaveAlternate ==
  /\ OutputOnScreen(alt_term_cell # <<>>)
  /\ term_cell' = IF alt_term_cell # <<>> THEN alt_term_cell ELSE term_cell
  /\ alt_term_cell' = <<>>
  /\ cur' = save_cur
  /\ before' = <<>>
  /\ UNCHANGED <<save_cur, pen, clipboard>>

\* OSC 52.
SetClipboard(t) ==
  /\ OutputOnScreen(FALSE)
  /\ clipboard' \in Decoded[t]
  /\ UNCHANGED <<term_cell, alt_term_cell, cur, save_cur, pen, before>>

-----------------------------------------------------------------------------
(* The mouse                                                               *)

\* restore_copy_cells, up to the forgetting: the list is replaced by each caller.
Restored(c) ==
  [i \in DOMAIN c |-> IF i \in DOMAIN copy THEN [c[i] EXCEPT !.ink = copy[i]] ELSE c[i]]

\* Mutant: what was marked before stays marked.
Unmarked_Kept == term_cell

\* The screen on which a new range is marked.
Unmarked == Restored(term_cell)

Range1(i, j) == IF i <= j THEN i .. j ELSE j .. i

\* update_copy_selection: the pointer, with the button held, is over cell i.
Mark(c, from, i) ==
  LET range == {k \in Range1(from, i) : c[k].ink # "marked"}
  IN  /\ copy' = [k \in range |-> c[k].ink]
      /\ term_cell' = [k \in DOMAIN c |-> IF k \in range THEN [c[k] EXCEPT !.ink = "marked"]
                                          ELSE c[k]]
      /\ start_idx' = from /\ start_idx_block' = TRUE

MouseRest == UNCHANGED <<term_size, alt_term_cell, cur, save_cur, margin, pen, clipboard,
                         before, overwritten, astray, bounds>>

\* The first click begins a selection; the button may be up again already, or
\* the pointer be outside the cells.
BeginSelection ==
  /\ ~start_copy
  /\ start_copy' = TRUE
  /\ \/ \E i \in Index(term_size) : Mark(Unmarked, i, i)
     \/ start_idx' = 0 /\ start_idx_block' = FALSE /\ UNCHANGED <<copy, term_cell>>
  /\ MouseRest

Drag ==
  /\ start_copy
  /\ \E i \in Index(term_size) : Mark(Unmarked, IF start_idx_block THEN start_idx ELSE i, i)
  /\ UNCHANGED start_copy
  /\ MouseRest

\* The second click ends it.
EndSelection ==
  /\ start_copy
  /\ start_copy' = FALSE /\ start_idx_block' = FALSE
  /\ term_cell' = Restored(term_cell)
  /\ copy' = <<>>
  /\ UNCHANGED start_idx
  /\ MouseRest

-----------------------------------------------------------------------------
(* Another size                                                            *)

Less(m, n)  == IF m < n THEN m ELSE n
Within(c, s) == [c EXCEPT !.h = Less(c.h, s.h - 1), !.w = Less(c.w, s.w - 1)]

\* Mutant: the cursor that was saved is forgotten.
SavedWithin_Forgotten(c, s) == c

SavedWithin(c, s) == Within(c, s)

\* What is marked after another size was set.
CopyAfter == <<>>

AltReshaped(s) ==
  IF alt_term_cell = <<>> THEN <<>>
  ELSE Reshaped(alt_term_cell, term_size, s, Cell(Blank, pen.ink))

resize_terminal(s) ==
  /\ resizes < MaxResizes /\ s # term_size
  /\ resizes' = resizes + 1
  /\ term_cell' = Reshaped(Restored(term_cell), term_size, s, Cell(Blank, pen.ink))
  /\ alt_term_cell' = AltReshaped(s)
  /\ term_size' = s
  /\ cur' = Within(cur, s)
  /\ save_cur' = SavedWithin(save_cur, s)
  /\ margin' = [margin EXCEPT !.set = FALSE]
  /\ astray' = FALSE
  /\ copy' = CopyAfter
  /\ start_copy' = FALSE /\ start_idx' = 0 /\ start_idx_block' = FALSE
  /\ before' = IF before = <<>> THEN <<>>
               ELSE [before EXCEPT !.least = [w |-> Less(before.least.w, s.w),
                                              h |-> Less(before.least.h, s.h)]]
  /\ UNCHANGED <<pen, clipboard, overwritten, writes>>

Next ==
  \/ \E g \in Glyph : Typed(g)
  \/ LineFeed
  \/ \E ink \in Colours, reverse \in BOOLEAN : SGR(ink, reverse)
  \/ \E i \in Index(term_size) : CUP(i)
  \/ NEL
  \/ \E p, q \in Param : DECSTBM(p, q)
  \/ RIS \/ SaveCursor \/ RestoreCursor
  \/ \E mode \in {"AP_MODE", "NORMAL_MODE"} : CursorKeys(mode)
  \/ EnterAlternate \/ LeaveAlternate
  \/ \E t \in Clip : SetClipboard(t)
  \/ BeginSelection \/ Drag \/ EndSelection
  \/ \E s \in Size : resize_terminal(s)

Spec == Init /\ [][Next]_vars

-----------------------------------------------------------------------------
(* Properties                                                              *)

Cells == [Index(term_size) -> [chr : Glyph \cup {Blank}, ink : Inks, given : Inks]]

TypeOK ==
  /\ term_size \in Size
  /\ term_cell \in Cells
  /\ alt_term_cell = <<>> \/ alt_term_cell \in Cells
  /\ {cur.mode, save_cur.mode} \subseteq {"AP_MODE", "NORMAL_MODE"}
  /\ margin \in [set : BOOLEAN, top : Nat, bottom : Nat]
  /\ start_copy \in BOOLEAN /\ start_idx_block \in BOOLEAN
  /\ start_idx \in Nat
  /\ clipboard \in Seq(1 .. 255)

\* What points at places of the screen fits it whatever size it had when they
\* were set.  Cursor and saved cursor are in a column, or one behind the last; only
\* ESC E and CSI r lead them below the last row, and a change of size brings both
\* back, the saved one too (escape_sequence_parser.c:64-83 and 497-509,
\* pty_make_v1.c:104-107).  The selection begins on the screen there is and marks
\* cells of it, so that giving colours back writes to no memory that was freed
\* (mouse_io.c:9-13, pty_make_v1.c:85-103).
PlacesFit ==
  /\ \A c \in {cur, save_cur} : c.w <= term_size.w /\ (c.h < term_size.h \/ astray)
  /\ DOMAIN copy \subseteq Index(term_size)
  /\ start_idx \in Index(term_size)

\* mouse_io.c:6: cells marked during a selection get the colours back that were
\* saved: without output meanwhile, a selection leaves nothing behind, whichever
\* way it is dragged and however it ends.
SelectionLeavesNoTrace ==
  copy = <<>> /\ ~overwritten =>
    \A i \in DOMAIN term_cell : term_cell[i].ink = term_cell[i].given

\* Leaving the alternate screen brings back what the screen showed, as far as it
\* was in every size meanwhile (escape_sequence_parser.c:672-694,
\* pty_make_v1.c:74-83).
ScreenComesBack ==
  [][ before # <<>> /\ before' = <<>> =>
        \A r \in 0 .. before.least.h - 1, x \in 0 .. before.least.w - 1 :
          term_cell'[r * term_size.w + x].chr = before.cells[r * before.size.w + x].chr ]_vars

\* A text that OSC 52 carries without "=" is what the clipboard then holds
\* (escape_sequence_parser.c:959-1054).
ClipboardAsSent ==
  [][ \A t \in Clip : Len(t) % 3 = 0 /\ SetClipboard(t) => clipboard' = t ]_vars
=============================================================================
