# TLA+ models of mywm, its terminal and its editor

This directory holds a formal model of the programs in this repository: TLA+
modules translated from the C sources, TLC configurations that check them on
small instances, and TLAPS proofs of what matters most for every value of the
constants. File and line numbers are those of `src/`.

## 1. The system

Four programs, each with one thread and one event loop. No locks are used
anywhere; what interleaves is the order of events: of the user, of clients, of
the pty, of the kernel.

| program | sources | state | talks to |
|---|---|---|---|
| `mywm`, a wlroots compositor | `mywm/` | a `struct server`: windows (`struct view`), scene tree, grabs, seat, layer surfaces | its clients by the Wayland protocol, wlroots by listeners |
| `cui_proj`, the terminal | `cui_proj/src/` | the grid `term_cell`, the cursor, margins, modes, what the parser has collected | `bash -i` over a pty, GLFW callbacks |
| `my_txt_editor` | `my_txt_editor/src/` | `struct editor_state`: the buffer, the cursor, the open file, the log of screens | ncurses, files, a language server over two pipes |
| `mybar` | `mybar_proj/src/mybar.c` | one layer surface, one shm buffer, a timer | the compositor |

### 1.1 Components

**Windows, pointer and focus** (`view.c`, `mouce_func.c`, `layer_shell.c`,
`h_key.c`). Operations: create, map, unmap, destroy a toplevel; a client asks to
be moved or sets a cursor image; motion, press and release of the pointer; a
layer surface is created; Escape ends the server. They share the grabs
(`surface_move_state`, `now_surface_request_resize` and the view each of them
follows), the focus of the seat and the z-order. *Correct* means: a grab that is
on has a live view and a held button; nobody else has the pointer meanwhile; the
order of the scene stays an order.

**Interactive resize** (`mouce_func.c:50-258`, `view.c:40-76,150-310`). A motion
computes a size, moves the node at once and asks the client for the size; the
client answers late, rounds as it likes, and the commit of the answer moves the
node again. *Correct*: the edge that is not dragged stays where it was and the
dragged one follows the cursor.

**Layer shell and bar** (`layer_shell.c`, `mybar.c`): one slot for a wallpaper,
one for a bar, each with a configure handshake.

**Outputs, input devices, start and stop** (`new_output.c`, `new_input.c`,
`server.c`): wiring of wlroots objects.

**Terminal parser** (`escape_sequence_parser.c:127-334`): one call per read of
the pty, a state machine over bytes whose state survives in
`bash_parser_required_memb`. *Correct*: how the output is cut into reads cannot
be seen.

**Terminal screen** (the rest of that file, `pty_make_v1.c:450-620`): the grid,
the cursor with its delayed wrap (column `W` after a glyph in the last column),
the scroll region, insert mode. *Correct*: what is printed is shown, nothing
outside a region scrolls with it, nothing outside the grid is touched.

**Terminal main loop** (`pty_make_v1.c:30-446`, `kbd_io.c`, `mouse_io.c`): at
most 64 reads a round, debounced resize of the pty, pending paste, selection,
saved cursor and alternate screen.

**Editor buffer** (`txt_editor_func.c`, `txt_editor_file.c`, `txt_editor.h`):
all rows in one array of cells; a row is an offset, a capacity and a length.
Rows grow (later rows move back), are cut by Enter and joined by Backspace.
Three numbers bound them: `line_capacity` (rows with memory),
`file_line_start_num_counter` (rows that may be edited once a file is open) and
`description_line_end` (rows that are saved). *Correct*: rows never share cells,
each key changes the text as a user expects, a save writes the text.

**Editor cursor and view** (`txt_editor_func.c`, `txt_editor_draw.c`,
`editor_mouse.c`, `txt_editor.h:400-530`): the first visible row, the write area
beside the file tree and the status bar, the rows drawn and the colours kept per
row of the view. Each handler sets the flags that redraw what it changed.
*Correct*: the screen shows the lines of the view as they are, a key leaves the
cursor where it is seen, a press reaches the line under it.

**Editor screens and files** (`screen_state/*.c`, `txt_editor_file.c`): a log of
screens says where each returns to; a save converts, checks, writes a temporary
file, synchronises it and renames it. *Correct*: a reader of the file finds a
whole text whatever happens in between, and the user learns what happened.

**Language server link** (`language_server_communication.c`, `main.c`,
`txt_editor_edit_screen.c`): two pipes. A full-text notification is written for a
typed glyph or Backspace; when epoll reports a first byte, one message is read
with reads that wait. *Correct*: the versions of editor and server agree, and
neither side waits for ever.

**Completion, syntax, plugins, settings, file tree, logs**: see `components` in
`PROJECT.json` for sources and status.

### 1.2 What is hard here

* *Order of events in the compositor*: a client destroys or maps a window, sets
  a cursor or asks for a move in the middle of a drag; two buttons are held.
* *Late answers*: several size requests are on their way when the button is
  released; `surface_box` points into state that each commit overwrites.
* *Cuts*: a read ends inside an escape sequence or a character.
* *Boundaries*: the delayed wrap, margins of an old size, the last column, the
  capacity of a row, wide glyphs at any of these.
* *Three numbers that have to agree* in the editor, changed by eight functions.
* *Kept by hand*: the colours of the shown rows, the rows to be drawn, the write
  area, the log of screens, the cells a selection marked.
* *Waiting*: the terminal sleeps until its window gets an event, the editor reads
  and writes its pipes with calls that wait.
* *Partial failure*: a file that opens and cannot be read, a partial write to
  the pty, a save cut short at any of its calls, a language server that dies.

`hazards` in `PROJECT.json` lists these at their lines, with the properties that
cover each of them, or the reason why none does.

## 2. Modules

| module | models | extends / instantiates |
|---|---|---|
| `Compositor` | windows, grabs, focus, z-order, cursor image | - |
| `ResizeDrag` | geometry and handshake of a resize | - |
| `TermParser` | the byte automaton of the terminal | `TermLink` by refinement |
| `TermLink` | what the terminal promises to a program | - |
| `TermScreen` | grid, cursor, region, insert mode | - |
| `TermModes` | saved cursor, alternate screen, selection, clipboard, change of size | - |
| `TermLoop` | main loop, pty, keys, paste, end of the shell | - |
| `TextBuffer` | the edit buffer and its keys | `TextDoc` |
| `TextDoc` | what one key may do to a text | - |
| `EditView` | cursor, first visible row, write area, drawn rows, colours, mouse | - |
| `EditorSession` | screens, dialogs, opening, saving, crashes | `AtomicFile` by refinement |
| `AtomicFile` | what a save promises to those who read the files | - |
| `LspLink` | editor and language server over two pipes | - |
| `MC*` | values of the constants for TLC | the module they name |
| `*Proofs` | theorems and their proofs | the module they name, TLAPS (`EditorProofs`: `EditorSession` and `TextBuffer`) |

Every handler runs to its end in its event loop, so it is one action (or, where
the code loops over bytes or glyphs, one action per turn of that loop). Operators
keep the names of the C functions where they stand for whole functions, mistakes
in spelling included; the others are named for what a part of a function does.
Operators marked "Mutant" are plausible mistakes: each is what one definition of
the model might have been, and each breaks the property it is listed with.

**Compositor.** A window is not there yet (`none`), `unmapped`, `mapped` or `destroyed`. Coordinates are
abstracted to what is under the cursor when a handler asks the scene: nothing, a
layer surface, or a window and a zone of it (edge band, title band, inside). The
motion handler is one action per branch (`MotionOverEdge`, `MotionOverTitle`,
`MotionInside`, `MotionResizing`, ...); a branch that reads a destroyed view
leads to the server state `undefined`, from which nothing is asserted.

**ResizeDrag.** Two axes, each with the low, the high or no edge dragged. wlroots
and the client are modelled by what the code relies on: `set_size` hands out
increasing serials, one configure is sent for all requests of a dispatch, the end
of the drag schedules one more with the size as it is (`set_resizing`), the client
acknowledges any sent configure and thereby drops the older ones, and a
commit overwrites the box. The client draws multiples of `Cell`, as the terminal
does, or any size (`Cell = 1`).

**TermParser / TermLink.** Programs write messages (a glyph, CSI with parameters,
OSC, ESC with one letter, designations, shifts); `Read` takes any non-empty
prefix of what is in the pty, `Parse` is one turn of the loop over the bytes of a
read. `TermLink` is the promise: each message takes effect once, in order, and
eventually. The refinement mapping is the identity on `sent` and `got`, and maps
the designations and `use_g_charset` to the sets in use.

**TermScreen.** One action per character and control function, its parameters
drawn from `0 .. MaxParam`; 0 is what the parser delivers for a missing one.
`defined` becomes FALSE when the code would touch memory outside the grid, and
nothing is asserted beyond.

**TextBuffer / TextDoc.** `ed` is `struct editor_state` cut down to what the text
depends on, and each handler of the source is a function from one `ed` to the
next; an action applies a handler and `Sync`, which ends each round of the main
loop. Tab and completions enter several glyphs with no key in between (`todo`). A
cell is a glyph or 0, the second half of a wide glyph being 0. `TextDoc` defines
what one key may do to a sequence of lines, and `EditsText` says that each step
of the buffer is such a change of the text it stands for.

**TermModes.** What `TermScreen` leaves out of the grid, on a smaller set of
control functions: `term_cell` as one array with the width of the screen as its
stride, `alt_term_cell`, `save_cur`, the margins, the selection (`copy` holds the
colours of the marked cells) and `clipboard`. Reverse video is kept because it decides what
a marked cell looks like; bold and the number of colours are not. `before` and
`overwritten` are history: the screen that was put aside last, and whether output
met a selection. So is `astray`: ESC E and CSI r put the cursor below the screen
unchecked, ESC 7 saves that row and ESC 8 restores it, so that `PlacesFit` says of
the rows what is left: no other function and no use of the mouse leads below, and a
change of size brings back both the cursor and the saved one. Base64 is translated bit by bit (`base64_decoder`).

**TermLoop.** `now` says where the one thread is in a round: waiting, keys,
reading, resizing, ending, reaping. Keys are numbered, and what they write is a
sequence of numbered bytes, so that loss and order can be told (`sent`). The pty
takes `Room` bytes and holds `RoomOut` outputs; the shell, a job that outlives it
and the user are external. `EndDrawing` waits for an event of the window
(`EnableEventWaiting`; external), so the guard of `Wake` is `event`. A read may fail for
no reason the loop knows at any time (`should_close = "error"`); like a hang-up this
ends it, but the output that is left is then lost.

**EditView.** `ed` is `struct editor_state` cut down to the view; a line is its
length. Handlers are functions from `ed` to `ed`, and `Round` is the rest of the
main loop: it clamps the column and draws what was asked for. `drawn` is what the
terminal shows.

**EditorSession / AtomicFile.** A save is five actions (`SaveChecks` ...
`SaveRenames`), because other programs, a signal and a loss of power come between
them; everything else is one action per handler. `lost` holds what a loss of power
may bring back. `AtomicFile` knows only the files: somebody puts a whole text, it
reaches the disk, the power fails. The refinement mapping takes `disk` for `store`.
A press on a file of the tree opens it over the tree, or from the edit screen
(`filetree_mouse_event`). `open_start_menu` is part of the keys of the start menu; names and positions in
lists, permissions and symbolic links are left out.

**LspLink.** Both pipes are sequences of parts of messages; `out` is what the
editor still has to write and `taken` how much of a message it has read, so that
each call that waits can wait. The text of a document is the number of its edits.
The server is external: it reads, answers, reports and dies when it likes;
`Eager` says whether it reads while it waits to write. Any header may be refused
(`Refused`); until one is accepted again `framed` is FALSE, and `KeysAnswered` then promises
nothing.

## 3. Runs

| run | bounds | shows |
|---|---|---|
| `compositor` | 2 windows, the bar (`Started`), 2 buttons | grabs, focus, awaited serials and cursor image stay consistent; a resize ends |
| `compositor_dangling` | 1 window | the view of a resize can be freed during it |
| `resize_drag` | 6 x 6 window, 6 cursor positions, 4 configures | both edges settle when the client has caught up, no awaited answer is lost |
| `term_screen` | 2 x 3 screen, 1 glyph, parameters to 4 | printing, scrolling and regions |
| `term_parser` | 3 messages of 13, 2 parameters, 3 characters of OSC | `TermLink` is implemented |
| `term_modes` | screens of 2 x 2, 3 x 1 and 1 x 2, 4 outputs, 1 change of size | cursors fit but after ESC E and CSI r, the selection always; a selection leaves no trace, the screen put aside comes back, Base64 is decoded |
| `term_loop` | 2 keys, a paste of 3 bytes, a pty of 2, 1 question, 1 change of size | order of the input, no output lost at the end; paste, size and end arrive |
| `text_buffer` | 4 cells, 4 rows, 2 glyphs typed, views of 2 and 3 columns | rows stay apart, wide glyphs whole, keys edit the text |
| `text_save` | same | a file with the largest number of lines is saved as an empty one |
| `edit_view` | lines of 2 and 1, at most 3 rows loaded, 2 sizes, tree of 1, 2 edits | what is drawn and coloured is the text, layout, keys and clicks |
| `lsp_link` | 2 files, pipes of 3, messages of 2 parts, 2 edits, 2 other keys | versions agree, changes follow and arrive, the editor always comes back |
| `editor_session` | 2 files, 2 texts, a log of 3, 1 write by others, 1 crash | a save is atomic and told; menu and dialog |

**Why the bounds are enough.** *Compositor*: a grab involves the window it
follows and one that disturbs it (mapped, raised or destroyed meanwhile); two
buttons are the least for which press and release do not alternate; `Started`
leaves out the wallpaper, which takes its place in the z-order as the bar does
when it is created and is never under the pointer (the proofs cover both). *Resize*:
three configures are the least for which an answer to an older request arrives
while two are on their way, and the release takes the fourth; either side, the
bottom and both its corners are dragged (the top is treated as the left side is). *Screen*:
with 3 rows there are regions at the top, at the bottom, across and inside, and
rows outside of each; 2 columns give a first, a last and the column behind it;
`MaxRow` allows margins below the screen. *Parser*: three messages are the
least for which one can disturb the next and be disturbed; up to two
parameters and one character more than are kept are sent. *Modes*: four outputs
are the least that put a glyph elsewhere than in the first cell, put the screen
aside and fetch it back; each change of size loses rows or columns, and one of
them gains columns at the same time, so that the stride changes; margins are the
whole screen, or end or begin below it; the one pair of colours a program chooses is the
selection's own, plain in reverse. *Loop*: the pty takes less than the paste has,
`Batch` (64 in the code) is 2 so that a round ends with output unread, and a
size of less than a cell is among the two. *Buffer*: `Slack`, `ColMax` and
`LoadLines` are scaled (16, 65536, 9999 in the code) so that rows fill, grow, hit
the largest capacity and the end of memory; `MaxLines` stops Enter at three
counted lines, with rows for four, so that rows are added and moved down; two
glyphs allow a wide and a narrow one in either order, in one row or two. *View*:
`D` (9999), `Context` (15), `TreePart` (10) and the least size of the screen
(60 x 25) are scaled so that the file has as many lines as are loaded, more than the view has rows,
and Enter adds one behind them; one size in use is narrower and lower than the
other and a third is too small. The status bar is at the top, where it moves the
text down. *Link*: a message fills a pipe but for one part, so that every message
is cut and every pipe is full at some time; with two files the one the server was
told of last need not be the one that is edited. *Session*: `LogStorage` (256) is 3, the least for
which the two entries that are looked at are there; one of two files can be
absent or a directory while the other is edited; the first session begins with the
menu, the one after the crash with any opening. The paths are declared symmetric:
they are only compared, and no property of this run is about fairness.

`CHECK_DEADLOCK FALSE` is stated where the model really stops: after Escape or a
fault in `Compositor`, when `MaxSent` messages were parsed in `TermParser`, once
`defined` is FALSE in `TermScreen`, when the outputs are used up in `TermModes`,
when terminal or editor have ended in `TermLoop`, `LspLink` and `EditorSession`.

**Fairness.** `compositor` assumes weak fairness of `Release` for each button
while the server runs: the user does not hold a button for ever, and the code has
no other end of a resize. `TermParser` assumes weak fairness of `Read` and
`Parse`: the main loop of the terminal polls the pty in each round
(`pty_make_v1.c:355-377`) and parses all it has read. `TermLoop` assumes that the
thread runs, that time passes (`Rest` ends the 0.1 s of
`pty_make_v1.c:409`), that a shell in use reads, and that it ends when its terminal is
closed (`HangUp`, a SIGHUP). The three properties that depend on the next
event of the window have it as their premise (`Awake`); without it they are
false, because the loop sleeps. `LspLink` assumes that the editor's thread runs and
that a living server reads and writes; with `Eager = FALSE`, a server that does
not read while it waits for room, both processes can wait for each other for ever
and `KeysAnswered` is refuted. Nothing is assumed of programs that write, of
clients that answer, or of the user.

## 4. Findings

Two runs have a counterexample that is a finding:

1. `compositor_dangling`: `toplevel_destroy` (`view.c:347`) leaves
   `resizing_view` pointing at the freed view.
2. `text_save`: `set_line_memory` (`txt_editor_file.c:357`) records the end of a
   file only when it meets it within `default_load_line_size` lines; a larger
   file is saved as the first `description_line_end` lines counted for the file
   before, none at first. Backspace has a related fault:
   `remove_line_join_str_data` counts one row less also when the joined row was
   behind the counted ones (`txt_editor_func.c:496`), after which Enter moves too
   few rows and a save leaves one out. `EditsText` therefore speaks of states in
   which every row with text is counted.

### Met while modelling, without a run

Where a name is given, the module defines the claim, and TLC refutes it when it is
added to the component's `.cfg`.

*Compositor.*
* `MoveExcludesResize`: `mouce_func.c:102` promises that no resize starts
  during a move; the guard reads `surface_move`, a client's move sets
  `surface_move_state`.
* `ResizeDrag`'s `FarEdgeRests`: the release (`mouce_func.c:364`) forgets the
  awaited serial; if the client then draws another size than asked, the far edge
  has moved, against `view.c:160`.
* The compositor's own title drag needs flags that no sequence of events sets
  (`mouce_func.c:260`, `mywm_core.h:188`); the bar is not always in front
  (`mywm_core.h:312`: a window created later is above it); a client whose largest
  size is below the default smallest is asked for more than it allows
  (`view.c:261`); every further pointer device handles each motion once more
  (`new_input.c:38`); a second output takes the place of `scene_output`
  (`new_output.c:7`).

*Terminal.*
* `EraseStaysInLine`: CSI 1 K after the last column erases a cell of the next
  line (`escape_sequence_parser.c:571`).
* `KeepsLink` with `Msg <- TwoByte`: `utf8_decode` (`escape_sequence_parser.c:20`)
  looks ahead only in the current read, so a character cut by its end is two.
* `OutputIsRead`: the comment at `pty_make_v1.c:214` says that the loop is never
  blocked; `EndDrawing` waits for an event of the window, and output of the shell is none.
* A full pty loses the rest of a key or of an answer (`kbd_io.c:74`); the characters of a round
  are written before its other keys, and an answer in the middle of a paste goes
  between its bytes. `paste_mode` (CSI ? 2004) is stored and never read.
* ESC 8, CSI u and CSI ? 1049 l restore the mode of the arrow keys with the cursor, and
  a cursor that was never saved is zeroed memory, which is `AP_MODE`. Entering
  the alternate screen twice overwrites the screen put aside.
* Marked cells that scroll away from their places stay inverted
  (`mouse_io.c:8`). A Base64 text with `=` is looked up behind the end of a table
  without a zero (`escape_sequence_parser.c:1037`; `Strays`). A colour of OSC 10
  or 11 that begins with `#` is black.
* ESC E in the last row lets the next glyph be lost in the scroll, and ESC 7 then
  saves a row below the screen; insert mode at
  a pending wrap overwrites; DL and IL ignore their count; ECH answers to `x`
  instead of `X`. After the end of the shell the window closes with its next event only.

*Editor.*
* `ReadFailureIsShown`: `load_file` has switched the name before
  `read_file_all` fails, and the error screen is replaced at once
  (`txt_editor_file.c:407`): the old text stays under the new name. A file opened from
  the tree (`editor_mouse.c:239`) shows the error, but has the new name all the same.
* `OnlyTheUserEnds`: nothing ignores SIGPIPE, so a server that dies ends the
  editor with the next write (`language_server_communication.c:24`). An
  `epoll_wait` that a signal interrupts stops the polling for good. A message whose header
  is refused, or that there is no memory for, leaves its text in the pipe
  (`language_server_communication.c:350-364`): it is read as the next header, and the editor
  waits in that read until the server sends another message.
* A save replaces a file that appeared after the check; the temporary file that
  a crash leaves is removed by nobody; `q` typed in the field for a path ends the editor.
* Down in the last row of the view scrolls behind the end of the file
  (`txt_editor_draw.c:404` compares with the rows loaded), after which up, left
  and typing do not move; an automatic line break in the last row leaves the
  cursor below the view (`txt_editor_func.c:355`); leaving the jump dialog,
  closing the tree and a wheel step over it show a cursor that is out of view
  (`editor_mouse.c:169`). An arrow key while the cursor is hidden moves one row
  up in the view. `KeysKeepView` speaks of the keys that do keep it.
* A click below the last line takes the length of row 0 for the number of the
  line, and one from the tree limits the column by that length
  (`editor_mouse.c:158`); `ClickHits` is about rows that show a line. A press at
  (0, 0) enters the tree also when there is none. A tree as wide as the screen,
  or of width 0, cannot be changed any more. The border of the tree waits for
  double clicks that `mouseinterval(0)` never reports.
* Lines from `default_load_line_size` on can be typed but not brought into view.

*mybar* keeps the buffer of its first size when it is configured with another
(`mybar.c:166`).

## 5. Proofs

All theorems hold for every value of the constants that satisfies the named
assumptions (`NodeAssumption`, `SizeAssumption`, `ScreenAssumption`,
`SessionAssumption`, `PipeAssumption`, `LoopAssumption`, `ModesAssumption`,
`ViewAssumption`, `BufferAssumption`): any
number of windows, any sizes and delays, any screens, any files, texts and pipes.

**CompositorProofs** (assumes that the bar, the wallpaper, the windows and NULL
are different and that `Started` names layer surfaces). `TypeCorrect` is proved handler by handler. The flags are not
inductive by themselves: a release ends a resize only if the remembered button
event is a press, so `ResizeWhileHeld` needs that a resize goes with a remembered
press of a held button (`ButtonRemembered`, `ResizePressed`). `Guarded` collects
these with `GrabHasView`, `ResizeOwnsPointer`, `OnlyResizedAwaits` and
`ResizeCursorKept`; `GuardedStep` shows that each handler keeps it.
`RaiseKeepsOrder` carries the z-order (`OrderTotalAlways`).

**ResizeDragProofs** (assumes `Band`, `TitleEnd`, `MaxSerial` are naturals,
`Cell` a positive one). `IInv` is `GeometryOK` (types), `Handshake` and
`SettledNode`. `Handshake` says that the serials on their way are increasing,
not above the last one handed out and above the one acknowledged (`RequestsOK`,
`InOrder`), that the awaited serial is still among them (`AwaitedIsOnItsWay`)
and that during a drag it is the last one asked for unless the client has caught
up (`AwaitsLast`). `SettledNode` is the
property for a client that has caught up, in the form that survives a step: as
long as no serial is awaited the node is where the anchor and the drawn size put
it. `FarEdgeSettlesAlways` follows: a client that has caught up leaves nothing
to be awaited. `EdgeFollowsCursorAlways` needs the same for the dragged edge: what
was asked for last is the size of the cursor (`AskedForCursor`), and the last
configure on its way, or the client that has drawn it, has that size (`DrawsLast`).

**TermScreenProofs** (assumes a screen of at least one cell and `H < MaxRow`).
`TypeOK` is inductive by itself; it rests on one lemma per helper of the grid
(`ScrolledType`, `EraseType`, `WrapType`, `PutType`, ...). The other four are
action properties from `TypeOK`: `TypedShows` follows a glyph through wrap,
scroll, region and insert mode, `TypedInRegion` and `LineFedInRegion` bound the
cursor and keep the rows outside.

**EditorProofs, part 1: the session** (assumes a log of three screens or more, and that absence,
other kinds of file and a torn text are no texts). `LogSet` says what a log that
drops its oldest entry still tells of the last three. `MenuComesFirst` is not
inductive: an error or the browser may lead back to the menu later, so `MenuOK`
keeps the document empty as long as the last three screens are on such a way
(`LeadsBack`). `SavingOK` says how far a save is: what is synchronised is whole,
what is renamed is on the disk. `DialogOK` and `SettingsOK` say which screen may
be open with a name half typed, and where the settings came from; with them
`DialogAsks` follows from one step. `FilesAreAtomicAlways` maps each step to one
of `AtomicFile`: a rename is a put because of `RenamedWhole`, another program's
write is a put that is on the disk at once, all other steps leave the files
(`FilesLeft`). `SaveToldAlways` uses that only an end of the process counts as one (`CrashesCounted`).

**EditorProofs, part 2: the buffer** (assumes `BufferAssumption`: glyphs of one and
of two columns differ and neither is 0, positive sizes, files whose lines fit a row,
and cells and rows for an editor that has just started). It shares a module with part 1
because both are about the editor; the names of `TextBuffer` have a `TB` before
them (`TBSpec`, `TBTypeOK`) where `EditorSession` has the same. The handlers are functions from `ed` to
`ed`, so a lemma says of one of them what it makes of any buffer `s` with `IsBuf(s)`:
the arrays have the length the record says, and the rows are laid one behind the other (`Laid`),
in order and with no overlap, up to the last cell. `RowsDisjointAlways` and
`BufferTypeCorrect` follow from `BufferSound`, which says that `IsBuf(ed)` always holds. Growth of a row
doubles its size until the need is met; `Doubled` is a choice among powers of two, so
`DoubledIs` shows that there is one, by the least number that is large enough.
`GlyphsWholeAlways` needs more than its property: Enter cuts a row at the cursor, so
the cursor has to be between two glyphs (`CursorOn`) in every state in which a key is read.
Between two glyphs of a word that is entered (`todo` not empty) nothing is claimed of it: the
main loop calls `editor_sync_cursor` only after the last of them, and Enter is not read before that. `Whole` is
the property of one row; for each operation on the cells (`CellsWith`,
`CellsWithout`, `CellsMoved`, `Cut`) one lemma says that it leaves the changed row whole, and `Apart`
that it leaves the cells of all other rows. The rows of a file that is opened are the columns its
glyphs take, counted from the start of the line (`ColumnsIs`, `ColumnsGrow`): `HereIs` finds the
one glyph that begins in a cell, and `LoadedRowWhole` adds glyph after glyph to a whole row.

**LspLinkProofs** (assumes that `NoFile` is no file, and pipes and messages of at
least one part). The parts in the pipe and those still to be written are one
sequence (`OnItsWay`), which a write leaves as it is, a notification lengthens at
its end (`Added`) and the server shortens at its front (`Shortened`). `Ordered` says that each
complete notification in it opens its document or is one version behind the one
before it, or behind what the server has; `OneVersion`, which version the server
will have in the end, for each place the thread can be at. A server that has read
everything has that version (`VersionsAgreeAlways`), and what it reads next is the first of the
sequence (`ChangesFollowAlways`).

**TermLoopProofs** (`LoopAssumption`: positive sizes, clipboard texts of bytes, a
pty of any room). `OutputBeforeEnd` is true because nobody writes
once the hang-up was seen: `NobodyLeft`, which looks at the shell and at the job
that may outlive it. `InputInOrder` needs what is still in the queues and how a
paste is cut: `Queued` says that the two queues of a kind are in the order of the
keys, `SentInOrder` that what was sent came before all that is queued, that it is
in order and that no byte of a paste came without the one before it,
`PasteGoesOn` that what is left of a paste is its end from byte `m + 1` on and byte
`m` was sent, and `NoneCut` that while the pty is open the next byte of each paste
was sent or is left. That keys are only taken over when both queues are empty
(`InputType`) is what makes them survive a new round. `EndIs` and `EndGoesOn` do the
arithmetic of a partial write. `TypeCorrect` uses the bound of the pty from the
same invariant.

**TermModesProofs** (assumes sizes of at least one cell, a blank that is no glyph,
and the colours named). Places are `row * width + column`, and the lemmas `PlaceIn`,
`PlaceOf` and `PlaceBack` carry that arithmetic through a change of the width
(`ReshapedIs`). `ListKept` is what makes a selection removable: the list has the
colours the marked cells were given and every other cell shows its own.
A character or line feed goes through `WrapIs`, `PutIs` and `SettleIs`, which end on
the screen from wherever `LedStep` (ESC E, CSI r) left the cursor and with whatever
margins (`RegionIs`). `AsideKept` follows the screen put aside through every size; `ScreenComesBackAlways`
is one step from it.

**EditViewProofs** (assumes `ViewAssumption`: natural numbers, a positive
`D` and `TreePart`, and `MinY > 2`, where the code has 25: on a screen that is not
waited out the status bar leaves a row to the text). The properties speak of the
state between two rounds of the main loop, and `ViewInv` says all that holds there:
the record has its types and a layout that fits the screen (`Laid`), each row of
the view has the colour of its line (`Coloured`), nothing waits to be drawn, and
`drawn` is what a drawing now would show. None of these is kept by itself: whether a
key needs a drawing depends on the layout, the layout on the tree, the cursor on
the number of rows. Handlers are functions from `ed` to `ed`, so there is one
lemma per handler, in terms of the fields it may change (`Moves`, `Shifts`,
`Edits`, `Reframes`, ...) and of whether it asks for a drawing (`Asks`): a handler
that changes what the view shows has asked, and `Round` then draws. The rows that
are doubled and the columns a tab adds are recursive functions over a range of
naturals; `Induction`, from the library's least elements (`WFMin`), shows that the
doubling ends (`DoubledIs`) and that the recursion defines a function (`TabFunction`).

Checked by TLC only: what is live (`ResizeEnds`, `TermLink`'s last conjunct,
`InputArrives`, `LoopCloses`, `SizeSettles`, `ChangesArrive`, `KeysAnswered`:
fairness is out of the prover's reach), and what
is the result of a recursion over sequences: the refinement of `TermLink` by
`TermParser`, `ClipboardAsSent` (Base64) and `EditsText` (`SelectSeq` over rows that
were moved). The type
invariants of `TermModes` and `LspLink`, and `TermParser`'s `GroundIsClean` are
definitions that no run lists; they hold when they are added to the `.cfg` of the component.

## 6. Not modelled

Drawing, colours, fonts, icons, settings files and logs are input and output of
single calls. Which words are completed, which colour a word gets, which bytes a
key stands for and what a JSON message holds are data no property tells apart;
each is a value where it crosses a component. The generated protocol code and
wlroots, raylib, ncurses and the kernel are external.

Of what has state: several outputs and pointer devices (the compositor has one
variable for the output and hangs the same listeners on one cursor per device,
see section 4), the configure handshake of layer surfaces, which is one call of
wlroots per commit, and `mybar`, which has one surface and a timer; a setup that fails (the programs print and exit); symbolic links, permissions and
files with tabs or with lines longer than the largest row.

The components are not composed with each other: the terminal meets the
compositor as a client of `ResizeDrag` that draws multiples of a cell, the parser
meets the screen by the messages of `TermLink`, `TermLoop` meets the modes by what the shell
writes, and the buffer meets view and session as a sequence of lengths and as one
text. What crosses each of these borders is one call without an answer, so that
the product of the modules would repeat the properties of each.
