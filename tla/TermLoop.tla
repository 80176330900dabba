------------------------------- MODULE TermLoop -------------------------------
(***************************************************************************)
(* The main loop of the terminal (cui_proj) with its pty: keys and a paste *)
(* on their way to the shell, output on its way back, the size of the      *)
(* window, and the end of shell and window.                                *)
(*                                                                         *)
(* The loop has one thread.  A round handles the keys, writes what fits of *)
(* a paste, reads at most Batch times, looks at the size and draws; the    *)
(* library's EndDrawing then waits for an event of the window              *)
(* (EnableEventWaiting), and output of the shell is none.                  *)
(*                                                                         *)
(* The shell, the jobs it leaves behind, the pty and the user are          *)
(* external.  What is drawn is in TermScreen, what the bytes of the shell  *)
(* mean in TermParser and TermModes; here its output is text or a question *)
(* (CSI 6 n).  Width and height are one number.                            *)
(***************************************************************************)
EXTENDS Naturals, Sequences, FiniteSets

CONSTANTS
  Size,        (* sizes of the window, in pixels                             *)
  InitWindow,  (* the size it opens with                                     *)
  CellSize,    (* cell_w, cell_h                                             *)
  Key,         (* kinds of keys: see key_callback and character_callback     *)
  Clip,        (* texts the clipboard may hold: sequences of bytes           *)
  Batch,       (* reads in a round, 64 in the code                           *)
  Room,        (* bytes the pty takes before the shell reads                 *)
  RoomOut,     (* outputs the pty holds before the terminal reads            *)
  MaxKeys,     (* bound: keys pressed                                        *)
  MaxAsked,    (* bound: questions of the shell                              *)
  MaxResizes   (* bound: changes of the window's size                        *)

ASSUME LoopAssumption ==
  /\ Size \subseteq Nat \ {0} /\ InitWindow \in Size /\ CellSize \in Nat \ {0}
  /\ Key \subseteq {"char", "arrow", "right", "paste", "close", "window"}
  /\ Clip \subseteq Seq(1 .. 255)
  /\ Batch \in Nat \ {0} /\ Room \in Nat /\ RoomOut \in Nat
  /\ MaxKeys \in Nat /\ MaxAsked \in Nat /\ MaxResizes \in Nat

VARIABLES
  (* the loop *)
  now,             (* where the one thread is                                *)
  batch,           (* reads of this round                                    *)
  chars, named,    (* the library's two queues of pressed keys               *)
  paste,           (* what is left of a paste: kbd_data                      *)
  should_close,    (* "no", or who wants the end: "key", "shell", "error"   *)
  screen_pixel, resize_pending,
  quiet,           (* the last change of size is more than 0.1 s ago         *)
  term_size,
  (* the window and its user *)
  event, win,
  typed, pressed,  (* what waits for the library: characters, other keys     *)
  keys, resizes,   (* how many keys were pressed, how often the size changed *)
  (* the pty *)
  held,            (* bytes the shell has not read                           *)
  to_term,         (* output the terminal has not read                       *)
  winsize,
  (* the other end *)
  shell, job,      (* who holds the terminal open                            *)
  asked,
  sent             (* history: every byte of the user the pty took           *)

input  == <<chars, named, paste, should_close>>
sizes  == <<screen_pixel, resize_pending, term_size, winsize>>
window == <<event, typed, pressed, win, keys, resizes>>
other  == <<shell, job, asked>>
vars   == <<now, batch, input, sizes, quiet, window, held, to_term, other, sent>>

-----------------------------------------------------------------------------
(* Conversions, and what write() puts on the pty                           *)

\* As many cells as fit, and one at least.
Cells(pixels) == IF pixels \div CellSize < 1 THEN 1 ELSE pixels \div CellSize

\* A paste keeps of a text what can be typed: printable ASCII, \n, \r and \t.
Printable(t) == Cardinality({i \in DOMAIN t : t[i] \in 32 .. 126 \cup {9, 10, 13}})

\* Byte i of n for key or paste number k.
Byte(src, k, i, n) == [src |-> src, key |-> k, i |-> i, of |-> n]
Bytes(src, k, n)   == [i \in 1 .. n |-> Byte(src, k, i, n)]

-----------------------------------------------------------------------------
Init ==
  /\ now = "keys" /\ batch = 0
  /\ chars = <<>> /\ named = <<>> /\ paste = <<>> /\ should_close = "no"
  /\ win = InitWindow /\ screen_pixel = win /\ resize_pending = FALSE /\ quiet = TRUE
  /\ term_size = Cells(win) /\ winsize = term_size
  /\ event = FALSE /\ typed = <<>> /\ pressed = <<>> /\ keys = 0 /\ resizes = 0
  /\ held = 0 /\ to_term = <<>>
  /\ shell = TRUE /\ job = FALSE /\ asked = 0
  /\ sent = <<>>

InUse == shell \/ job

\* How many of n bytes the pty takes; one that nobody holds open takes none.
Fitting(n) == IF ~InUse THEN 0 ELSE IF n < Room - held THEN n ELSE Room - held

\* Mutant: what is left of a paste is written from its beginning.
Taken_Again(bytes, n) == bytes

Taken(bytes, n) == SubSeq(bytes, 1, n)

\* write() without waiting.
Write(bytes) ==
  /\ held' = held + Fitting(Len(bytes))
  /\ sent' = sent \o Taken(bytes, Fitting(Len(bytes)))

-----------------------------------------------------------------------------
(* A round of the loop                                                     *)

\* The window was closed, or the round before wanted the end.
Ends == should_close # "no" \/ \E i \in DOMAIN pressed : pressed[i].kind = "window"

\* EndDrawing returns with all that was pressed, in two queues, and the loop
\* looks whether it is to end.
Wake ==
  /\ now = "waiting" /\ event
  /\ event' = FALSE
  /\ now' = IF Ends THEN "ending" ELSE "keys"
  /\ chars' = typed /\ named' = pressed
  /\ typed' = <<>> /\ pressed' = <<>>
  /\ UNCHANGED <<batch, paste, should_close, sizes, quiet, win, keys, resizes,
                 held, to_term, other, sent>>

character_callback ==
  /\ now = "keys" /\ chars # <<>>
  /\ Write(Bytes("char", Head(chars).n, 1))
  /\ chars' = Tail(chars)
  /\ UNCHANGED <<now, batch, named, paste, should_close, sizes, quiet, window,
                 to_term, other>>

\* Ctrl+E, Ctrl+V and the keys that send a sequence of bytes.  The right arrow
\* sends nothing where the screen holds nothing to its right.  A paste that
\* comes before the last one is through is ignored.
key_callback ==
  /\ now = "keys" /\ chars = <<>> /\ named # <<>>
  /\ LET k == Head(named)
     IN  \/ /\ k.kind = "close"
            /\ should_close' = "key"
            /\ UNCHANGED <<paste, held, sent>>
         \/ /\ k.kind = "paste"
            /\ IF paste # <<>> THEN UNCHANGED paste
               ELSE \E t \in Clip : paste' = Bytes("paste", k.n, Printable(t))
            /\ UNCHANGED <<should_close, held, sent>>
         \/ /\ k.kind \in {"arrow", "right"}
            /\ Write(Bytes("arrow", k.n, 2))
            /\ UNCHANGED <<paste, should_close>>
         \/ /\ k.kind = "right"
            /\ UNCHANGED <<paste, should_close, held, sent>>
  /\ named' = Tail(named)
  /\ UNCHANGED <<now, batch, chars, sizes, quiet, window, to_term, other>>

\* The end of process_keyboard.  A pty nobody holds open is an error: what is
\* left of the paste is dropped.
process_keyboard ==
  /\ now = "keys" /\ chars = <<>> /\ named = <<>>
  /\ Write(paste)
  /\ paste' = IF InUse THEN SubSeq(paste, held' - held + 1, Len(paste)) ELSE <<>>
  /\ now' = IF should_close # "no" THEN "ending" ELSE "reading"
  /\ UNCHANGED <<batch, chars, named, should_close, sizes, quiet, window,
                 to_term, other>>

\* Mutant: a shell that writes all the time is read all the time.
AfterRead_Greedy == "reading"

AfterRead == IF batch + 1 = Batch THEN "resizing" ELSE "reading"

\* bash_str_parse answers a question, or cannot when the pty is full.
Parse(out) ==
  held' = IF out.kind = "query" /\ InUse /\ held < Room THEN held + 1 ELSE held

\* Mutant: EIO is taken for nothing to read.
HungUp_Ignored == FALSE

\* Mutant: a hang-up ends the loop, whatever is left to read.
HungUp_Early == ~InUse

\* read() fails with EIO when nobody holds the terminal open and nothing is left.
HungUp == ~InUse /\ to_term = <<>>

\* A hang-up ends the loop, and so does an error of any other kind; with nothing to
\* read the round goes on.  A read that does not wait is not interrupted (EINTR).
Read ==
  /\ now = "reading"
  /\ \/ /\ HungUp
        /\ should_close' = "shell"
        /\ now' = "resizing" /\ batch' = 0
        /\ UNCHANGED <<held, to_term>>
     \/ /\ should_close' = "error"
        /\ now' = "resizing" /\ batch' = 0
        /\ UNCHANGED <<held, to_term>>
     \/ /\ ~HungUp /\ to_term = <<>>
        /\ now' = "resizing" /\ batch' = 0
        /\ UNCHANGED <<should_close, held, to_term>>
     \/ /\ ~HungUp /\ to_term # <<>>
        /\ Parse(Head(to_term))
        /\ to_term' = Tail(to_term)
        /\ now' = AfterRead
        /\ batch' = (batch + 1) % Batch
        /\ UNCHANGED should_close
  /\ UNCHANGED <<chars, named, paste, sizes, quiet, window, other, sent>>

\* Mutant: the comparison with 0.1 s is the wrong way round.
Due_Early(changed) == resize_pending /\ ~changed /\ ~quiet

\* The last change was some time ago; `changed' says that it is now.
Due(changed) == resize_pending /\ ~changed /\ quiet

\* The size is looked at, and given to the pty when it has not changed for
\* 0.1 s; no memory for the new screen ends the loop.  Then render_cells.
Resize ==
  /\ now = "resizing"
  /\ LET changed == win # screen_pixel
     IN  /\ screen_pixel' = win
         /\ quiet' = (quiet /\ ~changed)
         /\ IF Due(changed)
              THEN \/ /\ term_size' = Cells(win) /\ winsize' = Cells(win)
                      /\ resize_pending' = FALSE
                      /\ now' = "waiting"
                   \/ /\ Cells(win) # term_size
                      /\ now' = "ending"
                      /\ UNCHANGED <<term_size, winsize, resize_pending>>
              ELSE /\ resize_pending' = (resize_pending \/ changed)
                   /\ now' = "waiting"
                   /\ UNCHANGED <<term_size, winsize>>
  /\ UNCHANGED <<batch, input, window, held, to_term, other, sent>>

\* close(master_fd) and SIGHUP.
Cleanup ==
  /\ now = "ending"
  /\ now' = "reaping"
  /\ held' = 0 /\ to_term' = <<>>
  /\ UNCHANGED <<batch, input, sizes, quiet, window, other, sent>>

\* waitpid, and only then is the window destroyed.
Reap ==
  /\ now = "reaping" /\ ~shell
  /\ now' = "closed"
  /\ UNCHANGED <<batch, input, sizes, quiet, window, held, to_term, other, sent>>

Loop == Wake \/ character_callback \/ key_callback \/ process_keyboard \/ Read
          \/ Resize \/ Cleanup \/ Reap

-----------------------------------------------------------------------------
(* User, shell and time                                                    *)

IsOpen == now \notin {"reaping", "closed"}

Press(kind) ==
  /\ IsOpen /\ keys < MaxKeys
  /\ keys' = keys + 1
  /\ LET k == [kind |-> kind, n |-> keys + 1]
     IN  \/ kind = "char" /\ typed' = Append(typed, k) /\ UNCHANGED pressed
         \/ kind # "char" /\ pressed' = Append(pressed, k) /\ UNCHANGED typed
  /\ event' = TRUE
  /\ UNCHANGED <<now, batch, input, sizes, quiet, win, resizes, held,
                 to_term, other, sent>>

\* The pointer moves, a key is let go, or the window gets another size.
WindowEvent ==
  /\ IsOpen
  /\ event' = TRUE
  /\ \/ UNCHANGED <<win, resizes>>
     \/ /\ resizes < MaxResizes /\ resizes' = resizes + 1
        /\ win' \in Size \ {win}
  /\ UNCHANGED <<now, batch, input, sizes, quiet, typed, pressed, keys, held, to_term, other, sent>>

\* 0.1 s pass.
Rest ==
  /\ ~quiet
  /\ quiet' = TRUE
  /\ UNCHANGED <<now, batch, input, sizes, window, held, to_term, other, sent>>

ShellReads ==
  /\ IsOpen /\ shell /\ held > 0
  /\ held' = held - 1
  /\ UNCHANGED <<now, batch, input, sizes, quiet, window, to_term, other, sent>>

ShellWrites ==
  /\ IsOpen /\ InUse /\ Len(to_term) < RoomOut
  /\ \/ /\ to_term' = Append(to_term, [kind |-> "text"])
        /\ UNCHANGED asked
     \/ /\ asked < MaxAsked /\ asked' = asked + 1
        /\ to_term' = Append(to_term, [kind |-> "query"])
  /\ UNCHANGED <<now, batch, input, sizes, quiet, window, held, shell, job, sent>>

\* The shell ends and may leave a job behind; the job ends.
Others ==
  /\ \/ IsOpen /\ shell /\ shell' = FALSE /\ job' \in BOOLEAN
     \/ job /\ job' = FALSE /\ UNCHANGED shell
  /\ UNCHANGED <<now, batch, input, sizes, quiet, window, held, to_term, asked, sent>>

HangUp ==
  /\ now = "reaping" /\ shell
  /\ shell' = FALSE
  /\ UNCHANGED <<now, batch, input, sizes, quiet, window, held, to_term,
                 job, asked, sent>>

Next ==
  \/ Loop
  \/ \E kind \in Key : Press(kind)
  \/ WindowEvent \/ Rest
  \/ ShellReads \/ ShellWrites \/ Others \/ HangUp

Spec == Init /\ [][Next]_vars

\* The thread runs when it can, time passes, a running shell reads its input
\* and ends when it is hung up.  Nothing is asked of the user.
FairSpec ==
  /\ Spec
  /\ WF_vars(Loop) /\ WF_vars(Rest) /\ WF_vars(ShellReads) /\ WF_vars(HangUp)

-----------------------------------------------------------------------------
(* Properties                                                              *)

TypeOK ==
  /\ now \in {"waiting", "keys", "reading", "resizing", "ending", "reaping", "closed"}
  /\ batch \in 0 .. Batch
  /\ held \in 0 .. Room /\ Len(to_term) <= RoomOut
  /\ {resize_pending, quiet, event, shell, job} \subseteq BOOLEAN
  /\ should_close \in {"no", "key", "shell", "error"}
  /\ {win, screen_pixel} \subseteq Size
  /\ term_size \in Nat \ {0} /\ winsize = term_size

Came(bytes)  == {bytes[i] : i \in DOMAIN bytes}
Before(b, c) == b.src = c.src => b.key < c.key \/ (b.key = c.key /\ b.i < c.i)

\* What the shell gets of a paste is the whole of it, byte for byte, whatever
\* the pty takes at a time and whatever is typed meanwhile (kbd_io.c:29-40): no
\* byte comes without the one before it, and none stays the last of a cut paste
\* while the pty is open.  Characters stay in order, and so do the keys that send
\* sequences.
InputInOrder ==
  LET all    == sent \o paste
      pastes == {b \in Came(all) : b.src = "paste"}
  IN  /\ \A i, j \in DOMAIN all : i < j => Before(all[i], all[j])
      /\ \A b \in pastes : b.i # 1 => [b EXCEPT !.i = b.i - 1] \in pastes
      /\ InUse /\ IsOpen => \A b \in pastes : b.i # b.of => [b EXCEPT !.i = b.i + 1] \in pastes

\* When the shell's end closes the terminal, everything that was written has been
\* read (pty_make_v1.c:366-368).
OutputBeforeEnd == should_close = "shell" => to_term = <<>>

\* The window goes on sending events.
Awake == []<>event

\* Keys are looked at although the shell writes without end (pty_make_v1.c:361);
\* while events come and the shell reads, a paste comes to its end
\* (kbd_io.c:29-40).
InputArrives ==
  /\ typed \o pressed \o chars \o named # <<>>
       ~> typed \o pressed \o chars \o named = <<>> \/ ~IsOpen
  /\ Awake => (paste # <<>> ~> paste = <<>> \/ ~shell \/ ~IsOpen)

\* While events come, a terminal that nobody uses any more closes; one that is
\* to close always does (pty_make_v1.c:366, 422-446).
LoopCloses ==
  /\ Awake => (~shell /\ ~job ~> now = "closed")
  /\ now = "ending" ~> now = "closed"

\* While events come, the pty gets the size the window has come to
\* (pty_make_v1.c:402-418).
SizeSettles ==
  \A s \in Size : <>[](win = s) /\ Awake => <>[](winsize = Cells(s) \/ ~IsOpen)

\* pty_make_v1.c:214-216: because only a readable pty is read, the main loop is
\* never blocked; so output of the shell is read.
OutputIsRead == to_term # <<>> ~> to_term = <<>> \/ ~IsOpen
=============================================================================
