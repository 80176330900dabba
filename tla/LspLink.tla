------------------------------- MODULE LspLink -------------------------------
(***************************************************************************)
(* The editor and its language server: two processes and two pipes.  The   *)
(* editor has one thread: each round of its main loop reads at most one    *)
(* message of the server, then waits for a key and handles it.  A read     *)
(* waits for the whole message, a write for room in the pipe.              *)
(*                                                                         *)
(* A message occupies `Parts' places of a pipe that holds `Room' of them.  *)
(* The text of a document is the number of edits since it was opened.  The *)
(* server is external: it reads what it is sent, answers and reports in    *)
(* its own time, and may die at any moment.                                *)
(***************************************************************************)
EXTENDS Naturals, Sequences, SequencesExt

CONSTANTS
  File, NoFile,
  Room, Parts,
  Eager,       (* the server reads also while it waits for room to write     *)
  MaxText,     (* bound: edits of a document                                 *)
  MaxKeys      (* bound: keys that open a file or ask for completion         *)

ASSUME PipeAssumption ==
  /\ NoFile \notin File
  /\ Room \in Nat \ {0} /\ Parts \in Nat \ {0}
  /\ Eager \in BOOLEAN
  /\ MaxText \in Nat /\ MaxKeys \in Nat

VARIABLES
  (* struct lsp_process, and what main keeps *)
  now,         (* what the one thread of the editor does                     *)
  initialized,
  epfd,        (* whether the pipe from the server is still polled           *)
  path_name, file_update_counter,        (* update_data                      *)
  now_open_path_name, text,              (* the document that is edited      *)
  keys,
  (* the pipes, as sequences of parts *)
  to_server, from_server,
  out,         (* what the editor still has to write                         *)
  taken,       (* parts read of the message that is being read               *)
  framed,      (* FALSE behind a message of the server that was refused      *)
  (* the server *)
  alive, answers, doc

editor == <<initialized, epfd, path_name, file_update_counter,
            now_open_path_name, text, keys>>
pipes  == <<to_server, from_server, out, taken, framed>>
server == <<alive, answers, doc>>
vars   == <<now, editor, pipes, server>>

lsp_send_initialize == [kind |-> "initialize"]
lsp_make_msg        == [kind |-> "completion"]
lsp_send_did_open(f) == [kind |-> "didOpen", file |-> f, version |-> 1, text |-> 0]
lsp_send_did_change(f, version, n) ==
  [kind |-> "didChange", file |-> f, version |-> version, text |-> n]

Absent  == [version |-> 0, text |-> 0]
Message == [kind : {"initialize", "initialized", "completion"}]
             \cup [kind : {"didOpen", "didChange"}, file : File, version : Nat, text : Nat]
Answer  == [kind : {"result", "reply", "report"}]
Part(M) == [of : M, first : BOOLEAN, last : BOOLEAN]

\* The parts of a message: the first has its header, the last one completes it.
Parted(m) == [i \in 1 .. Parts |-> [of |-> m, first |-> i = 1, last |-> i = Parts]]

Init ==
  /\ now = "starting" /\ initialized = FALSE /\ epfd = FALSE
  /\ path_name = NoFile /\ file_update_counter = 0
  /\ now_open_path_name = NoFile /\ text = 0 /\ keys = 0
  /\ to_server = <<>> /\ from_server = <<>> /\ taken = 0 /\ framed = TRUE
  /\ out = Parted(lsp_send_initialize)
  /\ alive = TRUE /\ answers = <<>>
  /\ doc = [f \in File |-> Absent]

-----------------------------------------------------------------------------
(* The pipes                                                               *)

\* lsp_write_all: one write puts what fits.  Nothing ignores SIGPIPE: a write
\* to a pipe that nobody reads ends the process.
lsp_write_all ==
  /\ out # <<>>
  /\ \/ /\ alive /\ Len(to_server) < Room
        /\ to_server' = Append(to_server, Head(out))
        /\ out' = Tail(out)
        /\ UNCHANGED now
     \/ /\ ~alive
        /\ now' = "killed"
        /\ UNCHANGED <<to_server, out>>
  /\ UNCHANGED <<editor, from_server, taken, framed, server>>

\* What a successful write is followed by.
Sent ==
  /\ out = <<>>
  /\ \/ /\ now = "starting"
        /\ epfd' = TRUE /\ now' = "round"
        /\ UNCHANGED <<initialized, path_name, file_update_counter>>
     \/ /\ now = "confirming"
        /\ initialized' = TRUE /\ now' = "waiting"
        /\ UNCHANGED <<epfd, path_name, file_update_counter>>
     \/ /\ now = "opening"
        /\ path_name' = now_open_path_name /\ file_update_counter' = 1
        /\ now' = "round"
        /\ UNCHANGED <<initialized, epfd>>
     \/ /\ now = "changing"
        /\ file_update_counter' = file_update_counter + 1
        /\ now' = "round"
        /\ UNCHANGED <<initialized, epfd, path_name>>
     \/ /\ now = "asking"
        /\ now' = "round"
        /\ UNCHANGED <<initialized, epfd, path_name, file_update_counter>>
  /\ UNCHANGED <<now_open_path_name, text, keys, pipes, server>>

-----------------------------------------------------------------------------
(* A round of the main loop                                                *)

\* Mutant: a message is read whether there is one or not.
lsp_poll_events_Unasked ==
  /\ now = "round"
  /\ now' = IF epfd THEN "reading" ELSE "waiting"
  /\ UNCHANGED <<editor, pipes, server>>

\* epoll_wait: nothing to read, something to read (or the end of the pipe), or
\* a signal; after a signal the pipe is never polled again.
lsp_poll_events ==
  /\ now = "round"
  /\ \/ /\ ~epfd \/ (from_server = <<>> /\ alive)
        /\ now' = "waiting"
        /\ UNCHANGED epfd
     \/ /\ epfd /\ (from_server # <<>> \/ ~alive)
        /\ now' = "reading"
        /\ UNCHANGED epfd
     \/ /\ epfd
        /\ epfd' = FALSE
        /\ now' = "waiting"
  /\ UNCHANGED <<initialized, path_name, file_update_counter,
                 now_open_path_name, text, keys, pipes, server>>

\* lsp_read_message and lsp_handle_message: wait for each part; only the answer
\* to initialize is acted on.
Received(part) ==
  /\ framed' = TRUE
  /\ IF part.last
       THEN /\ taken' = 0
            /\ IF part.of.kind = "result" /\ ~initialized
                 THEN /\ out' = Parted([kind |-> "initialized"])
                      /\ now' = "confirming"
                 ELSE /\ now' = "waiting"
                      /\ UNCHANGED out
       ELSE /\ taken' = taken + 1
            /\ UNCHANGED <<now, out>>

\* A header without a length, or with more than there is memory for, is given up and
\* its text stays in the pipe.  It is then read as a header, up to the end of the
\* next one or to LSP_HEADER_MAX.
Refused(part) ==
  /\ taken = 0 /\ taken' = 0 /\ framed' = FALSE
  /\ \/ now' = "waiting"
     \/ ~part.first /\ UNCHANGED now
  /\ UNCHANGED out

lsp_read_message ==
  /\ now = "reading"
  /\ \/ /\ from_server # <<>>
        /\ from_server' = Tail(from_server)
        /\ \/ (Head(from_server).first \/ taken > 0) /\ Received(Head(from_server))
           \/ Refused(Head(from_server))
     \/ /\ from_server = <<>> /\ ~alive
        /\ taken' = 0 /\ now' = "waiting"
        /\ UNCHANGED <<from_server, out, framed>>
  /\ UNCHANGED <<editor, to_server, server>>

-----------------------------------------------------------------------------
(* Keys                                                                    *)

\* Return in the file browser opens a file and tells the server once it is
\* initialized; a path that is typed and the tree do not tell it.
handle_file_browse_screen_input(f, typed) ==
  /\ now = "waiting" /\ keys < MaxKeys
  /\ keys' = keys + 1
  /\ now_open_path_name' = f /\ text' = 0
  /\ IF initialized /\ ~typed
       THEN /\ out' = Parted(lsp_send_did_open(f))
            /\ now' = "opening"
       ELSE /\ now' = "round"
            /\ UNCHANGED out
  /\ UNCHANGED <<initialized, epfd, path_name, file_update_counter,
                 to_server, from_server, taken, framed, server>>

\* Mutants: the change is sent for whatever file is edited; its version repeats
\* the one before; its text is the one before the key.
Notified_Blind ==
  /\ initialized /\ file_update_counter >= 1 /\ now_open_path_name # NoFile

Notified ==
  /\ initialized /\ file_update_counter >= 1 /\ path_name = now_open_path_name

send_lsp_did_change_Repeated ==
  IF Notified
    THEN /\ out' = Parted(lsp_send_did_change(now_open_path_name, file_update_counter, text'))
         /\ now' = "changing"
    ELSE /\ now' = "round"
         /\ UNCHANGED out

send_lsp_did_change_Early ==
  IF Notified
    THEN /\ out' = Parted(lsp_send_did_change(now_open_path_name, file_update_counter + 1, text))
         /\ now' = "changing"
    ELSE /\ now' = "round"
         /\ UNCHANGED out

send_lsp_did_change ==
  IF Notified
    THEN /\ out' = Parted(lsp_send_did_change(now_open_path_name, file_update_counter + 1, text'))
         /\ now' = "changing"
    ELSE /\ now' = "round"
         /\ UNCHANGED out

\* A glyph and Backspace are followed by the notification; Return, Tab and an
\* accepted completion are not.
handle_edit_screen_input(notifies) ==
  /\ now = "waiting" /\ text < MaxText
  /\ text' = text + 1
  /\ IF notifies THEN send_lsp_did_change ELSE now' = "round" /\ UNCHANGED out
  /\ UNCHANGED <<initialized, epfd, path_name, file_update_counter,
                 now_open_path_name, keys, to_server, from_server, taken, framed, server>>

\* Control-space asks for completion, whatever the state of the link.
lsp_send_completion ==
  /\ now = "waiting" /\ keys < MaxKeys
  /\ keys' = keys + 1
  /\ out' = Parted(lsp_make_msg)
  /\ now' = "asking"
  /\ UNCHANGED <<initialized, epfd, path_name, file_update_counter,
                 now_open_path_name, text, to_server, from_server, taken, framed, server>>

Quit ==
  /\ now = "waiting"
  /\ now' = "ended"
  /\ UNCHANGED <<editor, pipes, server>>

-----------------------------------------------------------------------------
(* The server                                                              *)

Understood(m) ==
  /\ doc' = CASE m.kind \in {"didOpen", "didChange"} ->
                   [doc EXCEPT ![m.file] = [version |-> m.version, text |-> m.text]]
              [] OTHER -> doc
  /\ answers' = CASE m.kind = "initialize" -> answers \o Parted([kind |-> "result"])
                  [] m.kind = "completion" -> answers \o Parted([kind |-> "reply"])
                  [] m.kind \in {"didOpen", "didChange"} ->
                       answers \o Parted([kind |-> "report"])
                  [] OTHER -> answers

ServerReads ==
  /\ alive /\ to_server # <<>>
  /\ Eager \/ answers = <<>>
  /\ to_server' = Tail(to_server)
  /\ IF Head(to_server).last THEN Understood(Head(to_server).of)
                             ELSE UNCHANGED <<doc, answers>>
  /\ UNCHANGED <<now, editor, from_server, out, taken, framed, alive>>

ServerWrites ==
  /\ alive /\ answers # <<>> /\ Len(from_server) < Room
  /\ from_server' = Append(from_server, Head(answers))
  /\ answers' = Tail(answers)
  /\ UNCHANGED <<now, editor, to_server, out, taken, framed, alive, doc>>

\* The server is not installed, exits or crashes.
ServerDies ==
  /\ alive
  /\ alive' = FALSE
  /\ UNCHANGED <<now, editor, pipes, answers, doc>>

Running == now \notin {"ended", "killed"}

Next ==
  /\ Running
  /\ \/ lsp_write_all \/ Sent \/ lsp_poll_events \/ lsp_read_message
     \/ \E f \in File, typed \in BOOLEAN : handle_file_browse_screen_input(f, typed)
     \/ \E notifies \in BOOLEAN : handle_edit_screen_input(notifies)
     \/ lsp_send_completion \/ Quit
     \/ ServerReads \/ ServerWrites \/ ServerDies

Spec == Init /\ [][Next]_vars

\* The thread of the editor goes on; a living server reads what it is sent and
\* finishes the messages it has begun.  Nothing is assumed of the user.
FairSpec ==
  /\ Spec
  /\ WF_vars(Running /\ (lsp_write_all \/ Sent \/ lsp_poll_events \/ lsp_read_message))
  /\ WF_vars(Running /\ ServerReads)
  /\ WF_vars(Running /\ ServerWrites)

-----------------------------------------------------------------------------
(* Properties                                                              *)

TypeOK ==
  /\ now \in {"starting", "round", "reading", "confirming", "waiting",
              "opening", "changing", "asking", "ended", "killed"}
  /\ initialized \in BOOLEAN /\ epfd \in BOOLEAN /\ alive \in BOOLEAN
  /\ path_name \in File \cup {NoFile} /\ now_open_path_name \in File \cup {NoFile}
  /\ file_update_counter \in Nat /\ text \in Nat /\ keys \in Nat
  /\ to_server \in Seq(Part(Message)) /\ Len(to_server) <= Room
  /\ from_server \in Seq(Part(Answer)) /\ Len(from_server) <= Room
  /\ out \in Seq(Part(Message)) /\ taken \in 0 .. Parts - 1 /\ framed \in BOOLEAN
  /\ answers \in Seq(Part(Answer))
  /\ doc \in [File -> [version : Nat, text : Nat]]

\* Once the server has read all it was sent, it has the version of the document
\* that the editor counts (file_update_counter), whatever files were opened
\* meanwhile, by the browser or by a typed path.
VersionsAgree ==
  (/\ now \in {"round", "reading", "waiting"} /\ alive
   /\ to_server = <<>> /\ path_name # NoFile)
  => doc[path_name].version = file_update_counter

\* The server sees every document opened first and then changed one version at
\* a time (lsp_send_did_open, lsp_send_did_change), even if keys notify it only
\* now and then and files are opened that it is not told of.
ChangesFollow ==
  [][\A f \in File :
       doc'[f] # doc[f] =>
         \/ doc'[f] = [version |-> 1, text |-> 0]
         \/ doc[f].version # 0 /\ doc'[f].version = doc[f].version + 1]_vars

\* What a glyph or Backspace makes of the text gets to the server if it lives and
\* the editor is not left before: nothing on the way waits for ever, and the text
\* is the one after the key.
ChangesArrive ==
  \A f \in File, n \in 0 .. MaxText :
    (now = "changing" /\ now_open_path_name = f /\ text = n)
      ~> (doc[f].text = n \/ ~alive \/ ~Running)

\* Every key is answered: the editor comes back to wait for the next one, though
\* it reads and writes with calls that wait (language_server_communication.c:335);
\* only behind a message it has refused may it wait for the server to say more.
KeysAnswered == Running ~> (now = "waiting" \/ ~Running \/ ~framed)

\* main says of its loop that the handlers end it (main.c:439, 547), lsp_write_all
\* that a write that fails returns -1: a server that dies is no end of the editor.
OnlyTheUserEnds == now # "killed"
=============================================================================
