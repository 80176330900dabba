--------------------------- MODULE EditorSession ---------------------------
(***************************************************************************)
(* A session of the editor: its screens and the log that tells where each  *)
(* of them returns to, the dialogs that open and save files, and the files *)
(* themselves.  A save is one call in the code and several system calls    *)
(* underneath: other programs, the end of the process and a loss of power  *)
(* come between them.                                                      *)
(*                                                                         *)
(* A text is one of a few values; typing makes any other of them.          *)
(***************************************************************************)
EXTENDS Naturals, Sequences, SequencesExt

CONSTANTS
  Path, NoPath,
  Text, Blank,
  Absent, Other,    (* no file; a directory or a special file                *)
  Torn,             (* part of a text                                        *)
  LogStorage,       (* screen_state_log_storage                              *)
  MaxOthers,        (* bound: changes made by other programs                 *)
  MaxCrashes        (* bound: ends of the process, losses of power           *)

ASSUME SessionAssumption ==
  /\ NoPath \notin Path /\ Blank \in Text
  /\ Absent \notin Text /\ Other \notin Text /\ Torn \notin Text
  /\ Absent # Other /\ Torn \notin {Absent, Other}
  /\ LogStorage \in Nat /\ LogStorage >= 3
  /\ MaxOthers \in Nat /\ MaxCrashes \in Nat

Screen == {"start_menu_screen", "edit_screen", "file_browse_screen",
           "line_jump_mode", "error_screen", "ask_make_file_mode",
           "setting_screen", "filetree_screen"}

VARIABLES
  now,                 (* the thread: running, saving, ended                *)
  log,                 (* screen_log, newest last                            *)
  has_plugin,          (* the start menu could be loaded                     *)
  ask_make_file,       (* setting                                            *)
  path_input_mode, value_input_mode,
  is_input_scene, new_file_name,         (* make_file_mode_status            *)
  now_open_path_name, text,
  save,                (* the step of save_file                              *)
  from_dialog,         (* whether the dialog saves                           *)
  tmp, tmp_safe,
  disk,
  lost,                (* what a loss of power may bring back                *)
  others, crashes

settings == <<has_plugin, ask_make_file>>
modes    == <<path_input_mode, value_input_mode>>
dialog   == <<is_input_scene, new_file_name>>
document == <<now_open_path_name, text>>
saving   == <<save, from_dialog, tmp, tmp_safe>>
files    == <<disk, lost>>
bounds   == <<others, crashes>>
vars == <<now, log, settings, modes, dialog, document, saving, files, bounds>>

-----------------------------------------------------------------------------
(* The log of screens                                                      *)

\* A screen does not follow itself; a full log drops the oldest.
editor_set_screen_state(l, screen) ==
  IF l # <<>> /\ Last(l) = screen THEN l
  ELSE IF Len(l) >= LogStorage THEN Append(Tail(l), screen)
       ELSE Append(l, screen)

editor_get_screen_state_log(l, offset) ==
  IF offset >= Len(l) THEN "screen_state_log_error" ELSE l[Len(l) - offset]

Now      == editor_get_screen_state_log(log, 0)
Before   == editor_get_screen_state_log(log, 1)
Before_2 == editor_get_screen_state_log(log, 2)

\* The next screen; the next round of the main loop.
Show(screen) == log' = editor_set_screen_state(log, screen) /\ UNCHANGED now
Stay         == UNCHANGED <<now, log>>

\* editor_error_screen
Fail(l) == editor_set_screen_state(l, "error_screen")

\* The setting show_start_menu, and whether the plug-in could be loaded.
Opening == {<<TRUE, <<"start_menu_screen">> >>,
            <<FALSE, <<"start_menu_screen", "error_screen">> >>,
            <<FALSE, <<"edit_screen">> >>}

Init ==
  /\ now = "running"
  /\ ask_make_file \in BOOLEAN
  /\ \E o \in Opening : has_plugin = o[1] /\ log = o[2]
  /\ path_input_mode = FALSE /\ value_input_mode = FALSE
  /\ is_input_scene = FALSE /\ new_file_name = NoPath
  /\ now_open_path_name = NoPath /\ text = Blank
  /\ save = "idle" /\ from_dialog = FALSE
  /\ tmp = "none" /\ tmp_safe = FALSE
  /\ disk \in [Path -> {Blank, Absent, Other}]
  /\ lost = [p \in Path |-> {}]
  /\ others = 0 /\ crashes = 0

Quit ==
  /\ now' = "ended"
  /\ UNCHANGED <<log, settings, modes, dialog, document, saving, files, bounds>>

-----------------------------------------------------------------------------
(* Screens that do not touch files                                         *)

\* A new file has no name; the text is left as it is.
handle_start_menu_input ==
  /\ now = "running" /\ Now = "start_menu_screen"
  /\ \/ /\ ~has_plugin
        /\ Show("edit_screen")
        /\ UNCHANGED document
     \/ /\ has_plugin
        /\ \/ Stay /\ UNCHANGED document
           \/ /\ \E s \in {"file_browse_screen", "setting_screen", "edit_screen"} : Show(s)
              /\ UNCHANGED document
           \/ /\ Show("edit_screen")
              /\ now_open_path_name' = NoPath
              /\ UNCHANGED text
  /\ UNCHANGED <<settings, modes, dialog, saving, files, bounds>>

\* Mutant: an error returns to the start menu if it was ever shown.
handle_error_screen_input_Recalling ==
  /\ now = "running" /\ Now = "error_screen"
  /\ Show(IF \E i \in 1 .. Len(log) : log[i] = "start_menu_screen"
            THEN "start_menu_screen" ELSE "edit_screen")
  /\ UNCHANGED <<settings, modes, dialog, document, saving, files, bounds>>

handle_error_screen_input ==
  /\ now = "running" /\ Now = "error_screen"
  /\ Show(IF \/ Before = "start_menu_screen"
             \/ Before = "file_browse_screen" /\ Before_2 = "start_menu_screen"
            THEN "start_menu_screen" ELSE "edit_screen")
  /\ UNCHANGED <<settings, modes, dialog, document, saving, files, bounds>>

handle_line_jump_mode_input ==
  /\ now = "running" /\ Now = "line_jump_mode"
  /\ Show("edit_screen")
  /\ UNCHANGED <<settings, modes, dialog, document, saving, files, bounds>>

\* A value is typed and left by Return; Tab goes back to the screen before.
handle_settings_screen_input ==
  /\ now = "running" /\ Now = "setting_screen"
  /\ \/ /\ Stay
        /\ value_input_mode' = ~value_input_mode
     \/ /\ ~value_input_mode
        /\ Show(IF Before = "screen_state_log_error" THEN "error_screen" ELSE Before)
        /\ UNCHANGED value_input_mode
  /\ UNCHANGED <<settings, path_input_mode, dialog, document,
                 saving, files, bounds>>

\* A completion window that does not fit is an error.
draw_editor_complete_word_box ==
  /\ now = "running" /\ Now = "edit_screen"
  /\ log' = Fail(log) /\ now' = "running"
  /\ UNCHANGED <<settings, modes, dialog, document, saving, files, bounds>>

-----------------------------------------------------------------------------
(* Opening a file                                                          *)

\* load_screen_size and restore_edit_screen: the name is the new one already;
\* if the file cannot be read again the text stays, and the error screen is
\* left at once.
load_screen_size(p) ==
  \/ /\ text' = disk[p]
     /\ log' = editor_set_screen_state(log, "edit_screen")
  \/ /\ log' = editor_set_screen_state(Fail(log), "edit_screen")
     /\ UNCHANGED text

\* What is not there or cannot be opened is an error; a directory is entered.
load_file(p) ==
  \/ /\ log' = Fail(log)
     /\ UNCHANGED <<document, path_input_mode>>
  \/ /\ disk[p] = Other
     /\ UNCHANGED <<log, document, path_input_mode>>
  \/ /\ disk[p] \notin {Absent, Other}
     /\ now_open_path_name' = p
     /\ load_screen_size(p)
     /\ path_input_mode' = FALSE

\* The list: control-f, i and Tab leave it; Return opens what is selected, which
\* may be gone since the list was read.
handle_file_browse_screen_input ==
  /\ now = "running" /\ Now = "file_browse_screen" /\ ~path_input_mode
  /\ \/ /\ Show("edit_screen")
        /\ UNCHANGED <<path_input_mode, document>>
     \/ /\ path_input_mode' = TRUE
        /\ Stay
        /\ UNCHANGED document
     \/ /\ Show(IF Before = "start_menu_screen" THEN Before ELSE "edit_screen")
        /\ UNCHANGED <<path_input_mode, document>>
     \/ /\ \E p \in Path : load_file(p)
        /\ UNCHANGED now
  /\ UNCHANGED <<settings, value_input_mode, dialog, saving, files, bounds>>

get_path_state(p) ==
  CASE disk[p] = Absent -> "unkown" [] disk[p] = Other -> "folder" [] OTHER -> "file"

\* The tree: only what is a file when it is pressed is opened.  If it cannot be read
\* again the error screen stays, over the old text under the new name.
filetree_mouse_event(l) ==
  \E p \in Path :
    /\ get_path_state(p) = "file"
    /\ \/ log' = Fail(l) /\ UNCHANGED document
       \/ /\ now_open_path_name' = p
          /\ \/ text' = disk[p] /\ log' = l
             \/ log' = Fail(l) /\ UNCHANGED text

handle_filetree_screen_input ==
  /\ now = "running" /\ Now = "filetree_screen"
  /\ \/ /\ \E s \in {"edit_screen", "line_jump_mode"} : Show(s)
        /\ UNCHANGED document
     \/ filetree_mouse_event(log) /\ UNCHANGED now
  /\ UNCHANGED <<settings, modes, dialog, saving, files, bounds>>

\* The field for a path: a file is opened, anything else is completed from the
\* directory, which may fail; control-f leaves the field open.
now_input_path_open ==
  /\ now = "running" /\ Now = "file_browse_screen" /\ path_input_mode
  /\ \/ /\ Show("edit_screen")
        /\ UNCHANGED <<path_input_mode, document>>
     \/ /\ \E p \in Path : IF get_path_state(p) = "file" THEN load_file(p)
                            ELSE log' = Fail(log) /\ UNCHANGED <<path_input_mode, document>>
        /\ UNCHANGED now
  /\ UNCHANGED <<settings, value_input_mode, dialog, saving, files, bounds>>

-----------------------------------------------------------------------------
(* Editing and saving                                                      *)

\* save_file without a name: ask for one, or fail.
save_file_Unnamed ==
  /\ Show(IF ask_make_file THEN "ask_make_file_mode" ELSE "error_screen")
  /\ UNCHANGED saving

handle_edit_screen_input ==
  /\ now = "running" /\ Now = "edit_screen"
  /\ \/ /\ \E s \in {"line_jump_mode", "file_browse_screen", "filetree_screen"} : Show(s)
        /\ UNCHANGED <<document, saving>>
     \/ /\ filetree_mouse_event(editor_set_screen_state(log, "filetree_screen"))
        /\ UNCHANGED <<now, saving>>
     \/ /\ \E t \in Text \ {text} : text' = t
        /\ Stay
        /\ UNCHANGED <<now_open_path_name, saving>>
     \/ /\ now_open_path_name = NoPath              \* control-s
        /\ save_file_Unnamed
        /\ UNCHANGED document
     \/ /\ now_open_path_name # NoPath
        /\ save' = "checking" /\ from_dialog' = FALSE
        /\ now' = "saving"
        /\ UNCHANGED <<log, document, tmp, tmp_safe>>
  /\ UNCHANGED <<settings, modes, dialog, files, bounds>>

\* The name that is typed becomes the name of the document before it is saved.
handle_ask_make_file_mode_input ==
  /\ now = "running" /\ Now = "ask_make_file_mode"
  /\ \/ /\ ~is_input_scene
        /\ is_input_scene' = TRUE
        /\ Stay
        /\ UNCHANGED <<new_file_name, document, saving>>
     \/ /\ ~is_input_scene
        /\ Show("edit_screen")
        /\ UNCHANGED <<dialog, document, saving>>
     \/ /\ is_input_scene
        /\ \E p \in Path \cup {NoPath} : p # new_file_name /\ new_file_name' = p
        /\ Stay
        /\ UNCHANGED <<is_input_scene, document, saving>>
     \/ /\ is_input_scene /\ new_file_name # NoPath
        /\ log' = editor_set_screen_state(log, "edit_screen")
        /\ now_open_path_name' = new_file_name
        /\ save' = "checking" /\ from_dialog' = TRUE
        /\ now' = "saving"
        /\ UNCHANGED <<dialog, text, tmp, tmp_safe>>
  /\ UNCHANGED <<settings, modes, files, bounds>>

\* Mutant: a save that fails takes the name back that was typed.
SaveFails_Unnamed ==
  /\ log' = Fail(log)
  /\ save' = "idle" /\ now' = "running"
  /\ tmp' = "none" /\ tmp_safe' = FALSE
  /\ now_open_path_name' = IF from_dialog THEN NoPath ELSE now_open_path_name
  /\ from_dialog' = FALSE
  /\ UNCHANGED <<settings, modes, dialog, text, files, bounds>>

\* A save that fails removes its temporary file and shows the error screen; the
\* dialog then keeps its scene and its name.
SaveFails ==
  /\ log' = Fail(log)
  /\ save' = "idle" /\ now' = "running"
  /\ tmp' = "none" /\ tmp_safe' = FALSE /\ from_dialog' = FALSE
  /\ UNCHANGED <<settings, modes, dialog, document, files, bounds>>

Continues ==
  UNCHANGED <<now, log, settings, modes, dialog, document, from_dialog, files, bounds>>

\* The text is converted; what is not there is made, what is no regular file is
\* left alone.
SaveChecks ==
  /\ save = "checking"
  /\ \/ /\ disk[now_open_path_name] # Other
        /\ save' = "making"
        /\ UNCHANGED <<tmp, tmp_safe>> /\ Continues
     \/ SaveFails

\* mkstemp in the directory of the file
SaveMakes ==
  /\ save = "making"
  /\ \/ /\ tmp' = "part" /\ tmp_safe' = FALSE
        /\ save' = "writing"
        /\ Continues
     \/ SaveFails

\* fwrite, fchmod and fflush
SaveWrites ==
  /\ save = "writing"
  /\ \/ /\ tmp' = "whole"
        /\ save' = "syncing"
        /\ UNCHANGED tmp_safe /\ Continues
     \/ SaveFails

\* Mutant: the data is not synchronised.
SaveSyncs_Not ==
  /\ save = "syncing"
  /\ save' = "renaming"
  /\ UNCHANGED <<tmp, tmp_safe>> /\ Continues

\* fsync and fclose
SaveSyncs ==
  /\ save = "syncing"
  /\ \/ /\ tmp_safe' = TRUE
        /\ save' = "renaming"
        /\ UNCHANGED tmp /\ Continues
     \/ SaveFails

\* The dialog closes once it has saved.
SaveDone ==
  /\ save' = "idle" /\ now' = "running"
  /\ tmp' = "none" /\ tmp_safe' = FALSE
  /\ from_dialog' = FALSE
  /\ IF from_dialog
       THEN is_input_scene' = FALSE /\ new_file_name' = NoPath
       ELSE UNCHANGED dialog

\* Mutant: the rename's result is not looked at.
SaveRenames_Unchecked ==
  /\ save = "renaming"
  /\ SaveDone
  /\ UNCHANGED <<log, settings, modes, document, files, bounds>>

\* What has taken the place of the file meanwhile is replaced, unless it is a
\* directory.  The directory is not synchronised: the old file may come back.
SaveRenames ==
  /\ save = "renaming"
  /\ \/ /\ disk[now_open_path_name] # Other
        /\ disk' = [disk EXCEPT ![now_open_path_name] =
                                  IF tmp = "whole" THEN text ELSE Torn]
        /\ lost' = [lost EXCEPT ![now_open_path_name] =
                      @ \cup {disk[now_open_path_name]}
                        \cup (IF tmp_safe THEN {} ELSE {Torn})]
        /\ SaveDone
        /\ UNCHANGED <<log, settings, modes, now_open_path_name, text, bounds>>
     \/ SaveFails

-----------------------------------------------------------------------------
(* Other programs, the end of the process and of power                     *)

\* They write whole texts and see to it that these stay.
OthersWrite(p, t) ==
  /\ others < MaxOthers /\ disk[p] # t /\ disk[p] # Other
  /\ others' = others + 1
  /\ disk' = [disk EXCEPT ![p] = t]
  /\ lost' = [lost EXCEPT ![p] = {}]
  /\ UNCHANGED <<now, log, settings, modes, dialog, document, saving, crashes>>

Settle(p) ==
  /\ lost[p] # {}
  /\ lost' = [lost EXCEPT ![p] = {}]
  /\ UNCHANGED <<now, log, settings, modes, dialog, document, saving, disk, bounds>>

\* The process ends between two steps and is started again; the temporary file
\* it had is nobody's any more.
Restarted ==
  /\ crashes < MaxCrashes
  /\ crashes' = crashes + 1
  /\ now' = "running"
  /\ \E o \in Opening : has_plugin' = o[1] /\ log' = o[2]
  /\ path_input_mode' = FALSE /\ value_input_mode' = FALSE
  /\ is_input_scene' = FALSE /\ new_file_name' = NoPath
  /\ now_open_path_name' = NoPath /\ text' = Blank
  /\ save' = "idle" /\ from_dialog' = FALSE
  /\ tmp' = "none" /\ tmp_safe' = FALSE
  /\ UNCHANGED <<ask_make_file, others>>

Killed == Restarted /\ UNCHANGED files

PowerLoss ==
  /\ Restarted
  /\ disk' \in [Path -> Text \cup {Absent, Other, Torn}]
  /\ \A p \in Path : disk'[p] \in {disk[p]} \cup lost[p]
  /\ lost' = [p \in Path |-> {}]

\* Keys that end the editor: q, in the field for a path too.
QuitKey ==
  \/ now = "running" /\ Now = "start_menu_screen" /\ has_plugin
  \/ /\ now = "running"
     /\ \/ Now \in {"edit_screen", "filetree_screen"}
        \/ Now = "setting_screen" /\ ~value_input_mode
        \/ Now = "file_browse_screen" /\ path_input_mode

Screens ==
  \/ handle_start_menu_input \/ handle_error_screen_input
  \/ handle_line_jump_mode_input \/ handle_filetree_screen_input
  \/ handle_settings_screen_input \/ draw_editor_complete_word_box
  \/ handle_file_browse_screen_input \/ now_input_path_open \/ handle_edit_screen_input
  \/ handle_ask_make_file_mode_input
  \/ QuitKey /\ Quit

Saves == SaveChecks \/ SaveMakes \/ SaveWrites \/ SaveSyncs \/ SaveRenames

Outside ==
  \/ \E p \in Path : (\E t \in Text \cup {Absent} : OthersWrite(p, t)) \/ Settle(p)
  \/ Killed \/ PowerLoss

Next == now # "ended" /\ (Screens \/ Saves \/ Outside)

Spec == Init /\ [][Next]_vars

-----------------------------------------------------------------------------
(* Properties                                                              *)

LogType(l) == l \in Seq(Screen) /\ Len(l) \in 1 .. LogStorage

\* The log holds one to LogStorage screens, name and text are of a file or of
\* none, and a file holds a whole text, or is none, also after a loss of power
\* (txt_editor.h:278-321, txt_editor_file.c:584-685).
TypeOK ==
  /\ now \in {"running", "saving", "ended"}
  /\ LogType(log)
  /\ has_plugin \in BOOLEAN /\ ask_make_file \in BOOLEAN
  /\ path_input_mode \in BOOLEAN
  /\ value_input_mode \in BOOLEAN /\ is_input_scene \in BOOLEAN
  /\ new_file_name \in Path \cup {NoPath}
  /\ now_open_path_name \in Path \cup {NoPath}
  /\ text \in Text
  /\ save \in {"idle", "checking", "making", "writing", "syncing", "renaming"}
  /\ from_dialog \in BOOLEAN
  /\ tmp \in {"none", "part", "whole"} /\ tmp_safe \in BOOLEAN
  /\ disk \in [Path -> Text \cup {Absent, Other}]
  /\ lost \in [Path -> SUBSET (Text \cup {Absent, Other})]

\* Whoever reads a file finds a text somebody put there whole, also after the
\* editor was killed or the power was lost in the middle of a save
\* (txt_editor_file.c:605).
Atomic == INSTANCE AtomicFile WITH store <- disk, Whole <- Text \cup {Absent, Other}
FilesAreAtomic == Atomic!Spec

\* A save that is over has put the text under the name of the document, or the
\* error screen says that it has not, and the file is as it was; no way through
\* it leaves the temporary file in the directory (txt_editor_file.c:584-685).
SaveTold ==
  [][save # "idle" /\ save' = "idle" /\ crashes' = crashes =>
       /\ tmp' = "none"
       /\ \/ /\ disk'[now_open_path_name] = text
             /\ now_open_path_name' = now_open_path_name /\ text' = text
          \/ Last(log') = "error_screen" /\ disk' = disk]_vars

\* The start menu, where a new file takes its name from the document and leaves
\* the text, never comes back once something was opened or typed: errors, the
\* file browser and the settings return to it only along the way they came.
MenuComesFirst ==
  Last(log) = "start_menu_screen" => now_open_path_name = NoPath /\ text = Blank

\* The dialog asks before it takes a name, though a save that fails leaves its
\* scene and its old name behind.
DialogAsks ==
  [][Last(log') = "ask_make_file_mode" /\ Last(log) # "ask_make_file_mode"
       => ~is_input_scene']_vars

\* The comment on load_all_lines (txt_editor_file.c:402): a file that cannot be
\* read is an error screen.
ReadFailureIsShown ==
  [][save = "idle" /\ save' = "idle" /\ now_open_path_name' \in Path
     /\ now_open_path_name' # now_open_path_name /\ text' # disk[now_open_path_name']
       => Last(log') = "error_screen"]_vars
=============================================================================
