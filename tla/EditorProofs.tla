----------------------------- MODULE EditorProofs -----------------------------
(***************************************************************************)
(* What holds of the editor for every value of the constants.              *)
(*                                                                         *)
(* Of a session (EditorSession), for every number of files and texts and   *)
(* every length of the log of screens from three on: a save is atomic, ends *)
(* with the text in the file or with the error screen, leaves no temporary *)
(* file, and the start menu never returns to a document that was opened or *)
(* typed.                                                                  *)
(*                                                                         *)
(* Of the buffer (TextBuffer), for all files, widths of the view and sizes *)
(* of rows: no two rows ever share a cell, and a glyph of two columns is   *)
(* never left without its second cell, nor that without it.  The handlers  *)
(* are functions on ed, so most lemmas say of one of them what it makes of *)
(* any buffer s with IsBuf(s).                                             *)
(***************************************************************************)
EXTENDS EditorSession, TextBuffer, FiniteSetTheorems, FunctionTheorems, WellFoundedInduction,
        TLAPS

-----------------------------------------------------------------------------
(* Part 1: a session.                                                      *)

-----------------------------------------------------------------------------
(* The inductive invariant                                                 *)

\* A save has a name and the edit screen under it; the temporary file is written
\* before it is synchronised, and that before it is renamed.
SavingOK ==
  /\ save = "idle" => tmp = "none"
  /\ save # "idle" => /\ now = "saving" /\ Now = "edit_screen"
                      /\ now_open_path_name \in Path
  /\ save \in {"syncing", "renaming"} => tmp = "whole"
  /\ save = "renaming" => tmp_safe

\* The last three screens from which a way leads back to the start menu.
LeadsBack(last, before, before_2) ==
  \/ last = "start_menu_screen"
  \/ before = "start_menu_screen"
     /\ last \in {"file_browse_screen", "setting_screen", "error_screen"}
  \/ last = "error_screen" /\ before = "file_browse_screen" /\ before_2 = "start_menu_screen"

MenuOK == LeadsBack(Now, Before, Before_2) => now_open_path_name = NoPath /\ text = Blank

\* The scene in which a name is typed outlasts its screen only in a document that
\* has a name.
DialogOK == is_input_scene => Now = "ask_make_file_mode" \/ now_open_path_name # NoPath

\* Only the menu leads to the settings, which return to it.
SettingsOK == Now = "setting_screen" => Before = "start_menu_screen"

IInv == TypeOK /\ SavingOK /\ MenuOK /\ DialogOK /\ SettingsOK

-----------------------------------------------------------------------------
(* The log of screens                                                      *)

\* What is read from the log is a screen, or the word for none (txt_editor.h:278).
LEMMA LogRead ==
  ASSUME NEW l, LogType(l)
  PROVE  /\ editor_get_screen_state_log(l, 0) = Last(l)
         /\ editor_get_screen_state_log(l, 0) \in Screen
         /\ \A k \in 1 .. 2 :
              editor_get_screen_state_log(l, k) \in Screen \cup {"screen_state_log_error"}
<1>1. /\ Len(l) \in Nat /\ Len(l) >= 1
      /\ \A i \in 1 .. Len(l) : l[i] \in Screen
  BY SessionAssumption DEF LogType
<1>2. /\ editor_get_screen_state_log(l, 0) = l[Len(l)]
      /\ Last(l) = l[Len(l)]
  BY <1>1 DEF editor_get_screen_state_log, Last
<1>3. ASSUME NEW k \in 1 .. 2
      PROVE  editor_get_screen_state_log(l, k) \in Screen \cup {"screen_state_log_error"}
  BY <1>1, <1>3 DEF editor_get_screen_state_log
<1> QED BY <1>1, <1>2, <1>3

\* A screen that is set is the last one; the two before it are kept, also when
\* the log is full and drops its oldest entry (txt_editor.h:302).
LEMMA LogSet ==
  ASSUME NEW l, LogType(l), NEW s \in Screen
  PROVE  LET n == editor_set_screen_state(l, s)
         IN  /\ LogType(n)
             /\ editor_get_screen_state_log(n, 0) = s
             /\ Last(n) = s
             /\ IF editor_get_screen_state_log(l, 0) = s THEN n = l
                ELSE /\ editor_get_screen_state_log(n, 1) = editor_get_screen_state_log(l, 0)
                     /\ editor_get_screen_state_log(n, 2) = editor_get_screen_state_log(l, 1)
<1> DEFINE n == editor_set_screen_state(l, s)
<1>1. /\ Len(l) \in Nat /\ 1 <= Len(l) /\ Len(l) <= LogStorage
      /\ l # <<>> /\ LogStorage \in Nat /\ LogStorage >= 3 /\ l \in Seq(Screen)
  BY SessionAssumption DEF LogType
<1>2. editor_get_screen_state_log(l, 0) = l[Len(l)] /\ Last(l) = l[Len(l)]
  BY <1>1 DEF editor_get_screen_state_log, Last
<1>3. CASE Last(l) = s
  <2>1. n = l
    BY <1>1, <1>3 DEF editor_set_screen_state
  <2> QED BY <1>2, <1>3, <2>1
<1>4. CASE Last(l) # s /\ Len(l) < LogStorage
  <2>1. n = Append(l, s)
    BY <1>1, <1>4 DEF editor_set_screen_state
  <2>2. /\ n \in Seq(Screen) /\ Len(n) = Len(l) + 1 /\ n[Len(n)] = s
        /\ \A i \in 1 .. Len(l) : n[i] = l[i]
    BY <1>1, <2>1
  <2>3. Last(n) = s /\ editor_get_screen_state_log(n, 0) = s
    BY <1>1, <2>2 DEF Last, editor_get_screen_state_log
  <2>4. editor_get_screen_state_log(n, 1) = l[Len(l)]
    BY <1>1, <2>2 DEF editor_get_screen_state_log
  <2>5. editor_get_screen_state_log(n, 2) = editor_get_screen_state_log(l, 1)
    BY <1>1, <2>2 DEF editor_get_screen_state_log
  <2>6. LogType(n)
    BY <1>1, <1>4, <2>2 DEF LogType
  <2> QED BY <1>2, <1>4, <2>3, <2>4, <2>5, <2>6
<1>5. CASE Last(l) # s /\ Len(l) = LogStorage
  <2>1. n = Append(Tail(l), s)
    BY <1>1, <1>5 DEF editor_set_screen_state
  <2>2. /\ Tail(l) \in Seq(Screen) /\ Len(Tail(l)) = Len(l) - 1
        /\ \A i \in 1 .. Len(l) - 1 : Tail(l)[i] = l[i + 1]
    BY <1>1
  <2>3. /\ n \in Seq(Screen) /\ Len(n) = Len(l) /\ n[Len(n)] = s
        /\ \A i \in 1 .. Len(l) - 1 : n[i] = l[i + 1]
    BY <1>1, <2>1, <2>2
  <2>4. Last(n) = s /\ editor_get_screen_state_log(n, 0) = s
    BY <1>1, <2>3 DEF Last, editor_get_screen_state_log
  <2>5. editor_get_screen_state_log(n, 1) = l[Len(l)]
    BY <1>1, <1>5, <2>3 DEF editor_get_screen_state_log
  <2>6. editor_get_screen_state_log(n, 2) = editor_get_screen_state_log(l, 1)
    BY <1>1, <1>5, <2>3 DEF editor_get_screen_state_log
  <2>7. LogType(n)
    BY <1>1, <2>3 DEF LogType
  <2> QED BY <1>2, <1>5, <2>4, <2>5, <2>6, <2>7
<1> QED BY <1>1, <1>3, <1>4, <1>5

\* The same of the log that the next state has (txt_editor.h:302).
LEMMA Shown ==
  ASSUME TypeOK, NEW s \in Screen, log' = editor_set_screen_state(log, s)
  PROVE  /\ LogType(log')
         /\ Now' = s /\ Last(log') = s
         /\ Now = s => Before' = Before /\ Before_2' = Before_2
         /\ Now # s => Before' = Now /\ Before_2' = Before
<1>1. LogType(log)
  BY DEF TypeOK
<1> QED BY <1>1, LogSet DEF Now, Before, Before_2

\* What was read from the log stays when the log does.
LEMMA LogKept ==
  ASSUME UNCHANGED log
  PROVE  Now' = Now /\ Before' = Before /\ Before_2' = Before_2 /\ LogType(log)' = LogType(log)
BY DEF Now, Before, Before_2, LogType, editor_get_screen_state_log

-----------------------------------------------------------------------------
(* The invariant holds                                                     *)

\* The logs a session may begin with (main.c:264 and 298-325).
LEMMA OpenedFile ==
  ASSUME NEW o \in Opening
  PROVE  o[1] \in BOOLEAN /\ LogType(o[2]) /\ Last(o[2]) # "setting_screen"
<1> DEFINE A == <<"start_menu_screen">>
           B == <<"start_menu_screen", "error_screen">>
           C == <<"edit_screen">>
<1>1. LogType(A) /\ LogType(B) /\ LogType(C)
  BY SessionAssumption DEF LogType, Screen
<1>5. Last(A) # "setting_screen" /\ Last(B) # "setting_screen" /\ Last(C) # "setting_screen"
  BY DEF Last
<1>2. o = <<TRUE, A>> \/ o = <<FALSE, B>> \/ o = <<FALSE, C>>
  BY DEF Opening
<1>3. \A b, l : b \in BOOLEAN /\ o = <<b, l>> => o[1] \in BOOLEAN /\ o[2] = l
  OBVIOUS
<1> HIDE DEF A, B, C
<1>4. o[1] \in BOOLEAN /\ o[2] \in {A, B, C}
  BY <1>2, <1>3
<1> QED BY <1>1, <1>4, <1>5

LEMMA InitIInv == Init => IInv
<1> SUFFICES ASSUME Init PROVE IInv
  OBVIOUS
<1>1. PICK o \in Opening : has_plugin = o[1] /\ log = o[2]
  BY DEF Init
<1>2. has_plugin \in BOOLEAN /\ LogType(log) /\ Last(log) # "setting_screen"
  BY <1>1, OpenedFile
<1>4. TypeOK
  BY <1>2, SessionAssumption DEF Init, TypeOK
<1>3. SavingOK /\ MenuOK /\ DialogOK
  BY DEF Init, SavingOK, MenuOK, DialogOK
<1>5. SettingsOK
  BY <1>2, LogRead DEF SettingsOK, Now
<1> QED BY <1>3, <1>4, <1>5 DEF IInv

\* A screen takes the place of another and nothing else changes but what is no
\* part of the invariant: the menu comes back only along a way there is.
LEMMA ScreenStep ==
  ASSUME IInv, save = "idle",
         NEW s \in Screen, log' = editor_set_screen_state(log, s), UNCHANGED now,
         path_input_mode' \in BOOLEAN, value_input_mode' \in BOOLEAN,
         UNCHANGED <<settings, dialog, document, saving, files>>,
         s = "start_menu_screen" => LeadsBack(Now, Before, Before_2),
         s = "setting_screen" => Now = "start_menu_screen",
         Now = "ask_make_file_mode" => ~is_input_scene
  PROVE  IInv'
<1> USE DEF settings, dialog, document, saving, files
<1>1. TypeOK /\ SavingOK /\ MenuOK /\ DialogOK /\ SettingsOK
  BY DEF IInv
<1>2. /\ LogType(log')
      /\ Now' = s
      /\ Now = s => Before' = Before /\ Before_2' = Before_2
      /\ Now # s => Before' = Now /\ Before_2' = Before
  BY <1>1, Shown
<1>3. TypeOK'
  BY <1>1, <1>2 DEF TypeOK
<1>4. SavingOK'
  BY <1>1 DEF SavingOK
<1>5. MenuOK'
  <2>1. LeadsBack(Now', Before', Before_2') => LeadsBack(Now, Before, Before_2)
    BY <1>2 DEF LeadsBack
  <2> QED BY <1>1, <2>1 DEF MenuOK
<1>6. DialogOK'
  BY <1>1, <1>2 DEF DialogOK
<1>7. SettingsOK'
  BY <1>2 DEF SettingsOK
<1> QED BY <1>3, <1>4, <1>5, <1>6, <1>7 DEF IInv

\* What every step starts from, and what a screen that is read can be.
LEMMA Reading ==
  ASSUME IInv
  PROVE  /\ Now \in Screen /\ Now = Last(log)
         /\ Before \in Screen \cup {"screen_state_log_error"}
         /\ now = "running" => save = "idle"
<1>1. LogType(log)
  BY DEF IInv, TypeOK
<1>2. 1 \in 1 .. 2 /\ 2 \in 1 .. 2
  OBVIOUS
<1>3. /\ Now \in Screen /\ Now = Last(log)
      /\ Before \in Screen \cup {"screen_state_log_error"}
  BY <1>1, <1>2, LogRead DEF Now, Before
<1> QED BY <1>3 DEF IInv, SavingOK

\* Nothing but the text area, or nothing at all, changes.
LEMMA QuietStep ==
  ASSUME IInv, UNCHANGED <<now, log, saving, settings, files>>,
         path_input_mode' \in BOOLEAN, value_input_mode' \in BOOLEAN,
         is_input_scene' \in BOOLEAN, new_file_name' \in Path \cup {NoPath},
         Now # "ask_make_file_mode" => UNCHANGED is_input_scene,
         UNCHANGED now_open_path_name, text' \in Text,
         LeadsBack(Now, Before, Before_2) => UNCHANGED text
  PROVE  IInv'
<1> USE DEF settings, files, saving
<1>1. TypeOK /\ SavingOK /\ MenuOK /\ DialogOK /\ SettingsOK
  BY DEF IInv
<1>2. Now' = Now /\ Before' = Before /\ Before_2' = Before_2 /\ LogType(log)' = LogType(log)
  BY LogKept
<1>3. TypeOK'
  BY <1>1, <1>2 DEF TypeOK
<1>4. SavingOK'
  BY <1>1, <1>2 DEF SavingOK
<1>5. MenuOK'
  BY <1>1, <1>2 DEF MenuOK
<1>6. DialogOK' /\ SettingsOK'
  BY <1>1, <1>2 DEF DialogOK, SettingsOK
<1> QED BY <1>3, <1>4, <1>5, <1>6 DEF IInv

\* The document changes together with the edit screen: from there no way leads
\* back to the menu.
LEMMA EditStep ==
  ASSUME IInv, save = "idle", LogType(log'), Now' = "edit_screen",
         path_input_mode' \in BOOLEAN,
         UNCHANGED <<settings, value_input_mode, dialog, files, from_dialog, tmp, tmp_safe>>,
         \/ UNCHANGED <<now, save>>
         \/ now' = "saving" /\ save' = "checking" /\ now_open_path_name' \in Path,
         now_open_path_name' \in Path \cup {NoPath}, text' \in Text,
         is_input_scene => now_open_path_name' # NoPath
  PROVE  IInv'
<1> USE DEF settings, dialog, files
<1>1. TypeOK /\ SavingOK /\ MenuOK /\ DialogOK /\ SettingsOK
  BY DEF IInv
<1>2. TypeOK'
  BY <1>1 DEF TypeOK
<1>3. SavingOK'
  BY <1>1 DEF SavingOK
<1>4. MenuOK'
  BY DEF MenuOK, LeadsBack
<1>5. DialogOK' /\ SettingsOK'
  BY DEF DialogOK, SettingsOK
<1> QED BY <1>2, <1>3, <1>4, <1>5 DEF IInv

\* Opening a file from the list or the field: the log goes to the edit screen, also
\* over an error screen nobody sees, or to the error screen, or stays
\* (txt_editor_file.c:689, txt_editor_file_browse_screen.c).
LEMMA LoadStep ==
  ASSUME IInv, save = "idle", Now = "file_browse_screen", NEW p \in Path, load_file(p),
         UNCHANGED <<now, settings, value_input_mode, dialog, saving, files>>
  PROVE  IInv'
<1> USE DEF settings, dialog, saving, files, document
<1>1. TypeOK /\ MenuOK /\ DialogOK
  BY DEF IInv
<1>2. {"edit_screen", "error_screen"} \subseteq Screen
  BY DEF Screen
<1>3. CASE log' = Fail(log) /\ UNCHANGED <<document, path_input_mode>>
  BY <1>1, <1>2, <1>3, ScreenStep DEF Fail, TypeOK
<1>4. CASE UNCHANGED <<log, document, path_input_mode>>
  <2>1. /\ new_file_name' \in Path \cup {NoPath} /\ is_input_scene' \in BOOLEAN
        /\ text' \in Text
        /\ path_input_mode' \in BOOLEAN /\ value_input_mode' \in BOOLEAN
    BY <1>1, <1>4 DEF TypeOK
  <2> QED BY <1>4, <2>1, QuietStep
<1>5. CASE /\ disk[p] \notin {Absent, Other} /\ now_open_path_name' = p
           /\ load_screen_size(p) /\ path_input_mode' = FALSE
  <2>1. LogType(log) /\ LogType(Fail(log))
    BY <1>1, <1>2, LogSet DEF TypeOK, Fail
  <2>2. LogType(log') /\ Now' = "edit_screen"
    BY <1>2, <1>5, <2>1, LogSet DEF load_screen_size, Now
  <2>3. text' \in Text
    BY <1>1, <1>5 DEF load_screen_size, TypeOK
  <2>4. p # NoPath
    BY SessionAssumption
  <2> QED BY <1>1, <1>5, <2>2, <2>3, <2>4, EditStep DEF TypeOK
<1> QED BY <1>3, <1>4, <1>5 DEF load_file

\* Opening a file from the tree, over it or over the text: the log ends with the tree,
\* or with the error screen over it, and neither leads back to the menu
\* (editor_mouse.c:211-246).
LEMMA TreeStep ==
  ASSUME IInv, save = "idle", Now \in {"edit_screen", "filetree_screen"},
         filetree_mouse_event(editor_set_screen_state(log, "filetree_screen")),
         UNCHANGED <<now, settings, modes, dialog, saving, files>>
  PROVE  IInv'
<1> USE DEF settings, modes, dialog, saving, files
<1> DEFINE l == editor_set_screen_state(log, "filetree_screen")
<1>1. TypeOK /\ SavingOK /\ DialogOK
  BY DEF IInv
<1>2. "filetree_screen" \in Screen /\ "error_screen" \in Screen
  BY DEF Screen
<1>3. /\ LogType(l)
      /\ editor_get_screen_state_log(l, 0) = "filetree_screen"
  BY <1>1, <1>2, LogSet DEF TypeOK
<1>4. /\ log' = l \/ log' = Fail(l)
      /\ now_open_path_name' \in Path \cup {NoPath} /\ text' \in Text
      /\ now_open_path_name' \in Path \/ UNCHANGED now_open_path_name
  BY <1>1 DEF filetree_mouse_event, get_path_state, TypeOK, document
<1> HIDE DEF l
<1>5. /\ LogType(log')
      /\ \/ Now' = "filetree_screen"
         \/ Now' = "error_screen" /\ Before' = "filetree_screen"
  BY <1>2, <1>3, <1>4, LogSet DEF Fail, Now, Before
<1>6. TypeOK'
  BY <1>1, <1>4, <1>5 DEF TypeOK
<1>7. SavingOK'
  BY <1>1 DEF SavingOK
<1>8. MenuOK'
  BY <1>5 DEF MenuOK, LeadsBack
<1>9. DialogOK' /\ SettingsOK'
  BY <1>1, <1>4, <1>5, SessionAssumption DEF DialogOK, SettingsOK
<1> QED BY <1>6, <1>7, <1>8, <1>9 DEF IInv

\* A session that begins again.
LEMMA RestartStep ==
  ASSUME IInv, Restarted,
         disk' \in [Path -> Text \cup {Absent, Other}],
         lost' \in [Path -> SUBSET (Text \cup {Absent, Other})]
  PROVE  IInv'
<1>1. PICK o \in Opening : has_plugin' = o[1] /\ log' = o[2]
  BY DEF Restarted
<1>2. has_plugin' \in BOOLEAN /\ LogType(log') /\ Last(log') # "setting_screen"
  BY <1>1, OpenedFile
<1>3. TypeOK'
  BY <1>2, SessionAssumption DEF IInv, TypeOK, Restarted
<1>4. SavingOK' /\ MenuOK' /\ DialogOK'
  BY DEF Restarted, SavingOK, MenuOK, DialogOK
<1>5. SettingsOK'
  BY <1>2, LogRead DEF SettingsOK, Now
<1> QED BY <1>3, <1>4, <1>5 DEF IInv

\* A save that fails: the error screen follows the edit screen.
LEMMA FailStep ==
  ASSUME IInv, save # "idle", SaveFails
  PROVE  IInv' /\ Last(log') = "error_screen"
<1> USE DEF settings, modes, dialog, document, files
<1>1. TypeOK /\ SavingOK /\ DialogOK /\ Now = "edit_screen"
  BY DEF IInv, SavingOK
<1>2. "error_screen" \in Screen /\ log' = editor_set_screen_state(log, "error_screen")
  BY DEF Screen, SaveFails, Fail
<1>3. LogType(log') /\ Now' = "error_screen" /\ Before' = "edit_screen" /\ Last(log') = "error_screen"
  BY <1>1, <1>2, Shown
<1>4. TypeOK'
  BY <1>1, <1>3 DEF TypeOK, SaveFails
<1>5. SavingOK'
  BY DEF SavingOK, SaveFails
<1>6. MenuOK'
  BY <1>3 DEF MenuOK, LeadsBack
<1>7. DialogOK' /\ SettingsOK'
  BY <1>1, <1>3 DEF DialogOK, SettingsOK, SaveFails
<1> QED BY <1>3, <1>4, <1>5, <1>6, <1>7 DEF IInv

\* The next step of a save: what the file holds does not change yet.
LEMMA SaveGoesOn ==
  ASSUME IInv, Continues, now = "saving", save # "idle",
         save' \in {"making", "writing", "syncing", "renaming"},
         tmp' \in {"part", "whole", "none"}, tmp_safe' \in BOOLEAN,
         save' \in {"syncing", "renaming"} => tmp' = "whole",
         save' = "renaming" => tmp_safe'
  PROVE  IInv'
<1> USE DEF Continues, settings, modes, dialog, document, files
<1>1. TypeOK /\ SavingOK /\ MenuOK /\ DialogOK /\ SettingsOK
  BY DEF IInv
<1>2. Now' = Now /\ Before' = Before /\ Before_2' = Before_2 /\ LogType(log)' = LogType(log)
  BY LogKept
<1>3. TypeOK'
  BY <1>1, <1>2 DEF TypeOK
<1>4. SavingOK'
  BY <1>1, <1>2 DEF SavingOK
<1>5. MenuOK' /\ DialogOK' /\ SettingsOK'
  BY <1>1, <1>2 DEF MenuOK, DialogOK, SettingsOK
<1> QED BY <1>3, <1>4, <1>5 DEF IInv

\* The screens that do not touch files (handle_*_input).
LEMMA ScreensKeep ==
  ASSUME IInv,
         \/ handle_start_menu_input \/ handle_error_screen_input
         \/ handle_line_jump_mode_input \/ handle_filetree_screen_input
         \/ handle_settings_screen_input \/ draw_editor_complete_word_box
  PROVE  IInv'
<1> USE DEF settings, modes, dialog, document, saving, files
<1>1. /\ TypeOK /\ MenuOK /\ DialogOK /\ SettingsOK
      /\ Now \in Screen /\ Before \in Screen \cup {"screen_state_log_error"}
      /\ now = "running" => save = "idle"
  BY Reading DEF IInv
<1>2. {"start_menu_screen", "edit_screen", "file_browse_screen", "line_jump_mode",
       "error_screen", "setting_screen", "filetree_screen"} \subseteq Screen
  BY DEF Screen
<1>3. CASE handle_start_menu_input
  <2>1. LeadsBack(Now, Before, Before_2) /\ now_open_path_name = NoPath /\ ~is_input_scene
    BY <1>1, <1>3 DEF handle_start_menu_input, LeadsBack, MenuOK, DialogOK
  <2>2. CASE Stay /\ UNCHANGED document
    BY <1>1, <1>3, <2>2, QuietStep DEF handle_start_menu_input, Stay, TypeOK
  <2>3. ASSUME NEW s \in {"file_browse_screen", "setting_screen", "edit_screen"}, Show(s),
               UNCHANGED document
        PROVE  IInv'
    BY <1>1, <1>2, <1>3, <2>1, <2>3, ScreenStep DEF handle_start_menu_input, Show, TypeOK
  <2>4. ASSUME Show("edit_screen"), now_open_path_name' = NoPath, UNCHANGED text
        PROVE  IInv'
    <3>1. UNCHANGED document
      BY <2>1, <2>4
    <3> QED BY <2>3, <2>4, <3>1
  <2> QED BY <1>3, <2>2, <2>3, <2>4 DEF handle_start_menu_input
<1>4. CASE handle_error_screen_input
  BY <1>1, <1>2, <1>4, ScreenStep DEF handle_error_screen_input, Show, LeadsBack, TypeOK
<1>5. CASE handle_line_jump_mode_input
  BY <1>1, <1>2, <1>5, ScreenStep DEF handle_line_jump_mode_input, Show, TypeOK
<1>6. CASE handle_filetree_screen_input
  <2>1. ASSUME NEW s \in {"edit_screen", "line_jump_mode"}, Show(s), UNCHANGED document
        PROVE  IInv'
    BY <1>1, <1>2, <1>6, <2>1, ScreenStep DEF handle_filetree_screen_input, Show, TypeOK
  <2>2. ASSUME filetree_mouse_event(log), UNCHANGED now
        PROVE  IInv'
    <3>1. Now = "filetree_screen" /\ save = "idle"
      BY <1>1, <1>6 DEF handle_filetree_screen_input
    <3>2. editor_set_screen_state(log, "filetree_screen") = log
      BY <1>1, <1>2, <3>1, LogSet DEF TypeOK, Now
    <3> QED BY <1>6, <2>2, <3>1, <3>2, TreeStep DEF handle_filetree_screen_input
  <2> QED BY <1>6, <2>1, <2>2 DEF handle_filetree_screen_input
<1>7. CASE handle_settings_screen_input
  <2>1. CASE Stay /\ value_input_mode' = ~value_input_mode
    BY <1>1, <1>7, <2>1, QuietStep DEF handle_settings_screen_input, Stay, TypeOK
  <2>2. CASE /\ Show(IF Before = "screen_state_log_error" THEN "error_screen" ELSE Before)
             /\ UNCHANGED value_input_mode
    <3>1. Now = "setting_screen" /\ Before = "start_menu_screen"
      BY <1>1, <1>7 DEF handle_settings_screen_input, SettingsOK
    <3>2. Show("start_menu_screen")
      BY <2>2, <3>1
    <3> QED
      BY <1>1, <1>2, <1>7, <2>2, <3>1, <3>2, ScreenStep
         DEF handle_settings_screen_input, Show, LeadsBack, TypeOK
  <2> QED BY <1>7, <2>1, <2>2 DEF handle_settings_screen_input
<1>8. CASE draw_editor_complete_word_box
  BY <1>1, <1>2, <1>8, ScreenStep DEF draw_editor_complete_word_box, Fail, TypeOK
<1> QED BY <1>3, <1>4, <1>5, <1>6, <1>7, <1>8

\* The list of files and the field for a path (txt_editor_file_browse_screen.c).
LEMMA BrowsingKeeps ==
  ASSUME IInv, handle_file_browse_screen_input \/ now_input_path_open
  PROVE  IInv'
<1> USE DEF settings, modes, dialog, document, saving, files
<1>1. /\ TypeOK /\ MenuOK /\ DialogOK /\ SettingsOK
      /\ now = "running" => save = "idle"
  BY Reading DEF IInv
<1>2. {"start_menu_screen", "edit_screen", "error_screen"} \subseteq Screen
  BY DEF Screen
<1>3. CASE handle_file_browse_screen_input
  <2>1. ASSUME Show("edit_screen"), UNCHANGED <<path_input_mode, document>>
        PROVE  IInv'
    BY <1>1, <1>2, <1>3, <2>1, ScreenStep DEF handle_file_browse_screen_input, Show, TypeOK
  <2>2. ASSUME path_input_mode' = TRUE, Stay, UNCHANGED document
        PROVE  IInv'
    BY <1>1, <1>3, <2>2, QuietStep DEF handle_file_browse_screen_input, Stay, TypeOK
  <2>3. ASSUME Show(IF Before = "start_menu_screen" THEN Before ELSE "edit_screen"),
               UNCHANGED <<path_input_mode, document>>
        PROVE  IInv'
    BY <1>1, <1>2, <1>3, <2>3, ScreenStep
       DEF handle_file_browse_screen_input, Show, LeadsBack, TypeOK
  <2>4. ASSUME NEW p \in Path, load_file(p), UNCHANGED now
        PROVE  IInv'
    BY <1>1, <1>3, <2>4, LoadStep DEF handle_file_browse_screen_input
  <2> QED BY <1>3, <2>1, <2>2, <2>3, <2>4 DEF handle_file_browse_screen_input
<1>4. CASE now_input_path_open
  <2>1. ASSUME Show("edit_screen"), UNCHANGED <<path_input_mode, document>>
        PROVE  IInv'
    BY <1>1, <1>2, <1>4, <2>1, ScreenStep DEF now_input_path_open, Show, TypeOK
  <2>2. ASSUME log' = Fail(log), UNCHANGED <<path_input_mode, document, now>>
        PROVE  IInv'
    BY <1>1, <1>2, <1>4, <2>2, ScreenStep DEF now_input_path_open, Fail, TypeOK
  <2>3. ASSUME NEW p \in Path, load_file(p), UNCHANGED now
        PROVE  IInv'
    BY <1>1, <1>4, <2>3, LoadStep DEF now_input_path_open
  <2> QED BY <1>4, <2>1, <2>2, <2>3 DEF now_input_path_open
<1> QED BY <1>3, <1>4

\* The text area and the dialog that asks for a name (txt_editor_edit_screen.c,
\* txt_editor_make_file_screen.c).
LEMMA EditingKeeps ==
  ASSUME IInv, handle_edit_screen_input \/ handle_ask_make_file_mode_input
  PROVE  IInv'
<1> USE DEF settings, modes, dialog, document, saving, files
<1>1. /\ TypeOK /\ MenuOK /\ DialogOK /\ SettingsOK
      /\ now = "running" => save = "idle"
  BY Reading DEF IInv
<1>2. {"edit_screen", "error_screen", "line_jump_mode", "file_browse_screen",
       "filetree_screen", "ask_make_file_mode"} \subseteq Screen
  BY DEF Screen
<1>3. CASE handle_edit_screen_input
  <2>1. ASSUME NEW s \in {"line_jump_mode", "file_browse_screen", "filetree_screen"},
               Show(s), UNCHANGED <<document, saving>>
        PROVE  IInv'
    BY <1>1, <1>2, <1>3, <2>1, ScreenStep DEF handle_edit_screen_input, Show, TypeOK
  <2>2. ASSUME NEW t \in Text, text' = t, Stay, UNCHANGED <<now_open_path_name, saving>>
        PROVE  IInv'
    BY <1>1, <1>3, <2>2, QuietStep DEF handle_edit_screen_input, Stay, LeadsBack, TypeOK
  <2>3. ASSUME save_file_Unnamed, UNCHANGED document
        PROVE  IInv'
    BY <1>1, <1>2, <1>3, <2>3, ScreenStep
       DEF handle_edit_screen_input, save_file_Unnamed, Show, TypeOK
  <2>4. ASSUME now_open_path_name # NoPath, save' = "checking", from_dialog' = FALSE,
               now' = "saving", UNCHANGED <<log, document, tmp, tmp_safe>>
        PROVE  IInv'
    <3>1. UNCHANGED <<settings, modes, dialog, files>> /\ Now = "edit_screen" /\ save = "idle"
      BY <1>1, <1>3 DEF handle_edit_screen_input
    <3>2. Now' = Now /\ Before' = Before /\ Before_2' = Before_2 /\ LogType(log)' = LogType(log)
      BY <2>4, LogKept
    <3>3. TypeOK'
      BY <1>1, <2>4, <3>1, <3>2 DEF TypeOK
    <3>4. SavingOK'
      BY <1>1, <2>4, <3>1, <3>2 DEF SavingOK, TypeOK, IInv
    <3>5. MenuOK' /\ DialogOK' /\ SettingsOK'
      BY <1>1, <2>4, <3>1, <3>2 DEF MenuOK, LeadsBack, DialogOK, SettingsOK
    <3> QED BY <3>3, <3>4, <3>5 DEF IInv
  <2>5. ASSUME filetree_mouse_event(editor_set_screen_state(log, "filetree_screen")),
               UNCHANGED <<now, saving>>
        PROVE  IInv'
    BY <1>1, <1>3, <2>5, TreeStep DEF handle_edit_screen_input
  <2> QED BY <1>3, <2>1, <2>2, <2>3, <2>4, <2>5 DEF handle_edit_screen_input
<1>4. CASE handle_ask_make_file_mode_input
  <2>1. ASSUME Stay, is_input_scene' \in BOOLEAN, new_file_name' \in Path \cup {NoPath},
               UNCHANGED <<document, saving>>
        PROVE  IInv'
    BY <1>1, <1>4, <2>1, QuietStep DEF handle_ask_make_file_mode_input, Stay, TypeOK
  <2>2. ASSUME ~is_input_scene, Show("edit_screen"), UNCHANGED <<dialog, document, saving>>
        PROVE  IInv'
    BY <1>1, <1>2, <1>4, <2>2, ScreenStep DEF handle_ask_make_file_mode_input, Show, TypeOK
  <2>3. ASSUME new_file_name # NoPath, log' = editor_set_screen_state(log, "edit_screen"),
               now_open_path_name' = new_file_name, save' = "checking",
               from_dialog' = TRUE, now' = "saving",
               UNCHANGED <<dialog, text, tmp, tmp_safe>>
        PROVE  IInv'
    <3>1. UNCHANGED <<settings, modes, files>> /\ save = "idle"
      BY <1>1, <1>4 DEF handle_ask_make_file_mode_input
    <3>2. LogType(log') /\ Now' = "edit_screen"
      BY <1>1, <1>2, <2>3, Shown
    <3>3. TypeOK'
      BY <1>1, <2>3, <3>1, <3>2 DEF TypeOK
    <3>4. SavingOK'
      BY <1>1, <2>3, <3>1, <3>2 DEF SavingOK, TypeOK, IInv
    <3>5. MenuOK' /\ DialogOK' /\ SettingsOK'
      BY <1>1, <2>3, <3>1, <3>2 DEF MenuOK, LeadsBack, DialogOK, SettingsOK
    <3> QED BY <3>3, <3>4, <3>5 DEF IInv
  <2>4. is_input_scene' \in BOOLEAN /\ new_file_name' \in Path \cup {NoPath}
    BY <1>1, <1>4 DEF handle_ask_make_file_mode_input, TypeOK
  <2> QED BY <1>4, <2>1, <2>2, <2>3, <2>4 DEF handle_ask_make_file_mode_input
<1> QED BY <1>3, <1>4

\* What a rename does to the file: the text is whole and on the disk, so that the
\* old text is all that may come back (txt_editor_file.c:674).
LEMMA RenamedWhole ==
  ASSUME IInv, SaveRenames
  PROVE  \/ SaveFails
         \/ /\ disk' = [disk EXCEPT ![now_open_path_name] = text]
            /\ lost' = [lost EXCEPT ![now_open_path_name] = @ \cup {disk[now_open_path_name]}]
            /\ SaveDone
            /\ UNCHANGED <<log, settings, modes, now_open_path_name, text, bounds>>
<1>1. CASE SaveFails
  BY <1>1
<1>2. CASE ~SaveFails
  <2>1. tmp = "whole" /\ tmp_safe
    BY <1>2 DEF IInv, SavingOK, SaveRenames
  <2>2. \A S, d : S \cup {d} \cup {} = S \cup {d}
    OBVIOUS
  <2> QED BY <1>2, <2>1, <2>2 DEF SaveRenames
<1> QED BY <1>1, <1>2

LEMMA SavesKeep ==
  ASSUME IInv, Saves
  PROVE  IInv'
<1> USE DEF settings, modes, dialog, document, files, Continues
<1>1. /\ TypeOK /\ SavingOK /\ MenuOK /\ DialogOK /\ SettingsOK
      /\ save # "idle" => now = "saving" /\ Now = "edit_screen" /\ now_open_path_name \in Path
  BY DEF IInv, SavingOK
<1>2. CASE save # "idle" /\ SaveFails
  BY <1>2, FailStep
<1>3. CASE SaveChecks /\ ~SaveFails
  BY <1>1, <1>3, SaveGoesOn DEF SaveChecks, TypeOK
<1>4. CASE SaveMakes /\ ~SaveFails
  BY <1>1, <1>4, SaveGoesOn DEF SaveMakes, TypeOK
<1>5. CASE SaveWrites /\ ~SaveFails
  BY <1>1, <1>5, SaveGoesOn DEF SaveWrites, TypeOK
<1>6. CASE SaveSyncs /\ ~SaveFails
  BY <1>1, <1>6, SaveGoesOn DEF SaveSyncs, SavingOK, TypeOK
<1>7. CASE SaveRenames /\ ~SaveFails
  <2>1. /\ disk' = [disk EXCEPT ![now_open_path_name] = text]
        /\ lost' = [lost EXCEPT ![now_open_path_name] = @ \cup {disk[now_open_path_name]}]
        /\ SaveDone
        /\ UNCHANGED <<log, settings, modes, now_open_path_name, text>>
    BY <1>7, RenamedWhole
  <2>2. now_open_path_name \in Path /\ now_open_path_name # NoPath /\ Now = "edit_screen"
    BY <1>1, <1>7, SessionAssumption DEF SaveRenames
  <2>3. Now' = Now /\ LogType(log)' = LogType(log)
    BY <2>1, LogKept
  <2>4. /\ disk' \in [Path -> Text \cup {Absent, Other}]
        /\ lost' \in [Path -> SUBSET (Text \cup {Absent, Other})]
    <3>1. text \in Text \cup {Absent, Other}
      BY <1>1 DEF TypeOK
    <3>2. lost[now_open_path_name] \cup {disk[now_open_path_name]}
            \in SUBSET (Text \cup {Absent, Other})
      BY <1>1, <2>2 DEF TypeOK
    <3> QED BY <1>1, <2>1, <3>1, <3>2 DEF TypeOK
  <2>5. TypeOK'
    BY <1>1, <2>1, <2>3, <2>4 DEF TypeOK, SaveDone
  <2>6. SavingOK' /\ MenuOK' /\ DialogOK' /\ SettingsOK'
    BY <2>1, <2>2, <2>3 DEF SavingOK, MenuOK, LeadsBack, DialogOK, SettingsOK, SaveDone
  <2> QED BY <2>5, <2>6 DEF IInv
<1> QED BY <1>2, <1>3, <1>4, <1>5, <1>6, <1>7
        DEF Saves, SaveChecks, SaveMakes, SaveWrites, SaveSyncs, SaveRenames

\* Other programs, the disk, the end of the process and of power.
LEMMA OutsideKeeps ==
  ASSUME IInv, Outside
  PROVE  IInv'
<1> USE DEF settings, modes, dialog, document, saving, files, bounds
<1>1. TypeOK /\ SavingOK /\ MenuOK /\ DialogOK /\ SettingsOK
  BY DEF IInv
<1>2. ASSUME NEW p \in Path, NEW t \in Text \cup {Absent},
             OthersWrite(p, t) \/ Settle(p)
      PROVE  IInv'
  <2>1. UNCHANGED <<now, log, settings, modes, dialog, document, saving>>
    BY <1>2 DEF OthersWrite, Settle
  <2>2. /\ disk' \in [Path -> Text \cup {Absent, Other}]
        /\ lost' \in [Path -> SUBSET (Text \cup {Absent, Other})]
    BY <1>1, <1>2 DEF OthersWrite, Settle, TypeOK
  <2>3. /\ Now' = Now /\ Before' = Before /\ Before_2' = Before_2
        /\ LogType(log)' = LogType(log)
    BY <2>1, LogKept
  <2>4. TypeOK'
    BY <1>1, <2>1, <2>2, <2>3 DEF TypeOK
  <2>5. SavingOK' /\ MenuOK' /\ DialogOK' /\ SettingsOK'
    BY <1>1, <2>1, <2>3 DEF SavingOK, MenuOK, DialogOK, SettingsOK
  <2> QED BY <2>4, <2>5 DEF IInv
<1>3. CASE Killed
  BY <1>1, <1>3, RestartStep DEF Killed, TypeOK
<1>4. CASE PowerLoss
  <2>1. disk' \in [Path -> Text \cup {Absent, Other}]
    <3>1. \A p \in Path : disk'[p] \in Text \cup {Absent, Other}
      BY <1>1, <1>4 DEF PowerLoss, TypeOK
    <3> QED BY <1>4, <3>1 DEF PowerLoss
  <2>2. lost' \in [Path -> SUBSET (Text \cup {Absent, Other})]
    BY <1>4 DEF PowerLoss
  <2> QED BY <1>4, <2>1, <2>2, RestartStep DEF PowerLoss
<1>5. \E t : t \in Text \cup {Absent}
  OBVIOUS
<1> QED BY <1>2, <1>3, <1>4, <1>5 DEF Outside

\* The invariant is inductive: every action keeps it.
LEMMA StepIInv == IInv /\ [Next]_vars => IInv'
<1> SUFFICES ASSUME IInv, [Next]_vars PROVE IInv'
  OBVIOUS
<1> USE DEF settings, modes, dialog, document, saving, files, bounds
<1>1. CASE QuitKey /\ Quit
  <2>1. save = "idle" /\ UNCHANGED log
    BY <1>1, Reading DEF QuitKey, Quit
  <2>2. /\ Now' = Now /\ Before' = Before /\ Before_2' = Before_2
        /\ LogType(log)' = LogType(log)
    BY <2>1, LogKept
  <2>3. TypeOK'
    BY <1>1, <2>2 DEF IInv, TypeOK, Quit
  <2>4. SavingOK' /\ MenuOK' /\ DialogOK' /\ SettingsOK'
    BY <1>1, <2>1, <2>2 DEF IInv, SavingOK, MenuOK, DialogOK, SettingsOK, Quit
  <2> QED BY <2>3, <2>4 DEF IInv
<1>2. CASE UNCHANGED vars
  <2>1. /\ Now' = Now /\ Before' = Before /\ Before_2' = Before_2
        /\ LogType(log)' = LogType(log)
    BY <1>2, LogKept DEF vars
  <2> QED
    BY <1>2, <2>1 DEF vars, IInv, TypeOK, SavingOK, MenuOK, DialogOK, SettingsOK
<1> QED
  BY <1>1, <1>2, ScreensKeep, BrowsingKeeps, EditingKeeps, SavesKeep, OutsideKeeps
     DEF Next, Screens

LEMMA Invariant == Spec => []IInv
BY InitIInv, StepIInv, PTL DEF Spec

\* Type correctness; among others: the log never holds more than its storage and
\* is never empty, and no file ever holds a part of a text (txt_editor.h:278-321,
\* txt_editor_file.c:584-685).
THEOREM TypeCorrect == Spec => []TypeOK
<1>1. IInv => TypeOK
  BY DEF IInv
<1> QED BY <1>1, Invariant, PTL

\* However long the session and however short the log that is kept of it, the
\* start menu does not come back to a document that was opened or typed
\* (txt_editor_error_screen.c, txt_editor_start_menu_screen.c).
THEOREM MenuComesFirstAlways == Spec => []MenuComesFirst
<1>1. IInv => MenuComesFirst
  BY Reading DEF IInv, MenuOK, LeadsBack, MenuComesFirst
<1> QED BY <1>1, Invariant, PTL

-----------------------------------------------------------------------------
(* Saving                                                                  *)

\* What a file holds changes only by a rename, by another program, or by a loss
\* of power.
LEMMA FilesLeft ==
  ASSUME \/ Screens \/ Killed \/ SaveChecks \/ SaveMakes \/ SaveWrites \/ SaveSyncs
         \/ SaveFails \/ UNCHANGED vars
  PROVE  UNCHANGED files
BY DEF Screens, Quit, handle_start_menu_input, handle_error_screen_input,
       handle_line_jump_mode_input, handle_filetree_screen_input,
       handle_settings_screen_input, draw_editor_complete_word_box,
       handle_file_browse_screen_input, now_input_path_open, handle_edit_screen_input,
       handle_ask_make_file_mode_input, Killed, SaveChecks, SaveMakes, SaveWrites,
       SaveSyncs, SaveFails, Continues, vars

\* A save, step by step and with everything that may come between its steps, puts
\* a whole text in the place of the file or leaves it alone: for every set of
\* files and texts, every number of other writers, kills and losses of power
\* (txt_editor_file.c:584-685).
THEOREM FilesAreAtomicAlways == Spec => FilesAreAtomic
<1>1. Init => Atomic!Init
  BY SessionAssumption DEF Init, Atomic!Init
<1>2. IInv /\ [Next]_vars => [Atomic!Next]_(Atomic!vars)
  <2> SUFFICES ASSUME IInv, [Next]_vars PROVE Atomic!Next \/ UNCHANGED files
    BY DEF Atomic!vars, files
  <2>1. CASE \/ Screens \/ Killed \/ SaveChecks \/ SaveMakes \/ SaveWrites \/ SaveSyncs
             \/ SaveFails \/ UNCHANGED vars
    BY <2>1, FilesLeft
  <2>2. CASE SaveRenames /\ ~SaveFails
    <3>1. now_open_path_name \in Path /\ text \in Text
      BY <2>2 DEF IInv, TypeOK, SavingOK, SaveRenames
    <3>2. Atomic!Put(now_open_path_name, text)
      BY <2>2, RenamedWhole DEF Atomic!Put
    <3> QED BY <3>1, <3>2 DEF Atomic!Next
  <2>3. ASSUME NEW p \in Path, NEW t \in Text \cup {Absent}, OthersWrite(p, t)
        PROVE  Atomic!Next
    <3>1. Atomic!Put(p, t)
      BY <2>3 DEF OthersWrite, Atomic!Put
    <3> QED BY <3>1 DEF Atomic!Next
  <2>4. ASSUME NEW p \in Path, Settle(p)
        PROVE  Atomic!Next
    BY <2>4 DEF Settle, Atomic!Settle, Atomic!Next
  <2>5. CASE PowerLoss
    <3>1. disk' \in [Path -> Text \cup {Absent, Other}]
      BY <2>5, StepIInv DEF IInv, TypeOK
    <3> QED BY <2>5, <3>1 DEF PowerLoss, Atomic!PowerLoss, Atomic!Next
  <2> QED BY <2>1, <2>2, <2>3, <2>4, <2>5 DEF Next, Saves, Outside
<1> QED BY <1>1, <1>2, Invariant, PTL DEF Spec, FilesAreAtomic, Atomic!Spec

\* The ends of the process are counted.
LEMMA CrashesCounted == Spec => [](crashes \in Nat)
<1>1. Init => crashes \in Nat
  BY DEF Init
<1>2. crashes \in Nat /\ [Next]_vars => (crashes \in Nat)'
  <2> SUFFICES ASSUME crashes \in Nat, [Next]_vars PROVE crashes' \in Nat
    OBVIOUS
  <2> USE DEF bounds
  <2>1. CASE Screens \/ Saves \/ UNCHANGED vars
    BY <2>1
       DEF Screens, Quit, handle_start_menu_input, handle_error_screen_input,
           handle_line_jump_mode_input, handle_filetree_screen_input,
           handle_settings_screen_input, draw_editor_complete_word_box,
           handle_file_browse_screen_input, now_input_path_open,
           handle_edit_screen_input, handle_ask_make_file_mode_input,
           Saves, SaveChecks, SaveMakes, SaveWrites, SaveSyncs, SaveRenames, SaveFails,
           Continues, vars
  <2>2. CASE Outside
    BY <2>2 DEF Outside, OthersWrite, Settle, Killed, PowerLoss, Restarted
  <2> QED BY <2>1, <2>2 DEF Next
<1> QED BY <1>1, <1>2, PTL DEF Spec

\* A save that is over, and was not cut short by the end of the process, has put
\* the text in the file or shows the error screen and has left the file alone,
\* and its temporary file is gone (txt_editor_file.c:584-685).
THEOREM SaveToldAlways == Spec => SaveTold
<1> DEFINE Told ==
      save # "idle" /\ save' = "idle" /\ crashes' = crashes =>
        /\ tmp' = "none"
        /\ \/ /\ disk'[now_open_path_name] = text
              /\ now_open_path_name' = now_open_path_name /\ text' = text
           \/ Last(log') = "error_screen" /\ disk' = disk
<1>1. IInv /\ crashes \in Nat /\ [Next]_vars => [Told]_vars
  <2> SUFFICES ASSUME IInv, crashes \in Nat, [Next]_vars,
                      save # "idle", save' = "idle", crashes' = crashes
               PROVE  /\ tmp' = "none"
                      /\ \/ /\ disk'[now_open_path_name] = text
                            /\ now_open_path_name' = now_open_path_name /\ text' = text
                         \/ Last(log') = "error_screen" /\ disk' = disk
    OBVIOUS
  <2>1. CASE SaveFails
    <3>1. Last(log') = "error_screen"
      BY <2>1, FailStep
    <3> QED BY <2>1, <3>1 DEF SaveFails, files
  <2>2. CASE SaveRenames /\ ~SaveFails
    <3>1. now_open_path_name \in Path /\ disk \in [Path -> Text \cup {Absent, Other}]
      BY DEF IInv, TypeOK, SavingOK
    <3> QED BY <2>2, <3>1, RenamedWhole DEF SaveDone
  <2>3. now # "running"
    BY Reading
  <2>4. ~Screens
    BY <2>3 DEF Screens, QuitKey, handle_start_menu_input, handle_error_screen_input,
       handle_line_jump_mode_input, handle_filetree_screen_input,
       handle_settings_screen_input, draw_editor_complete_word_box,
       handle_file_browse_screen_input, now_input_path_open, handle_edit_screen_input,
       handle_ask_make_file_mode_input
  <2>5. ~Outside
    <3>1. crashes' # crashes + 1
      OBVIOUS
    <3> QED BY <3>1 DEF Outside, OthersWrite, Settle, Killed, PowerLoss, Restarted, saving
  <2>6. SaveFails \/ SaveRenames
    BY <2>4, <2>5 DEF Next, Saves, SaveChecks, SaveMakes, SaveWrites, SaveSyncs, vars, saving
  <2> QED BY <2>1, <2>2, <2>6
<1> QED BY <1>1, Invariant, CrashesCounted, PTL DEF Spec, SaveTold

-----------------------------------------------------------------------------
(* The dialog that asks for a name                                         *)

\* A screen that is set is the last of the log.
LEMMA LastSet ==
  ASSUME LogType(log), NEW s \in Screen, log' = editor_set_screen_state(log, s)
  PROVE  Last(log') = s
BY LogSet

\* Whenever the dialog comes up, it comes up with the question and not with the
\* field and the name of an earlier save that failed
\* (txt_editor_make_file_screen.c, txt_editor_file.c:666).
THEOREM DialogAsksAlways == Spec => DialogAsks
<1> DEFINE Asks == Last(log') = "ask_make_file_mode" /\ Last(log) # "ask_make_file_mode"
                     => ~is_input_scene'
<1>1. IInv /\ [Next]_vars => [Asks]_vars
  <2> SUFFICES ASSUME IInv, [Next]_vars,
                      Last(log') = "ask_make_file_mode", Last(log) # "ask_make_file_mode"
               PROVE  ~is_input_scene'
    OBVIOUS
  <2>1. log' # log
    OBVIOUS
  <2>2. LogType(log) /\ Now \in Screen /\ Now = Last(log) /\ SettingsOK /\ DialogOK
    BY Reading DEF IInv, TypeOK
  <2>3. {"start_menu_screen", "edit_screen", "file_browse_screen", "line_jump_mode",
         "error_screen", "setting_screen", "filetree_screen"} \subseteq Screen
    BY DEF Screen
  <2>4. \A s \in Screen : log' = editor_set_screen_state(log, s) => s = "ask_make_file_mode"
    BY <2>2, LastSet
  <2>5. LogType(Fail(log))
    BY <2>2, <2>3, LogSet DEF Fail
  <2>6. log' # editor_set_screen_state(Fail(log), "edit_screen")
    BY <2>3, <2>5, LogSet
  <2>7. ~\E o \in Opening : log' = o[2]
    <3>1. ASSUME NEW o \in Opening PROVE Last(o[2]) # "ask_make_file_mode"
      <4>1. Last(<<"start_menu_screen">>) = "start_menu_screen"
            /\ Last(<<"start_menu_screen", "error_screen">>) = "error_screen"
            /\ Last(<<"edit_screen">>) = "edit_screen"
        BY DEF Last
      <4>2. /\ <<TRUE, <<"start_menu_screen">> >>[2] = <<"start_menu_screen">>
            /\ <<FALSE, <<"start_menu_screen", "error_screen">> >>[2]
                 = <<"start_menu_screen", "error_screen">>
            /\ <<FALSE, <<"edit_screen">> >>[2] = <<"edit_screen">>
        OBVIOUS
      <4> QED BY <4>1, <4>2 DEF Opening
    <3> QED BY <3>1
  <2>8. ~filetree_mouse_event(log)
         /\ ~filetree_mouse_event(editor_set_screen_state(log, "filetree_screen"))
    <3>1. LogType(editor_set_screen_state(log, "filetree_screen"))
      BY <2>2, <2>3, LogSet
    <3>2. ASSUME NEW l, LogType(l) PROVE log' # Fail(l)
      BY <2>3, <3>2, LogSet DEF Fail
    <3>3. log' # editor_set_screen_state(log, "filetree_screen")
      BY <2>3, <2>4
    <3> QED BY <2>1, <2>2, <3>1, <3>2, <3>3 DEF filetree_mouse_event
  <2>9. CASE handle_edit_screen_input
    BY <2>1, <2>2, <2>3, <2>4, <2>9, <2>8
       DEF handle_edit_screen_input, save_file_Unnamed, Show, Stay, DialogOK, dialog
  <2>10. CASE handle_ask_make_file_mode_input
    BY <2>2, <2>10 DEF handle_ask_make_file_mode_input
  <2>11. CASE handle_settings_screen_input
    BY <2>1, <2>2, <2>3, <2>4, <2>11
       DEF handle_settings_screen_input, SettingsOK, Show, Stay
  <2>12. CASE handle_file_browse_screen_input \/ now_input_path_open
    BY <2>1, <2>2, <2>3, <2>4, <2>6, <2>12
       DEF handle_file_browse_screen_input, now_input_path_open, load_file,
           load_screen_size, Show, Stay, Fail
  <2>13. ~handle_start_menu_input /\ ~handle_error_screen_input
         /\ ~handle_line_jump_mode_input /\ ~handle_filetree_screen_input
         /\ ~draw_editor_complete_word_box
    BY <2>1, <2>3, <2>4, <2>8
       DEF handle_start_menu_input, handle_error_screen_input, Show, Stay, Fail,
           handle_line_jump_mode_input, handle_filetree_screen_input,
           draw_editor_complete_word_box
  <2>14. ~Quit /\ ~UNCHANGED vars
    BY <2>1 DEF Quit, vars
  <2>15. ~Saves
    BY <2>1, <2>3, <2>4
       DEF Saves, SaveChecks, SaveMakes, SaveWrites, SaveSyncs, SaveRenames, SaveFails,
           Continues, Fail
  <2>16. ~Outside
    BY <2>1, <2>7 DEF Outside, OthersWrite, Settle, Killed, PowerLoss, Restarted
  <2> QED
    BY <2>9, <2>10, <2>11, <2>12, <2>13, <2>14, <2>15, <2>16 DEF Next, Screens
<1> QED BY <1>1, Invariant, PTL DEF Spec, DialogAsks

-----------------------------------------------------------------------------
(* Part 2: the buffer.                                                     *)
-----------------------------------------------------------------------------
(* Natural numbers                                                         *)

\* Induction, and the rows that are doubled until there are enough.
LEMMA LeastOf ==
  ASSUME NEW S \in SUBSET Nat, S # {}
  PROVE  \E m \in S : \A n \in S : m <= n
<1> DEFINE R == {ss \in Nat \X Nat : ss[1] < ss[2]}
<1>1. IsWellFoundedOn(R, Nat)
  BY NatLessThanWellFounded DEF OpToRel
<1>2. \A x \in Nat, y \in Nat : x < y => <<x, y>> \in R
  OBVIOUS
<1> HIDE DEF R
<1>3. PICK x \in S : \A y \in S : ~ (<<y, x>> \in R)
  BY <1>1, WFMin
<1>4. \A y \in S : ~ (y < x)
  BY <1>2, <1>3
<1> QED BY <1>4

LEMMA Induction ==
  ASSUME NEW S \in SUBSET Nat, 0 \in S, \A n \in S : n + 1 \in S
  PROVE  S = Nat
<1> SUFFICES ASSUME Nat \ S # {} PROVE FALSE
  OBVIOUS
<1>1. PICK m \in Nat \ S : \A n \in Nat \ S : m <= n
  BY LeastOf
<1>2. m # 0 /\ m - 1 \in Nat
  OBVIOUS
<1>3. m - 1 \in S
  BY <1>1, <1>2
<1> QED BY <1>3, <1>2

LEMMA Subsets ==
  ASSUME NEW n \in Nat
  PROVE  IsFiniteSet(SUBSET (1 .. n)) /\ Cardinality(SUBSET (1 .. n)) = 2 ^ n /\ 2 ^ n \in Nat
<1>1. IsFiniteSet(1 .. n) /\ Cardinality(1 .. n) = n
  BY FS_Interval
<1>2. IsFiniteSet(SUBSET (1 .. n)) /\ Cardinality(SUBSET (1 .. n)) = 2 ^ Cardinality(1 .. n)
  BY <1>1, FS_SUBSET
<1>3. Cardinality(SUBSET (1 .. n)) \in Nat
  BY <1>2, FS_CardinalityType
<1> QED BY <1>1, <1>2, <1>3

LEMMA PowerOfTwo ==
  ASSUME NEW n \in Nat
  PROVE  2 ^ (n + 1) = 2 * 2 ^ n
<1> DEFINE X == SUBSET (1 .. n)
           Y == SUBSET (1 .. n + 1)
           B == {0, 1}
           f == [p \in X \X B |-> IF p[2] = 0 THEN p[1] ELSE p[1] \cup {n + 1}]
<1>1. IsFiniteSet(X) /\ Cardinality(X) = 2 ^ n /\ 2 ^ n \in Nat
  BY Subsets
<1>11. n + 1 \in Nat
  OBVIOUS
<1>2. Cardinality(Y) = 2 ^ (n + 1)
  <2> HIDE DEF f, X, B
  <2> DEFINE m == n + 1
  <2> HIDE DEF m
  <2>1. m \in Nat
    BY <1>11 DEF m
  <2>2. Cardinality(SUBSET (1 .. m)) = 2 ^ m
    BY <2>1, Subsets
  <2> QED BY <2>2 DEF m
<1>3. IsFiniteSet(B) /\ Cardinality(B) = 2
  <2>1. B = 0 .. 1
    OBVIOUS
  <2>2. 0 \in Int /\ 1 \in Int
    OBVIOUS
  <2>3. IsFiniteSet(0 .. 1) /\ Cardinality(0 .. 1) = IF 0 > 1 THEN 0 ELSE 1 - 0 + 1
    BY <2>2, FS_Interval
  <2> QED BY <2>1, <2>3
<1>4. IsFiniteSet(X \X B) /\ Cardinality(X \X B) = 2 ^ n * 2
  <2> HIDE DEF X, B, f
  <2>1. IsFiniteSet(X \X B) /\ Cardinality(X \X B) = Cardinality(X) * Cardinality(B)
    BY <1>1, <1>3, FS_Product
  <2> QED BY <1>1, <1>3, <2>1
<1>5. f \in [X \X B -> Y]
  OBVIOUS
<1>6. \A a, b \in X \X B : f[a] = f[b] => a = b
  <2> SUFFICES ASSUME NEW a \in X \X B, NEW b \in X \X B, f[a] = f[b] PROVE a = b
    OBVIOUS
  <2>1. n + 1 \notin a[1] /\ n + 1 \notin b[1]
    OBVIOUS
  <2>2. a[2] = b[2]
    BY <2>1
  <2>3. a[1] = b[1]
    BY <2>1, <2>2
  <2> QED BY <2>2, <2>3
<1>7. \A y \in Y : \E a \in X \X B : f[a] = y
  <2> SUFFICES ASSUME NEW y \in Y PROVE \E a \in X \X B : f[a] = y
    OBVIOUS
  <2>1. CASE n + 1 \in y
    <3>1. y \ {n + 1} \in X /\ (y \ {n + 1}) \cup {n + 1} = y
      BY <2>1
    <3>2. <<y \ {n + 1}, 1>> \in X \X B
      BY <3>1
    <3>3. f[<<y \ {n + 1}, 1>>] = (y \ {n + 1}) \cup {n + 1}
      BY <3>2
    <3> QED BY <3>1, <3>2, <3>3
  <2>2. CASE n + 1 \notin y
    <3>1. y \in X
      BY <2>2
    <3>2. <<y, 0>> \in X \X B /\ f[<<y, 0>>] = y
      BY <3>1
    <3> QED BY <3>2
  <2> QED BY <2>1, <2>2
<1> HIDE DEF f, X, Y, B
<1>8. f \in Bijection(X \X B, Y)
  BY <1>5, <1>6, <1>7, Fun_IsBij
<1>9. ExistsBijection(X \X B, Y)
  BY <1>8 DEF ExistsBijection
<1>10. Cardinality(Y) = Cardinality(X \X B)
  BY <1>4, <1>9, FS_Bijection
<1> QED BY <1>1, <1>2, <1>4, <1>10

LEMMA PowerIsLarge ==
  ASSUME NEW n \in Nat
  PROVE  2 ^ n \in Nat /\ 2 ^ n >= n + 1
<1> DEFINE S == {m \in Nat : 2 ^ m >= m + 1}
<1>1. 0 \in S
  OBVIOUS
<1>2. ASSUME NEW m \in S PROVE m + 1 \in S
  <2>1. 2 ^ (m + 1) = 2 * 2 ^ m /\ 2 ^ m \in Nat /\ 2 ^ m >= m + 1
    BY PowerOfTwo, Subsets
  <2> DEFINE a == 2 ^ m
             b == 2 ^ (m + 1)
  <2>2. b = 2 * a /\ a \in Nat /\ a >= m + 1
    BY <2>1
  <2> HIDE DEF a, b
  <2>3. b >= (m + 1) + 1
    BY <2>2
  <2> QED BY <2>3 DEF b
<1> HIDE DEF S
<1>3. S = Nat
  BY <1>1, <1>2, Induction DEF S
<1> QED BY <1>3, Subsets DEF S

LEMMA DoubledIs ==
  ASSUME NEW rows \in Nat \ {0}, NEW need \in Nat
  PROVE  Doubled(rows, need) \in Nat /\ Doubled(rows, need) >= need /\ Doubled(rows, need) >= rows
<1> DEFINE S == {k \in Nat : rows * 2 ^ k >= need}
<1>1. need \in S
  <2> DEFINE a == 2 ^ need
  <2>1. a \in Nat /\ a >= need + 1
    BY PowerIsLarge
  <2> HIDE DEF a
  <2>2. rows * a >= a
    BY <2>1
  <2>3. rows * a >= need
    BY <2>1, <2>2
  <2> QED BY <2>3 DEF a
<1>2. PICK k \in S : \A j \in S : k <= j
  BY <1>1, LeastOf
<1> DEFINE n == rows * 2 ^ k
<1>3. k \in 0 .. need
  BY <1>1, <1>2
<1>4. n \in Nat /\ n >= need
  BY PowerIsLarge
<1>5. n = rows \/ n < 2 * need
  <2>1. CASE k = 0
    BY <2>1
  <2>2. CASE k # 0
    <3> DEFINE j == k - 1
               a == 2 ^ j
    <3>1. j \in Nat /\ k = j + 1
      BY <2>2
    <3>2. j \notin S
      BY <1>2, <3>1
    <3> HIDE DEF j
    <3>3. a \in Nat /\ 2 ^ k = 2 * a
      BY <3>1, PowerIsLarge, PowerOfTwo
    <3>4. rows * a < need
      BY <3>1, <3>2, <3>3
    <3> HIDE DEF a
    <3>5. n = 2 * (rows * a)
      BY <3>3
    <3> QED BY <3>3, <3>4, <3>5
  <2> QED BY <2>1, <2>2
<1>6. n >= rows
  <2> DEFINE a == 2 ^ k
  <2>1. a \in Nat /\ a >= k + 1
    BY PowerIsLarge
  <2> HIDE DEF a
  <2>2. rows * a >= rows
    BY <2>1
  <2> QED BY <2>2 DEF a
<1>7. n <= rows + 2 * need
  BY <1>4, <1>5
<1>8. \E m \in rows .. rows + 2 * need :
        m >= need /\ (m = rows \/ m < 2 * need) /\ \E i \in 0 .. need : m = rows * 2 ^ i
  <2> HIDE DEF S
  <2>1. n \in rows .. rows + 2 * need
    BY <1>4, <1>6, <1>7
  <2> QED BY <1>3, <1>4, <1>5, <2>1
<1>9. Doubled(rows, need) \in rows .. rows + 2 * need /\ Doubled(rows, need) >= need
  BY <1>8, Zenon DEF Doubled
<1> HIDE DEF n, S
<1> QED BY <1>9

-----------------------------------------------------------------------------
(* The fields of ed, and rows that follow each other                       *)

Content == Glyph \cup {Nul}
Arrays  == UNION {[0 .. n - 1 -> Content] : n \in Nat}
Numbers == UNION {[0 .. n - 1 -> Nat] : n \in Nat}

Buffer ==
  [cells : Arrays, total : Nat, off : Numbers, cap : Numbers, len : Numbers, rows : Nat \ {0},
   end : Nat, counter : Nat, open : BOOLEAN, x : Nat, y : Nat, view : Nat \ {0}]

\* Rows that begin at o, hold k cells and show n of them, in a buffer of t.
Laid(m, o, k, n, t) ==
  \A r \in 0 .. m - 1 :
    n[r] <= k[r] /\ o[r] + k[r] <= (IF r + 1 \in 0 .. m - 1 THEN o[r + 1] ELSE t)

IsRows(m, o, k, n, t) ==
  /\ o \in [0 .. m - 1 -> Nat] /\ k \in [0 .. m - 1 -> Nat] /\ n \in [0 .. m - 1 -> Nat]
  /\ Laid(m, o, k, n, t)

IsBuf(s) ==
  /\ s \in Buffer
  /\ s.cells \in [0 .. s.total - 1 -> Content]
  /\ IsRows(s.rows, s.off, s.cap, s.len, s.total)
  /\ s.rows <= MaxRows /\ s.end <= MaxRows /\ s.counter <= LoadLines
  /\ s.y < MaxRows /\ s.view \in Views

LEMMA BufParts ==
  ASSUME NEW s, IsBuf(s)
  PROVE  /\ s.total \in Nat /\ s.rows \in Nat \ {0} /\ s.rows <= MaxRows
         /\ s.end \in Nat /\ s.end <= MaxRows
         /\ s.counter \in Nat /\ s.counter <= LoadLines /\ s.open \in BOOLEAN
         /\ s.x \in Nat /\ s.y \in Nat /\ s.y < MaxRows /\ s.view \in Nat \ {0} /\ s.view \in Views
         /\ s.cells \in [0 .. s.total - 1 -> Content]
BY DEF IsBuf, Buffer

LEMMA RowParts ==
  ASSUME NEW s, IsBuf(s)
  PROVE  /\ IsRows(s.rows, s.off, s.cap, s.len, s.total)
         /\ s.off \in [0 .. s.rows - 1 -> Nat] /\ s.cap \in [0 .. s.rows - 1 -> Nat]
         /\ s.len \in [0 .. s.rows - 1 -> Nat]
BY DEF IsBuf, IsRows

\* Every row begins behind the end of those above it.
LEMMA Behind ==
  ASSUME NEW m \in Nat \ {0}, NEW o, NEW k, NEW n, NEW t \in Nat, IsRows(m, o, k, n, t),
         NEW r \in 0 .. m - 1, NEW q \in 0 .. m - 1, r < q
  PROVE  o[r] + k[r] <= o[q]
<1> DEFINE S == {d \in Nat : r + 1 + d \in 0 .. m - 1 => o[r] + k[r] <= o[r + 1 + d]}
<1>1. /\ o \in [0 .. m - 1 -> Nat] /\ k \in [0 .. m - 1 -> Nat]
      /\ \A i \in 0 .. m - 1 : i + 1 \in 0 .. m - 1 => o[i] + k[i] <= o[i + 1]
  BY DEF IsRows, Laid
<1>2. 0 \in S
  BY <1>1
<1>3. ASSUME NEW d \in S PROVE d + 1 \in S
  <2> SUFFICES ASSUME r + 1 + (d + 1) \in 0 .. m - 1 PROVE o[r] + k[r] <= o[r + 1 + (d + 1)]
    OBVIOUS
  <2> DEFINE i == r + 1 + d
  <2>1. i \in 0 .. m - 1 /\ i + 1 = r + 1 + (d + 1) /\ i + 1 \in 0 .. m - 1
    OBVIOUS
  <2>2. o[r] + k[r] <= o[i]
    BY <2>1
  <2> HIDE DEF i
  <2>3. o[i] + k[i] <= o[i + 1] /\ o[i] \in Nat /\ k[i] \in Nat /\ o[i + 1] \in Nat
        /\ o[r] \in Nat /\ k[r] \in Nat
    BY <1>1, <2>1
  <2>4. o[r] + k[r] <= o[i + 1]
    BY <2>2, <2>3
  <2> QED BY <2>1, <2>4
<1> HIDE DEF S
<1>4. S = Nat
  BY <1>2, <1>3, Induction DEF S
<1>5. q - r - 1 \in S
  BY <1>4
<1>6. r + 1 + (q - r - 1) = q
  OBVIOUS
<1> QED BY <1>5, <1>6 DEF S

LEMMA RowIn ==
  ASSUME NEW m \in Nat \ {0}, NEW o, NEW k, NEW n, NEW t \in Nat, IsRows(m, o, k, n, t),
         NEW r \in 0 .. m - 1
  PROVE  /\ o[r] \in Nat /\ k[r] \in Nat /\ n[r] \in Nat
         /\ n[r] <= k[r] /\ o[r] + k[r] <= t
         /\ r + 1 \in 0 .. m - 1 => o[r] + k[r] <= o[r + 1]
<1>1. o \in [0 .. m - 1 -> Nat] /\ k \in [0 .. m - 1 -> Nat] /\ n \in [0 .. m - 1 -> Nat]
  BY DEF IsRows
<1>2. o[r] \in Nat /\ k[r] \in Nat /\ n[r] \in Nat
  BY <1>1
<1>3. n[r] <= k[r] /\ (r + 1 \in 0 .. m - 1 => o[r] + k[r] <= o[r + 1])
  BY DEF IsRows, Laid
<1>4. o[r] + k[r] <= t
  <2> DEFINE z == m - 1
  <2>1. z \in 0 .. m - 1 /\ z + 1 \notin 0 .. m - 1
    OBVIOUS
  <2>2. o[z] + k[z] <= t
    BY <2>1 DEF IsRows, Laid
  <2>3. CASE r = z
    BY <2>2, <2>3
  <2>4. CASE r # z
    <3>1. r < z
      BY <2>4
    <3>2. o[z] \in Nat /\ k[z] \in Nat
      BY <1>1, <2>1
    <3> HIDE DEF z
    <3>3. o[r] + k[r] <= o[z]
      BY <2>1, <3>1, Behind
    <3> QED BY <1>2, <2>2, <3>2, <3>3
  <2> QED BY <2>3, <2>4
<1> QED BY <1>2, <1>3, <1>4

LEMMA RowOf ==
  ASSUME NEW s, IsBuf(s), NEW r \in Rows(s)
  PROVE  /\ s.off[r] \in Nat /\ s.cap[r] \in Nat /\ s.len[r] \in Nat
         /\ s.len[r] <= s.cap[r] /\ s.off[r] + s.cap[r] <= s.total
         /\ r + 1 \in Rows(s) => s.off[r] + s.cap[r] <= s.off[r + 1]
<1>1. IsRows(s.rows, s.off, s.cap, s.len, s.total) /\ s.rows \in Nat \ {0} /\ s.total \in Nat
  BY BufParts, RowParts
<1>2. r \in 0 .. s.rows - 1
  BY DEF Rows
<1> QED BY <1>1, <1>2, RowIn DEF Rows

\* What the handlers write of ed: the rows, the counters, and the cursor.
Placed(s, y, x) == [s EXCEPT !.y = y, !.x = x]
Tallied(s, e, c, b) == [s EXCEPT !.end = e, !.counter = c, !.open = b]
Filled(s, a, t, o, k, n, m) ==
  [s EXCEPT !.cells = a, !.total = t, !.off = o, !.cap = k, !.len = n, !.rows = m]

SameRows(s, t) ==
  /\ t.cells = s.cells /\ t.total = s.total /\ t.off = s.off /\ t.cap = s.cap
  /\ t.len = s.len /\ t.rows = s.rows
SameTally(s, t) == t.end = s.end /\ t.counter = s.counter /\ t.open = s.open
SameCursor(s, t) == t.x = s.x /\ t.y = s.y

LEMMA PlacedIs ==
  ASSUME NEW s, IsBuf(s), NEW y \in 0 .. MaxRows - 1, NEW x \in Nat
  PROVE  LET t == Placed(s, y, x)
         IN  /\ IsBuf(t) /\ SameRows(s, t) /\ SameTally(s, t) /\ t.view = s.view
             /\ t.y = y /\ t.x = x
<1> DEFINE t == Placed(s, y, x)
<1>1. MaxRows \in Nat
  BY BufferAssumption
<1>2. t \in Buffer
  <2>1. s \in Buffer /\ y \in Nat
    BY <1>1 DEF IsBuf
  <2> QED BY <2>1 DEF Buffer, Placed
<1>3. SameRows(s, t) /\ SameTally(s, t) /\ t.view = s.view /\ t.y = y /\ t.x = x
  BY DEF IsBuf, Buffer, Placed, SameRows, SameTally
<1> HIDE DEF t
<1>4. IsBuf(t)
  BY <1>1, <1>2, <1>3 DEF IsBuf, SameRows, SameTally
<1> QED BY <1>3, <1>4 DEF t

LEMMA TalliedIs ==
  ASSUME NEW s, IsBuf(s), NEW e \in 0 .. MaxRows, NEW c \in 0 .. LoadLines, NEW b \in BOOLEAN
  PROVE  LET t == Tallied(s, e, c, b)
         IN  /\ IsBuf(t) /\ SameRows(s, t) /\ SameCursor(s, t) /\ t.view = s.view
             /\ t.end = e /\ t.counter = c /\ t.open = b
<1> DEFINE t == Tallied(s, e, c, b)
<1>1. MaxRows \in Nat /\ LoadLines \in Nat
  BY BufferAssumption
<1>2. t \in Buffer
  <2>1. s \in Buffer /\ e \in Nat /\ c \in Nat
    BY <1>1 DEF IsBuf
  <2> QED BY <2>1 DEF Buffer, Tallied
<1>3. /\ SameRows(s, t) /\ SameCursor(s, t) /\ t.view = s.view
      /\ t.end = e /\ t.counter = c /\ t.open = b
  BY DEF IsBuf, Buffer, Tallied, SameRows, SameCursor
<1> HIDE DEF t
<1>4. IsBuf(t)
  BY <1>1, <1>2, <1>3 DEF IsBuf, SameRows, SameCursor
<1> QED BY <1>3, <1>4 DEF t

LEMMA FilledIs ==
  ASSUME NEW s, IsBuf(s), NEW t \in Nat, NEW a \in [0 .. t - 1 -> Content],
         NEW m \in 1 .. MaxRows, NEW o, NEW k, NEW n, IsRows(m, o, k, n, t)
  PROVE  LET u == Filled(s, a, t, o, k, n, m)
         IN  /\ IsBuf(u) /\ SameTally(s, u) /\ SameCursor(s, u) /\ u.view = s.view
             /\ u.cells = a /\ u.total = t /\ u.off = o /\ u.cap = k /\ u.len = n /\ u.rows = m
<1> DEFINE u == Filled(s, a, t, o, k, n, m)
<1>1. MaxRows \in Nat /\ m \in Nat \ {0} /\ m <= MaxRows
  BY BufferAssumption
<1>2. a \in Arrays
  BY DEF Arrays
<1>3. o \in Numbers /\ k \in Numbers /\ n \in Numbers
  BY <1>1 DEF Numbers, IsRows
<1>4. u \in Buffer
  <2>1. s \in Buffer
    BY DEF IsBuf
  <2> QED BY <1>1, <1>2, <1>3, <2>1 DEF Buffer, Filled
<1>5. SameTally(s, u) /\ SameCursor(s, u) /\ u.view = s.view
  BY DEF IsBuf, Buffer, Filled, SameTally, SameCursor
<1>6. u.cells = a /\ u.total = t /\ u.off = o /\ u.cap = k /\ u.len = n /\ u.rows = m
  BY DEF IsBuf, Buffer, Filled
<1> HIDE DEF u
<1>7. IsBuf(u)
  BY <1>1, <1>4, <1>5, <1>6 DEF IsBuf, SameTally, SameCursor
<1> QED BY <1>5, <1>6, <1>7 DEF u

-----------------------------------------------------------------------------
(* The cursor                                                              *)

LEMMA LimitIs ==
  ASSUME NEW s, IsBuf(s)
  PROVE  editor_line_limit(s) \in 0 .. s.rows
<1>1. s.rows \in Nat /\ s.counter \in Nat
  BY BufParts
<1>2. editor_line_limit(s) = s.rows \/ editor_line_limit(s) = Least(s.counter, s.rows)
  BY DEF editor_line_limit
<1> QED BY <1>1, <1>2 DEF Least

LEMMA LenOf ==
  ASSUME NEW s, IsBuf(s), NEW l \in Nat
  PROVE  /\ editor_line_len(s, l) \in Nat
         /\ l < editor_line_limit(s) => l \in Rows(s) /\ editor_line_len(s, l) = s.len[l]
<1>1. editor_line_limit(s) \in 0 .. s.rows /\ s.rows \in Nat
  BY LimitIs, BufParts
<1>2. CASE l < editor_line_limit(s)
  <2>1. l \in Rows(s)
    BY <1>1, <1>2 DEF Rows
  <2>2. s.len[l] \in Nat /\ s.cap[l] \in Nat /\ s.len[l] <= s.cap[l]
    BY <2>1, RowOf
  <2> QED BY <1>2, <2>1, <2>2 DEF editor_line_len, Least
<1>3. CASE ~ (l < editor_line_limit(s))
  BY <1>3 DEF editor_line_len
<1> QED BY <1>2, <1>3

LEMMA StartIs ==
  ASSUME NEW s, NEW l, NEW c \in Nat
  PROVE  /\ Start(s, l, c) \in 0 .. c
         /\ Start(s, l, c) = 0 \/ Cell(s, l, Start(s, l, c)) # Nul
         /\ \A b \in Start(s, l, c) + 1 .. c : Cell(s, l, b) = Nul
<1> DEFINE D == {d \in 0 .. c : c - d = 0 \/ Cell(s, l, c - d) # Nul}
<1>1. D \in SUBSET Nat /\ c \in D
  OBVIOUS
<1>2. PICK d \in D : \A e \in D : d <= e
  BY <1>1, LeastOf
<1> DEFINE m == c - d
<1>3. m \in 0 .. c /\ (m = 0 \/ Cell(s, l, m) # Nul)
  OBVIOUS
<1>4. ASSUME NEW b \in m + 1 .. c PROVE Cell(s, l, b) = Nul
  <2> DEFINE e == c - b
  <2>1. e \in 0 .. c /\ e < d /\ c - e = b /\ d \in Nat
    OBVIOUS
  <2> HIDE DEF e, D, m
  <2>2. e \notin D
    BY <1>2, <2>1
  <2> QED BY <2>1, <2>2 DEF D
<1> HIDE DEF m, D
<1>5. \E a \in 0 .. c : /\ a = 0 \/ Cell(s, l, a) # Nul
                        /\ \A b \in a + 1 .. c : Cell(s, l, b) = Nul
  BY <1>3, <1>4
<1> QED BY <1>5, Zenon DEF Start

LEMMA ClampColIs ==
  ASSUME NEW s, IsBuf(s), NEW l \in Nat, NEW c \in Int
  PROVE  editor_clamp_col(s, l, c) \in 0 .. Least(editor_line_len(s, l), s.view)
<1>1. editor_line_len(s, l) \in Nat /\ s.view \in Nat
  BY LenOf, BufParts
<1> QED BY <1>1 DEF editor_clamp_col, Clamp, Least

LEMMA BoundaryIs ==
  ASSUME NEW s, IsBuf(s), NEW l \in Nat, NEW c \in Int
  PROVE  editor_cursor_col_boundary(s, l, c) \in 0 .. Least(editor_line_len(s, l), s.view)
<1> DEFINE a == editor_clamp_col(s, l, c)
           top == Least(editor_line_len(s, l), s.view)
<1>1. a \in 0 .. top
  BY ClampColIs
<1>2. top \in Nat
  <2>1. editor_line_len(s, l) \in Nat /\ s.view \in Nat
    BY LenOf, BufParts
  <2> QED BY <2>1 DEF Least
<1>3. editor_cursor_col_boundary(s, l, c) \in {a, Start(s, l, a)}
  BY DEF editor_cursor_col_boundary
<1> HIDE DEF a, top
<1>4. a \in Nat
  BY <1>1, <1>2
<1>5. Start(s, l, a) \in 0 .. a
  BY <1>4, StartIs
<1>6. editor_cursor_col_boundary(s, l, c) \in 0 .. top
  BY <1>1, <1>2, <1>3, <1>4, <1>5
<1> QED BY <1>6 DEF top

\* Where the cursor comes to is a column of the row that it is put in.
LEMMA BoundaryFits ==
  ASSUME NEW s, IsBuf(s), NEW l \in Nat, NEW c \in Int
  PROVE  /\ editor_cursor_col_boundary(s, l, c) \in Nat
         /\ editor_cursor_col_boundary(s, l, c) <= editor_line_len(s, l)
         /\ editor_cursor_col_boundary(s, l, c) <= s.view
<1>1. editor_line_len(s, l) \in Nat /\ s.view \in Nat
  BY LenOf, BufParts
<1>2. editor_cursor_col_boundary(s, l, c) \in 0 .. Least(editor_line_len(s, l), s.view)
  BY BoundaryIs
<1> QED BY <1>1, <1>2 DEF Least

\* Only the cursor moves, if anything does.
Moves(s, t) == t = s \/ \E y \in 0 .. MaxRows - 1, x \in 0 .. s.view : t = Placed(s, y, x)

LEMMA Moved ==
  ASSUME NEW s, IsBuf(s), NEW t, Moves(s, t)
  PROVE  /\ IsBuf(t) /\ SameRows(s, t) /\ SameTally(s, t) /\ t.view = s.view
         /\ s.x <= s.view => t.x <= t.view
<1>1. CASE t = s
  BY <1>1 DEF SameRows, SameTally
<1>2. CASE t # s
  <2>1. PICK y \in 0 .. MaxRows - 1, x \in 0 .. s.view : t = Placed(s, y, x)
    BY <1>2 DEF Moves
  <2>2. s.view \in Nat
    BY BufParts
  <2>3. x \in Nat /\ x <= s.view
    BY <2>2
  <2> QED BY <2>1, <2>3, PlacedIs
<1> QED BY <1>1, <1>2

LEMMA MovesAgain ==
  ASSUME NEW s, IsBuf(s), NEW y \in Nat, y < MaxRows, NEW x \in Nat, x <= s.view
  PROVE  Moves(s, Placed(s, y, x))
<1>1. MaxRows \in Nat /\ s.view \in Nat
  BY BufferAssumption, BufParts
<1>2. y \in 0 .. MaxRows - 1 /\ x \in 0 .. s.view
  BY <1>1
<1> QED BY <1>2 DEF Moves

\* A cursor that a handler puts into row l, on the column nearest to c.
LEMMA PutIs ==
  ASSUME NEW s, IsBuf(s), NEW l \in Nat, l < MaxRows, NEW c \in Int
  PROVE  Moves(s, Placed(s, l, editor_cursor_col_boundary(s, l, c)))
<1> DEFINE x == editor_cursor_col_boundary(s, l, c)
<1>1. x \in Nat /\ x <= s.view
  BY BoundaryFits
<1> HIDE DEF x
<1>2. Moves(s, Placed(s, l, x))
  BY <1>1, MovesAgain
<1> QED BY <1>2 DEF x

LEMMA LimitBound ==
  ASSUME NEW s, IsBuf(s)
  PROVE  /\ editor_line_limit(s) \in Nat /\ editor_line_limit(s) <= MaxRows
         /\ MaxRows \in Nat /\ LoadLines \in Nat \ {0} /\ LoadLines < MaxRows
<1>1. s.rows \in Nat /\ s.rows <= MaxRows /\ MaxRows \in Nat
  BY BufParts, BufferAssumption
<1>2. editor_line_limit(s) \in 0 .. s.rows
  BY LimitIs
<1>3. editor_line_limit(s) \in Nat /\ editor_line_limit(s) <= MaxRows
  BY <1>1, <1>2
<1> QED BY <1>3, BufferAssumption

LEMMA SetCursorIs ==
  ASSUME NEW s, IsBuf(s), NEW l \in Int, NEW c \in Int
  PROVE  Moves(s, editor_set_cursor(s, l, c))
<1> DEFINE limit == editor_line_limit(s)
           line  == Clamp(l, 0, limit - 1)
<1>1. limit \in Nat /\ limit <= MaxRows /\ MaxRows \in Nat /\ 0 < MaxRows
  BY LimitBound
<1>2. CASE limit = 0
  <2>1. editor_set_cursor(s, l, c) = Placed(s, 0, 0)
    BY <1>2 DEF editor_set_cursor, Placed
  <2>2. 0 <= s.view
    BY BufParts
  <2> QED BY <1>1, <2>1, <2>2, MovesAgain
<1>3. CASE limit # 0
  <2>1. line \in Nat /\ line < MaxRows
    BY <1>1, <1>3 DEF Clamp
  <2>2. editor_set_cursor(s, l, c) = Placed(s, line, editor_cursor_col_boundary(s, line, c))
    BY <1>3 DEF editor_set_cursor, Placed
  <2> HIDE DEF line
  <2> QED BY <2>1, <2>2, PutIs
<1> QED BY <1>2, <1>3

LEMMA MoveLineIs ==
  ASSUME NEW s, IsBuf(s), NEW d \in Int
  PROVE  Moves(s, editor_move_cursor_line(s, d))
<1> DEFINE l == s.y + d
<1>1. CASE l \in 0 .. editor_line_limit(s) - 1
  <2>1. l \in Nat /\ l < MaxRows
    BY <1>1, LimitBound
  <2>2. s.x \in Int
    BY BufParts
  <2>3. editor_move_cursor_line(s, d) = Placed(s, l, editor_cursor_col_boundary(s, l, s.x))
    BY <1>1 DEF editor_move_cursor_line, Placed
  <2> HIDE DEF l
  <2> QED BY <2>1, <2>2, <2>3, PutIs
<1>2. CASE l \notin 0 .. editor_line_limit(s) - 1
  BY <1>2 DEF editor_move_cursor_line, Moves
<1> QED BY <1>1, <1>2

LEMMA ScreenMoveIs ==
  ASSUME NEW s, IsBuf(s), NEW d \in Int
  PROVE  Moves(s, editor_screen_move_line(s, d))
<1> DEFINE l == s.y + d
<1>1. CASE l \in 0 .. LoadLines - 1
  <2>1. l \in Nat /\ l < MaxRows
    BY <1>1, LimitBound
  <2>2. s.x \in Int
    BY BufParts
  <2>3. editor_screen_move_line(s, d) = Placed(s, l, editor_cursor_col_boundary(s, l, s.x))
    BY <1>1 DEF editor_screen_move_line, Placed
  <2> HIDE DEF l
  <2> QED BY <2>1, <2>2, <2>3, PutIs
<1>2. CASE l \notin 0 .. LoadLines - 1
  BY <1>2 DEF editor_screen_move_line, Moves
<1> QED BY <1>1, <1>2

LEMMA MovedByIs ==
  ASSUME NEW s, IsBuf(s), NEW d \in Int, NEW b \in BOOLEAN
  PROVE  Moves(s, MovedBy(s, d, b))
BY MoveLineIs, ScreenMoveIs DEF MovedBy

\* The end of a round puts the cursor back into the row and the view.
LEMMA SyncIs ==
  ASSUME NEW s, IsBuf(s)
  PROVE  /\ IsBuf(Sync(s)) /\ SameRows(s, Sync(s)) /\ SameTally(s, Sync(s))
         /\ Sync(s).view = s.view /\ Sync(s).y = s.y
         /\ Sync(s).x = editor_cursor_col_boundary(s, s.y, s.x)
         /\ Sync(s).x <= Sync(s).view
<1> DEFINE x == editor_cursor_col_boundary(s, s.y, s.x)
           y == s.y
<1>1. s.y \in Nat /\ s.x \in Int /\ s.y < MaxRows /\ MaxRows \in Nat
  BY BufParts, BufferAssumption
<1>2. x \in Nat /\ x <= s.view
  BY <1>1, BoundaryFits
<1>3. y \in 0 .. MaxRows - 1
  BY <1>1
<1>4. Sync(s) = [s EXCEPT !.x = x]
  BY DEF Sync
<1>5. y = s.y
  OBVIOUS
<1> HIDE DEF x, y
<1>6. Sync(s) = Placed(s, y, x)
  BY <1>4, <1>5 DEF IsBuf, Buffer, Placed
<1>7. /\ IsBuf(Sync(s)) /\ SameRows(s, Sync(s)) /\ SameTally(s, Sync(s))
      /\ Sync(s).view = s.view /\ Sync(s).y = y /\ Sync(s).x = x
  BY <1>2, <1>3, <1>6, PlacedIs
<1> QED BY <1>2, <1>5, <1>7 DEF x

-----------------------------------------------------------------------------
(* Making room                                                             *)

\* The cells that are shown stay what they are.
SameText(s, t) ==
  \A r \in Rows(s) : /\ t.len[r] = s.len[r]
                     /\ \A i \in 0 .. s.len[r] - 1 : Cell(t, r, i) = Cell(s, r, i)

\* There is more room, and nothing else changes.
Grows(s, t) ==
  /\ IsBuf(t) /\ SameTally(s, t) /\ SameCursor(s, t) /\ t.view = s.view
  /\ s.rows <= t.rows /\ SameText(s, t)

LEMMA GrowsItself ==
  ASSUME NEW s, IsBuf(s)
  PROVE  Grows(s, s)
<1>1. s.rows \in Nat
  BY BufParts
<1> QED BY <1>1 DEF Grows, SameTally, SameCursor, SameText

LEMMA GrowsOn ==
  ASSUME NEW s, NEW t, NEW u, IsBuf(s), Grows(s, t), Grows(t, u)
  PROVE  Grows(s, u)
<1>1. s.rows \in Nat /\ t.rows \in Nat /\ u.rows \in Nat
  BY BufParts DEF Grows
<1>2. \A r \in Rows(s) : r \in Rows(t)
  BY <1>1 DEF Rows, Grows
<1>3. SameText(s, u)
  BY <1>2 DEF SameText, Grows
<1>4. s.rows <= u.rows
  BY <1>1 DEF Grows
<1> QED BY <1>3, <1>4 DEF Grows, SameTally, SameCursor

Raised(k, l, d) == [k EXCEPT ![l] = k[l] + d]
Widened(s, l, d) ==
  Filled(s, Opened(s.cells, s.total, s.off[l] + s.cap[l], d), s.total + d, Shifted(s, l, d), Raised(s.cap, l, d),
         s.len, s.rows)

LEMMA OpenedCells ==
  ASSUME NEW z \in Nat, NEW c \in [0 .. z - 1 -> Content], NEW p \in 0 .. z, NEW d \in Nat
  PROVE  Opened(c, z, p, d) \in [0 .. z + d - 1 -> Content]
<1>1. Nul \in Content
  BY DEF Content
<1>2. ASSUME NEW i \in 0 .. z + d - 1
      PROVE  (IF i < p THEN c[i] ELSE IF i < p + d THEN Nul ELSE c[i - d]) \in Content
  <2>1. CASE i < p
    <3>1. i \in 0 .. z - 1
      BY <2>1
    <3>2. c[i] \in Content
      BY <3>1
    <3> QED BY <2>1, <3>2
  <2>2. CASE i >= p /\ i < p + d
    BY <1>1, <2>2
  <2>3. CASE i >= p + d
    <3>1. i - d \in 0 .. z - 1 /\ ~ (i < p) /\ ~ (i < p + d)
      BY <2>3
    <3>2. c[i - d] \in Content
      BY <3>1
    <3> QED BY <3>1, <3>2
  <2> QED BY <2>1, <2>2, <2>3
<1> QED BY <1>2 DEF Opened

LEMMA ShiftedRows ==
  ASSUME NEW m \in Nat \ {0}, NEW o, NEW k, NEW n, NEW t \in Nat, IsRows(m, o, k, n, t),
         NEW l \in 0 .. m - 1, NEW d \in Nat
  PROVE  IsRows(m, [r \in 0 .. m - 1 |-> IF r > l THEN o[r] + d ELSE o[r]],
                Raised(k, l, d), n, t + d)
<1> DEFINE p == [r \in 0 .. m - 1 |-> IF r > l THEN o[r] + d ELSE o[r]]
           h == Raised(k, l, d)
<1>1. o \in [0 .. m - 1 -> Nat] /\ k \in [0 .. m - 1 -> Nat] /\ n \in [0 .. m - 1 -> Nat]
  BY DEF IsRows
<1>2. p \in [0 .. m - 1 -> Nat]
  <2>1. \A r \in 0 .. m - 1 : (IF r > l THEN o[r] + d ELSE o[r]) \in Nat
    BY <1>1
  <2> QED BY <2>1
<1>3. h \in [0 .. m - 1 -> Nat]
  BY <1>1 DEF Raised
<1>4. ASSUME NEW r \in 0 .. m - 1
      PROVE  /\ n[r] <= h[r]
             /\ p[r] + h[r] <= (IF r + 1 \in 0 .. m - 1 THEN p[r + 1] ELSE t + d)
  <2>1. /\ o[r] \in Nat /\ k[r] \in Nat /\ n[r] \in Nat /\ n[r] <= k[r] /\ o[r] + k[r] <= t
        /\ r + 1 \in 0 .. m - 1 => o[r] + k[r] <= o[r + 1] /\ o[r + 1] \in Nat
    BY <1>1, RowIn
  <2>2. h[r] = (IF r = l THEN k[r] + d ELSE k[r]) /\ p[r] = (IF r > l THEN o[r] + d ELSE o[r])
    BY <1>1 DEF Raised
  <2>3. r + 1 \in 0 .. m - 1 => p[r + 1] = (IF r + 1 > l THEN o[r + 1] + d ELSE o[r + 1])
    OBVIOUS
  <2> HIDE DEF p, h
  <2>4. n[r] <= h[r]
    BY <2>1, <2>2
  <2>5. CASE r + 1 \in 0 .. m - 1
    <3>1. p[r] + h[r] <= p[r + 1]
      BY <2>1, <2>2, <2>3, <2>5
    <3> QED BY <2>4, <2>5, <3>1
  <2>6. CASE r + 1 \notin 0 .. m - 1
    BY <2>1, <2>2, <2>4, <2>6
  <2> QED BY <2>5, <2>6
<1> HIDE DEF p, h
<1>5. IsRows(m, p, h, n, t + d)
  BY <1>1, <1>2, <1>3, <1>4 DEF IsRows, Laid
<1> QED BY <1>5 DEF p, h

LEMMA WidenedIs ==
  ASSUME NEW s, IsBuf(s), NEW l \in Rows(s), NEW d \in Nat
  PROVE  LET t == Widened(s, l, d)
         IN  /\ IsBuf(t) /\ SameTally(s, t) /\ SameCursor(s, t) /\ t.view = s.view
             /\ t.rows = s.rows /\ t.len = s.len /\ t.off = Shifted(s, l, d)
             /\ t.cells = Opened(s.cells, s.total, s.off[l] + s.cap[l], d) /\ t.total = s.total + d
             /\ t.cap = Raised(s.cap, l, d)
<1> DEFINE a == Opened(s.cells, s.total, s.off[l] + s.cap[l], d)
           n == s.total + d
           o == Shifted(s, l, d)
           k == Raised(s.cap, l, d)
           m == s.rows
<1>1. /\ s.total \in Nat /\ m \in Nat \ {0} /\ m <= MaxRows /\ MaxRows \in Nat
      /\ s.cells \in [0 .. s.total - 1 -> Content]
  BY BufParts, BufferAssumption
<1>2. l \in 0 .. m - 1 /\ s.off[l] \in Nat /\ s.cap[l] \in Nat /\ s.off[l] + s.cap[l] <= s.total
  BY RowOf DEF Rows
<1>3. a \in [0 .. n - 1 -> Content]
  <2> DEFINE c == s.cells
             z == s.total
             p == s.off[l] + s.cap[l]
  <2>1. c \in [0 .. z - 1 -> Content] /\ z \in Nat /\ p \in 0 .. z /\ n = z + d
    BY <1>1, <1>2
  <2>2. a = Opened(c, z, p, d)
    OBVIOUS
  <2> HIDE DEF c, z, p, a, n
  <2> QED BY <2>1, <2>2, OpenedCells
<1>4. IsRows(m, o, k, s.len, n)
  <2>1. IsRows(m, s.off, s.cap, s.len, s.total)
    BY RowParts
  <2>2. o = [r \in 0 .. m - 1 |-> IF r > l THEN s.off[r] + d ELSE s.off[r]]
    BY DEF Shifted, Rows
  <2> DEFINE f == s.off
             g == s.cap
             h == s.len
             z == s.total
  <2>3. /\ IsRows(m, f, g, h, z) /\ z \in Nat
        /\ o = [r \in 0 .. m - 1 |-> IF r > l THEN f[r] + d ELSE f[r]]
        /\ k = Raised(g, l, d) /\ n = z + d
    BY <1>1, <2>1, <2>2
  <2> HIDE DEF f, g, h, z, o, k, n, m
  <2>4. IsRows(m, [r \in 0 .. m - 1 |-> IF r > l THEN f[r] + d ELSE f[r]],
               Raised(g, l, d), h, z + d)
    BY <1>1, <1>2, <2>3, ShiftedRows
  <2>5. IsRows(m, o, k, h, n)
    BY <2>3, <2>4
  <2> QED BY <2>5 DEF h
<1>5. n \in Nat /\ m \in 1 .. MaxRows
  BY <1>1
<1>6. Widened(s, l, d) = Filled(s, a, n, o, k, s.len, m)
  BY DEF Widened
<1> HIDE DEF a, n, o, k, m
<1>7. LET u == Filled(s, a, n, o, k, s.len, m)
      IN  /\ IsBuf(u) /\ SameTally(s, u) /\ SameCursor(s, u) /\ u.view = s.view
          /\ u.cells = a /\ u.total = n /\ u.off = o /\ u.cap = k /\ u.len = s.len /\ u.rows = m
  BY <1>3, <1>4, <1>5, FilledIs
<1> QED BY <1>6, <1>7 DEF a, n, o, k, m

\* Every row that was there is still there, whatever is between the rows.
LEMMA WidenedText ==
  ASSUME NEW s, IsBuf(s), NEW l \in Rows(s), NEW d \in Nat
  PROVE  SameText(s, Widened(s, l, d))
<1> DEFINE t == Widened(s, l, d)
           c == s.cells
           z == s.total
           p == s.off[l] + s.cap[l]
<1>1. t.len = s.len /\ t.off = Shifted(s, l, d) /\ t.cells = Opened(c, z, p, d)
  BY WidenedIs
<1> HIDE DEF t
<1>2. z \in Nat /\ p \in 0 .. z /\ s.rows \in Nat
  BY BufParts, RowOf
<1>3. ASSUME NEW r \in Rows(s), NEW i \in 0 .. s.len[r] - 1
      PROVE  Cell(t, r, i) = Cell(s, r, i)
  <2> DEFINE j == s.off[r] + i
  <2>1. j \in Nat /\ j < s.off[r] + s.cap[r] /\ j < z
    BY <1>2, RowOf
  <2>2. CASE r > l
    <3>1. p <= s.off[r]
      <4>1. IsRows(s.rows, s.off, s.cap, s.len, s.total) /\ s.rows \in Nat \ {0}
        BY RowParts, BufParts
      <4>2. r \in 0 .. s.rows - 1 /\ l \in 0 .. s.rows - 1 /\ l < r
        BY <2>2, <1>2 DEF Rows
      <4>3. s.off[l] + s.cap[l] <= s.off[r]
        BY <1>2, <4>1, <4>2, Behind
      <4> QED BY <4>3
    <3>2. t.off[r] = s.off[r] + d
      BY <1>1, <2>2 DEF Shifted
    <3>3. s.off[r] \in Nat
      BY RowOf
    <3>4. Cell(t, r, i) = Opened(c, z, p, d)[j + d]
      BY <1>1, <3>2, <3>3 DEF Cell
    <3>5. j >= p
      BY <3>1, <3>3, <1>2
    <3> HIDE DEF c, z, p, j
    <3>6. j + d \in 0 .. z + d - 1 /\ ~ (j + d < p) /\ ~ (j + d < p + d) /\ (j + d) - d = j
      BY <1>2, <2>1, <3>5
    <3>7. Opened(c, z, p, d)[j + d] = c[j]
      BY <3>6 DEF Opened
    <3> QED BY <3>4, <3>7 DEF c, j, Cell
  <2>3. CASE ~ (r > l)
    <3>1. s.off[r] + s.cap[r] <= p
      <4>1. CASE r = l
        BY <4>1, <1>2
      <4>2. CASE r # l
        <5>1. IsRows(s.rows, s.off, s.cap, s.len, s.total) /\ s.rows \in Nat \ {0}
          BY RowParts, BufParts
        <5>2. r \in 0 .. s.rows - 1 /\ l \in 0 .. s.rows - 1 /\ r < l
          BY <2>3, <4>2, <1>2 DEF Rows
        <5>3. s.off[r] + s.cap[r] <= s.off[l]
          BY <1>2, <5>1, <5>2, Behind
        <5> QED BY <5>3, RowOf
      <4> QED BY <4>1, <4>2
    <3>2. t.off[r] = s.off[r]
      BY <1>1, <2>3 DEF Shifted
    <3>3. Cell(t, r, i) = Opened(c, z, p, d)[j]
      BY <1>1, <3>2 DEF Cell
    <3>4. j < p
      BY <2>1, <3>1, <1>2, RowOf
    <3> HIDE DEF c, z, p, j
    <3>5. j \in 0 .. z + d - 1
      BY <1>2, <2>1
    <3>6. Opened(c, z, p, d)[j] = c[j]
      BY <3>4, <3>5 DEF Opened
    <3> QED BY <3>3, <3>6 DEF c, j, Cell
  <2> QED BY <2>2, <2>3
<1> QED BY <1>1, <1>3 DEF SameText, t

\* editor_ensure_line_cap either does nothing or gives the row what it asks for.
LEMMA LineCapIs ==
  ASSUME NEW s, IsBuf(s), NEW l \in Nat, NEW need \in Nat
  PROVE  LET t == editor_ensure_line_cap(s, l, need)
         IN  Grows(s, t) /\ t.rows = s.rows
<1> DEFINE t == editor_ensure_line_cap(s, l, need)
           d == Missing(s, l, need)
<1>1. s.rows \in Nat
  BY BufParts
<1>2. CASE t = s
  BY <1>2, GrowsItself
<1>3. CASE t # s
  <2>1. l \in Rows(s) /\ ~ (need <= s.cap[l]) /\ ~ (need > ColMax)
    BY <1>3 DEF editor_ensure_line_cap
  <2>2. s.cap[l] \in Nat /\ need > s.cap[l] /\ need <= ColMax /\ ColMax \in Nat
    BY <2>1, RowOf, BufferAssumption
  <2>3. d \in Nat
    <3> DEFINE old  == s.cap[l]
               base == IF old > 0 THEN old ELSE Slack
               v    == Doubled(base, need)
    <3>1. base \in Nat \ {0}
      BY <2>2, BufferAssumption
    <3>2. d = Least(v, ColMax) - old
      BY DEF Missing
    <3> HIDE DEF base
    <3>3. v \in Nat /\ v >= need
      BY <3>1, DoubledIs
    <3> HIDE DEF v, d, old
    <3>4. Least(v, ColMax) \in Nat /\ Least(v, ColMax) >= need
      BY <2>2, <3>3 DEF Least
    <3>5. old \in Nat /\ need > old
      BY <2>2 DEF old
    <3> QED BY <3>2, <3>4, <3>5
  <2>4. t = Widened(s, l, d)
    <3>1. t = [s EXCEPT !.cells = Opened(s.cells, s.total, s.off[l] + s.cap[l], d),
                        !.total = s.total + d, !.off = Shifted(s, l, d),
                        !.cap[l] = s.cap[l] + d]
      BY <1>3 DEF editor_ensure_line_cap
    <3>2. s \in Buffer
      BY DEF IsBuf
    <3> HIDE DEF d, t
    <3> QED BY <3>1, <3>2 DEF Widened, Filled, Raised, Buffer
  <2> HIDE DEF t, d
  <2>5. /\ IsBuf(t) /\ SameTally(s, t) /\ SameCursor(s, t) /\ t.view = s.view /\ t.rows = s.rows
    BY <2>1, <2>3, <2>4, WidenedIs
  <2>6. SameText(s, Widened(s, l, d))
    BY <2>1, <2>3, WidenedText
  <2>7. SameText(s, t)
    BY <2>4, <2>6
  <2>8. Grows(s, t) /\ t.rows = s.rows
    BY <1>1, <2>5, <2>7 DEF Grows
  <2> QED BY <2>8 DEF t
<1> QED BY <1>2, <1>3

LEMMA ExtendedRows ==
  ASSUME NEW m \in Nat \ {0}, NEW o, NEW k, NEW n, NEW t \in Nat, IsRows(m, o, k, n, t),
         NEW g \in Nat, m <= g
  PROVE  IsRows(g, Extended(o, m, g, t), Extended(k, m, g, 0), Extended(n, m, g, 0), t)
<1> DEFINE p == Extended(o, m, g, t)
           h == Extended(k, m, g, 0)
           w == Extended(n, m, g, 0)
<1>1. o \in [0 .. m - 1 -> Nat] /\ k \in [0 .. m - 1 -> Nat] /\ n \in [0 .. m - 1 -> Nat]
  BY DEF IsRows
<1>2. p \in [0 .. g - 1 -> Nat]
  BY <1>1 DEF Extended
<1>3. h \in [0 .. g - 1 -> Nat]
  BY <1>1 DEF Extended
<1>4. w \in [0 .. g - 1 -> Nat]
  BY <1>1 DEF Extended
<1>5. ASSUME NEW r \in 0 .. g - 1
      PROVE  /\ p[r] = (IF r < m THEN o[r] ELSE t)
             /\ h[r] = (IF r < m THEN k[r] ELSE 0)
             /\ w[r] = (IF r < m THEN n[r] ELSE 0)
  BY DEF Extended
<1>6. ASSUME NEW r \in 0 .. g - 1
      PROVE  /\ w[r] <= h[r]
             /\ p[r] + h[r] <= (IF r + 1 \in 0 .. g - 1 THEN p[r + 1] ELSE t)
  <2>1. CASE r < m
    <3>1. r \in 0 .. m - 1
      BY <2>1
    <3>2. /\ o[r] \in Nat /\ k[r] \in Nat /\ n[r] \in Nat /\ n[r] <= k[r] /\ o[r] + k[r] <= t
          /\ r + 1 \in 0 .. m - 1 => o[r] + k[r] <= o[r + 1]
      BY <3>1, RowIn
    <3>3. p[r] = o[r] /\ h[r] = k[r] /\ w[r] = n[r]
      BY <1>5, <2>1
    <3>4. CASE r + 1 \in 0 .. g - 1
      <4>1. p[r + 1] = (IF r + 1 < m THEN o[r + 1] ELSE t)
        BY <1>5, <3>4
      <4>2. r + 1 < m => r + 1 \in 0 .. m - 1
        BY <3>1
      <4> QED BY <3>2, <3>3, <3>4, <4>1, <4>2
    <3>5. CASE r + 1 \notin 0 .. g - 1
      BY <3>2, <3>3, <3>5
    <3> QED BY <3>4, <3>5
  <2>2. CASE ~ (r < m)
    <3>1. p[r] = t /\ h[r] = 0 /\ w[r] = 0
      BY <1>5, <2>2
    <3>2. r + 1 \in 0 .. g - 1 => p[r + 1] = t
      <4>1. ~ (r + 1 < m)
        BY <2>2
      <4> QED BY <1>5, <4>1
    <3> QED BY <3>1, <3>2
  <2> QED BY <2>1, <2>2
<1> HIDE DEF p, h, w
<1>7. IsRows(g, p, h, w, t)
  BY <1>2, <1>3, <1>4, <1>6 DEF IsRows, Laid
<1> QED BY <1>7 DEF p, h, w

LEMMA RowCapacityIs ==
  ASSUME NEW s, IsBuf(s), NEW need \in Nat
  PROVE  Grows(s, editor_ensure_row_capacity(s, need))
<1> DEFINE t == editor_ensure_row_capacity(s, need)
           g == Doubled(s.rows, need)
           o == Extended(s.off, s.rows, g, s.total)
           k == Extended(s.cap, s.rows, g, 0)
           n == Extended(s.len, s.rows, g, 0)
<1>1. CASE t = s
  BY <1>1, GrowsItself
<1>2. CASE t # s
  <2>1. /\ s.rows \in Nat \ {0} /\ s.total \in Nat /\ MaxRows \in Nat
        /\ s.cells \in [0 .. s.total - 1 -> Content]
    BY BufParts, BufferAssumption
  <2>2. g \in Nat /\ g >= s.rows
    BY <2>1, DoubledIs
  <2>3. g \in 1 .. MaxRows
    <3>1. ~ (g > MaxRows)
      BY <1>2 DEF editor_ensure_row_capacity
    <3> HIDE DEF g
    <3> QED BY <2>1, <2>2, <3>1
  <2>4. t = [s EXCEPT !.off = o, !.cap = k, !.len = n, !.rows = g]
    BY <1>2 DEF editor_ensure_row_capacity
  <2> HIDE DEF t, g
  <2>5. IsRows(g, o, k, n, s.total)
    <3>1. s.rows <= g
      BY <2>1, <2>2
    <3> QED BY <2>1, <2>2, <3>1, RowParts, ExtendedRows
  <2> DEFINE c == s.cells
             z == s.total
             m == s.rows
  <2>6. t = Filled(s, c, z, o, k, n, g)
    <3>1. s \in Buffer
      BY DEF IsBuf
    <3> HIDE DEF o, k, n
    <3> QED BY <2>4, <3>1 DEF Filled, Buffer
  <2>7. \A r \in Rows(s) : o[r] = s.off[r] /\ n[r] = s.len[r]
    <3>1. \A r \in Rows(s) : r \in 0 .. g - 1 /\ r < s.rows
      BY <2>1, <2>2 DEF Rows
    <3> QED BY <3>1 DEF Extended
  <2>8. c \in [0 .. z - 1 -> Content] /\ z \in Nat /\ IsRows(g, o, k, n, z)
    BY <2>1, <2>5
  <2> HIDE DEF o, k, n, c, z, m
  <2>9. /\ IsBuf(t) /\ SameTally(s, t) /\ SameCursor(s, t) /\ t.view = s.view
        /\ t.rows = g /\ t.cells = c /\ t.off = o /\ t.len = n
    <3>1. LET u == Filled(s, c, z, o, k, n, g)
          IN  /\ IsBuf(u) /\ SameTally(s, u) /\ SameCursor(s, u) /\ u.view = s.view
              /\ u.cells = c /\ u.total = z /\ u.off = o /\ u.cap = k /\ u.len = n /\ u.rows = g
      BY <2>3, <2>8, FilledIs
    <3> QED BY <2>6, <3>1
  <2>10. SameText(s, t)
    <3>1. t.cells = s.cells
      BY <2>9 DEF c
    <3> QED BY <2>7, <2>9, <3>1 DEF SameText, Cell
  <2>11. Grows(s, t)
    BY <2>1, <2>2, <2>9, <2>10 DEF Grows
  <2> QED BY <2>11 DEF t
<1> QED BY <1>1, <1>2

-----------------------------------------------------------------------------
(* Changing the text                                                       *)

IsPlaced(s, t, y, x) ==
  /\ IsBuf(t) /\ SameRows(s, t) /\ SameTally(s, t) /\ t.view = s.view
  /\ t.y = y /\ t.x = x

LEMMA PlacedAs ==
  ASSUME NEW s, IsBuf(s), NEW y \in 0 .. MaxRows - 1, NEW x \in Nat
  PROVE  IsPlaced(s, Placed(s, y, x), y, x)
<1> DEFINE t == Placed(s, y, x)
<1>1. IsBuf(t) /\ SameRows(s, t) /\ SameTally(s, t) /\ t.view = s.view /\ t.y = y /\ t.x = x
  BY PlacedIs
<1> QED BY <1>1 DEF IsPlaced

Made(s, a, t, o, k, n, m, e, c, b, y, x) ==
  Placed(Tallied(Filled(s, a, t, o, k, n, m), e, c, b), y, x)

LEMMA MadeIs ==
  ASSUME NEW s, IsBuf(s), NEW t \in Nat, NEW a \in [0 .. t - 1 -> Content],
         NEW m \in 1 .. MaxRows, NEW o, NEW k, NEW n, IsRows(m, o, k, n, t),
         NEW e \in 0 .. MaxRows, NEW c \in 0 .. LoadLines, NEW b \in BOOLEAN,
         NEW y \in 0 .. MaxRows - 1, NEW x \in Nat
  PROVE  LET u == Made(s, a, t, o, k, n, m, e, c, b, y, x)
         IN  /\ IsBuf(u) /\ u.view = s.view
             /\ u.cells = a /\ u.total = t /\ u.off = o /\ u.cap = k /\ u.len = n /\ u.rows = m
             /\ u.end = e /\ u.counter = c /\ u.open = b /\ u.x = x /\ u.y = y
<1> DEFINE v == Filled(s, a, t, o, k, n, m)
           w == Tallied(v, e, c, b)
           u == Placed(w, y, x)
<1>4. u = Made(s, a, t, o, k, n, m, e, c, b, y, x)
  BY DEF Made
<1>1. /\ IsBuf(v) /\ v.view = s.view
      /\ v.cells = a /\ v.total = t /\ v.off = o /\ v.cap = k /\ v.len = n /\ v.rows = m
  BY FilledIs
<1> HIDE DEF v
<1>2. IsBuf(w) /\ SameRows(v, w) /\ w.view = v.view /\ w.end = e /\ w.counter = c /\ w.open = b
  BY <1>1, TalliedIs
<1> HIDE DEF w
<1>3. IsBuf(u) /\ SameRows(w, u) /\ SameTally(w, u) /\ u.view = w.view /\ u.y = y /\ u.x = x
  <2>1. IsBuf(w)
    BY <1>2
  <2>2. y \in 0 .. MaxRows - 1 /\ x \in Nat
    OBVIOUS
  <2>3. LET q == Placed(w, y, x)
        IN  /\ IsBuf(q) /\ SameRows(w, q) /\ SameTally(w, q) /\ q.view = w.view
            /\ q.y = y /\ q.x = x
    <3>1. IsPlaced(w, Placed(w, y, x), y, x)
      BY <2>1, <2>2, PlacedAs
    <3> QED BY <3>1 DEF IsPlaced
  <2> QED BY <2>3
<1> HIDE DEF u
<1>5. /\ u.cells = a /\ u.total = t /\ u.off = o /\ u.cap = k /\ u.len = n /\ u.rows = m
      /\ u.end = e /\ u.counter = c /\ u.open = b
  BY <1>1, <1>2, <1>3 DEF SameRows, SameTally
<1>6. u.view = s.view
  BY <1>1, <1>2, <1>3
<1> QED BY <1>3, <1>4, <1>5, <1>6

IsMade(s, u, a, t, o, k, n, m, e, c, b, y, x) ==
  /\ IsBuf(u) /\ u.view = s.view
  /\ u.cells = a /\ u.total = t /\ u.off = o /\ u.cap = k /\ u.len = n /\ u.rows = m
  /\ u.end = e /\ u.counter = c /\ u.open = b /\ u.x = x /\ u.y = y

LEMMA MadeAs ==
  ASSUME NEW s, IsBuf(s), NEW t \in Nat, NEW a \in [0 .. t - 1 -> Content],
         NEW m \in 1 .. MaxRows, NEW o, NEW k, NEW n, IsRows(m, o, k, n, t),
         NEW e \in 0 .. MaxRows, NEW c \in 0 .. LoadLines, NEW b \in BOOLEAN,
         NEW y \in 0 .. MaxRows - 1, NEW x \in Nat
  PROVE  IsMade(s, Made(s, a, t, o, k, n, m, e, c, b, y, x), a, t, o, k, n, m, e, c, b, y, x)
<1> DEFINE u == Made(s, a, t, o, k, n, m, e, c, b, y, x)
<1>1. /\ IsBuf(u) /\ u.view = s.view
      /\ u.cells = a /\ u.total = t /\ u.off = o /\ u.cap = k /\ u.len = n /\ u.rows = m
      /\ u.end = e /\ u.counter = c /\ u.open = b /\ u.x = x /\ u.y = y
  BY MadeIs
<1> QED BY <1>1 DEF IsMade

\* A length that does not exceed the capacity of its row.
Given(n, l, v) == [n EXCEPT ![l] = v]

LEMMA GivenRows ==
  ASSUME NEW m \in Nat \ {0}, NEW o, NEW k, NEW n, NEW t \in Nat, IsRows(m, o, k, n, t),
         NEW l \in 0 .. m - 1, NEW v \in Nat, v <= k[l]
  PROVE  IsRows(m, o, k, Given(n, l, v), t)
<1>1. o \in [0 .. m - 1 -> Nat] /\ k \in [0 .. m - 1 -> Nat] /\ n \in [0 .. m - 1 -> Nat]
  BY DEF IsRows
<1>2. Given(n, l, v) \in [0 .. m - 1 -> Nat]
  BY <1>1 DEF Given
<1>3. \A r \in 0 .. m - 1 : Given(n, l, v)[r] = IF r = l THEN v ELSE n[r]
  BY <1>1 DEF Given
<1>4. \A r \in 0 .. m - 1 : Given(n, l, v)[r] <= k[r]
  BY <1>3 DEF IsRows, Laid
<1> QED BY <1>1, <1>2, <1>4 DEF IsRows, Laid

LEMMA CellsWithIs ==
  ASSUME NEW z \in Nat, NEW c \in [0 .. z - 1 -> Content], NEW at \in Nat,
         NEW end \in 0 .. z, NEW ch \in Content, NEW w \in Nat
  PROVE  CellsWith(c, at, end, ch, w) \in [0 .. z - 1 -> Content]
<1>1. Nul \in Content /\ DOMAIN c = 0 .. z - 1
  BY DEF Content
<1>2. ASSUME NEW i \in 0 .. z - 1
      PROVE  (IF i = at THEN ch
              ELSE IF i \in at + 1 .. at + w - 1 THEN Nul
              ELSE IF i \in at + w .. end + w - 1 THEN c[i - w] ELSE c[i]) \in Content
  <2>1. i \in at + w .. end + w - 1 => i - w \in 0 .. z - 1
    OBVIOUS
  <2>2. i \in at + w .. end + w - 1 => c[i - w] \in Content
    BY <2>1
  <2>3. c[i] \in Content
    OBVIOUS
  <2> QED BY <1>1, <2>2, <2>3
<1> QED BY <1>1, <1>2 DEF CellsWith

LEMMA CellsWithoutIs ==
  ASSUME NEW z \in Nat, NEW c \in [0 .. z - 1 -> Content], NEW at \in Nat,
         NEW end \in 0 .. z, NEW w \in Nat
  PROVE  CellsWithout(c, at, end, w) \in [0 .. z - 1 -> Content]
<1>1. Nul \in Content /\ DOMAIN c = 0 .. z - 1
  BY DEF Content
<1>2. ASSUME NEW i \in 0 .. z - 1
      PROVE  (IF i \in at .. end - w - 1 THEN c[i + w]
              ELSE IF i \in end - w .. end - 1 THEN Nul ELSE c[i]) \in Content
  <2>1. i \in at .. end - w - 1 => i + w \in 0 .. z - 1
    OBVIOUS
  <2>2. i \in at .. end - w - 1 => c[i + w] \in Content
    BY <2>1
  <2>3. c[i] \in Content
    OBVIOUS
  <2> QED BY <1>1, <2>2, <2>3
<1> QED BY <1>1, <1>2 DEF CellsWithout

LEMMA CellsMovedIs ==
  ASSUME NEW z \in Nat, NEW c \in [0 .. z - 1 -> Content], NEW from \in Nat, NEW n \in Nat,
         from + n <= z, NEW to \in Nat, NEW end \in Nat
  PROVE  CellsMoved(c, from, n, to, end) \in [0 .. z - 1 -> Content]
<1>1. Nul \in Content /\ DOMAIN c = 0 .. z - 1
  BY DEF Content
<1>2. ASSUME NEW i \in 0 .. z - 1
      PROVE  (IF i \in to .. to + n - 1 THEN c[from + i - to]
              ELSE IF i \in to + n .. end - 1 THEN Nul ELSE c[i]) \in Content
  <2>1. i \in to .. to + n - 1 => from + i - to \in 0 .. z - 1
    OBVIOUS
  <2>2. i \in to .. to + n - 1 => c[from + i - to] \in Content
    BY <2>1
  <2>3. c[i] \in Content
    OBVIOUS
  <2> QED BY <1>1, <2>2, <2>3
<1> QED BY <1>1, <1>2 DEF CellsMoved

\* A row that some cells of are written, and the counters and the cursor with it.
Written(s, l, a, v, e, x) == [s EXCEPT !.cells = a, !.len[l] = v, !.end = e, !.x = x]

LEMMA WrittenIs ==
  ASSUME NEW s, IsBuf(s), NEW l \in Rows(s), NEW a \in [0 .. s.total - 1 -> Content],
         NEW v \in Nat, v <= s.cap[l], NEW e \in 0 .. MaxRows, NEW x \in Nat
  PROVE  LET t == Written(s, l, a, v, e, x)
         IN  /\ IsBuf(t) /\ t.view = s.view /\ t.x = x /\ t.rows = s.rows
             /\ t.counter = s.counter /\ t.open = s.open /\ t.y = s.y
             /\ t.len = Given(s.len, l, v) /\ t.end = e /\ t.cells = a /\ t.off = s.off
<1> DEFINE t == Written(s, l, a, v, e, x)
           o == s.off
           k == s.cap
           n == Given(s.len, l, v)
           m == s.rows
           z == s.total
           c == s.counter
           b == s.open
           y == s.y
<1>1. /\ z \in Nat /\ m \in 1 .. MaxRows /\ c \in 0 .. LoadLines /\ b \in BOOLEAN
      /\ y \in 0 .. MaxRows - 1 /\ m \in Nat \ {0}
  BY BufParts, BufferAssumption
<1>2. IsRows(m, o, k, n, z)
  <2> DEFINE h == s.len
  <2>1. IsRows(m, o, k, h, z) /\ l \in 0 .. m - 1 /\ v <= k[l]
    BY RowParts DEF Rows
  <2> HIDE DEF o, k, m, z, h
  <2>2. IsRows(m, o, k, Given(h, l, v), z)
    BY <1>1, <2>1, GivenRows
  <2> QED BY <2>2 DEF h
<1>3. a \in [0 .. z - 1 -> Content]
  OBVIOUS
<1>4. t = Made(s, a, z, o, k, n, m, e, c, b, y, x)
  <2>1. s \in Buffer
    BY DEF IsBuf
  <2> QED BY <2>1 DEF Written, Made, Placed, Tallied, Filled, Given, Buffer
<1>5. n = Given(s.len, l, v) /\ o = s.off /\ m = s.rows /\ c = s.counter /\ b = s.open /\ y = s.y
  OBVIOUS
<1> HIDE DEF t, o, k, n, m, z, c, b, y
<1>6. LET u == Made(s, a, z, o, k, n, m, e, c, b, y, x)
      IN  /\ IsBuf(u) /\ u.view = s.view
          /\ u.cells = a /\ u.total = z /\ u.off = o /\ u.cap = k /\ u.len = n /\ u.rows = m
          /\ u.end = e /\ u.counter = c /\ u.open = b /\ u.x = x /\ u.y = y
  BY <1>1, <1>2, <1>3, MadeIs
<1>7. /\ IsBuf(t) /\ t.view = s.view /\ t.x = x /\ t.rows = m /\ t.counter = c /\ t.open = b
      /\ t.y = y /\ t.len = n /\ t.end = e /\ t.cells = a /\ t.off = o
  BY <1>4, <1>6
<1> QED BY <1>5, <1>7 DEF t

LEMMA WidthIs ==
  ASSUME NEW ch
  PROVE  Width(ch) \in {1, 2} /\ (Width(ch) = 2 <=> ch \in Wide)
BY DEF Width

\* A glyph put into a row that has the cells for it.
LEMMA InsertedIs ==
  ASSUME NEW s, IsBuf(s), NEW l \in Rows(s), l < editor_line_limit(s), NEW x \in Nat,
         x <= s.len[l], NEW ch \in Glyph, s.len[l] + Width(ch) <= s.cap[l]
  PROVE  LET t == Inserted(s, l, x, ch)
         IN  /\ IsBuf(t) /\ t.view = s.view /\ t.x = x + Width(ch) /\ t.rows = s.rows
             /\ t.counter = s.counter /\ t.open = s.open /\ t.y = s.y
             /\ t.len = Given(s.len, l, s.len[l] + Width(ch))
             /\ t.end = (IF l >= s.end THEN l + 1 ELSE s.end)
             /\ t.off = s.off
             /\ t.cells = CellsWith(s.cells, s.off[l] + x, s.off[l] + s.len[l], ch, Width(ch))
<1> DEFINE w  == Width(ch)
           n  == s.len[l]
           at == s.off[l] + x
           end == s.off[l] + n
           a  == CellsWith(s.cells, at, end, ch, w)
           v  == n + w
           e  == IF l >= s.end THEN l + 1 ELSE s.end
           t  == Inserted(s, l, x, ch)
<1>1. w \in Nat
  BY WidthIs
<1>2. /\ s.total \in Nat /\ s.cells \in [0 .. s.total - 1 -> Content]
      /\ s.end \in Nat /\ s.end <= MaxRows /\ s.rows \in Nat /\ s.rows <= MaxRows /\ MaxRows \in Nat
  BY BufParts, BufferAssumption
<1>3. /\ s.off[l] \in Nat /\ n \in Nat /\ s.cap[l] \in Nat /\ n <= s.cap[l]
      /\ s.off[l] + s.cap[l] <= s.total
  BY RowOf
<1>4. l \in Nat /\ l < s.rows
  BY <1>2 DEF Rows
<1>5. editor_line_len(s, l) = n
  BY <1>4, LenOf
<1>6. e \in 0 .. MaxRows
  BY <1>2, <1>4
<1>7. v \in Nat /\ v <= s.cap[l] /\ x + w \in Nat
  BY <1>1, <1>3
<1>8. a \in [0 .. s.total - 1 -> Content]
  <2> DEFINE z == s.total
             c == s.cells
  <2>1. at \in Nat /\ end \in 0 .. z
    <3> DEFINE o == s.off[l]
               k == s.cap[l]
    <3>0. /\ o \in Nat /\ n \in Nat /\ k \in Nat /\ n <= k /\ o + k <= z /\ z \in Nat
          /\ x \in Nat /\ at = o + x /\ end = o + n
      BY <1>2, <1>3
    <3> HIDE DEF o, k, n, z, at, end
    <3>1. at \in Nat
      BY <3>0
    <3>2. end \in Nat /\ end <= z
      BY <3>0
    <3> QED BY <1>2, <3>1, <3>2
  <2>2. c \in [0 .. z - 1 -> Content] /\ z \in Nat /\ ch \in Content
    BY <1>2 DEF Content
  <2> HIDE DEF at, end, w, c, z
  <2>3. CellsWith(c, at, end, ch, w) \in [0 .. z - 1 -> Content]
    BY <1>1, <2>1, <2>2, CellsWithIs
  <2> QED BY <2>3 DEF c, z
<1> DEFINE y == x + w
<1>9. t = Written(s, l, a, v, e, y)
  <2>1. (IF n <= x THEN x + w ELSE IF n + w <= s.cap[l] THEN n + w ELSE n) = v
    BY <1>3, <1>7
  <2>2. t = [s EXCEPT !.cells = a,
               !.len[l] = IF n <= x THEN x + w ELSE IF n + w <= s.cap[l] THEN n + w ELSE n,
               !.end = e, !.x = y]
    BY <1>5 DEF Inserted
  <2> HIDE DEF t, a, e, v, w, n, y
  <2> QED BY <2>1, <2>2 DEF Written
<1>10. y \in Nat
  BY <1>7
<1> HIDE DEF t, a, e, v, w, y
<1>11. LET u == Written(s, l, a, v, e, y)
       IN  /\ IsBuf(u) /\ u.view = s.view /\ u.x = y /\ u.rows = s.rows
           /\ u.counter = s.counter /\ u.open = s.open /\ u.y = s.y
           /\ u.len = Given(s.len, l, v) /\ u.end = e /\ u.cells = a /\ u.off = s.off
  BY <1>6, <1>7, <1>8, <1>10, WrittenIs
<1> QED BY <1>9, <1>11 DEF t, a, e, v, w, n, at, end, y

\* The cursor in the first column of its row, which is counted as used.
Begun(m) == [m EXCEPT !.x = 0, !.end = IF m.y >= m.end THEN m.y + 1 ELSE m.end]

LEMMA BegunIs ==
  ASSUME NEW m, IsBuf(m)
  PROVE  LET t == Begun(m)
         IN  /\ IsBuf(t) /\ SameRows(m, t) /\ t.view = m.view /\ t.x = 0 /\ t.y = m.y
             /\ t.counter = m.counter /\ t.open = m.open
<1> DEFINE t == Begun(m)
           e == IF m.y >= m.end THEN m.y + 1 ELSE m.end
           c == m.counter
           b == m.open
           y == m.y
           p == Placed(m, y, 0)
<1>1. e \in 0 .. MaxRows /\ c \in 0 .. LoadLines /\ b \in BOOLEAN /\ y \in 0 .. MaxRows - 1
  <2>1. /\ m.end \in Nat /\ m.end <= MaxRows /\ m.counter \in Nat /\ m.counter <= LoadLines
        /\ b \in BOOLEAN /\ m.y \in Nat /\ m.y < MaxRows /\ MaxRows \in Nat /\ LoadLines \in Nat
    BY BufParts, BufferAssumption
  <2> QED BY <2>1
<1>2. t = Tallied(p, e, c, b)
  <2>1. m \in Buffer
    BY DEF IsBuf
  <2> QED BY <2>1 DEF Begun, Tallied, Placed, Buffer
<1>3. c = m.counter /\ b = m.open /\ y = m.y
  OBVIOUS
<1> HIDE DEF t, e, c, b, y, p
<1>4. LET q == Placed(m, y, 0)
      IN  /\ IsBuf(q) /\ SameRows(m, q) /\ SameTally(m, q) /\ q.view = m.view
          /\ q.y = y /\ q.x = 0
  BY <1>1, PlacedIs
<1>5. IsBuf(p) /\ SameRows(m, p) /\ p.view = m.view /\ p.y = y /\ p.x = 0
  BY <1>4 DEF p
<1>6. LET u == Tallied(p, e, c, b)
      IN  /\ IsBuf(u) /\ SameRows(p, u) /\ SameCursor(p, u) /\ u.view = p.view
          /\ u.end = e /\ u.counter = c /\ u.open = b
  BY <1>1, <1>5, TalliedIs
<1>7. /\ IsBuf(t) /\ SameRows(p, t) /\ SameCursor(p, t) /\ t.view = p.view
      /\ t.end = e /\ t.counter = c /\ t.open = b
  BY <1>2, <1>6
<1>8. SameRows(m, t)
  BY <1>5, <1>7 DEF SameRows
<1>9. t.x = 0 /\ t.y = y
  BY <1>5, <1>7 DEF SameCursor
<1>10. /\ IsBuf(t) /\ SameRows(m, t) /\ t.view = m.view /\ t.x = 0 /\ t.y = m.y
       /\ t.counter = m.counter /\ t.open = m.open
  BY <1>3, <1>5, <1>7, <1>8, <1>9
<1> QED BY <1>10 DEF t

LEMMA OverflowedIs ==
  ASSUME NEW s, IsBuf(s)
  PROVE  LET t == Overflowed(s)
         IN  IsBuf(t) /\ SameRows(s, t) /\ t.view = s.view /\ t.x = 0
<1> DEFINE m == editor_move_cursor_line(s, 1)
           t == Overflowed(s)
<1>1. Moves(s, m)
  BY MoveLineIs
<1>2. t = Begun(m)
  <2>1. t = LET q == [m EXCEPT !.x = 0] IN [q EXCEPT !.end = IF q.y >= q.end THEN q.y + 1 ELSE q.end]
    BY DEF Overflowed
  <2> HIDE DEF m, t
  <2>2. m \in Buffer
    BY <1>1, Moved DEF IsBuf
  <2> QED BY <2>1, <2>2 DEF Begun, Buffer
<1> HIDE DEF m, t
<1>3. IsBuf(m) /\ SameRows(s, m) /\ m.view = s.view
  BY <1>1, Moved
<1>4. LET u == Begun(m)
      IN  /\ IsBuf(u) /\ SameRows(m, u) /\ u.view = m.view /\ u.x = 0 /\ u.y = m.y
          /\ u.counter = m.counter /\ u.open = m.open
  BY <1>3, BegunIs
<1>5. IsBuf(t) /\ SameRows(m, t) /\ t.view = s.view /\ t.x = 0
  BY <1>2, <1>3, <1>4
<1>6. SameRows(s, t)
  BY <1>3, <1>5 DEF SameRows
<1> QED BY <1>5, <1>6 DEF t

\* What typing does to the row of the cursor, once there is room for the glyph.
Room(s, ch) ==
  LET x == editor_cursor_col_boundary(s, s.y, Clamp(s.x, 0, s.view - 1))
      len == editor_line_len(s, s.y)
  IN  Placed(editor_ensure_line_cap(s, s.y, (IF x < len THEN len ELSE x) + Width(ch)), s.y, x)

LEMMA RoomIs ==
  ASSUME NEW s, IsBuf(s), NEW ch \in Glyph, s.y < editor_line_limit(s)
  PROVE  LET t == Room(s, ch)
         IN  /\ IsBuf(t) /\ SameTally(s, t) /\ t.view = s.view /\ t.rows = s.rows /\ t.y = s.y
             /\ t.y \in Rows(t) /\ t.y < editor_line_limit(t)
             /\ t.x = editor_cursor_col_boundary(s, s.y, Clamp(s.x, 0, s.view - 1))
             /\ t.x <= t.len[t.y] /\ t.x <= s.view /\ SameText(s, t)
<1> DEFINE l == s.y
           x == editor_cursor_col_boundary(s, l, Clamp(s.x, 0, s.view - 1))
           len == editor_line_len(s, l)
           need == (IF x < len THEN len ELSE x) + Width(ch)
           g == editor_ensure_line_cap(s, l, need)
           t == Room(s, ch)
<1>1. l \in Nat /\ l \in 0 .. MaxRows - 1 /\ Clamp(s.x, 0, s.view - 1) \in Int
  <2>1. s.y \in Nat /\ s.y < MaxRows /\ MaxRows \in Nat /\ s.x \in Nat /\ s.view \in Nat
    BY BufParts, BufferAssumption
  <2> QED BY <2>1 DEF Clamp
<1>2. l \in Rows(s) /\ len = s.len[l] /\ len \in Nat
  BY <1>1, LenOf
<1>3. x \in Nat /\ x <= len /\ x <= s.view
  BY <1>1, BoundaryFits
<1>4. need \in Nat
  <2>1. Width(ch) \in Nat
    BY WidthIs
  <2> HIDE DEF x, len
  <2> QED BY <1>2, <1>3, <2>1
<1>5. t = Placed(g, l, x)
  BY DEF Room
<1> HIDE DEF t, l, x, len, need
<1>6. Grows(s, g) /\ g.rows = s.rows
  BY <1>1, <1>4, LineCapIs
<1> HIDE DEF g
<1>7. IsBuf(g) /\ SameTally(s, g) /\ g.view = s.view /\ SameText(s, g)
  BY <1>6 DEF Grows
<1>8. LET q == Placed(g, l, x)
      IN  /\ IsBuf(q) /\ SameRows(g, q) /\ SameTally(g, q) /\ q.view = g.view
          /\ q.y = l /\ q.x = x
  BY <1>1, <1>3, <1>7, PlacedIs
<1>9. /\ IsBuf(t) /\ SameRows(g, t) /\ SameTally(g, t) /\ t.view = g.view
      /\ t.y = l /\ t.x = x
  BY <1>5, <1>8
<1>10. SameTally(s, t) /\ t.rows = s.rows /\ t.view = s.view
  BY <1>6, <1>7, <1>9 DEF SameTally, SameRows
<1>11. SameText(s, t)
  BY <1>7, <1>9 DEF SameText, SameRows, Cell
<1>12. editor_line_limit(t) = editor_line_limit(s)
  BY <1>10 DEF editor_line_limit, SameTally
<1>13. l \in Rows(t) /\ t.len[l] = len
  BY <1>2, <1>10, <1>11 DEF Rows, SameText
<1>14. l = s.y /\ x = editor_cursor_col_boundary(s, s.y, Clamp(s.x, 0, s.view - 1))
  BY DEF l, x
<1>15. t.y = s.y /\ t.y \in Rows(t) /\ t.y < editor_line_limit(t)
  BY <1>9, <1>12, <1>13, <1>14
<1>16. /\ t.x = editor_cursor_col_boundary(s, s.y, Clamp(s.x, 0, s.view - 1))
       /\ t.x <= t.len[t.y] /\ t.x <= s.view
  BY <1>3, <1>9, <1>13, <1>14
<1> QED BY <1>9, <1>10, <1>11, <1>15, <1>16 DEF t

LEMMA CharInputCases ==
  ASSUME NEW s, IsBuf(s), NEW ch \in Glyph
  PROVE  LET t == handle_char_input(s, ch)
             r == Room(s, ch)
             i == Inserted(r, r.y, r.x, ch)
         IN  \/ t = s
             \/ s.y < editor_line_limit(s) /\ t = r
             \/ /\ s.y < editor_line_limit(s) /\ (t = i \/ t = Overflowed(i))
                /\ r.len[r.y] + Width(ch) <= r.cap[r.y] /\ r.x + Width(ch) <= r.view
<1> DEFINE l == s.y
           x == editor_cursor_col_boundary(s, l, Clamp(s.x, 0, s.view - 1))
           len == editor_line_len(s, l)
           w == Width(ch)
           need == (IF x < len THEN len ELSE x) + w
           g == editor_ensure_line_cap(s, l, need)
           q == [g EXCEPT !.x = x]
           t == handle_char_input(s, ch)
           r == Room(s, ch)
           i == Inserted(r, r.y, r.x, ch)
<1>0. l \in Nat /\ s.y \in Nat /\ editor_line_limit(s) \in Nat
  BY BufParts, LimitBound
<1>1. CASE l >= editor_line_limit(s)
  BY <1>1 DEF handle_char_input
<1>2. CASE ~ (l >= editor_line_limit(s))
  <2>1. s.y < editor_line_limit(s)
    BY <1>0, <1>2
  <2>2. t = IF q.cap[l] < need \/ x + w > editor_col_limit(q, l) THEN q
            ELSE IF x >= s.view - 1 /\ l + 1 < editor_line_limit(s)
                 THEN Overflowed(Inserted(q, l, x, ch)) ELSE Inserted(q, l, x, ch)
    BY <1>2 DEF handle_char_input
  <2>3. x \in Nat /\ x <= len /\ len = s.len[l] /\ len \in Nat
    <3>1. Clamp(s.x, 0, s.view - 1) \in Int
      <4>1. s.x \in Nat /\ s.view \in Nat
        BY BufParts
      <4> QED BY <4>1 DEF Clamp
    <3> QED BY <1>0, <2>1, <3>1, LenOf, BoundaryFits
  <2>4. w \in {1, 2}
    BY WidthIs
  <2>5. need \in Nat /\ need = len + w
    <3> HIDE DEF x, len, w
    <3> QED BY <2>3, <2>4
  <2>6. /\ IsBuf(r) /\ r.view = s.view /\ r.y = l /\ r.x = x
        /\ r.rows = s.rows /\ SameText(s, r) /\ l \in Rows(r)
    BY <2>1, RoomIs
  <2>7. q = r
    <3>1. r = Placed(g, l, x)
      BY DEF Room
    <3>2. Grows(s, g)
      <4> HIDE DEF need
      <4> QED BY <1>0, <2>5, LineCapIs
    <3> HIDE DEF g, r
    <3>3. g \in Buffer /\ g.y = l
      BY <3>2 DEF Grows, IsBuf, SameCursor
    <3> HIDE DEF x, l
    <3> QED BY <3>1, <3>3 DEF Placed, Buffer
  <2>8. r.len[l] = len /\ r.cap[l] \in Nat /\ r.view \in Nat
    <3>1. l \in Rows(s)
      BY <1>0, <2>1, LenOf
    <3>2. r.len[l] = s.len[l]
      BY <2>6, <3>1 DEF SameText
    <3> QED BY <2>3, <2>6, <3>2, RowOf, BufParts
  <2> HIDE DEF t, x, len, w, need, q, r, g
  <2>9. t = IF r.cap[l] < need \/ x + w > editor_col_limit(r, l) THEN r
            ELSE IF x >= s.view - 1 /\ l + 1 < editor_line_limit(s)
                 THEN Overflowed(Inserted(r, l, x, ch)) ELSE Inserted(r, l, x, ch)
    BY <2>2, <2>7
  <2>10. t = r \/ ((t = i \/ t = Overflowed(i)) /\ ~ (r.cap[l] < need \/ x + w > editor_col_limit(r, l)))
    BY <2>6, <2>9
  <2>11. ASSUME ~ (r.cap[l] < need \/ x + w > editor_col_limit(r, l))
         PROVE  r.len[r.y] + w <= r.cap[r.y] /\ r.x + w <= r.view
    BY <2>3, <2>4, <2>5, <2>6, <2>8, <2>11 DEF editor_col_limit, Least
  <2> QED BY <2>1, <2>10, <2>11 DEF t, r, w
<1> QED BY <1>0, <1>1, <1>2

LEMMA CharInputIs ==
  ASSUME NEW s, IsBuf(s), s.x <= s.view, NEW ch \in Glyph
  PROVE  LET t == handle_char_input(s, ch)
         IN  IsBuf(t) /\ t.view = s.view /\ t.x <= t.view
<1> DEFINE t == handle_char_input(s, ch)
           r == Room(s, ch)
           i == Inserted(r, r.y, r.x, ch)
<1>1. CASE t = s
  BY <1>1
<1>2. CASE s.y < editor_line_limit(s) /\ t = r
  BY <1>2, RoomIs
<1>3. CASE /\ s.y < editor_line_limit(s) /\ (t = i \/ t = Overflowed(i))
           /\ r.len[r.y] + Width(ch) <= r.cap[r.y] /\ r.x + Width(ch) <= r.view
  <2>1. /\ IsBuf(r) /\ r.view = s.view /\ r.y \in Rows(r) /\ r.y < editor_line_limit(r)
        /\ r.x <= r.len[r.y]
    BY <1>3, RoomIs
  <2>2. r.x \in Nat /\ 0 <= r.view
    BY <2>1, BufParts
  <2> HIDE DEF r
  <2>3. IsBuf(i) /\ i.view = r.view /\ i.x = r.x + Width(ch)
    BY <1>3, <2>1, <2>2, InsertedIs
  <2>4. CASE t = i
    BY <1>3, <2>1, <2>3, <2>4
  <2>5. CASE t = Overflowed(i)
    <3>1. IsBuf(Overflowed(i)) /\ Overflowed(i).view = i.view /\ Overflowed(i).x = 0
      BY <2>3, OverflowedIs
    <3> QED BY <2>1, <2>2, <2>3, <2>5, <3>1
  <2> QED BY <1>3, <2>4, <2>5
<1> QED BY <1>1, <1>2, <1>3, CharInputCases

-----------------------------------------------------------------------------
(* Backspace                                                               *)

\* What Backspace takes from the row of the cursor: the column and the cells.
DeleteAt(s) == editor_previous_char_col(s, s.y, s.x)
DeleteOf(s) ==
  LET c == Cell(s, s.y, DeleteAt(s))
  IN  Least(IF c \in Glyph THEN Width(c) ELSE 1, editor_line_len(s, s.y) - DeleteAt(s))

LEMMA DeletedIs ==
  ASSUME NEW s, IsBuf(s), s.y < editor_line_limit(s), HasCells(s, s.y), s.x > 0
  PROVE  LET t == Deleted(s)
             at == DeleteAt(s)
             w == DeleteOf(s)
             l == s.y
         IN  \/ t = s
             \/ /\ IsBuf(t) /\ t.view = s.view /\ t.x = at /\ t.y = l /\ t.rows = s.rows
                /\ at \in Nat /\ at < s.x /\ at < s.len[l] /\ w \in Nat /\ w <= s.len[l] - at
                /\ t.cells = CellsWithout(s.cells, s.off[l] + at, s.off[l] + s.len[l], w)
                /\ t.len = Given(s.len, l, s.len[l] - w) /\ t.off = s.off
<1> DEFINE l   == s.y
           at  == DeleteAt(s)
           w   == DeleteOf(s)
           n   == s.len[l]
           fst == s.off[l] + at
           end == s.off[l] + n
           a   == CellsWithout(s.cells, fst, end, w)
           v   == n - w
           e   == s.end
           t   == Deleted(s)
<1>1. /\ l \in Nat /\ s.x \in Nat /\ s.total \in Nat /\ s.cells \in [0 .. s.total - 1 -> Content]
      /\ e \in 0 .. MaxRows
  BY BufParts, BufferAssumption
<1>2. l \in Rows(s) /\ editor_line_len(s, l) = n
  BY <1>1, LenOf
<1>3. /\ s.off[l] \in Nat /\ n \in Nat /\ s.cap[l] \in Nat /\ n <= s.cap[l]
      /\ s.off[l] + s.cap[l] <= s.total
  BY <1>2, RowOf
<1>4. at \in Nat /\ at < s.x
  <2> DEFINE c == s.x - 1
  <2>1. c \in Nat /\ c < s.x
    BY <1>1
  <2>2. at = Start(s, l, c)
    BY DEF DeleteAt, editor_previous_char_col
  <2> HIDE DEF c, at, l
  <2>3. Start(s, l, c) \in 0 .. c
    BY <2>1, StartIs
  <2> QED BY <1>1, <2>1, <2>2, <2>3
<1>5. CASE t = s
  BY <1>5
<1>6. CASE t # s
  <2>1. ~ (at >= n)
    BY <1>6 DEF Deleted, DeleteAt
  <2>2. t = [s EXCEPT !.cells = CellsWithout(s.cells, s.off[l] + at, s.off[l] + editor_line_len(s, l), w),
                      !.len[l] = editor_line_len(s, l) - w, !.x = at]
    BY <1>6 DEF Deleted, DeleteAt, DeleteOf
  <2>3. w \in Nat /\ w <= n - at
    <3> DEFINE b == IF Cell(s, l, at) \in Glyph THEN Width(Cell(s, l, at)) ELSE 1
    <3>1. b \in Nat
      BY WidthIs
    <3>2. w = Least(b, n - at)
      BY <1>2 DEF DeleteOf
    <3> HIDE DEF b, w, at, n
    <3> QED BY <1>3, <1>4, <2>1, <3>1, <3>2 DEF Least
  <2> HIDE DEF at, w
  <2>4. v \in Nat /\ v <= s.cap[l]
    BY <1>3, <1>4, <2>3
  <2>5. a \in [0 .. s.total - 1 -> Content]
    <3> DEFINE z == s.total
               c == s.cells
    <3>1. fst \in Nat
      BY <1>3, <1>4
    <3>2. end \in Nat /\ end <= z
      BY <1>1, <1>3
    <3>3. c \in [0 .. z - 1 -> Content] /\ z \in Nat
      BY <1>1
    <3> HIDE DEF c, z, fst, end
    <3>4. end \in 0 .. z
      BY <3>2, <3>3
    <3>5. CellsWithout(c, fst, end, w) \in [0 .. z - 1 -> Content]
      BY <2>3, <3>1, <3>3, <3>4, CellsWithoutIs
    <3> QED BY <3>5 DEF c, z
  <2>6. t = Written(s, l, a, v, e, at)
    <3>1. t = [s EXCEPT !.cells = a, !.len[l] = v, !.x = at]
      BY <1>2, <2>2
    <3>2. s \in Buffer
      BY DEF IsBuf
    <3> HIDE DEF t, a, v
    <3> QED BY <3>1, <3>2 DEF Written, Buffer
  <2>7. a = CellsWithout(s.cells, s.off[l] + at, s.off[l] + s.len[l], w) /\ v = s.len[l] - w
    OBVIOUS
  <2> HIDE DEF t, a, v, e, l
  <2>8. LET u == Written(s, l, a, v, e, at)
        IN  /\ IsBuf(u) /\ u.view = s.view /\ u.x = at /\ u.rows = s.rows
            /\ u.counter = s.counter /\ u.open = s.open /\ u.y = s.y
            /\ u.len = Given(s.len, l, v) /\ u.end = e /\ u.cells = a /\ u.off = s.off
    BY <1>1, <1>2, <1>4, <2>4, <2>5, WrittenIs
  <2>9. /\ IsBuf(t) /\ t.view = s.view /\ t.x = at /\ t.y = s.y /\ t.rows = s.rows
        /\ t.len = Given(s.len, l, v) /\ t.cells = a /\ t.off = s.off
    BY <2>6, <2>8
  <2>10. at < n
    BY <1>3, <1>4, <2>1
  <2> QED BY <1>4, <2>3, <2>7, <2>9, <2>10 DEF t, at, w, l, n
<1> QED BY <1>5, <1>6

\* Row p takes over what is between it and the end of the row behind it.
LEMMA UpRows ==
  ASSUME NEW m \in Nat \ {0}, NEW o, NEW k, NEW n, NEW t \in Nat, IsRows(m, o, k, n, t),
         NEW p \in 0 .. m - 1, p + 1 \in 0 .. m - 1
  PROVE  IsRows(m, Up(o, m, p, o[p], t), Up(k, m, p, o[p + 1] + k[p + 1] - o[p], 0),
                Up(n, m, p, n[p] + n[p + 1], 0), t)
<1> DEFINE c  == o[p + 1] + k[p + 1] - o[p]
           v  == n[p] + n[p + 1]
           oo == Up(o, m, p, o[p], t)
           kk == Up(k, m, p, c, 0)
           nn == Up(n, m, p, v, 0)
<1>1. o \in [0 .. m - 1 -> Nat] /\ k \in [0 .. m - 1 -> Nat] /\ n \in [0 .. m - 1 -> Nat]
  BY DEF IsRows
<1>2. /\ o[p] \in Nat /\ k[p] \in Nat /\ n[p] \in Nat /\ n[p] <= k[p] /\ o[p] + k[p] <= o[p + 1]
      /\ o[p + 1] \in Nat /\ k[p + 1] \in Nat /\ n[p + 1] \in Nat /\ n[p + 1] <= k[p + 1]
      /\ o[p + 1] + k[p + 1] <= t
  BY RowIn
<1>3. c \in Nat /\ v \in Nat /\ v <= c /\ o[p] + c = o[p + 1] + k[p + 1]
  BY <1>2
<1> HIDE DEF c, v
<1>4. ASSUME NEW f \in [0 .. m - 1 -> Nat], NEW a \in Nat, NEW b \in Nat
      PROVE  Up(f, m, p, a, b) \in [0 .. m - 1 -> Nat]
  <2>1. ASSUME NEW r \in 0 .. m - 1
        PROVE  (IF r < p THEN f[r] ELSE IF r = p THEN a ELSE IF r = m - 1 THEN b ELSE f[r + 1]) \in Nat
    <3>1. r # m - 1 => r + 1 \in 0 .. m - 1
      OBVIOUS
    <3>2. r # m - 1 => f[r + 1] \in Nat
      BY <3>1
    <3> QED BY <3>2
  <2>2. Up(f, m, p, a, b) \in [0 .. m - 1 -> Nat]
    BY <2>1 DEF Up
  <2> QED BY <2>2
<1>5. oo \in [0 .. m - 1 -> Nat] /\ kk \in [0 .. m - 1 -> Nat] /\ nn \in [0 .. m - 1 -> Nat]
  BY <1>1, <1>2, <1>3, <1>4
<1>6. ASSUME NEW r \in 0 .. m - 1
      PROVE  /\ oo[r] = IF r < p THEN o[r] ELSE IF r = p THEN o[p] ELSE IF r = m - 1 THEN t ELSE o[r + 1]
             /\ kk[r] = IF r < p THEN k[r] ELSE IF r = p THEN c ELSE IF r = m - 1 THEN 0 ELSE k[r + 1]
             /\ nn[r] = IF r < p THEN n[r] ELSE IF r = p THEN v ELSE IF r = m - 1 THEN 0 ELSE n[r + 1]
  <2>1. oo[r] = IF r < p THEN o[r] ELSE IF r = p THEN o[p] ELSE IF r = m - 1 THEN t ELSE o[r + 1]
    BY DEF Up
  <2>2. kk[r] = IF r < p THEN k[r] ELSE IF r = p THEN c ELSE IF r = m - 1 THEN 0 ELSE k[r + 1]
    BY DEF Up
  <2>3. nn[r] = IF r < p THEN n[r] ELSE IF r = p THEN v ELSE IF r = m - 1 THEN 0 ELSE n[r + 1]
    BY DEF Up
  <2> QED BY <2>1, <2>2, <2>3
<1> HIDE DEF oo, kk, nn
<1>7. ASSUME NEW r \in 0 .. m - 1
      PROVE  nn[r] <= kk[r] /\ oo[r] + kk[r] <= (IF r + 1 \in 0 .. m - 1 THEN oo[r + 1] ELSE t)
  <2>1. r + 1 \in 0 .. m - 1 =>
          oo[r + 1] = IF r + 1 < p THEN o[r + 1] ELSE IF r + 1 = p THEN o[p]
                      ELSE IF r + 1 = m - 1 THEN t ELSE o[r + 2]
    BY <1>6
  <2>2. /\ o[r] \in Nat /\ k[r] \in Nat /\ n[r] \in Nat /\ n[r] <= k[r] /\ o[r] + k[r] <= t
        /\ r + 1 \in 0 .. m - 1 => o[r] + k[r] <= o[r + 1]
    BY RowIn
  <2>3. r + 1 \in 0 .. m - 1 =>
          /\ o[r + 1] \in Nat /\ k[r + 1] \in Nat /\ n[r + 1] \in Nat
          /\ n[r + 1] <= k[r + 1] /\ o[r + 1] + k[r + 1] <= t
          /\ r + 2 \in 0 .. m - 1 => o[r + 1] + k[r + 1] <= o[r + 2]
    <3> SUFFICES ASSUME r + 1 \in 0 .. m - 1
                 PROVE  /\ o[r + 1] \in Nat /\ k[r + 1] \in Nat /\ n[r + 1] \in Nat
                        /\ n[r + 1] <= k[r + 1] /\ o[r + 1] + k[r + 1] <= t
                        /\ r + 2 \in 0 .. m - 1 => o[r + 1] + k[r + 1] <= o[r + 2]
      OBVIOUS
    <3> DEFINE q == r + 1
    <3>1. q \in 0 .. m - 1 /\ q + 1 = r + 2
      OBVIOUS
    <3> HIDE DEF q
    <3>2. /\ o[q] \in Nat /\ k[q] \in Nat /\ n[q] \in Nat
          /\ n[q] <= k[q] /\ o[q] + k[q] <= t
          /\ q + 1 \in 0 .. m - 1 => o[q] + k[q] <= o[q + 1]
      BY <3>1, RowIn
    <3> QED BY <3>1, <3>2 DEF q
  <2>4. CASE r < p
    <3>1. oo[r] = o[r] /\ kk[r] = k[r] /\ nn[r] = n[r] /\ r + 1 \in 0 .. m - 1
      BY <1>6, <2>4
    <3>2. oo[r + 1] = o[r + 1]
      BY <2>1, <2>4, <3>1
    <3> QED BY <2>2, <3>1, <3>2
  <2>5. CASE r = p
    <3>1. oo[r] = o[p] /\ kk[r] = c /\ nn[r] = v /\ r + 1 \in 0 .. m - 1
      BY <1>6, <2>5
    <3>2. oo[r + 1] = IF r + 1 = m - 1 THEN t ELSE o[r + 2]
      BY <2>1, <2>5, <3>1
    <3>3. r + 1 # m - 1 => r + 2 \in 0 .. m - 1
      BY <3>1
    <3> QED BY <1>2, <1>3, <2>3, <2>5, <3>1, <3>2, <3>3
  <2>6. CASE r > p /\ r = m - 1
    <3>1. oo[r] = t /\ kk[r] = 0 /\ nn[r] = 0 /\ r + 1 \notin 0 .. m - 1
      BY <1>6, <2>6
    <3> QED BY <3>1
  <2>7. CASE r > p /\ r # m - 1
    <3>1. oo[r] = o[r + 1] /\ kk[r] = k[r + 1] /\ nn[r] = n[r + 1] /\ r + 1 \in 0 .. m - 1
      BY <1>6, <2>7
    <3>2. oo[r + 1] = IF r + 1 = m - 1 THEN t ELSE o[r + 2]
      BY <2>1, <2>7, <3>1
    <3>3. r + 1 # m - 1 => r + 2 \in 0 .. m - 1
      BY <3>1
    <3> QED BY <2>3, <3>1, <3>2, <3>3
  <2> QED BY <2>4, <2>5, <2>6, <2>7
<1>8. IsRows(m, oo, kk, nn, t)
  BY <1>5, <1>7 DEF IsRows, Laid
<1> QED BY <1>8 DEF oo, kk, nn, c, v

LEMMA RemovedIs ==
  ASSUME NEW s, IsBuf(s), NEW p \in Nat, p + 1 \in Rows(s)
  PROVE  LET t == remove_line_join_str_data(s, p + 1)
             l == p + 1
         IN  /\ IsBuf(t) /\ t.view = s.view /\ t.rows = s.rows /\ t.x = s.x /\ t.y = s.y
             /\ t.cells = CellsMoved(s.cells, s.off[l], s.len[l], s.off[p] + s.len[p],
                                     s.off[l] + s.cap[l])
             /\ t.off = Up(s.off, s.rows, p, s.off[p], s.total)
             /\ t.len = Up(s.len, s.rows, p, s.len[p] + s.len[l], 0)
<1> DEFINE l  == p + 1
           z  == s.total
           m  == s.rows
           fr == s.off[l]
           j  == s.len[l]
           to == s.off[p] + s.len[p]
           end == s.off[l] + s.cap[l]
           a  == CellsMoved(s.cells, fr, j, to, end)
           o  == Up(s.off, m, p, s.off[p], z)
           k  == Up(s.cap, m, p, end - s.off[p], 0)
           n  == Up(s.len, m, p, s.len[p] + s.len[l], 0)
           e  == IF s.end > 0 THEN s.end - 1 ELSE s.end
           c  == IF s.counter > 0 THEN s.counter - 1 ELSE s.counter
           b  == s.open
           y  == s.y
           x  == s.x
           t  == remove_line_join_str_data(s, p + 1)
<1>1. /\ z \in Nat /\ m \in Nat \ {0} /\ m \in 1 .. MaxRows /\ b \in BOOLEAN /\ x \in Nat
      /\ y \in 0 .. MaxRows - 1 /\ s.cells \in [0 .. z - 1 -> Content]
  <2>1. /\ s.total \in Nat /\ s.rows \in Nat \ {0} /\ s.rows <= MaxRows /\ s.open \in BOOLEAN
        /\ s.x \in Nat /\ s.y \in Nat /\ s.y < MaxRows /\ s.cells \in [0 .. s.total - 1 -> Content]
    BY BufParts
  <2>2. MaxRows \in Nat
    BY BufferAssumption
  <2>3. m = s.rows /\ z = s.total /\ y = s.y /\ x = s.x /\ b = s.open
    OBVIOUS
  <2> HIDE DEF m, z, y, x, b
  <2> QED BY <2>1, <2>2, <2>3
<1>2. e \in 0 .. MaxRows /\ c \in 0 .. LoadLines
  <2>1. /\ s.end \in Nat /\ s.end <= MaxRows /\ s.counter \in Nat /\ s.counter <= LoadLines
        /\ MaxRows \in Nat /\ LoadLines \in Nat
    BY BufParts, BufferAssumption
  <2> QED BY <2>1
<1>3. l \in Rows(s) /\ p \in Rows(s) /\ p \in 0 .. m - 1 /\ p + 1 \in 0 .. m - 1
  BY <1>1 DEF Rows
<1>4. /\ s.off[p] \in Nat /\ s.len[p] \in Nat /\ s.off[l] \in Nat /\ s.cap[l] \in Nat
      /\ s.len[l] \in Nat /\ s.len[l] <= s.cap[l] /\ s.off[l] + s.cap[l] <= z
  BY <1>3, RowOf
<1>5. a \in [0 .. z - 1 -> Content]
  <2> DEFINE q == s.cells
  <2>1. fr \in Nat /\ j \in Nat /\ to \in Nat /\ end \in Nat
    BY <1>4
  <2>2. fr + j <= z
    <3> DEFINE h == s.cap[l]
    <3>1. fr \in Nat /\ j \in Nat /\ h \in Nat /\ z \in Nat /\ j <= h /\ fr + h <= z
      BY <1>1, <1>4
    <3> HIDE DEF h, fr, j, z
    <3> QED BY <3>1
  <2>3. q \in [0 .. z - 1 -> Content] /\ z \in Nat
    BY <1>1
  <2> HIDE DEF q, z, fr, j, to, end
  <2>4. CellsMoved(q, fr, j, to, end) \in [0 .. z - 1 -> Content]
    BY <2>1, <2>2, <2>3, CellsMovedIs
  <2> QED BY <2>4 DEF q
<1>6. IsRows(m, o, k, n, z)
  <2> DEFINE f == s.off
             g == s.cap
             h == s.len
  <2>1. IsRows(m, f, g, h, z)
    BY RowParts
  <2>2. o = Up(f, m, p, f[p], z)
    OBVIOUS
  <2>3. k = Up(g, m, p, f[p + 1] + g[p + 1] - f[p], 0)
    <3>1. end - s.off[p] = f[p + 1] + g[p + 1] - f[p]
      BY <1>4
    <3> QED BY <3>1, Zenon
  <2>4. n = Up(h, m, p, h[p] + h[p + 1], 0)
    OBVIOUS
  <2> HIDE DEF f, g, h, m, z, o, k, n
  <2>5. IsRows(m, Up(f, m, p, f[p], z), Up(g, m, p, f[p + 1] + g[p + 1] - f[p], 0),
               Up(h, m, p, h[p] + h[p + 1], 0), z)
    BY <1>1, <1>3, <2>1, UpRows
  <2>6. IsRows(m, o, k, n, z)
    BY <2>2, <2>3, <2>4, <2>5
  <2> QED BY <2>6 DEF h
<1>7. t = [s EXCEPT !.cells = a, !.off = o, !.cap = k, !.len = n, !.end = e, !.counter = c]
  <2>1. (p + 1) - 1 = p
    OBVIOUS
  <2> QED BY <2>1 DEF remove_line_join_str_data
<1>8. t = Made(s, a, z, o, k, n, m, e, c, b, y, x)
  <2>1. s \in Buffer
    BY DEF IsBuf
  <2> HIDE DEF a, o, k, n, e, c, t
  <2> QED BY <1>7, <2>1 DEF Made, Placed, Tallied, Filled, Buffer
<1>9. /\ m = s.rows /\ x = s.x /\ y = s.y
      /\ a = CellsMoved(s.cells, s.off[l], s.len[l], s.off[p] + s.len[p], s.off[l] + s.cap[l])
      /\ o = Up(s.off, s.rows, p, s.off[p], s.total)
      /\ n = Up(s.len, s.rows, p, s.len[p] + s.len[l], 0)
  OBVIOUS
<1> HIDE DEF a, z, o, k, n, m, e, c, b, y, x, t
<1>10. LET u == Made(s, a, z, o, k, n, m, e, c, b, y, x)
       IN  /\ IsBuf(u) /\ u.view = s.view
           /\ u.cells = a /\ u.total = z /\ u.off = o /\ u.cap = k /\ u.len = n /\ u.rows = m
           /\ u.end = e /\ u.counter = c /\ u.open = b /\ u.x = x /\ u.y = y
  <2> HIDE DEF l, fr, j, to, end
  <2>1. IsMade(s, Made(s, a, z, o, k, n, m, e, c, b, y, x), a, z, o, k, n, m, e, c, b, y, x)
    BY <1>1, <1>2, <1>5, <1>6, MadeAs
  <2> QED BY <2>1 DEF IsMade
<1>11. /\ IsBuf(t) /\ t.view = s.view /\ t.cells = a /\ t.off = o /\ t.len = n /\ t.rows = m
       /\ t.x = x /\ t.y = y
  BY <1>8, <1>10
<1> QED BY <1>9, <1>11 DEF t, l

LEMMA JoinedIs ==
  ASSUME NEW s, IsBuf(s), s.y > 0, NEW scrolls \in BOOLEAN
  PROVE  LET t == Joined(s, scrolls)
             q == remove_line_join_str_data(s, s.y)
             m == MovedBy(q, -1, scrolls)
         IN  \/ t = s
             \/ /\ HasCells(s, s.y - 1) /\ HasCells(s, s.y)
                /\ IsBuf(q) /\ Moves(q, m) /\ IsBuf(t) /\ SameRows(q, t) /\ t.view = s.view
                /\ t.y = m.y /\ t.x <= t.view
<1> DEFINE q == remove_line_join_str_data(s, s.y)
           m == MovedBy(q, -1, scrolls)
           t == Joined(s, scrolls)
           x == editor_clamp_col(m, m.y, editor_line_len(s, s.y - 1))
           y == m.y
           p == s.y - 1
<1>1. CASE t = s
  BY <1>1
<1>2. CASE t # s
  <2>1. HasCells(s, s.y - 1) /\ HasCells(s, s.y) /\ t = [m EXCEPT !.x = x]
    BY <1>2 DEF Joined
  <2>2. s.y \in Nat /\ p \in Nat /\ s.y = p + 1
    BY BufParts
  <2>3. p + 1 \in Rows(s)
    BY <2>1, <2>2 DEF HasCells
  <2>4. IsBuf(q) /\ q.view = s.view
    <3> HIDE DEF p
    <3>1. LET u == remove_line_join_str_data(s, p + 1) IN IsBuf(u) /\ u.view = s.view
      BY <2>2, <2>3, RemovedIs
    <3> QED BY <2>2, <3>1
  <2>5. editor_line_len(s, s.y - 1) \in Int
    BY <2>2, LenOf
  <2> DEFINE len == editor_line_len(s, s.y - 1)
  <2> HIDE DEF q, t, p, len
  <2>6. Moves(q, m)
    <3>1. -1 \in Int
      OBVIOUS
    <3> QED BY <2>4, <3>1, MovedByIs
  <2> HIDE DEF m
  <2>7. IsBuf(m) /\ SameRows(q, m) /\ m.view = s.view
    BY <2>4, <2>6, Moved
  <2>8. m.y \in Nat /\ m.view \in Nat /\ m.y \in 0 .. MaxRows - 1
    BY <2>7, BufParts, BufferAssumption
  <2>9. x \in Nat /\ x <= m.view
    <3>1. len \in Int
      BY <2>5 DEF len
    <3>2. editor_clamp_col(m, m.y, len) \in 0 .. Least(editor_line_len(m, m.y), m.view)
      BY <2>7, <2>8, <3>1, ClampColIs
    <3>3. editor_line_len(m, m.y) \in Nat
      BY <2>7, <2>8, LenOf
    <3>4. x = editor_clamp_col(m, m.y, len)
      BY DEF len
    <3> HIDE DEF x
    <3> QED BY <2>8, <3>2, <3>3, <3>4 DEF Least
  <2> HIDE DEF x
  <2>10. t = Placed(m, y, x)
    <3>1. m \in Buffer
      BY <2>7 DEF IsBuf
    <3> QED BY <2>1, <3>1 DEF Placed, Buffer
  <2>14. y = m.y /\ y \in 0 .. MaxRows - 1
    BY <2>8
  <2> HIDE DEF y
  <2>11. LET u == Placed(m, y, x)
         IN  /\ IsBuf(u) /\ SameRows(m, u) /\ SameTally(m, u) /\ u.view = m.view
             /\ u.y = y /\ u.x = x
    BY <2>7, <2>9, <2>14, PlacedIs
  <2>12. IsBuf(t) /\ SameRows(m, t) /\ t.view = s.view /\ t.y = m.y /\ t.x <= t.view
    BY <2>7, <2>9, <2>10, <2>11, <2>14
  <2>13. SameRows(q, t)
    BY <2>7, <2>12 DEF SameRows
  <2> QED BY <2>1, <2>4, <2>6, <2>12, <2>13 DEF t, m, q
<1> QED BY <1>1, <1>2

LEMMA BackspaceCases ==
  ASSUME NEW s, IsBuf(s), NEW scrolls \in BOOLEAN
  PROVE  LET b == Sync(s)
             t == handle_backspace(s, scrolls)
         IN  \/ t = s
             \/ t = b
             \/ /\ b.y < editor_line_limit(b) /\ HasCells(b, b.y) /\ b.x > 0
                /\ t = Deleted(b)
             \/ b.y > 0 /\ ~ (b.x > 0) /\ t = Joined(b, scrolls)
<1> DEFINE b == Sync(s)
           t == handle_backspace(s, scrolls)
<1>1. b.y = s.y /\ SameRows(s, b) /\ SameTally(s, b)
  BY SyncIs
<1>2. editor_line_limit(b) = editor_line_limit(s) /\ editor_line_limit(s) \in Nat /\ s.y \in Nat
  BY <1>1, LimitBound, BufParts DEF editor_line_limit, SameRows, SameTally
<1>3. t = IF s.y >= editor_line_limit(s) THEN s
          ELSE IF b.x > 0 THEN (IF HasCells(b, b.y) THEN Deleted(b) ELSE b)
          ELSE IF b.y > 0 THEN Joined(b, scrolls) ELSE b
  BY DEF handle_backspace
<1> HIDE DEF b, t
<1>4. \/ t = s \/ t = b
      \/ b.y < editor_line_limit(b) /\ HasCells(b, b.y) /\ b.x > 0 /\ t = Deleted(b)
      \/ b.y > 0 /\ ~ (b.x > 0) /\ t = Joined(b, scrolls)
  BY <1>1, <1>2, <1>3
<1> QED BY <1>4 DEF b, t

LEMMA BackspaceIs ==
  ASSUME NEW s, IsBuf(s), s.x <= s.view, NEW scrolls \in BOOLEAN
  PROVE  LET t == handle_backspace(s, scrolls)
         IN  IsBuf(t) /\ t.view = s.view /\ t.x <= t.view
<1> DEFINE b == Sync(s)
           t == handle_backspace(s, scrolls)
<1>1. IsBuf(b) /\ b.view = s.view /\ b.x <= b.view
  BY SyncIs
<1>2. CASE t = s \/ t = b
  BY <1>1, <1>2
<1>3. CASE b.y < editor_line_limit(b) /\ HasCells(b, b.y) /\ b.x > 0 /\ t = Deleted(b)
  <2>1. b.x \in Nat /\ b.view \in Nat
    BY <1>1, BufParts
  <2> HIDE DEF b, t
  <2>2. t = b \/ (IsBuf(t) /\ t.view = b.view /\ t.x \in Nat /\ t.x < b.x)
    BY <1>1, <1>3, DeletedIs
  <2>3. IsBuf(t) /\ t.view = s.view /\ t.x <= t.view
    BY <1>1, <2>1, <2>2
  <2> QED BY <2>3 DEF t
<1>4. CASE b.y > 0 /\ t = Joined(b, scrolls)
  <2> HIDE DEF b, t
  <2>1. Joined(b, scrolls) = b
        \/ (IsBuf(Joined(b, scrolls)) /\ Joined(b, scrolls).view = b.view
            /\ Joined(b, scrolls).x <= Joined(b, scrolls).view)
    BY <1>1, <1>4, JoinedIs
  <2>2. IsBuf(t) /\ t.view = s.view /\ t.x <= t.view
    BY <1>1, <1>4, <2>1
  <2> QED BY <2>2 DEF t
<1> QED BY <1>2, <1>3, <1>4, BackspaceCases

-----------------------------------------------------------------------------
(* Enter                                                                   *)

\* Row l is cut in two, and the row behind the rows in use gives up its place.
LEMMA DownRows ==
  ASSUME NEW m \in Nat \ {0}, NEW o, NEW k, NEW n, NEW t \in Nat, IsRows(m, o, k, n, t),
         NEW l \in 0 .. m - 1, NEW used \in 0 .. m - 1, l < used, NEW col \in 0 .. n[l]
  PROVE  IsRows(m, Down(o, m, l, used, o[l], o[l] + col), Down(k, m, l, used, col, k[l] - col),
                Down(n, m, l, used, col, n[l] - col), t)
<1> DEFINE at == o[l] + col
           kr == k[l] - col
           nr == n[l] - col
           oo == Down(o, m, l, used, o[l], at)
           kk == Down(k, m, l, used, col, kr)
           nn == Down(n, m, l, used, col, nr)
<1>1. o \in [0 .. m - 1 -> Nat] /\ k \in [0 .. m - 1 -> Nat] /\ n \in [0 .. m - 1 -> Nat]
  BY DEF IsRows
<1>2. /\ o[l] \in Nat /\ k[l] \in Nat /\ n[l] \in Nat /\ n[l] <= k[l] /\ o[l] + k[l] <= t
      /\ l + 1 \in 0 .. m - 1 => o[l] + k[l] <= o[l + 1]
  BY RowIn
<1>3. /\ at \in Nat /\ kr \in Nat /\ nr \in Nat /\ nr <= kr /\ at + kr = o[l] + k[l]
      /\ col \in Nat /\ at = o[l] + col
  BY <1>2
<1> HIDE DEF at, kr, nr
<1>4. ASSUME NEW f \in [0 .. m - 1 -> Nat], NEW a \in Nat, NEW b \in Nat
      PROVE  Down(f, m, l, used, a, b) \in [0 .. m - 1 -> Nat]
  <2>1. ASSUME NEW r \in 0 .. m - 1
        PROVE  (IF r = l THEN a ELSE IF r = l + 1 THEN b
                ELSE IF r \in l + 2 .. used THEN f[r - 1] ELSE f[r]) \in Nat
    <3>1. r \in l + 2 .. used => r - 1 \in 0 .. m - 1
      OBVIOUS
    <3>2. r \in l + 2 .. used => f[r - 1] \in Nat
      BY <3>1
    <3> QED BY <3>2
  <2> QED BY <2>1 DEF Down
<1>5. oo \in [0 .. m - 1 -> Nat] /\ kk \in [0 .. m - 1 -> Nat] /\ nn \in [0 .. m - 1 -> Nat]
  BY <1>1, <1>2, <1>3, <1>4
<1>6. ASSUME NEW r \in 0 .. m - 1
      PROVE  /\ oo[r] = IF r = l THEN o[l] ELSE IF r = l + 1 THEN at
                        ELSE IF r \in l + 2 .. used THEN o[r - 1] ELSE o[r]
             /\ kk[r] = IF r = l THEN col ELSE IF r = l + 1 THEN kr
                        ELSE IF r \in l + 2 .. used THEN k[r - 1] ELSE k[r]
             /\ nn[r] = IF r = l THEN col ELSE IF r = l + 1 THEN nr
                        ELSE IF r \in l + 2 .. used THEN n[r - 1] ELSE n[r]
  <2>1. oo[r] = IF r = l THEN o[l] ELSE IF r = l + 1 THEN at
                ELSE IF r \in l + 2 .. used THEN o[r - 1] ELSE o[r]
    BY DEF Down
  <2>2. kk[r] = IF r = l THEN col ELSE IF r = l + 1 THEN kr
                ELSE IF r \in l + 2 .. used THEN k[r - 1] ELSE k[r]
    BY DEF Down
  <2>3. nn[r] = IF r = l THEN col ELSE IF r = l + 1 THEN nr
                ELSE IF r \in l + 2 .. used THEN n[r - 1] ELSE n[r]
    BY DEF Down
  <2> QED BY <2>1, <2>2, <2>3
<1> HIDE DEF oo, kk, nn
<1>7. ASSUME NEW r \in 0 .. m - 1
      PROVE  nn[r] <= kk[r] /\ oo[r] + kk[r] <= (IF r + 1 \in 0 .. m - 1 THEN oo[r + 1] ELSE t)
  <2>1. /\ o[r] \in Nat /\ k[r] \in Nat /\ n[r] \in Nat /\ n[r] <= k[r] /\ o[r] + k[r] <= t
        /\ r + 1 \in 0 .. m - 1 => o[r] + k[r] <= o[r + 1]
    BY RowIn
  <2>2. r + 1 \in 0 .. m - 1 => o[r + 1] \in Nat
    BY <1>1
  <2>3. r + 1 \in 0 .. m - 1 =>
          oo[r + 1] = IF r + 1 = l THEN o[l] ELSE IF r + 1 = l + 1 THEN at
                      ELSE IF r + 1 \in l + 2 .. used THEN o[r + 1 - 1] ELSE o[r + 1]
    BY <1>6
  <2>4. r + 1 - 1 = r
    OBVIOUS
  <2>5. CASE r < l
    <3>1. oo[r] = o[r] /\ kk[r] = k[r] /\ nn[r] = n[r] /\ r + 1 \in 0 .. m - 1
      BY <1>6, <2>5
    <3>2. oo[r + 1] = o[r + 1]
      BY <2>3, <2>5, <3>1
    <3> QED BY <2>1, <3>1, <3>2
  <2>6. CASE r = l
    <3>1. oo[r] = o[l] /\ kk[r] = col /\ nn[r] = col /\ r + 1 \in 0 .. m - 1
      BY <1>6, <2>6
    <3>2. oo[r + 1] = at
      BY <2>3, <2>6, <3>1
    <3> QED BY <1>2, <1>3, <3>1, <3>2
  <2>7. CASE r = l + 1
    <3>1. oo[r] = at /\ kk[r] = kr /\ nn[r] = nr
      BY <1>6, <2>7
    <3>2. at + kr <= o[r] /\ at + kr <= t
      BY <1>2, <1>3, <2>7
    <3>3. r + 1 \in 0 .. m - 1 => oo[r + 1] = o[r] \/ oo[r + 1] = o[r + 1]
      BY <2>3, <2>4, <2>7
    <3>4. r + 1 \in 0 .. m - 1 => at + kr <= oo[r + 1]
      <4> SUFFICES ASSUME r + 1 \in 0 .. m - 1 PROVE at + kr <= oo[r + 1]
        OBVIOUS
      <4>1. o[r] <= o[r + 1] /\ o[r + 1] \in Nat
        BY <2>1, <2>2
      <4> QED BY <1>3, <2>1, <3>2, <3>3, <4>1
    <3> QED BY <1>3, <3>1, <3>2, <3>4
  <2>8. CASE r \in l + 2 .. used
    <3> DEFINE q == r - 1
    <3>1. q \in 0 .. m - 1 /\ q + 1 = r /\ q + 1 \in 0 .. m - 1
      BY <2>8
    <3> HIDE DEF q
    <3>2. /\ o[q] \in Nat /\ k[q] \in Nat /\ n[q] \in Nat /\ n[q] <= k[q] /\ o[q] + k[q] <= t
          /\ o[q] + k[q] <= o[q + 1]
      BY <3>1, RowIn
    <3>3. oo[r] = o[q] /\ kk[r] = k[q] /\ nn[r] = n[q]
      BY <1>6, <2>8 DEF q
    <3>4. r + 1 \in 0 .. m - 1 => oo[r + 1] = o[r] \/ oo[r + 1] = o[r + 1]
      BY <2>3, <2>4, <2>8
    <3>5. r + 1 \in 0 .. m - 1 => o[q] + k[q] <= oo[r + 1]
      <4> SUFFICES ASSUME r + 1 \in 0 .. m - 1 PROVE o[q] + k[q] <= oo[r + 1]
        OBVIOUS
      <4>1. o[r] <= o[r + 1] /\ o[r + 1] \in Nat
        BY <2>1, <2>2
      <4> QED BY <2>1, <3>1, <3>2, <3>4, <4>1
    <3> QED BY <3>2, <3>3, <3>5
  <2>9. CASE r > used
    <3>1. oo[r] = o[r] /\ kk[r] = k[r] /\ nn[r] = n[r]
      BY <1>6, <2>9
    <3>2. r + 1 \in 0 .. m - 1 => oo[r + 1] = o[r + 1]
      BY <2>3, <2>9
    <3> QED BY <2>1, <3>1, <3>2
  <2> QED BY <2>5, <2>6, <2>7, <2>8, <2>9
<1>8. IsRows(m, oo, kk, nn, t)
  BY <1>5, <1>7 DEF IsRows, Laid
<1> QED BY <1>8 DEF oo, kk, nn, at, kr, nr

LEMMA CutIs ==
  ASSUME NEW s, IsBuf(s), NEW l \in Rows(s), NEW used \in Rows(s), l < used,
         NEW col \in 0 .. s.len[l]
  PROVE  LET t == Cut(s, l, used, col)
         IN  /\ IsBuf(t) /\ t.view = s.view /\ t.rows = s.rows /\ t.x = s.x /\ t.y = s.y
             /\ t.end = s.end /\ t.counter = s.counter /\ t.open = s.open /\ t.cells = s.cells
             /\ t.off = Down(s.off, s.rows, l, used, s.off[l], s.off[l] + col)
             /\ t.len = Down(s.len, s.rows, l, used, col, s.len[l] - col)
<1> DEFINE a == s.cells
           z == s.total
           f == s.off
           g == s.cap
           h == s.len
           m == s.rows
           o == Down(f, m, l, used, f[l], f[l] + col)
           k == Down(g, m, l, used, col, g[l] - col)
           n == Down(h, m, l, used, col, h[l] - col)
           t == Cut(s, l, used, col)
<1>1. t = [s EXCEPT !.off = o, !.cap = k, !.len = n]
  BY DEF Cut
<1>2. t = Filled(s, a, z, o, k, n, m)
  <2>1. s \in Buffer
    BY DEF IsBuf
  <2> HIDE DEF o, k, n, t
  <2> QED BY <1>1, <2>1 DEF Filled, Buffer
<1>3. /\ z \in Nat /\ a \in [0 .. z - 1 -> Content] /\ m \in 1 .. MaxRows /\ m \in Nat \ {0}
      /\ IsRows(m, f, g, h, z) /\ l \in 0 .. m - 1 /\ used \in 0 .. m - 1 /\ col \in 0 .. h[l]
  <2>1. /\ s.total \in Nat /\ s.cells \in [0 .. s.total - 1 -> Content] /\ s.rows \in Nat \ {0}
        /\ s.rows <= MaxRows /\ MaxRows \in Nat
    BY BufParts, BufferAssumption
  <2>2. IsRows(s.rows, s.off, s.cap, s.len, s.total)
    BY RowParts
  <2>3. l \in 0 .. s.rows - 1 /\ used \in 0 .. s.rows - 1
    BY DEF Rows
  <2>4. m = s.rows /\ z = s.total /\ a = s.cells /\ f = s.off /\ g = s.cap /\ h = s.len
    OBVIOUS
  <2> HIDE DEF m, z, a, f, g, h, o, k, n, t
  <2> QED BY <2>1, <2>2, <2>3, <2>4
<1>4. /\ a = s.cells /\ m = s.rows
      /\ o = Down(s.off, s.rows, l, used, s.off[l], s.off[l] + col)
      /\ n = Down(s.len, s.rows, l, used, col, s.len[l] - col)
  OBVIOUS
<1> HIDE DEF f, g, h, m, a, z, t
<1>5. IsRows(m, o, k, n, z)
  BY <1>3, DownRows
<1> HIDE DEF o, k, n
<1>6. LET u == Filled(s, a, z, o, k, n, m)
      IN  /\ IsBuf(u) /\ SameTally(s, u) /\ SameCursor(s, u) /\ u.view = s.view
          /\ u.cells = a /\ u.total = z /\ u.off = o /\ u.cap = k /\ u.len = n /\ u.rows = m
  BY <1>3, <1>5, FilledIs
<1>7. /\ IsBuf(t) /\ SameTally(s, t) /\ SameCursor(s, t) /\ t.view = s.view
      /\ t.cells = a /\ t.off = o /\ t.len = n /\ t.rows = m
  BY <1>2, <1>6
<1>8. t.x = s.x /\ t.y = s.y /\ t.end = s.end /\ t.counter = s.counter /\ t.open = s.open
  BY <1>7 DEF SameTally, SameCursor
<1> QED BY <1>4, <1>7, <1>8 DEF t

LEMMA WithCellsIs ==
  ASSUME NEW s, IsBuf(s), NEW l \in Nat
  PROVE  Grows(s, WithCells(s, l)) /\ WithCells(s, l).rows = s.rows
<1>1. Slack \in Nat
  BY BufferAssumption
<1>2. Grows(s, editor_ensure_line_cap(s, l, Slack)) /\ editor_ensure_line_cap(s, l, Slack).rows = s.rows
  BY <1>1, LineCapIs
<1> QED BY <1>2, GrowsItself DEF WithCells

LEMMA UsedIs ==
  ASSUME NEW s, IsBuf(s), NEW l \in Nat
  PROVE  Used(s, l) \in Nat /\ l < Used(s, l)
<1>1. s.end \in Nat
  BY BufParts
<1> QED BY <1>1 DEF Used

\* The row that is cut, and what is done to it on the way.
RowsFor(s)  == editor_ensure_row_capacity(s, Used(s, s.y) + 1)
ColFor(s)   == Clamp(RowsFor(s).x, 0, RowsFor(s).len[s.y])
CutAt(s)    == Cut(RowsFor(s), s.y, Used(s, s.y), ColFor(s))
SplitOf(s)  == WithCells(WithCells(CutAt(s), s.y + 1), s.y)

LEMMA CutAtIs ==
  ASSUME NEW s, IsBuf(s), CanSplit(s)
  PROVE  LET b == RowsFor(s)
             used == Used(s, s.y)
             t == CutAt(s)
         IN  /\ Grows(s, b) /\ s.y \in Rows(s) /\ s.y \in Rows(b) /\ used \in Rows(b)
             /\ s.y < used /\ used + 1 <= MaxRows
             /\ ColFor(s) \in 0 .. s.len[s.y] /\ ColFor(s) = Clamp(s.x, 0, s.len[s.y])
             /\ IsBuf(t) /\ t.view = s.view /\ t.rows = b.rows /\ t.x = s.x /\ t.y = s.y
             /\ t.end = s.end /\ t.counter = s.counter /\ t.open = s.open /\ t.cells = b.cells
             /\ t.off = Down(b.off, b.rows, s.y, used, b.off[s.y], b.off[s.y] + ColFor(s))
             /\ t.len = Down(b.len, b.rows, s.y, used, ColFor(s), b.len[s.y] - ColFor(s))
<1> DEFINE b == RowsFor(s)
           l == s.y
           used == Used(s, l)
           col == ColFor(s)
           t == CutAt(s)
<1>1. l \in Nat /\ s.x \in Nat /\ s.rows \in Nat
  BY BufParts
<1>2. used \in Nat /\ l < used
  BY <1>1, UsedIs
<1>3. Grows(s, b)
  <2> DEFINE need == used + 1
  <2>1. need \in Nat
    BY <1>2
  <2> HIDE DEF need
  <2>2. Grows(s, editor_ensure_row_capacity(s, need))
    BY <2>1, RowCapacityIs
  <2> QED BY <2>2 DEF need, RowsFor
<1>4. l < editor_line_limit(s) /\ b.rows > used
  BY DEF CanSplit, RowsFor
<1>5. l \in Rows(s)
  BY <1>1, <1>4, LenOf
<1>6. col = Clamp(b.x, 0, b.len[l])
  BY DEF ColFor
<1>7. t = Cut(b, l, used, col)
  BY DEF CutAt
<1>8. used = Used(s, s.y) /\ l = s.y
  OBVIOUS
<1> HIDE DEF b, used, col, t, l
<1>9. IsBuf(b) /\ b.view = s.view /\ b.x = s.x /\ b.y = s.y /\ b.len[l] = s.len[l]
      /\ b.end = s.end /\ b.counter = s.counter /\ b.open = s.open
  BY <1>3, <1>5 DEF Grows, SameTally, SameCursor, SameText
<1>10. b.rows \in Nat /\ b.rows <= MaxRows /\ MaxRows \in Nat
  BY <1>9, BufParts, BufferAssumption
<1>11. l \in Rows(b) /\ used \in Rows(b) /\ used + 1 <= MaxRows
  BY <1>1, <1>2, <1>4, <1>10 DEF Rows
<1>12. s.len[l] \in Nat
  BY <1>5, RowOf
<1>13. col = Clamp(s.x, 0, s.len[l])
  BY <1>6, <1>9
<1>14. col \in 0 .. s.len[l] /\ col \in 0 .. b.len[l]
  BY <1>1, <1>9, <1>12, <1>13 DEF Clamp
<1>15. LET u == Cut(b, l, used, col)
       IN  /\ IsBuf(u) /\ u.view = b.view /\ u.rows = b.rows /\ u.x = b.x /\ u.y = b.y
           /\ u.end = b.end /\ u.counter = b.counter /\ u.open = b.open /\ u.cells = b.cells
           /\ u.off = Down(b.off, b.rows, l, used, b.off[l], b.off[l] + col)
           /\ u.len = Down(b.len, b.rows, l, used, col, b.len[l] - col)
  BY <1>2, <1>9, <1>11, <1>14, CutIs
<1>16. /\ IsBuf(t) /\ t.view = s.view /\ t.rows = b.rows /\ t.x = s.x /\ t.y = s.y
       /\ t.end = s.end /\ t.counter = s.counter /\ t.open = s.open /\ t.cells = b.cells
       /\ t.off = Down(b.off, b.rows, l, used, b.off[l], b.off[l] + col)
       /\ t.len = Down(b.len, b.rows, l, used, col, b.len[l] - col)
  BY <1>7, <1>9, <1>15
<1> QED BY <1>2, <1>3, <1>5, <1>11, <1>13, <1>14, <1>16 DEF b, used, l, col, t

LEMMA SplitOfIs ==
  ASSUME NEW s, IsBuf(s), CanSplit(s)
  PROVE  Grows(CutAt(s), SplitOf(s)) /\ SplitOf(s).rows = CutAt(s).rows
<1> DEFINE t == CutAt(s)
           l == s.y
           g == l + 1
           v == WithCells(t, g)
           u == WithCells(v, l)
<1>1. l \in Nat /\ g \in Nat
  BY BufParts
<1>2. IsBuf(t)
  BY CutAtIs
<1>3. u = SplitOf(s)
  BY DEF SplitOf
<1> HIDE DEF t, l, g
<1>4. Grows(t, v) /\ v.rows = t.rows
  BY <1>1, <1>2, WithCellsIs
<1> HIDE DEF v
<1>5. IsBuf(v)
  BY <1>4 DEF Grows
<1>6. Grows(v, u) /\ u.rows = v.rows
  BY <1>1, <1>5, WithCellsIs
<1> HIDE DEF u
<1>7. Grows(t, u) /\ u.rows = t.rows
  BY <1>2, <1>4, <1>6, GrowsOn
<1> QED BY <1>3, <1>7 DEF t

LEMMA NewLineSpaceIs ==
  ASSUME NEW s, IsBuf(s), CanSplit(s)
  PROVE  LET t == make_new_line_space(s, s.y)
         IN  IsBuf(t) /\ SameRows(SplitOf(s), t) /\ t.view = s.view /\ t.x = s.x /\ t.y = s.y
<1> DEFINE u == SplitOf(s)
           t == make_new_line_space(s, s.y)
           e == Used(s, s.y) + 1
           c == IF u.counter < LoadLines THEN u.counter + 1 ELSE u.counter
           b == u.open
<1>1. t = [u EXCEPT !.end = e, !.counter = c]
  BY DEF make_new_line_space, SplitOf, CutAt, RowsFor, ColFor
<1>2. e \in 0 .. MaxRows
  <2>1. s.y \in Nat /\ MaxRows \in Nat
    BY BufParts, BufferAssumption
  <2>2. Used(s, s.y) \in Nat
    BY <2>1, UsedIs
  <2>3. Used(s, s.y) + 1 <= MaxRows
    BY CutAtIs
  <2> QED BY <2>1, <2>2, <2>3
<1> HIDE DEF u, t, e
<1>3. IsBuf(u) /\ SameCursor(CutAt(s), u) /\ u.view = CutAt(s).view
  BY SplitOfIs DEF u, Grows
<1>4. CutAt(s).view = s.view /\ CutAt(s).x = s.x /\ CutAt(s).y = s.y
  BY CutAtIs
<1>5. u.view = s.view /\ u.x = s.x /\ u.y = s.y
  BY <1>3, <1>4 DEF SameCursor
<1>6. c \in 0 .. LoadLines /\ b \in BOOLEAN
  <2>1. u.counter \in Nat /\ u.counter <= LoadLines /\ LoadLines \in Nat /\ b \in BOOLEAN
    BY <1>3, BufParts, BufferAssumption
  <2> QED BY <2>1
<1>7. t = Tallied(u, e, c, b)
  <2>1. u \in Buffer
    BY <1>3 DEF IsBuf
  <2> HIDE DEF c
  <2> QED BY <1>1, <2>1 DEF Tallied, Buffer
<1> HIDE DEF c, b
<1>8. LET q == Tallied(u, e, c, b)
      IN  /\ IsBuf(q) /\ SameRows(u, q) /\ SameCursor(u, q) /\ q.view = u.view
          /\ q.end = e /\ q.counter = c /\ q.open = b
  BY <1>2, <1>3, <1>6, TalliedIs
<1>9. IsBuf(t) /\ SameRows(u, t) /\ SameCursor(u, t) /\ t.view = u.view
  BY <1>7, <1>8
<1>10. t.x = s.x /\ t.y = s.y /\ t.view = s.view
  BY <1>5, <1>9 DEF SameCursor
<1> QED BY <1>9, <1>10 DEF t, u

LEMMA NewlineIs ==
  ASSUME NEW s, IsBuf(s), s.x <= s.view, NEW scrolls \in BOOLEAN
  PROVE  LET t == handle_newline(s, scrolls)
         IN  /\ IsBuf(t) /\ t.view = s.view /\ t.x <= t.view
             /\ t = s \/ (CanSplit(s) /\ SameRows(SplitOf(s), t) /\ t.x = 0)
<1> DEFINE n == make_new_line_space(s, s.y)
           m == MovedBy(n, 1, scrolls)
           t == handle_newline(s, scrolls)
<1>1. CASE ~ CanSplit(s)
  BY <1>1 DEF handle_newline
<1>2. CASE CanSplit(s)
  <2>1. t = Begun(m)
    <3>1. t = [m EXCEPT !.x = 0, !.end = IF m.y >= m.end THEN m.y + 1 ELSE m.end]
      BY <1>2 DEF handle_newline
    <3> QED BY <3>1 DEF Begun
  <2>2. IsBuf(n) /\ SameRows(SplitOf(s), n) /\ n.view = s.view
    BY <1>2, NewLineSpaceIs
  <2> HIDE DEF n, t
  <2>3. Moves(n, m)
    <3>1. 1 \in Int
      OBVIOUS
    <3> QED BY <2>2, <3>1, MovedByIs
  <2> HIDE DEF m
  <2>4. IsBuf(m) /\ SameRows(n, m) /\ m.view = s.view
    BY <2>2, <2>3, Moved
  <2>5. LET u == Begun(m)
        IN  /\ IsBuf(u) /\ SameRows(m, u) /\ u.view = m.view /\ u.x = 0 /\ u.y = m.y
            /\ u.counter = m.counter /\ u.open = m.open
    BY <2>4, BegunIs
  <2>6. IsBuf(t) /\ SameRows(m, t) /\ t.view = s.view /\ t.x = 0
    BY <2>1, <2>4, <2>5
  <2>7. SameRows(SplitOf(s), t)
    BY <2>2, <2>4, <2>6 DEF SameRows
  <2>8. 0 <= t.view
    BY <2>6, BufParts
  <2>9. /\ IsBuf(t) /\ t.view = s.view /\ t.x <= t.view
        /\ CanSplit(s) /\ SameRows(SplitOf(s), t) /\ t.x = 0
    BY <1>2, <2>6, <2>7, <2>8
  <2> QED BY <2>9 DEF t
<1> QED BY <1>1, <1>2

-----------------------------------------------------------------------------
(* Files                                                                   *)

LEMMA LineMemoryIs ==
  ASSUME NEW s, IsBuf(s), NEW n \in Nat
  PROVE  LET t == set_line_memory(s, n)
         IN  /\ IsBuf(t) /\ SameRows(s, t) /\ SameCursor(s, t) /\ t.view = s.view
             /\ t.open = s.open
<1> DEFINE t == set_line_memory(s, n)
           e == IF n < LoadLines THEN n ELSE s.end
           c == Least(n + 1, LoadLines)
           b == s.open
<1>1. e \in 0 .. MaxRows /\ c \in 0 .. LoadLines /\ b \in BOOLEAN
  <2>1. s.end \in Nat /\ s.end <= MaxRows /\ b \in BOOLEAN /\ MaxRows \in Nat
    BY BufParts, BufferAssumption
  <2>2. LoadLines \in Nat /\ LoadLines < MaxRows
    BY BufferAssumption
  <2> QED BY <2>1, <2>2 DEF Least
<1>2. t = Tallied(s, e, c, b)
  <2>1. s \in Buffer
    BY DEF IsBuf
  <2> HIDE DEF c
  <2> QED BY <2>1 DEF set_line_memory, Tallied, Buffer, c
<1>3. b = s.open
  OBVIOUS
<1> HIDE DEF t, e, c, b
<1>4. LET u == Tallied(s, e, c, b)
      IN  /\ IsBuf(u) /\ SameRows(s, u) /\ SameCursor(s, u) /\ u.view = s.view
          /\ u.end = e /\ u.counter = c /\ u.open = b
  BY <1>1, TalliedIs
<1> QED BY <1>2, <1>3, <1>4 DEF t

\* A file that is only counted, and the cursor in its first column.
LEMMA CountedIs ==
  ASSUME NEW s, IsBuf(s), NEW n \in Nat
  PROVE  LET t == [set_line_memory(s, n) EXCEPT !.open = TRUE, !.x = 0, !.y = 0]
         IN  IsBuf(t) /\ SameRows(s, t) /\ t.view = s.view /\ t.x = 0
<1> DEFINE g == set_line_memory(s, n)
           t == [g EXCEPT !.open = TRUE, !.x = 0, !.y = 0]
           e == g.end
           c == g.counter
           p == Tallied(g, e, c, TRUE)
<1>1. IsBuf(g) /\ SameRows(s, g) /\ g.view = s.view
  BY LineMemoryIs
<1> HIDE DEF g
<1>2. e \in 0 .. MaxRows /\ c \in 0 .. LoadLines /\ 0 \in 0 .. MaxRows - 1
  <2>1. /\ g.end \in Nat /\ g.end <= MaxRows /\ g.counter \in Nat /\ g.counter <= LoadLines
        /\ MaxRows \in Nat /\ LoadLines \in Nat /\ LoadLines < MaxRows
    BY <1>1, BufParts, BufferAssumption
  <2> QED BY <2>1
<1>3. t = Placed(p, 0, 0)
  <2>1. g \in Buffer
    BY <1>1 DEF IsBuf
  <2> QED BY <2>1 DEF Placed, Tallied, Buffer
<1> HIDE DEF e, c, t, p
<1>4. LET u == Tallied(g, e, c, TRUE)
      IN  /\ IsBuf(u) /\ SameRows(g, u) /\ SameCursor(g, u) /\ u.view = g.view
          /\ u.end = e /\ u.counter = c /\ u.open = TRUE
  BY <1>1, <1>2, TalliedIs
<1>5. IsBuf(p) /\ SameRows(g, p) /\ p.view = g.view
  BY <1>4 DEF p
<1>6. LET q == Placed(p, 0, 0)
      IN  /\ IsBuf(q) /\ SameRows(p, q) /\ SameTally(p, q) /\ q.view = p.view
          /\ q.y = 0 /\ q.x = 0
  BY <1>2, <1>5, PlacedIs
<1>7. SameRows(s, t)
  BY <1>1, <1>3, <1>5, <1>6 DEF SameRows
<1>8. IsBuf(t) /\ t.view = s.view /\ t.x = 0
  BY <1>1, <1>3, <1>5, <1>6
<1> QED BY <1>7, <1>8 DEF t, g

LEMMA SavedIs ==
  ASSUME NEW s, IsBuf(s), NEW n \in Nat
  PROVE  LET t == [set_line_memory(s, n) EXCEPT !.open = TRUE]
         IN  IsBuf(t) /\ SameRows(s, t) /\ SameCursor(s, t) /\ t.view = s.view
<1> DEFINE g == set_line_memory(s, n)
           t == [g EXCEPT !.open = TRUE]
           e == g.end
           c == g.counter
<1>1. IsBuf(g) /\ SameRows(s, g) /\ SameCursor(s, g) /\ g.view = s.view
  BY LineMemoryIs
<1> HIDE DEF g
<1>2. e \in 0 .. MaxRows /\ c \in 0 .. LoadLines
  <2>1. /\ g.end \in Nat /\ g.end <= MaxRows /\ g.counter \in Nat /\ g.counter <= LoadLines
        /\ MaxRows \in Nat /\ LoadLines \in Nat
    BY <1>1, BufParts, BufferAssumption
  <2> QED BY <2>1
<1>3. t = Tallied(g, e, c, TRUE)
  <2>1. g \in Buffer
    BY <1>1 DEF IsBuf
  <2> QED BY <2>1 DEF Tallied, Buffer
<1> HIDE DEF e, c, t
<1>4. LET u == Tallied(g, e, c, TRUE)
      IN  /\ IsBuf(u) /\ SameRows(g, u) /\ SameCursor(g, u) /\ u.view = g.view
          /\ u.end = e /\ u.counter = c /\ u.open = TRUE
  BY <1>1, <1>2, TalliedIs
<1>5. IsBuf(t) /\ SameRows(g, t) /\ SameCursor(g, t) /\ t.view = g.view
  BY <1>3, <1>4
<1>6. IsBuf(t) /\ SameRows(s, t) /\ SameCursor(s, t) /\ t.view = s.view
  BY <1>1, <1>5 DEF SameRows, SameCursor
<1> QED BY <1>6 DEF t, g

\* Pairs of a number up to n and one of a few more are finitely many.
LEMMA PairsFinite ==
  ASSUME NEW n \in Nat, NEW k \in Nat
  PROVE  IsFiniteSet((1 .. n) \X (1 .. k))
<1>1. IsFiniteSet(1 .. n) /\ IsFiniteSet(1 .. k)
  <2>1. 1 \in Int /\ n \in Int /\ k \in Int
    OBVIOUS
  <2> QED BY <2>1, FS_Interval
<1> QED BY <1>1, FS_Product

\* A line has at most two columns for each of its glyphs.
CellPairs(line, k) == {p \in (1 .. k) \X (1 .. 2) : p[2] <= Width(line[p[1]])}

LEMMA ColumnsIs ==
  ASSUME NEW line, NEW k \in Nat
  PROVE  /\ IsFiniteSet(CellPairs(line, k))
         /\ Columns(line, k) = Cardinality(CellPairs(line, k)) /\ Columns(line, k) \in Nat
<1>1. IsFiniteSet((1 .. k) \X (1 .. 2))
  BY PairsFinite
<1>2. CellPairs(line, k) \subseteq (1 .. k) \X (1 .. 2)
  BY DEF CellPairs
<1>3. IsFiniteSet(CellPairs(line, k))
  BY <1>1, <1>2, FS_Subset
<1>4. Columns(line, k) = Cardinality(CellPairs(line, k))
  BY DEF Columns, CellPairs
<1> QED BY <1>3, <1>4, FS_CardinalityType

\* Each glyph begins where the one before it ends.
LEMMA ColumnsOn ==
  ASSUME NEW line, NEW k \in Nat
  PROVE  /\ Columns(line, 0) = 0
         /\ Columns(line, k + 1) = Columns(line, k) + Width(line[k + 1])
<1> DEFINE A == CellPairs(line, k)
           j == k + 1
           w == Width(line[j])
           B == CellPairs(line, j)
           a == <<j, 1>>
           b == <<j, 2>>
<1>1. Columns(line, 0) = 0
  <2>1. 1 .. 0 = {}
    OBVIOUS
  <2>2. CellPairs(line, 0) = {}
    BY <2>1 DEF CellPairs
  <2> QED BY <2>2, ColumnsIs, FS_EmptySet
<1>2. IsFiniteSet(A) /\ Columns(line, k) = Cardinality(A) /\ Cardinality(A) \in Nat
  BY ColumnsIs
<1>3. Columns(line, j) = Cardinality(B)
  BY ColumnsIs
<1>4. w \in {1, 2}
  BY WidthIs
<1>5. a \notin A /\ b \notin A /\ a # b
  BY DEF CellPairs
<1>6. B = IF w = 1 THEN A \cup {a} ELSE (A \cup {a}) \cup {b}
  <2>1. ASSUME NEW p \in B PROVE p \in A \/ p = a \/ (w = 2 /\ p = b)
    <3>1. p = <<p[1], p[2]>> /\ p[1] \in 1 .. j /\ p[2] \in 1 .. 2 /\ p[2] <= Width(line[p[1]])
      BY DEF CellPairs
    <3>2. CASE p[1] = j
      <4>1. p[2] = 1 \/ (p[2] = 2 /\ w = 2)
        BY <1>4, <3>1, <3>2
      <4> QED BY <3>1, <3>2, <4>1
    <3>3. CASE p[1] # j
      <4>1. p[1] \in 1 .. k
        BY <3>1, <3>3
      <4> QED BY <3>1, <4>1 DEF CellPairs
    <3> QED BY <3>2, <3>3
  <2>2. A \subseteq B
    BY DEF CellPairs
  <2>3. a \in B /\ (w = 2 => b \in B)
    <3>1. j \in 1 .. j /\ 1 <= w
      BY <1>4
    <3> QED BY <3>1 DEF CellPairs
  <2> HIDE DEF A, B, a, b, w
  <2>4. CASE w = 1
    BY <2>1, <2>2, <2>3, <2>4
  <2>5. CASE w = 2
    BY <2>1, <2>2, <2>3, <2>5
  <2> QED BY <1>4, <2>4, <2>5
<1>7. j = k + 1
  OBVIOUS
<1> HIDE DEF A, B, a, b, w, j
<1>8. IsFiniteSet(A \cup {a}) /\ Cardinality(A \cup {a}) = Cardinality(A) + 1
  BY <1>2, <1>5, FS_AddElement
<1>9. w = 1 => Columns(line, j) = Columns(line, k) + w
  BY <1>2, <1>3, <1>6, <1>8
<1>10. w = 2 => Columns(line, j) = Columns(line, k) + w
  <2>1. b \notin A \cup {a}
    BY <1>5
  <2>2. Cardinality((A \cup {a}) \cup {b}) = Cardinality(A \cup {a}) + 1
    BY <1>8, <2>1, FS_AddElement
  <2> QED BY <1>2, <1>3, <1>6, <1>8, <2>2
<1>11. Columns(line, j) = Columns(line, k) + w
  BY <1>4, <1>9, <1>10
<1> QED BY <1>1, <1>7, <1>11 DEF w

LEMMA ColumnsGrow ==
  ASSUME NEW line, NEW a \in Nat, NEW b \in Nat, a <= b
  PROVE  /\ Columns(line, a) <= Columns(line, b)
         /\ a < b => Columns(line, a) < Columns(line, b)
<1>1. ASSUME NEW c \in Nat, c <= b PROVE Columns(line, c) <= Columns(line, b)
  <2>1. CellPairs(line, c) \subseteq CellPairs(line, b)
    BY <1>1 DEF CellPairs
  <2>2. IsFiniteSet(CellPairs(line, b))
    BY ColumnsIs
  <2>3. Cardinality(CellPairs(line, c)) <= Cardinality(CellPairs(line, b))
    BY <2>1, <2>2, FS_Subset
  <2> QED BY <2>3, ColumnsIs
<1>2. ASSUME a < b PROVE Columns(line, a) < Columns(line, b)
  <2> DEFINE c == a + 1
             w == Width(line[c])
  <2>1. c \in Nat /\ c <= b
    BY <1>2
  <2>2. Columns(line, c) <= Columns(line, b)
    BY <1>1, <2>1
  <2>3. Columns(line, c) = Columns(line, a) + w
    BY ColumnsOn
  <2>4. w \in {1, 2}
    BY WidthIs
  <2>5. Columns(line, a) \in Nat /\ Columns(line, b) \in Nat
    BY ColumnsIs
  <2> HIDE DEF c, w
  <2> QED BY <2>2, <2>3, <2>4, <2>5
<1> QED BY <1>1, <1>2

\* A row shows the columns of its first glyphs, as many as there is room for.
LEMMA FittedIs ==
  ASSUME NEW line \in Seq(Glyph), NEW room \in Nat
  PROVE  /\ Fitted(line, room) \in Nat /\ Fitted(line, room) <= room
         /\ \E k \in 0 .. Len(line) : Fitted(line, room) = Columns(line, k)
<1> DEFINE n == Len(line)
           F == {p \in (1 .. n) \X (1 .. 2) :
                   p[2] <= Width(line[p[1]]) /\ Columns(line, p[1]) <= room}
           D == {d \in 0 .. n : n - d = 0 \/ \E j \in 1 .. 2 : <<n - d, j>> \in F}
<1>1. n \in Nat /\ DOMAIN line = 1 .. n
  OBVIOUS
<1>2. Fitted(line, room) = Cardinality(F)
  BY <1>1 DEF Fitted
<1>3. D \in SUBSET Nat /\ n \in D
  BY <1>1
<1>4. PICK d \in D : \A x \in D : d <= x
  BY <1>3, LeastOf
<1> DEFINE k == n - d
<1>5. k \in 0 .. n
  <2>1. d \in 0 .. n
    OBVIOUS
  <2> HIDE DEF n, D, F
  <2> QED BY <1>1, <2>1
<1>6. F \subseteq CellPairs(line, k)
  <2> SUFFICES ASSUME NEW p \in F PROVE p \in CellPairs(line, k)
    OBVIOUS
  <2>1. p \in (1 .. n) \X (1 .. 2) /\ p = <<p[1], p[2]>> /\ p[2] <= Width(line[p[1]])
    OBVIOUS
  <2> DEFINE x == n - p[1]
  <2>2. p[1] \in 1 .. n /\ p[2] \in 1 .. 2
    BY <2>1
  <2>3. x \in 0 .. n /\ n - x = p[1]
    <3> HIDE DEF n
    <3> QED BY <1>1, <2>2
  <2>4. x \in D
    <3>1. <<n - x, p[2]>> \in F
      BY <2>1, <2>3
    <3> HIDE DEF F, x
    <3> QED BY <2>2, <2>3, <3>1
  <2>5. d <= x
    BY <1>4, <2>4
  <2> HIDE DEF x, F, D
  <2>6. d \in 0 .. n
    BY DEF D
  <2>7. p[1] <= k
    BY <1>1, <2>2, <2>3, <2>5, <2>6 DEF x
  <2>8. p[1] \in 1 .. k
    BY <1>1, <1>5, <2>2, <2>7
  <2> HIDE DEF k
  <2>9. p \in (1 .. k) \X (1 .. 2)
    BY <2>1, <2>2, <2>8
  <2> QED BY <2>1, <2>9 DEF CellPairs
<1>7. k = 0 \/ Columns(line, k) <= room
  <2>1. k = 0 \/ \E j \in 1 .. 2 : <<k, j>> \in F
    OBVIOUS
  <2> HIDE DEF k
  <2> QED BY <2>1
<1>8. CellPairs(line, k) \subseteq F
  <2> SUFFICES ASSUME NEW p \in CellPairs(line, k) PROVE p \in F
    OBVIOUS
  <2> HIDE DEF k
  <2>1. p = <<p[1], p[2]>> /\ p[1] \in 1 .. k /\ p[2] \in 1 .. 2 /\ p[2] <= Width(line[p[1]])
    BY DEF CellPairs
  <2>2. p[1] \in Nat /\ p[1] <= k /\ k \in Nat /\ k # 0 /\ p[1] \in 1 .. n
    BY <1>1, <1>5, <2>1
  <2>3. Columns(line, p[1]) <= Columns(line, k)
    BY <2>2, ColumnsGrow
  <2>4. Columns(line, p[1]) \in Nat /\ Columns(line, k) \in Nat
    BY <2>2, ColumnsIs
  <2>5. Columns(line, p[1]) <= room
    BY <1>7, <2>2, <2>3, <2>4
  <2> QED BY <2>1, <2>2, <2>5
<1> HIDE DEF F, D, k
<1>9. F = CellPairs(line, k)
  BY <1>6, <1>8
<1>10. k \in Nat
  BY <1>1, <1>5
<1>11. Fitted(line, room) = Columns(line, k) /\ Columns(line, k) \in Nat
  BY <1>2, <1>9, <1>10, ColumnsIs
<1>12. Columns(line, k) <= room
  BY <1>7, ColumnsOn, <1>10
<1>13. k \in 0 .. Len(line)
  BY <1>5 DEF n
<1> QED BY <1>11, <1>12, <1>13

\* What a file takes is a number: it has finitely many bytes.
LEMMA SizeIs ==
  ASSUME NEW f \in Seq(Seq(Glyph))
  PROVE  /\ loaded_rows(f) \in 1 .. LoadLines /\ loaded_cells(f) \in Nat
<1> DEFINE P == (1 .. Len(f)) \X (1 .. ColMax)
           B == 1 .. 3
           T == (DOMAIN f) \X (1 .. ColMax) \X (1 .. 3)
           F == [q \in P \X B |-> <<q[1][1], q[1][2], q[2]>>]
           U == {p \in T : p[1] <= LoadLines /\ p[2] <= Len(f[p[1]]) /\ p[3] <= Bytes(f[p[1]][p[2]])}
           R == loaded_rows(f)
           size == file_total_str_size(f)
<1>1. /\ Len(f) \in Nat /\ DOMAIN f = 1 .. Len(f) /\ LoadLines \in Nat \ {0} /\ ColMax \in Nat
      /\ Slack \in Nat
  BY BufferAssumption
<1>2. R \in 1 .. LoadLines
  BY <1>1 DEF loaded_rows, Least
<1>3. IsFiniteSet(P) /\ IsFiniteSet(B)
  <2>1. 1 \in Int /\ 3 \in Int
    OBVIOUS
  <2> HIDE DEF P
  <2>2. IsFiniteSet(B)
    BY <2>1, FS_Interval
  <2>3. IsFiniteSet(P)
    BY <1>1, PairsFinite DEF P
  <2> QED BY <2>2, <2>3
<1>4. IsFiniteSet(P \X B)
  <2> HIDE DEF P, B
  <2> QED BY <1>3, FS_Product
<1>5. F \in [P \X B -> T]
  BY <1>1
<1>6. \A t \in T : \E q \in P \X B : F[q] = t
  <2> SUFFICES ASSUME NEW t \in T PROVE \E q \in P \X B : F[q] = t
    OBVIOUS
  <2>1. t = <<t[1], t[2], t[3]>> /\ t[1] \in 1 .. Len(f) /\ t[2] \in 1 .. ColMax /\ t[3] \in 1 .. 3
    BY <1>1
  <2>2. <<<<t[1], t[2]>>, t[3]>> \in P \X B
    BY <2>1
  <2>3. F[<<<<t[1], t[2]>>, t[3]>>] = <<t[1], t[2], t[3]>>
    BY <2>2
  <2> QED BY <2>1, <2>2, <2>3
<1> HIDE DEF P, B, T, F
<1>7. F \in Surjection(P \X B, T)
  BY <1>5, <1>6, Fun_IsSurj
<1>8. IsFiniteSet(T)
  BY <1>4, <1>7, FS_Surjection
<1>9. U \subseteq T
  OBVIOUS
<1>10. IsFiniteSet(U)
  <2> HIDE DEF U
  <2> QED BY <1>8, <1>9, FS_Subset
<1>11. size = Cardinality(U)
  BY DEF file_total_str_size, T
<1> HIDE DEF U, size
<1>12. size \in Nat
  BY <1>10, <1>11, FS_CardinalityType
<1>13. loaded_cells(f) = size + R * Slack
  BY DEF loaded_cells, size
<1> HIDE DEF R
<1>14. R \in Nat
  BY <1>1, <1>2
<1>15. R * Slack \in Nat
  BY <1>1, <1>14
<1> QED BY <1>2, <1>12, <1>13, <1>15 DEF R

\* A row gets no more cells than are left, and shows no more than it gets.
LEMMA LoadedIs ==
  ASSUME NEW f \in Seq(Seq(Glyph)), NEW r \in Nat, NEW at \in 0 .. loaded_cells(f)
  PROVE  /\ LoadedLen(f, r, at) \in Nat /\ LoadedCap(f, r, at) \in Nat
         /\ LoadedLen(f, r, at) <= LoadedCap(f, r, at)
         /\ at + LoadedCap(f, r, at) <= loaded_cells(f)
<1> DEFINE T == loaded_cells(f)
           room == T - at
           line_room == IF room < Slack THEN room ELSE room - Slack
           n == LoadedLen(f, r, at)
           k == LoadedCap(f, r, at)
<1>1. T \in Nat /\ at \in Nat /\ at <= T /\ Slack \in Nat
  BY SizeIs, BufferAssumption
<1>2. room \in Nat /\ line_room \in Nat /\ line_room <= room /\ at + room = T
  BY <1>1
<1>3. n = IF r < Len(f) THEN Fitted(f[r + 1], line_room) ELSE 0
  BY DEF LoadedLen
<1>4. k = Least(n + Slack, room)
  BY DEF LoadedCap
<1> HIDE DEF T, room, line_room, n, k
<1>5. n \in Nat /\ n <= line_room
  <2>1. CASE r < Len(f)
    <3>1. f[r + 1] \in Seq(Glyph)
      <4>1. r + 1 \in 1 .. Len(f)
        BY <2>1
      <4> QED BY <4>1
    <3>2. Fitted(f[r + 1], line_room) \in Nat /\ Fitted(f[r + 1], line_room) <= line_room
      BY <1>2, <3>1, FittedIs
    <3> QED BY <1>3, <2>1, <3>2
  <2>2. CASE ~ (r < Len(f))
    BY <1>2, <1>3, <2>2
  <2> QED BY <2>1, <2>2
<1>6. k \in Nat /\ n <= k /\ k <= room
  BY <1>1, <1>2, <1>4, <1>5 DEF Least
<1>7. at + k <= T
  BY <1>1, <1>2, <1>6
<1> QED BY <1>5, <1>6, <1>7 DEF n, k, T

LEMMA LoadedCellIs ==
  ASSUME NEW f \in Seq(Seq(Glyph)), NEW o, NEW i
  PROVE  LoadedCell(f, o, i) \in Content
<1> DEFINE here == {p \in (0 .. Least(Len(f), LoadLines) - 1) \X (1 .. ColMax) :
                      /\ p[2] <= Len(f[p[1] + 1])
                      /\ i = o[p[1]] + Columns(f[p[1] + 1], p[2] - 1)
                      /\ Columns(f[p[1] + 1], p[2]) <= LoadedLen(f, p[1], o[p[1]])}
           at == CHOOSE p \in here : TRUE
<1>1. LoadedCell(f, o, i) = IF here = {} THEN Nul ELSE f[at[1] + 1][at[2]]
  BY DEF LoadedCell
<1>2. CASE here = {}
  <2> HIDE DEF here
  <2> QED BY <1>1, <1>2 DEF Content
<1>3. CASE here # {}
  <2>1. at \in here
    <3> HIDE DEF here
    <3> QED BY <1>3, Zenon
  <2> HIDE DEF at
  <2>2. /\ at[1] \in 0 .. Least(Len(f), LoadLines) - 1 /\ at[2] \in 1 .. ColMax
        /\ at[2] <= Len(f[at[1] + 1])
    BY <2>1
  <2>3. at[1] + 1 \in 1 .. Len(f)
    <3>1. Len(f) \in Nat /\ LoadLines \in Nat
      BY BufferAssumption
    <3> HIDE DEF here
    <3> QED BY <2>2, <3>1 DEF Least
  <2>4. f[at[1] + 1] \in Seq(Glyph)
    BY <2>3
  <2> DEFINE line == f[at[1] + 1]
  <2>5. at[2] \in 1 .. Len(line)
    <3>1. ColMax \in Nat /\ Len(line) \in Nat
      BY <2>4, BufferAssumption
    <3> HIDE DEF here
    <3> QED BY <2>2, <3>1
  <2> HIDE DEF here, line
  <2>6. line[at[2]] \in Glyph
    BY <2>4, <2>5 DEF line
  <2> QED BY <1>1, <1>3, <2>6 DEF Content, line
<1> QED BY <1>2, <1>3

LEMMA FileIs ==
  ASSUME NEW f \in Files
  PROVE  f \in Seq(Seq(Glyph))
BY BufferAssumption

Starts(f, o) == [r \in 0 .. loaded_rows(f) - 1 |-> o[r]]
Caps(f, o)   == [r \in 0 .. loaded_rows(f) - 1 |-> LoadedCap(f, r, o[r])]
Lens(f, o)   == [r \in 0 .. loaded_rows(f) - 1 |-> LoadedLen(f, r, o[r])]
Cells0(f, o) == [i \in 0 .. loaded_cells(f) - 1 |-> LoadedCell(f, o, i)]

\* The rows of a file that is opened follow each other.
LEMMA LoadedRows ==
  ASSUME NEW f \in Files, NEW o \in Offsets[f]
  PROVE  /\ IsRows(loaded_rows(f), Starts(f, o), Caps(f, o), Lens(f, o), loaded_cells(f))
         /\ Cells0(f, o) \in [0 .. loaded_cells(f) - 1 -> Content]
         /\ loaded_cells(f) \in Nat /\ loaded_rows(f) \in 1 .. LoadLines
<1> DEFINE m == loaded_rows(f)
           t == loaded_cells(f)
           s == Starts(f, o)
           k == Caps(f, o)
           n == Lens(f, o)
<1>1. f \in Seq(Seq(Glyph)) /\ t \in Nat /\ m \in 1 .. LoadLines /\ m \in Nat \ {0}
  <2>1. f \in Seq(Seq(Glyph)) /\ LoadLines \in Nat
    BY FileIs, BufferAssumption
  <2>2. t \in Nat /\ m \in 1 .. LoadLines
    BY <2>1, SizeIs
  <2> HIDE DEF m, t
  <2> QED BY <2>1, <2>2
<1>2. /\ o \in [0 .. m -> 0 .. t]
      /\ \A r \in 0 .. m - 1 : o[r + 1] = o[r] + LoadedCap(f, r, o[r])
  BY DEF Offsets
<1> HIDE DEF m, t
<1>3. ASSUME NEW r \in 0 .. m - 1
      PROVE  /\ o[r] \in Nat /\ LoadedLen(f, r, o[r]) \in Nat /\ LoadedCap(f, r, o[r]) \in Nat
             /\ LoadedLen(f, r, o[r]) <= LoadedCap(f, r, o[r])
             /\ o[r] + LoadedCap(f, r, o[r]) <= t
             /\ o[r + 1] = o[r] + LoadedCap(f, r, o[r])
  <2> DEFINE at == o[r]
  <2>1. at \in 0 .. t /\ r \in Nat /\ at \in Nat
    BY <1>1, <1>2
  <2>2. o[r + 1] = at + LoadedCap(f, r, at)
    BY <1>2
  <2> HIDE DEF at
  <2>3. /\ LoadedLen(f, r, at) \in Nat /\ LoadedCap(f, r, at) \in Nat
        /\ LoadedLen(f, r, at) <= LoadedCap(f, r, at)
        /\ at + LoadedCap(f, r, at) <= t
    <3>1. at \in 0 .. loaded_cells(f)
      BY <2>1 DEF t
    <3> QED BY <1>1, <2>1, <3>1, LoadedIs DEF t
  <2> QED BY <2>1, <2>2, <2>3 DEF at
<1>4. s \in [0 .. m - 1 -> Nat]
  BY <1>3 DEF Starts, m
<1>5. k \in [0 .. m - 1 -> Nat]
  BY <1>3 DEF Caps, m
<1>6. n \in [0 .. m - 1 -> Nat]
  BY <1>3 DEF Lens, m
<1>7. ASSUME NEW r \in 0 .. m - 1
      PROVE  s[r] = o[r] /\ k[r] = LoadedCap(f, r, o[r]) /\ n[r] = LoadedLen(f, r, o[r])
  <2>1. s[r] = o[r]
    BY DEF Starts, m
  <2>2. k[r] = LoadedCap(f, r, o[r])
    BY DEF Caps, m
  <2>3. n[r] = LoadedLen(f, r, o[r])
    BY DEF Lens, m
  <2> QED BY <2>1, <2>2, <2>3
<1> HIDE DEF s, k, n
<1>8. ASSUME NEW r \in 0 .. m - 1
      PROVE  n[r] <= k[r] /\ s[r] + k[r] <= (IF r + 1 \in 0 .. m - 1 THEN s[r + 1] ELSE t)
  <2>1. n[r] <= k[r] /\ s[r] + k[r] <= t /\ s[r] + k[r] = o[r + 1]
    BY <1>3, <1>7
  <2>2. o[r + 1] \in Nat
    <3>1. r + 1 \in 0 .. m
      BY <1>1
    <3>2. o[r + 1] \in 0 .. t
      BY <1>2, <3>1
    <3> QED BY <1>1, <3>2
  <2>3. CASE r + 1 \in 0 .. m - 1
    <3>1. s[r + 1] = o[r + 1]
      BY <1>7, <2>3
    <3> QED BY <2>1, <2>2, <2>3, <3>1
  <2>4. CASE r + 1 \notin 0 .. m - 1
    BY <2>1, <2>4
  <2> QED BY <2>3, <2>4
<1>9. IsRows(m, s, k, n, t)
  BY <1>4, <1>5, <1>6, <1>8 DEF IsRows, Laid
<1>10. Cells0(f, o) \in [0 .. t - 1 -> Content]
  <2>1. ASSUME NEW i \in 0 .. t - 1 PROVE LoadedCell(f, o, i) \in Content
    BY <1>1, LoadedCellIs
  <2> QED BY <2>1 DEF Cells0, t
<1> QED BY <1>1, <1>9, <1>10 DEF s, k, n, m, t

Opened0(s, f, b) ==
  [set_line_memory(s, Len(f)) EXCEPT
     !.cells = b.cells, !.total = loaded_cells(f),
     !.off = b.off, !.cap = b.cap, !.len = b.len, !.rows = loaded_rows(f),
     !.open = TRUE, !.x = 0, !.y = 0]

LEMMA OpenedIs ==
  ASSUME NEW s, IsBuf(s), NEW f \in Files, NEW b \in Buffers[f]
  PROVE  LET t == Opened0(s, f, b)
         IN  /\ IsBuf(t) /\ t.view = s.view /\ t.x = 0
             /\ \E o \in Offsets[f] : /\ t.cells = Cells0(f, o) /\ t.off = Starts(f, o)
                                      /\ t.len = Lens(f, o) /\ t.rows = loaded_rows(f)
<1> DEFINE g == set_line_memory(s, Len(f))
           m == loaded_rows(f)
           z == loaded_cells(f)
           e == g.end
           c == g.counter
           t == Opened0(s, f, b)
<1>1. PICK o \in Offsets[f] : b = [cells |-> Cells0(f, o), off |-> Starts(f, o),
                                   len |-> Lens(f, o), cap |-> Caps(f, o)]
  BY DEF Buffers, Cells0, Starts, Lens, Caps
<1> DEFINE a == Cells0(f, o)
           w == Starts(f, o)
           k == Caps(f, o)
           n == Lens(f, o)
<1>2. IsRows(m, w, k, n, z) /\ a \in [0 .. z - 1 -> Content] /\ z \in Nat /\ m \in 1 .. LoadLines
  BY LoadedRows
<1>3. IsBuf(g) /\ g.view = s.view
  <2>1. Len(f) \in Nat
    BY FileIs
  <2> DEFINE l == Len(f)
  <2>2. l \in Nat /\ g = set_line_memory(s, l)
    BY <2>1
  <2> HIDE DEF l, g
  <2> QED BY <2>2, LineMemoryIs
<1>4. t = [g EXCEPT !.cells = b.cells, !.total = z, !.off = b.off, !.cap = b.cap, !.len = b.len,
                    !.rows = m, !.open = TRUE, !.x = 0, !.y = 0]
  BY DEF Opened0
<1>5. a = b.cells /\ w = b.off /\ k = b.cap /\ n = b.len
  BY <1>1
<1> HIDE DEF g, z, m, a, w, k, n, t
<1>6. m \in 1 .. MaxRows /\ e \in 0 .. MaxRows /\ c \in 0 .. LoadLines /\ 0 \in 0 .. MaxRows - 1
  <2>1. /\ g.end \in Nat /\ g.end <= MaxRows /\ g.counter \in Nat /\ g.counter <= LoadLines
        /\ MaxRows \in Nat /\ LoadLines \in Nat /\ LoadLines < MaxRows
    BY <1>3, BufParts, BufferAssumption
  <2> QED BY <1>2, <2>1
<1>7. t = Made(g, a, z, w, k, n, m, e, c, TRUE, 0, 0)
  <2>1. g \in Buffer
    BY <1>3 DEF IsBuf
  <2> QED BY <1>4, <1>5, <2>1 DEF Made, Placed, Tallied, Filled, Buffer
<1> DEFINE top == 0
           yes == TRUE
<1>8. t = Made(g, a, z, w, k, n, m, e, c, yes, top, top)
  BY <1>7
<1>9. yes \in BOOLEAN /\ top \in 0 .. MaxRows - 1 /\ top \in Nat /\ top = 0
  BY <1>6
<1> HIDE DEF e, c, top, yes
<1>10. LET u == Made(g, a, z, w, k, n, m, e, c, yes, top, top)
       IN  /\ IsBuf(u) /\ u.view = g.view
           /\ u.cells = a /\ u.total = z /\ u.off = w /\ u.cap = k /\ u.len = n /\ u.rows = m
           /\ u.end = e /\ u.counter = c /\ u.open = yes /\ u.x = top /\ u.y = top
  BY <1>2, <1>3, <1>6, <1>9, MadeIs
<1>11. /\ IsBuf(t) /\ t.view = s.view /\ t.x = 0
       /\ t.cells = a /\ t.off = w /\ t.len = n /\ t.rows = m
  BY <1>3, <1>8, <1>9, <1>10
<1> QED BY <1>11 DEF t, a, w, n, m

-----------------------------------------------------------------------------
(* Whole glyphs                                                            *)

\* n cells in which each wide glyph has its 0 behind it, and no 0 is without.
Whole(g, n) ==
  \A i \in 0 .. n - 1 : /\ g[i] \in Wide => i + 1 < n /\ g[i + 1] = Nul
                        /\ g[i] = Nul => i > 0 /\ g[i - 1] \in Wide

\* A column in which no second half of a glyph is.
Between(g, n, c) == c = n \/ (c < n /\ g[c] # Nul)

RowAt(s, r)  == [i \in 0 .. s.len[r] - 1 |-> Cell(s, r, i)]
WholeRows(s) == \A r \in Rows(s) : Whole(RowAt(s, r), s.len[r])

LEMMA WholeSame ==
  ASSUME NEW n \in Nat, NEW g, NEW h, Whole(g, n), \A i \in 0 .. n - 1 : h[i] = g[i]
  PROVE  Whole(h, n)
<1> SUFFICES ASSUME NEW i \in 0 .. n - 1
             PROVE  /\ h[i] \in Wide => i + 1 < n /\ h[i + 1] = Nul
                    /\ h[i] = Nul => i > 0 /\ h[i - 1] \in Wide
  BY DEF Whole
<1>1. /\ g[i] \in Wide => i + 1 < n /\ g[i + 1] = Nul
      /\ g[i] = Nul => i > 0 /\ g[i - 1] \in Wide
  BY DEF Whole
<1>2. i + 1 < n => i + 1 \in 0 .. n - 1
  OBVIOUS
<1>3. i > 0 => i - 1 \in 0 .. n - 1
  OBVIOUS
<1> QED BY <1>1, <1>2, <1>3

\* A glyph put between two others.
LEMMA WholePut ==
  ASSUME NEW n \in Nat, NEW g, NEW h, Whole(g, n), NEW x \in 0 .. n, Between(g, n, x),
         NEW ch \in Glyph, NEW w \in {1, 2}, w = 2 <=> ch \in Wide,
         \A i \in 0 .. n + w - 1 :
           h[i] = IF i < x THEN g[i] ELSE IF i = x THEN ch
                  ELSE IF i < x + w THEN Nul ELSE g[i - w]
  PROVE  Whole(h, n + w)
<1> SUFFICES ASSUME NEW i \in 0 .. n + w - 1
             PROVE  /\ h[i] \in Wide => i + 1 < n + w /\ h[i + 1] = Nul
                    /\ h[i] = Nul => i > 0 /\ h[i - 1] \in Wide
  BY DEF Whole
<1>0. n \in Nat /\ x \in Nat /\ x <= n /\ Nul \notin Wide /\ Nul # ch
  BY BufferAssumption DEF Glyph
<1>1. h[i] = IF i < x THEN g[i] ELSE IF i = x THEN ch ELSE IF i < x + w THEN Nul ELSE g[i - w]
  OBVIOUS
<1>2. i + 1 < n + w => h[i + 1] = IF i + 1 < x THEN g[i + 1] ELSE IF i + 1 = x THEN ch
                                  ELSE IF i + 1 < x + w THEN Nul ELSE g[i + 1 - w]
  <2>1. i + 1 < n + w => i + 1 \in 0 .. n + w - 1
    OBVIOUS
  <2> QED BY <2>1
<1>3. i > 0 => h[i - 1] = IF i - 1 < x THEN g[i - 1] ELSE IF i - 1 = x THEN ch
                          ELSE IF i - 1 < x + w THEN Nul ELSE g[i - 1 - w]
  <2>1. i > 0 => i - 1 \in 0 .. n + w - 1
    OBVIOUS
  <2> QED BY <2>1
<1>4. CASE i < x
  <2>1. i \in 0 .. n - 1 /\ h[i] = g[i]
    BY <1>0, <1>1, <1>4
  <2>2. /\ g[i] \in Wide => i + 1 < n /\ g[i + 1] = Nul
        /\ g[i] = Nul => i > 0 /\ g[i - 1] \in Wide
    BY <2>1 DEF Whole
  <2>3. ~ (g[i] \in Wide /\ i + 1 = x)
    BY <1>0, <2>2 DEF Between
  <2>4. i + 1 < n + w
    BY <1>0, <1>4
  <2>5. h[i] \in Wide => h[i + 1] = Nul
    BY <1>0, <1>2, <1>4, <2>1, <2>2, <2>3, <2>4
  <2>6. h[i] = Nul => i > 0 /\ h[i - 1] \in Wide
    BY <1>0, <1>3, <1>4, <2>1, <2>2
  <2> QED BY <2>4, <2>5, <2>6
<1>5. CASE i = x
  <2>1. h[i] = ch
    BY <1>1, <1>5
  <2>2. ch \in Wide => w = 2 /\ i + 1 < n + w
    BY <1>0, <1>5
  <2>3. ch \in Wide => h[i + 1] = Nul
    BY <1>0, <1>2, <1>5, <2>2
  <2> QED BY <1>0, <2>1, <2>2, <2>3
<1>6. CASE i > x /\ i < x + w
  <2>1. w = 2 /\ i = x + 1 /\ i - 1 = x /\ ch \in Wide
    BY <1>0, <1>6
  <2>2. h[i] = Nul
    BY <1>1, <1>6, <1>0
  <2>3. i > 0 /\ h[i - 1] = ch
    BY <1>0, <1>3, <2>1
  <2> QED BY <1>0, <2>1, <2>2, <2>3
<1>7. CASE i >= x + w
  <2> DEFINE j == i - w
  <2>1. j \in 0 .. n - 1 /\ j >= x /\ i - w = j
    BY <1>0, <1>7
  <2>2. h[i] = g[j]
    BY <1>0, <1>1, <1>7
  <2>3. i + 1 - w = j + 1 /\ i - 1 - w = j - 1 /\ (i + 1 < n + w <=> j + 1 < n) /\ i > 0
    BY <1>0, <1>7
  <2>4. j + 1 < n => h[i + 1] = g[j + 1]
    BY <1>0, <1>2, <1>7, <2>3
  <2>5. j > x => h[i - 1] = g[j - 1]
    <3>1. j > x => ~ (i - 1 < x) /\ ~ (i - 1 = x) /\ ~ (i - 1 < x + w)
      BY <1>0, <1>7
    <3> QED BY <1>3, <2>3, <3>1
  <2> HIDE DEF j
  <2>6. /\ g[j] \in Wide => j + 1 < n /\ g[j + 1] = Nul
        /\ g[j] = Nul => j > 0 /\ g[j - 1] \in Wide
    BY <2>1 DEF Whole
  <2>7. j = x => g[j] # Nul
    BY <1>0, <2>1 DEF Between
  <2> QED BY <1>0, <2>1, <2>2, <2>3, <2>4, <2>5, <2>6, <2>7
<1> QED BY <1>0, <1>4, <1>5, <1>6, <1>7

\* A whole glyph taken out.
LEMMA WholeTaken ==
  ASSUME NEW n \in Nat, NEW g, NEW h, Whole(g, n), NEW x \in 0 .. n - 1, g[x] \in Glyph,
         NEW w \in {1, 2}, w = 2 <=> g[x] \in Wide, x + w <= n,
         \A i \in 0 .. n - w - 1 : h[i] = IF i < x THEN g[i] ELSE g[i + w]
  PROVE  Whole(h, n - w)
<1> SUFFICES ASSUME NEW i \in 0 .. n - w - 1
             PROVE  /\ h[i] \in Wide => i + 1 < n - w /\ h[i + 1] = Nul
                    /\ h[i] = Nul => i > 0 /\ h[i - 1] \in Wide
  BY DEF Whole
<1>0. n \in Nat /\ x \in Nat /\ x < n /\ Nul \notin Wide /\ g[x] # Nul
  BY BufferAssumption DEF Glyph
<1>1. h[i] = IF i < x THEN g[i] ELSE g[i + w]
  OBVIOUS
<1>2. i + 1 < n - w => h[i + 1] = IF i + 1 < x THEN g[i + 1] ELSE g[i + 1 + w]
  <2>1. i + 1 < n - w => i + 1 \in 0 .. n - w - 1
    OBVIOUS
  <2> QED BY <2>1
<1>3. i > 0 => h[i - 1] = IF i - 1 < x THEN g[i - 1] ELSE g[i - 1 + w]
  <2>1. i > 0 => i - 1 \in 0 .. n - w - 1
    OBVIOUS
  <2> QED BY <2>1
<1>4. CASE i < x
  <2>1. i \in 0 .. n - 1 /\ h[i] = g[i]
    BY <1>0, <1>1, <1>4
  <2>2. /\ g[i] \in Wide => i + 1 < n /\ g[i + 1] = Nul
        /\ g[i] = Nul => i > 0 /\ g[i - 1] \in Wide
    BY <2>1 DEF Whole
  <2>3. g[i] \in Wide => i + 1 < x
    BY <1>0, <1>4, <2>2
  <2>4. g[i] \in Wide => i + 1 < n - w
    BY <1>0, <2>3
  <2>5. h[i] \in Wide => h[i + 1] = Nul
    BY <1>2, <2>1, <2>2, <2>3, <2>4
  <2>6. h[i] = Nul => i > 0 /\ h[i - 1] \in Wide
    BY <1>0, <1>3, <1>4, <2>1, <2>2
  <2> QED BY <2>1, <2>4, <2>5, <2>6
<1>5. CASE i >= x
  <2> DEFINE j == i + w
  <2>1. j \in 0 .. n - 1 /\ h[i] = g[j] /\ j >= x + w /\ j > 0
    BY <1>0, <1>1, <1>5
  <2>2. i + 1 + w = j + 1 /\ i - 1 + w = j - 1 /\ (i + 1 < n - w <=> j + 1 < n)
    BY <1>0
  <2>3. j + 1 < n => h[i + 1] = g[j + 1]
    BY <1>0, <1>2, <1>5, <2>2
  <2>4. i > x => h[i - 1] = g[j - 1]
    BY <1>0, <1>3, <2>2
  <2>5. i = x => j - 1 \in {x, x + 1} /\ (j - 1 = x <=> w = 1)
    BY <1>0
  <2> HIDE DEF j
  <2>6. /\ g[j] \in Wide => j + 1 < n /\ g[j + 1] = Nul
        /\ g[j] = Nul => j > 0 /\ g[j - 1] \in Wide
    BY <2>1 DEF Whole
  <2>7. g[x] \in Wide => x + 1 < n /\ g[x + 1] = Nul
    BY DEF Whole
  <2>8. i = x => g[j - 1] \notin Wide
    <3>1. CASE w = 1
      BY <2>5, <3>1
    <3>2. CASE w = 2
      BY <1>0, <2>5, <2>7, <3>2
    <3> QED BY <3>1, <3>2
  <2>9. h[i] \in Wide => i + 1 < n - w /\ h[i + 1] = Nul
    BY <2>1, <2>2, <2>3, <2>6
  <2>10. h[i] = Nul => i > x
    BY <1>0, <1>5, <2>1, <2>6, <2>8
  <2>11. h[i] = Nul => i > 0 /\ h[i - 1] \in Wide
    BY <1>0, <2>1, <2>4, <2>6, <2>10
  <2> QED BY <2>9, <2>11
<1> QED BY <1>0, <1>4, <1>5

\* Two rows behind each other.
LEMMA WholeJoined ==
  ASSUME NEW n \in Nat, NEW g, Whole(g, n), NEW j \in Nat, NEW d, Whole(d, j), NEW h,
         \A i \in 0 .. n + j - 1 : h[i] = IF i < n THEN g[i] ELSE d[i - n]
  PROVE  Whole(h, n + j)
<1> SUFFICES ASSUME NEW i \in 0 .. n + j - 1
             PROVE  /\ h[i] \in Wide => i + 1 < n + j /\ h[i + 1] = Nul
                    /\ h[i] = Nul => i > 0 /\ h[i - 1] \in Wide
  BY DEF Whole
<1>1. h[i] = IF i < n THEN g[i] ELSE d[i - n]
  OBVIOUS
<1>2. i + 1 < n + j => h[i + 1] = IF i + 1 < n THEN g[i + 1] ELSE d[i + 1 - n]
  <2>1. i + 1 < n + j => i + 1 \in 0 .. n + j - 1
    OBVIOUS
  <2> QED BY <2>1
<1>3. i > 0 => h[i - 1] = IF i - 1 < n THEN g[i - 1] ELSE d[i - 1 - n]
  <2>1. i > 0 => i - 1 \in 0 .. n + j - 1
    OBVIOUS
  <2> QED BY <2>1
<1>4. CASE i < n
  <2>1. i \in 0 .. n - 1 /\ h[i] = g[i]
    BY <1>1, <1>4
  <2>2. /\ g[i] \in Wide => i + 1 < n /\ g[i + 1] = Nul
        /\ g[i] = Nul => i > 0 /\ g[i - 1] \in Wide
    BY <2>1 DEF Whole
  <2>3. i + 1 < n => i + 1 < n + j
    OBVIOUS
  <2>4. h[i] \in Wide => i + 1 < n + j /\ h[i + 1] = Nul
    BY <1>2, <2>1, <2>2, <2>3
  <2>5. h[i] = Nul => i > 0 /\ h[i - 1] \in Wide
    BY <1>3, <1>4, <2>1, <2>2
  <2> QED BY <2>4, <2>5
<1>5. CASE i >= n
  <2> DEFINE k == i - n
  <2>1. k \in 0 .. j - 1 /\ h[i] = d[k]
    BY <1>1, <1>5
  <2>2. i + 1 - n = k + 1 /\ i - 1 - n = k - 1 /\ (i + 1 < n + j <=> k + 1 < j)
        /\ (k > 0 => i > 0 /\ ~ (i - 1 < n)) /\ ~ (i + 1 < n)
    BY <1>5
  <2> HIDE DEF k
  <2>3. /\ d[k] \in Wide => k + 1 < j /\ d[k + 1] = Nul
        /\ d[k] = Nul => k > 0 /\ d[k - 1] \in Wide
    BY <2>1 DEF Whole
  <2>4. h[i] \in Wide => i + 1 < n + j /\ h[i + 1] = Nul
    BY <1>2, <2>1, <2>2, <2>3
  <2>5. h[i] = Nul => i > 0 /\ h[i - 1] \in Wide
    BY <1>3, <2>1, <2>2, <2>3
  <2> QED BY <2>4, <2>5
<1> QED BY <1>4, <1>5

\* The two parts of a row that is cut between two glyphs.
LEMMA WholeCut ==
  ASSUME NEW n \in Nat, NEW g, Whole(g, n), NEW c \in 0 .. n, Between(g, n, c),
         NEW a, \A i \in 0 .. c - 1 : a[i] = g[i],
         NEW b, \A i \in 0 .. n - c - 1 : b[i] = g[i + c]
  PROVE  Whole(a, c) /\ Whole(b, n - c)
<1>1. ASSUME NEW i \in 0 .. c - 1
      PROVE  /\ a[i] \in Wide => i + 1 < c /\ a[i + 1] = Nul
             /\ a[i] = Nul => i > 0 /\ a[i - 1] \in Wide
  <2>1. i \in 0 .. n - 1 /\ a[i] = g[i]
    BY <1>1
  <2>2. /\ g[i] \in Wide => i + 1 < n /\ g[i + 1] = Nul
        /\ g[i] = Nul => i > 0 /\ g[i - 1] \in Wide
    BY <2>1 DEF Whole
  <2>3. g[i] \in Wide => i + 1 # c
    BY <2>2 DEF Between
  <2>4. g[i] \in Wide => i + 1 < c /\ i + 1 \in 0 .. c - 1
    BY <2>3
  <2>5. i > 0 => i - 1 \in 0 .. c - 1
    OBVIOUS
  <2> QED BY <2>1, <2>2, <2>4, <2>5
<1>2. ASSUME NEW i \in 0 .. n - c - 1
      PROVE  /\ b[i] \in Wide => i + 1 < n - c /\ b[i + 1] = Nul
             /\ b[i] = Nul => i > 0 /\ b[i - 1] \in Wide
  <2> DEFINE k == i + c
  <2>1. k \in 0 .. n - 1 /\ b[i] = g[k]
    BY <1>2
  <2>2. i + 1 + c = k + 1 /\ i - 1 + c = k - 1 /\ (i + 1 < n - c <=> k + 1 < n)
        /\ (i = 0 <=> k = c)
    OBVIOUS
  <2>3. i + 1 < n - c => b[i + 1] = g[k + 1]
    <3>1. i + 1 < n - c => i + 1 \in 0 .. n - c - 1
      OBVIOUS
    <3> HIDE DEF k
    <3> QED BY <2>2, <3>1
  <2>4. i > 0 => b[i - 1] = g[k - 1]
    <3>1. i > 0 => i - 1 \in 0 .. n - c - 1
      OBVIOUS
    <3> HIDE DEF k
    <3> QED BY <2>2, <3>1
  <2> HIDE DEF k
  <2>5. /\ g[k] \in Wide => k + 1 < n /\ g[k + 1] = Nul
        /\ g[k] = Nul => k > 0 /\ g[k - 1] \in Wide
    BY <2>1 DEF Whole
  <2>6. k = c => g[k] # Nul
    BY <2>1 DEF Between
  <2>7. g[k] = Nul => i > 0
    BY <2>2, <2>6
  <2> QED BY <2>1, <2>2, <2>3, <2>4, <2>5, <2>7
<1>3. Whole(a, c)
  BY <1>1 DEF Whole
<1>4. Whole(b, n - c)
  BY <1>2 DEF Whole
<1> QED BY <1>3, <1>4

\* A row is where no other row is, and inside the buffer.
LEMMA Apart ==
  ASSUME NEW s, IsBuf(s), NEW l \in Rows(s), NEW r \in Rows(s), r # l, NEW i \in 0 .. s.len[r] - 1
  PROVE  /\ s.off[r] + i \in 0 .. s.total - 1
         /\ s.off[r] + i < s.off[l] \/ s.off[r] + i >= s.off[l] + s.cap[l]
         /\ r < l => s.off[r] + i < s.off[l]
         /\ r > l => s.off[r] + i >= s.off[l] + s.cap[l]
<1>1. IsRows(s.rows, s.off, s.cap, s.len, s.total) /\ s.rows \in Nat \ {0} /\ s.total \in Nat
  BY BufParts, RowParts
<1>2. l \in 0 .. s.rows - 1 /\ r \in 0 .. s.rows - 1
  BY DEF Rows
<1>3. /\ s.off[r] \in Nat /\ s.cap[r] \in Nat /\ s.len[r] \in Nat /\ s.len[r] <= s.cap[r]
      /\ s.off[r] + s.cap[r] <= s.total
  BY RowOf
<1>4. s.off[l] \in Nat /\ s.cap[l] \in Nat
  BY RowOf
<1>5. CASE r < l
  <2>1. s.off[r] + s.cap[r] <= s.off[l]
    BY <1>1, <1>2, <1>5, Behind
  <2> QED BY <1>1, <1>2, <1>3, <1>4, <1>5, <2>1
<1>6. CASE l < r
  <2>1. s.off[l] + s.cap[l] <= s.off[r]
    BY <1>1, <1>2, <1>6, Behind
  <2> QED BY <1>1, <1>2, <1>3, <1>4, <1>6, <2>1
<1>7. r < l \/ l < r
  BY <1>2
<1> QED BY <1>5, <1>6, <1>7

LEMMA RowAtIs ==
  ASSUME NEW s, NEW r, NEW i \in 0 .. s.len[r] - 1
  PROVE  RowAt(s, r)[i] = Cell(s, r, i)
BY DEF RowAt

\* A row that holds what a whole row held.
LEMMA RowKept ==
  ASSUME NEW s, NEW r, s.len[r] \in Nat, Whole(RowAt(s, r), s.len[r]), NEW t, NEW q,
         t.len[q] = s.len[r], \A i \in 0 .. s.len[r] - 1 : Cell(t, q, i) = Cell(s, r, i)
  PROVE  Whole(RowAt(t, q), t.len[q])
<1> DEFINE n == s.len[r]
           g == RowAt(s, r)
           h == RowAt(t, q)
<1>1. \A i \in 0 .. n - 1 : h[i] = g[i]
  BY DEF RowAt
<1>2. n \in Nat /\ Whole(g, n) /\ t.len[q] = n
  OBVIOUS
<1> HIDE DEF n, g, h
<1>3. Whole(h, n)
  BY <1>1, <1>2, WholeSame
<1> QED BY <1>2, <1>3 DEF h

LEMMA SameTextWhole ==
  ASSUME NEW s, IsBuf(s), WholeRows(s), NEW t, t.rows = s.rows, SameText(s, t)
  PROVE  WholeRows(t)
<1> SUFFICES ASSUME NEW r \in Rows(t) PROVE Whole(RowAt(t, r), t.len[r])
  BY DEF WholeRows
<1>1. r \in Rows(s)
  BY DEF Rows
<1>2. s.len[r] \in Nat /\ Whole(RowAt(s, r), s.len[r])
  BY <1>1, RowOf DEF WholeRows
<1>3. t.len[r] = s.len[r] /\ \A i \in 0 .. s.len[r] - 1 : Cell(t, r, i) = Cell(s, r, i)
  BY <1>1 DEF SameText
<1> QED BY <1>2, <1>3, RowKept

LEMMA SameRowsWhole ==
  ASSUME NEW s, IsBuf(s), WholeRows(s), NEW t, SameRows(s, t)
  PROVE  WholeRows(t)
<1>1. t.rows = s.rows /\ SameText(s, t)
  BY DEF SameRows, SameText, Cell
<1> QED BY <1>1, SameTextWhole

LEMMA EmptyWhole ==
  ASSUME NEW g
  PROVE  Whole(g, 0)
BY DEF Whole

LEMMA RowCapacityWhole ==
  ASSUME NEW s, IsBuf(s), WholeRows(s), NEW need \in Nat
  PROVE  WholeRows(editor_ensure_row_capacity(s, need))
<1> DEFINE t == editor_ensure_row_capacity(s, need)
           g == Doubled(s.rows, need)
<1>1. Grows(s, t)
  BY RowCapacityIs
<1>2. t = s \/ (t.rows = g /\ t.len = Extended(s.len, s.rows, g, 0))
  <2>1. t = s \/ t = [s EXCEPT !.off = Extended(s.off, s.rows, g, s.total),
                               !.cap = Extended(s.cap, s.rows, g, 0),
                               !.len = Extended(s.len, s.rows, g, 0), !.rows = g]
    BY DEF editor_ensure_row_capacity
  <2>2. s \in Buffer
    BY DEF IsBuf
  <2> HIDE DEF g, t
  <2> QED BY <2>1, <2>2 DEF Buffer
<1> HIDE DEF t, g
<1>3. ASSUME NEW r \in Rows(t) PROVE Whole(RowAt(t, r), t.len[r])
  <2>1. CASE r \in Rows(s)
    <3>1. s.len[r] \in Nat /\ Whole(RowAt(s, r), s.len[r])
      BY <2>1, RowOf DEF WholeRows
    <3>2. t.len[r] = s.len[r] /\ \A i \in 0 .. s.len[r] - 1 : Cell(t, r, i) = Cell(s, r, i)
      BY <1>1, <2>1 DEF Grows, SameText
    <3> QED BY <3>1, <3>2, RowKept
  <2>2. CASE r \notin Rows(s)
    <3>1. t.rows = g /\ t.len = Extended(s.len, s.rows, g, 0)
      BY <1>2, <2>2
    <3>2. r \in 0 .. g - 1 /\ ~ (r < s.rows)
      <4>1. s.rows \in Nat
        BY BufParts
      <4> QED BY <2>2, <3>1, <4>1 DEF Rows
    <3>3. t.len[r] = 0
      BY <3>1, <3>2 DEF Extended
    <3> QED BY <3>3, EmptyWhole
  <2> QED BY <2>1, <2>2
<1> QED BY <1>3 DEF WholeRows, t

\* The cursor is not inside a glyph of its row.
CursorOn(s) == s.y < editor_line_limit(s) => Between(RowAt(s, s.y), s.len[s.y], s.x)

LEMMA FirstBetween ==
  ASSUME NEW n \in Nat, NEW g, Whole(g, n)
  PROVE  Between(g, n, 0)
<1>1. CASE n = 0
  BY <1>1 DEF Between
<1>2. CASE n # 0
  <2>1. 0 \in 0 .. n - 1
    BY <1>2
  <2>2. g[0] # Nul
    BY <2>1 DEF Whole
  <2> QED BY <1>2, <2>2 DEF Between
<1> QED BY <1>1, <1>2

LEMMA BoundaryOn ==
  ASSUME NEW s, IsBuf(s), WholeRows(s), NEW l \in Nat, l < editor_line_limit(s), NEW c \in Int
  PROVE  Between(RowAt(s, l), s.len[l], editor_cursor_col_boundary(s, l, c))
<1> DEFINE a == editor_clamp_col(s, l, c)
           x == editor_cursor_col_boundary(s, l, c)
           n == s.len[l]
           g == RowAt(s, l)
<1>1. l \in Rows(s) /\ editor_line_len(s, l) = n
  BY LenOf
<1>2. /\ s.off[l] \in Nat /\ n \in Nat /\ s.cap[l] \in Nat /\ n <= s.cap[l]
      /\ s.off[l] + s.cap[l] <= s.total /\ s.total \in Nat /\ s.view \in Nat
  BY <1>1, RowOf, BufParts
<1>3. Whole(g, n)
  BY <1>1 DEF WholeRows
<1>4. a \in Nat /\ a <= n
  <2>1. a \in 0 .. Least(n, s.view)
    BY <1>1, ClampColIs
  <2> HIDE DEF a, n
  <2> QED BY <1>2, <2>1 DEF Least
<1>5. x = IF HasCells(s, l) /\ a < n THEN Start(s, l, a) ELSE a
  BY <1>1 DEF editor_cursor_col_boundary
<1>6. ~ HasCells(s, l) => n = 0
  <2>1. ~ HasCells(s, l) => ~ (s.off[l] < s.total)
    BY <1>1 DEF HasCells
  <2> QED BY <1>2, <2>1
<1>7. \A i \in 0 .. n - 1 : g[i] = Cell(s, l, i)
  BY DEF RowAt
<1> HIDE DEF a, x, n, g
<1>8. CASE HasCells(s, l) /\ a < n
  <2>1. x = Start(s, l, a)
    BY <1>5, <1>8
  <2>2. Start(s, l, a) \in 0 .. a
    BY <1>4, StartIs
  <2>3. Start(s, l, a) = 0 \/ Cell(s, l, Start(s, l, a)) # Nul
    BY <1>4, StartIs
  <2>4. x \in 0 .. n - 1 /\ (x = 0 \/ Cell(s, l, x) # Nul)
    BY <1>2, <1>4, <1>8, <2>1, <2>2, <2>3
  <2>5. CASE x = 0
    BY <1>2, <1>3, <2>5, FirstBetween DEF x, g, n
  <2>6. CASE x # 0
    <3>1. g[x] # Nul /\ x < n
      BY <1>2, <1>7, <2>4, <2>6
    <3>2. Between(g, n, x)
      BY <3>1 DEF Between
    <3> QED BY <3>2 DEF x, g, n
  <2> QED BY <2>5, <2>6
<1>9. CASE ~ (HasCells(s, l) /\ a < n)
  <2>1. x = n
    BY <1>2, <1>4, <1>5, <1>6, <1>9
  <2>2. Between(g, n, x)
    BY <2>1 DEF Between
  <2> QED BY <2>2 DEF x, g, n
<1> QED BY <1>8, <1>9

LEMMA SyncOn ==
  ASSUME NEW s, IsBuf(s), WholeRows(s)
  PROVE  WholeRows(Sync(s)) /\ CursorOn(Sync(s))
<1> DEFINE t == Sync(s)
<1>1. /\ SameRows(s, t) /\ SameTally(s, t) /\ t.y = s.y
      /\ t.x = editor_cursor_col_boundary(s, s.y, s.x)
  BY SyncIs
<1>2. s.y \in Nat /\ s.x \in Int
  BY BufParts
<1> HIDE DEF t
<1>3. WholeRows(t)
  BY <1>1, SameRowsWhole
<1>4. editor_line_limit(t) = editor_line_limit(s)
  BY <1>1 DEF editor_line_limit, SameRows, SameTally
<1>5. ASSUME s.y < editor_line_limit(s) PROVE Between(RowAt(t, t.y), t.len[t.y], t.x)
  <2>1. Between(RowAt(s, s.y), s.len[s.y], editor_cursor_col_boundary(s, s.y, s.x))
    BY <1>2, <1>5, BoundaryOn
  <2>2. RowAt(t, t.y) = RowAt(s, s.y) /\ t.len[t.y] = s.len[s.y]
    BY <1>1 DEF RowAt, Cell, SameRows
  <2> QED BY <1>1, <2>1, <2>2
<1> QED BY <1>1, <1>3, <1>4, <1>5 DEF CursorOn, t

\* Typing: the glyph is in its row, and no other row has changed.
LEMMA InsertedWhole ==
  ASSUME NEW s, IsBuf(s), WholeRows(s), NEW l \in Rows(s), l < editor_line_limit(s), NEW x \in Nat,
         x <= s.len[l], NEW ch \in Glyph, s.len[l] + Width(ch) <= s.cap[l],
         Between(RowAt(s, l), s.len[l], x)
  PROVE  WholeRows(Inserted(s, l, x, ch))
<1> DEFINE t   == Inserted(s, l, x, ch)
           w   == Width(ch)
           n   == s.len[l]
           c   == s.cells
           z   == s.total
           at  == s.off[l] + x
           end == s.off[l] + n
           d   == CellsWith(c, at, end, ch, w)
           g   == RowAt(s, l)
           h   == RowAt(t, l)
<1>1. t.len = Given(s.len, l, n + w) /\ t.off = s.off /\ t.cells = d /\ t.rows = s.rows
  BY InsertedIs
<1>2. w \in {1, 2} /\ (w = 2 <=> ch \in Wide)
  BY WidthIs
<1>3. /\ s.off[l] \in Nat /\ n \in Nat /\ s.cap[l] \in Nat /\ n + w <= s.cap[l] /\ x <= n
      /\ s.off[l] + s.cap[l] <= z /\ z \in Nat
  BY RowOf, BufParts
<1>4. /\ c \in [0 .. z - 1 -> Content] /\ DOMAIN c = 0 .. z - 1
      /\ s.len \in [0 .. s.rows - 1 -> Nat]
  BY BufParts, RowParts
<1>5. Whole(g, n) /\ Between(g, n, x)
  BY DEF WholeRows
<1>6. \A i \in 0 .. n - 1 : g[i] = c[s.off[l] + i]
  BY DEF RowAt, Cell
<1>7. \A i \in 0 .. t.len[l] - 1 : h[i] = d[s.off[l] + i]
  BY <1>1 DEF RowAt, Cell
<1>8. \A r \in Rows(s) : t.len[r] = IF r = l THEN n + w ELSE s.len[r]
  BY <1>1, <1>4 DEF Given, Rows
<1> DEFINE o == s.off[l]
<1>9. at = o + x /\ end = o + n /\ o \in Nat
  BY <1>3
<1>10. \A i \in 0 .. z - 1 : d[i] = IF i = at THEN ch
                                   ELSE IF i \in at + 1 .. at + w - 1 THEN Nul
                                   ELSE IF i \in at + w .. end + w - 1 THEN c[i - w] ELSE c[i]
  BY <1>4 DEF CellsWith
<1> HIDE DEF t, w, n, c, z, at, end, d, g, h, o
<1>11. Whole(h, n + w)
  <2>1. ASSUME NEW i \in 0 .. n + w - 1
        PROVE  h[i] = IF i < x THEN g[i] ELSE IF i = x THEN ch
                      ELSE IF i < x + w THEN Nul ELSE g[i - w]
    <3> DEFINE j == o + i
    <3>1. j \in 0 .. z - 1 /\ w \in Nat /\ i \in Nat
      BY <1>2, <1>3, <1>9 DEF o
    <3>2. h[i] = d[j]
      <4>1. t.len[l] = n + w
        BY <1>8
      <4>2. i \in 0 .. t.len[l] - 1
        BY <1>2, <1>3, <4>1
      <4>3. h[i] = d[s.off[l] + i]
        BY <1>7, <4>2
      <4> QED BY <4>3 DEF o
    <3>3. d[j] = IF j = at THEN ch ELSE IF j \in at + 1 .. at + w - 1 THEN Nul
                 ELSE IF j \in at + w .. end + w - 1 THEN c[j - w] ELSE c[j]
      BY <1>10, <3>1
    <3>4. CASE i < x
      <4>1. ~ (j = at) /\ ~ (j \in at + 1 .. at + w - 1) /\ ~ (j \in at + w .. end + w - 1)
        BY <1>2, <1>3, <1>9, <3>1, <3>4
      <4>2. i \in 0 .. n - 1
        BY <1>3, <3>1, <3>4
      <4>3. g[i] = c[j]
        BY <1>6, <4>2 DEF o
      <4> QED BY <3>2, <3>3, <3>4, <4>1, <4>3
    <3>5. CASE i = x
      BY <1>9, <3>2, <3>3, <3>5
    <3>6. CASE i > x /\ i < x + w
      <4>1. ~ (j = at) /\ j \in at + 1 .. at + w - 1
        BY <1>2, <1>3, <1>9, <3>1, <3>6
      <4> QED BY <3>1, <3>2, <3>3, <3>6, <4>1
    <3>7. CASE i >= x + w
      <4>1. ~ (j = at) /\ ~ (j \in at + 1 .. at + w - 1) /\ j \in at + w .. end + w - 1
        BY <1>2, <1>3, <1>9, <3>1, <3>7
      <4>2. i - w \in 0 .. n - 1 /\ o + (i - w) = j - w
        BY <1>2, <1>3, <1>9, <3>1, <3>7
      <4>3. g[i - w] = c[j - w]
        BY <1>6, <4>2 DEF o
      <4>4. ~ (i < x) /\ ~ (i = x) /\ ~ (i < x + w)
        BY <1>2, <3>1, <3>7
      <4> QED BY <3>2, <3>3, <4>1, <4>3, <4>4
    <3> QED BY <1>2, <3>1, <3>4, <3>5, <3>6, <3>7
  <2>2. x \in 0 .. n
    BY <1>3
  <2> QED BY <1>2, <1>3, <1>5, <2>1, <2>2, WholePut
<1>12. ASSUME NEW r \in Rows(t) PROVE Whole(RowAt(t, r), t.len[r])
  <2>1. r \in Rows(s)
    BY <1>1 DEF Rows
  <2>2. CASE r = l
    <3>1. t.len[l] = n + w
      BY <1>8
    <3> QED BY <1>11, <2>2, <3>1 DEF h
  <2>3. CASE r # l
    <3>1. t.len[r] = s.len[r] /\ s.len[r] \in Nat /\ Whole(RowAt(s, r), s.len[r])
      BY <1>8, <2>1, <2>3, RowOf DEF WholeRows
    <3>2. ASSUME NEW i \in 0 .. s.len[r] - 1 PROVE Cell(t, r, i) = Cell(s, r, i)
      <4> DEFINE j == s.off[r] + i
      <4>1. j \in 0 .. z - 1 /\ (j < s.off[l] \/ j >= s.off[l] + s.cap[l])
        BY <2>1, <2>3, Apart DEF z
      <4>2. Cell(t, r, i) = d[j] /\ Cell(s, r, i) = c[j]
        BY <1>1 DEF Cell, c
      <4> HIDE DEF j
      <4>3. ~ (j = at) /\ ~ (j \in at + 1 .. at + w - 1) /\ ~ (j \in at + w .. end + w - 1)
        BY <1>2, <1>3, <1>9, <4>1 DEF o
      <4> QED BY <1>10, <4>1, <4>2, <4>3
    <3> QED BY <3>1, <3>2, RowKept
  <2> QED BY <2>2, <2>3
<1> QED BY <1>12 DEF WholeRows, t

\* A key that types keeps the glyphs whole.
LEMMA CharInputWhole ==
  ASSUME NEW s, IsBuf(s), WholeRows(s), NEW ch \in Glyph
  PROVE  WholeRows(handle_char_input(s, ch))
<1> DEFINE t == handle_char_input(s, ch)
           r == Room(s, ch)
           i == Inserted(r, r.y, r.x, ch)
           x == editor_cursor_col_boundary(s, s.y, Clamp(s.x, 0, s.view - 1))
<1>1. CASE t = s
  BY <1>1
<1>2. ASSUME s.y < editor_line_limit(s)
      PROVE  /\ IsBuf(r) /\ r.view = s.view /\ r.y \in Rows(r) /\ r.y < editor_line_limit(r)
             /\ r.x <= r.len[r.y] /\ r.x \in Nat /\ WholeRows(r)
             /\ Between(RowAt(r, r.y), r.len[r.y], r.x)
  <2>1. /\ IsBuf(r) /\ r.view = s.view /\ r.rows = s.rows /\ r.y = s.y /\ r.y \in Rows(r)
        /\ r.y < editor_line_limit(r) /\ r.x = x /\ r.x <= r.len[r.y] /\ SameText(s, r)
    BY <1>2, RoomIs
  <2>2. Between(RowAt(s, s.y), s.len[s.y], x)
    <3>1. s.y \in Nat /\ Clamp(s.x, 0, s.view - 1) \in Int
      <4>1. s.y \in Nat /\ s.x \in Nat /\ s.view \in Nat
        BY BufParts
      <4> QED BY <4>1 DEF Clamp
    <3> QED BY <1>2, <3>1, BoundaryOn
  <2> HIDE DEF r, x
  <2>3. s.y \in Rows(s)
    BY <2>1 DEF Rows
  <2>4. RowAt(r, s.y) = RowAt(s, s.y) /\ r.len[s.y] = s.len[s.y]
    BY <2>1, <2>3 DEF RowAt, SameText
  <2>5. WholeRows(r)
    BY <2>1, SameTextWhole
  <2>6. r.x \in Nat
    BY <2>1, BufParts
  <2> QED BY <2>1, <2>2, <2>4, <2>5, <2>6
<1>3. CASE s.y < editor_line_limit(s) /\ t = r
  BY <1>2, <1>3
<1>4. CASE /\ s.y < editor_line_limit(s) /\ (t = i \/ t = Overflowed(i))
           /\ r.len[r.y] + Width(ch) <= r.cap[r.y]
  <2>1. /\ IsBuf(r) /\ r.y \in Rows(r) /\ r.y < editor_line_limit(r)
        /\ r.x <= r.len[r.y] /\ r.x \in Nat /\ WholeRows(r)
        /\ Between(RowAt(r, r.y), r.len[r.y], r.x)
    BY <1>2, <1>4
  <2> HIDE DEF r
  <2>2. IsBuf(i)
    BY <1>4, <2>1, InsertedIs
  <2>3. WholeRows(i)
    BY <1>4, <2>1, InsertedWhole
  <2> HIDE DEF i, t
  <2>4. SameRows(i, Overflowed(i))
    BY <2>2, OverflowedIs
  <2>5. WholeRows(Overflowed(i))
    BY <2>2, <2>3, <2>4, SameRowsWhole
  <2>6. WholeRows(t)
    BY <1>4, <2>3, <2>5
  <2> QED BY <2>6 DEF t
<1> QED BY <1>1, <1>3, <1>4, CharInputCases

\* Backspace inside a row takes out one whole glyph.
LEMMA DeleteOfIs ==
  ASSUME NEW s, IsBuf(s), WholeRows(s), s.y < editor_line_limit(s), HasCells(s, s.y), s.x > 0,
         DeleteAt(s) < s.len[s.y]
  PROVE  LET g == RowAt(s, s.y)
             at == DeleteAt(s)
         IN  /\ at \in 0 .. s.len[s.y] - 1 /\ g[at] \in Glyph /\ DeleteOf(s) = Width(g[at])
             /\ at + DeleteOf(s) <= s.len[s.y]
<1> DEFINE l  == s.y
           n  == s.len[l]
           g  == RowAt(s, l)
           at == DeleteAt(s)
           w  == DeleteOf(s)
           c  == s.x - 1
           z  == s.total
<1>1. /\ l \in Nat /\ s.x \in Nat /\ z \in Nat /\ s.cells \in [0 .. z - 1 -> Content]
  BY BufParts
<1>2. l \in Rows(s) /\ editor_line_len(s, l) = n
  BY <1>1, LenOf
<1>3. /\ s.off[l] \in Nat /\ n \in Nat /\ s.cap[l] \in Nat /\ n <= s.cap[l]
      /\ s.off[l] + s.cap[l] <= z
  BY <1>2, RowOf
<1>4. c \in Nat
  BY <1>1
<1>5. at = Start(s, l, c)
  BY DEF DeleteAt, editor_previous_char_col
<1>6. w = Least(IF Cell(s, l, at) \in Glyph THEN Width(Cell(s, l, at)) ELSE 1, n - at)
  BY <1>2 DEF DeleteOf
<1>7. Whole(g, n)
  BY <1>2 DEF WholeRows
<1>8. at < n
  OBVIOUS
<1> HIDE DEF at, w, c
<1>9. at \in 0 .. c /\ (at = 0 \/ Cell(s, l, at) # Nul)
  BY <1>4, <1>5, StartIs
<1>10. at \in 0 .. n - 1
  BY <1>3, <1>4, <1>8, <1>9
<1>11. g[at] = Cell(s, l, at)
  BY <1>10 DEF RowAt
<1>12. Cell(s, l, at) \in Content
  <2> DEFINE j == s.off[l] + at
             q == s.cells
  <2>1. j \in 0 .. z - 1
    <3> DEFINE o == s.off[l]
               k == s.cap[l]
    <3>1. /\ o \in Nat /\ n \in Nat /\ k \in Nat /\ n <= k /\ o + k <= z /\ z \in Nat
          /\ at \in 0 .. n - 1 /\ j = o + at
      BY <1>1, <1>3, <1>10
    <3> HIDE DEF o, k, n, z, j
    <3> QED BY <3>1
  <2>2. q \in [0 .. z - 1 -> Content]
    BY <1>1
  <2> HIDE DEF j, q, z
  <2>3. q[j] \in Content
    BY <2>1, <2>2
  <2> QED BY <2>3 DEF Cell, q, j
<1> HIDE DEF n, g, l
<1>13. g[at] # Nul
  <2>1. CASE at = 0
    BY <1>7, <1>10, <2>1 DEF Whole
  <2>2. CASE at # 0
    BY <1>9, <1>11, <2>2
  <2> QED BY <2>1, <2>2
<1>14. g[at] \in Glyph
  BY <1>11, <1>12, <1>13 DEF Content
<1>15. g[at] \in Wide => at + 1 < n
  BY <1>7, <1>10 DEF Whole
<1>16. w = Width(g[at]) /\ at + w <= n
  <2> DEFINE v == Width(g[at])
  <2>1. v \in {1, 2} /\ (v = 2 <=> g[at] \in Wide)
    BY WidthIs
  <2>2. w = Least(v, n - at)
    BY <1>6, <1>11, <1>14
  <2> HIDE DEF v
  <2>3. v <= n - at
    BY <1>3, <1>10, <1>15, <2>1
  <2>4. w = v
    BY <1>3, <1>10, <2>1, <2>2, <2>3 DEF Least
  <2> QED BY <1>3, <1>10, <2>1, <2>3, <2>4 DEF v
<1> QED BY <1>10, <1>14, <1>16 DEF n, g, l, at, w

LEMMA DeletedWhole ==
  ASSUME NEW s, IsBuf(s), WholeRows(s), s.y < editor_line_limit(s), HasCells(s, s.y), s.x > 0
  PROVE  WholeRows(Deleted(s))
<1> DEFINE t   == Deleted(s)
           l   == s.y
           at  == DeleteAt(s)
           w   == DeleteOf(s)
           n   == s.len[l]
           c   == s.cells
           z   == s.total
           o   == s.off[l]
           fst == o + at
           end == o + n
           d   == CellsWithout(c, fst, end, w)
           g   == RowAt(s, l)
           h   == RowAt(t, l)
<1>1. CASE t = s
  BY <1>1
<1>2. CASE t # s
  <2>1. /\ at < n /\ t.cells = d /\ t.len = Given(s.len, l, n - w) /\ t.off = s.off
        /\ t.rows = s.rows
    BY <1>2, DeletedIs
  <2>2. at \in 0 .. n - 1 /\ g[at] \in Glyph /\ w = Width(g[at]) /\ at + w <= n
    BY <2>1, DeleteOfIs
  <2>3. w \in {1, 2} /\ (w = 2 <=> g[at] \in Wide)
    <3> HIDE DEF w, at, g
    <3> QED BY <2>2, WidthIs
  <2>4. l \in Rows(s)
    <3>1. l \in Nat
      BY BufParts
    <3> QED BY <3>1, LenOf
  <2>5. /\ o \in Nat /\ n \in Nat /\ s.cap[l] \in Nat /\ n <= s.cap[l]
        /\ o + s.cap[l] <= z /\ z \in Nat
    BY <2>4, RowOf, BufParts
  <2>6. c \in [0 .. z - 1 -> Content] /\ DOMAIN c = 0 .. z - 1 /\ s.len \in [0 .. s.rows - 1 -> Nat]
    BY BufParts, RowParts
  <2>7. Whole(g, n)
    BY <2>4 DEF WholeRows
  <2>8. \A i \in 0 .. n - 1 : g[i] = c[o + i]
    BY DEF RowAt, Cell
  <2>9. \A i \in 0 .. t.len[l] - 1 : h[i] = d[o + i]
    BY <2>1 DEF RowAt, Cell
  <2>10. \A r \in Rows(s) : t.len[r] = IF r = l THEN n - w ELSE s.len[r]
    BY <2>1, <2>6 DEF Given, Rows
  <2>11. \A i \in 0 .. z - 1 : d[i] = IF i \in fst .. end - w - 1 THEN c[i + w]
                                     ELSE IF i \in end - w .. end - 1 THEN Nul ELSE c[i]
    BY <2>6 DEF CellsWithout
  <2>12. fst = o + at /\ end = o + n
    OBVIOUS
  <2> HIDE DEF t, l, at, w, n, c, z, o, fst, end, d, g, h
  <2>13. Whole(h, n - w)
    <3>1. ASSUME NEW i \in 0 .. n - w - 1
          PROVE  h[i] = IF i < at THEN g[i] ELSE g[i + w]
      <4> DEFINE j == o + i
      <4>1. j \in 0 .. z - 1 /\ i \in Nat /\ i + w \in 0 .. n - 1 /\ i \in 0 .. n - 1
        BY <2>2, <2>3, <2>5
      <4>2. t.len[l] = n - w
        BY <2>4, <2>10
      <4>3. h[i] = d[j]
        <5>1. i \in 0 .. t.len[l] - 1
          BY <2>3, <2>5, <4>2
        <5> QED BY <2>9, <5>1
      <4>4. d[j] = IF j \in fst .. end - w - 1 THEN c[j + w]
                   ELSE IF j \in end - w .. end - 1 THEN Nul ELSE c[j]
        BY <2>11, <4>1
      <4>5. g[i] = c[j] /\ g[i + w] = c[o + (i + w)] /\ o + (i + w) = j + w
        BY <2>3, <2>5, <2>8, <4>1
      <4>6. CASE i < at
        <5>1. ~ (j \in fst .. end - w - 1) /\ ~ (j \in end - w .. end - 1)
          BY <2>2, <2>3, <2>5, <2>12, <4>1, <4>6
        <5> QED BY <4>3, <4>4, <4>5, <4>6, <5>1
      <4>7. CASE i >= at
        <5>1. j \in fst .. end - w - 1 /\ ~ (i < at)
          BY <2>2, <2>3, <2>5, <2>12, <4>1, <4>7
        <5> QED BY <4>3, <4>4, <4>5, <5>1
      <4> QED BY <2>2, <4>1, <4>6, <4>7
    <3> QED BY <2>2, <2>3, <2>5, <2>7, <3>1, WholeTaken
  <2>14. ASSUME NEW r \in Rows(t) PROVE Whole(RowAt(t, r), t.len[r])
    <3>1. r \in Rows(s)
      BY <2>1 DEF Rows
    <3>2. CASE r = l
      <4>1. t.len[l] = n - w
        BY <2>4, <2>10
      <4> QED BY <2>13, <3>2, <4>1 DEF h
    <3>3. CASE r # l
      <4>1. t.len[r] = s.len[r] /\ s.len[r] \in Nat /\ Whole(RowAt(s, r), s.len[r])
        BY <2>10, <3>1, <3>3, RowOf DEF WholeRows
      <4>2. ASSUME NEW i \in 0 .. s.len[r] - 1 PROVE Cell(t, r, i) = Cell(s, r, i)
        <5> DEFINE j == s.off[r] + i
        <5>1. j \in 0 .. z - 1 /\ (j < o \/ j >= o + s.cap[l])
          BY <2>4, <3>1, <3>3, Apart DEF z, o
        <5>2. Cell(t, r, i) = d[j] /\ Cell(s, r, i) = c[j]
          BY <2>1 DEF Cell, c
        <5> HIDE DEF j
        <5>3. ~ (j \in fst .. end - w - 1) /\ ~ (j \in end - w .. end - 1)
          BY <2>2, <2>3, <2>5, <2>12, <5>1
        <5> QED BY <2>11, <5>1, <5>2, <5>3
      <4> QED BY <4>1, <4>2, RowKept
    <3> QED BY <3>2, <3>3
  <2> QED BY <2>14 DEF WholeRows, t
<1> QED BY <1>1, <1>2

\* Backspace at the start of a row: the two rows are one, the rows below have moved.
LEMMA RemovedWhole ==
  ASSUME NEW s, IsBuf(s), WholeRows(s), NEW p \in Nat, p + 1 \in Rows(s)
  PROVE  WholeRows(remove_line_join_str_data(s, p + 1))
<1> DEFINE l   == p + 1
           t   == remove_line_join_str_data(s, l)
           c   == s.cells
           z   == s.total
           m   == s.rows
           fr  == s.off[l]
           j   == s.len[l]
           n   == s.len[p]
           o   == s.off[p]
           to  == o + n
           end == s.off[l] + s.cap[l]
           d   == CellsMoved(c, fr, j, to, end)
           g   == RowAt(s, p)
           e   == RowAt(s, l)
           h   == RowAt(t, p)
           v   == n + j
<1>1. /\ t.rows = m /\ t.cells = d /\ t.off = Up(s.off, m, p, o, z) /\ t.len = Up(s.len, m, p, v, 0)
  BY RemovedIs
<1>2. l \in Rows(s) /\ p \in Rows(s) /\ p < l /\ m \in Nat \ {0} /\ z \in Nat
  BY BufParts DEF Rows
<1>3. /\ o \in Nat /\ n \in Nat /\ s.cap[p] \in Nat /\ n <= s.cap[p] /\ o + s.cap[p] <= fr
      /\ fr \in Nat /\ j \in Nat /\ s.cap[l] \in Nat /\ j <= s.cap[l] /\ fr + s.cap[l] <= z
  BY <1>2, RowOf
<1>4. c \in [0 .. z - 1 -> Content] /\ DOMAIN c = 0 .. z - 1
  BY BufParts
<1>5. Whole(g, n) /\ Whole(e, j)
  BY <1>2 DEF WholeRows
<1>6. /\ \A i \in 0 .. n - 1 : g[i] = c[o + i]
      /\ \A i \in 0 .. j - 1 : e[i] = c[fr + i]
  BY DEF RowAt, Cell
<1>7. \A i \in 0 .. z - 1 : d[i] = IF i \in to .. to + j - 1 THEN c[fr + i - to]
                                   ELSE IF i \in to + j .. end - 1 THEN Nul ELSE c[i]
  BY <1>4 DEF CellsMoved
<1>8. ASSUME NEW r \in Rows(s)
      PROVE  /\ t.off[r] = IF r < p THEN s.off[r] ELSE IF r = p THEN o
                           ELSE IF r = m - 1 THEN z ELSE s.off[r + 1]
             /\ t.len[r] = IF r < p THEN s.len[r] ELSE IF r = p THEN v
                           ELSE IF r = m - 1 THEN 0 ELSE s.len[r + 1]
  BY <1>1 DEF Up, Rows
<1>9. to = o + n /\ end = fr + s.cap[l] /\ v = n + j /\ l = p + 1
  OBVIOUS
<1>10. ASSUME NEW i \in 0 .. v - 1 PROVE t.len[p] = v => h[i] = d[o + i]
  <2>1. t.off[p] = o
    BY <1>2, <1>8
  <2> HIDE DEF t, v, d, o
  <2> QED BY <1>1, <2>1 DEF RowAt, Cell
<1> HIDE DEF t, l, c, z, m, fr, j, n, o, to, end, d, g, e, h, v
<1>11. t.len[p] = v
  BY <1>2, <1>8
<1>12. Whole(h, v)
  <2>1. ASSUME NEW i \in 0 .. n + j - 1
        PROVE  h[i] = IF i < n THEN g[i] ELSE e[i - n]
    <3> DEFINE k == o + i
    <3>1. k \in 0 .. z - 1 /\ i \in Nat
      BY <1>2, <1>3
    <3>2. h[i] = d[k]
      <4>1. i \in 0 .. v - 1
        BY <1>3, <1>9
      <4> QED BY <1>10, <1>11, <4>1
    <3>3. d[k] = IF k \in to .. to + j - 1 THEN c[fr + k - to]
                 ELSE IF k \in to + j .. end - 1 THEN Nul ELSE c[k]
      BY <1>7, <3>1
    <3>4. CASE i < n
      <4>1. ~ (k \in to .. to + j - 1) /\ ~ (k \in to + j .. end - 1) /\ i \in 0 .. n - 1
        BY <1>3, <1>9, <3>1, <3>4
      <4> QED BY <1>6, <3>2, <3>3, <3>4, <4>1
    <3>5. CASE i >= n
      <4>1. k \in to .. to + j - 1 /\ i - n \in 0 .. j - 1 /\ fr + k - to = fr + (i - n) /\ ~ (i < n)
        BY <1>3, <1>9, <3>1, <3>5
      <4> HIDE DEF k
      <4>2. e[i - n] = c[fr + (i - n)]
        BY <1>6, <4>1
      <4>3. d[k] = c[fr + k - to]
        BY <3>3, <4>1
      <4> QED BY <3>2, <4>1, <4>2, <4>3
    <3> QED BY <1>3, <3>1, <3>4, <3>5
  <2>2. Whole(h, n + j)
    BY <1>3, <1>5, <2>1, WholeJoined
  <2> QED BY <1>9, <2>2
<1>13. ASSUME NEW r \in Rows(t) PROVE Whole(RowAt(t, r), t.len[r])
  <2>1. r \in Rows(s) /\ r \in Nat /\ r <= m - 1
    BY <1>1, <1>2 DEF Rows, m
  <2>2. CASE r = p
    BY <1>11, <1>12, <2>2 DEF h
  <2>3. CASE r < p
    <3>1. t.len[r] = s.len[r] /\ t.off[r] = s.off[r]
      BY <1>8, <2>1, <2>3
    <3>2. s.len[r] \in Nat /\ Whole(RowAt(s, r), s.len[r])
      BY <2>1, RowOf DEF WholeRows
    <3>3. ASSUME NEW i \in 0 .. s.len[r] - 1 PROVE Cell(t, r, i) = Cell(s, r, i)
      <4> DEFINE k == s.off[r] + i
      <4>1. k \in 0 .. z - 1 /\ k < o
        BY <1>2, <2>1, <2>3, Apart DEF z, o
      <4>2. Cell(t, r, i) = d[k] /\ Cell(s, r, i) = c[k]
        BY <1>1, <3>1 DEF Cell, c
      <4> HIDE DEF k
      <4>3. ~ (k \in to .. to + j - 1) /\ ~ (k \in to + j .. end - 1)
        BY <1>3, <1>9, <4>1
      <4> QED BY <1>7, <4>1, <4>2, <4>3
    <3> QED BY <3>1, <3>2, <3>3, RowKept
  <2>4. CASE r > p /\ r = m - 1
    <3>1. t.len[r] = 0
      BY <1>8, <2>1, <2>4
    <3> QED BY <3>1, EmptyWhole
  <2>5. CASE r > p /\ r # m - 1
    <3> DEFINE q == r + 1
    <3>1. q \in Rows(s) /\ q > l
      BY <1>2, <1>9, <2>1, <2>5 DEF Rows, m
    <3>2. t.len[r] = s.len[q] /\ t.off[r] = s.off[q]
      BY <1>8, <2>1, <2>5
    <3> HIDE DEF q
    <3>3. s.len[q] \in Nat /\ Whole(RowAt(s, q), s.len[q])
      BY <3>1, RowOf DEF WholeRows
    <3>4. ASSUME NEW i \in 0 .. s.len[q] - 1 PROVE Cell(t, r, i) = Cell(s, q, i)
      <4> DEFINE k == s.off[q] + i
      <4>1. k \in 0 .. z - 1 /\ k >= end
        <5>1. q # l
          BY <1>2, <1>9, <3>1
        <5>2. /\ s.off[q] + i \in 0 .. s.total - 1
              /\ q > l => s.off[q] + i >= s.off[l] + s.cap[l]
          BY <1>2, <3>1, <5>1, Apart
        <5> QED BY <3>1, <5>2 DEF z, end
      <4>2. Cell(t, r, i) = d[k] /\ Cell(s, q, i) = c[k]
        BY <1>1, <3>2 DEF Cell, c
      <4> HIDE DEF k
      <4>3. ~ (k \in to .. to + j - 1) /\ ~ (k \in to + j .. end - 1)
        BY <1>3, <1>9, <4>1
      <4> QED BY <1>7, <4>1, <4>2, <4>3
    <3> QED BY <3>2, <3>3, <3>4, RowKept
  <2>6. p \in Nat
    OBVIOUS
  <2> QED BY <2>1, <2>2, <2>3, <2>4, <2>5, <2>6
<1> QED BY <1>13 DEF WholeRows, t, l

LEMMA BackspaceWhole ==
  ASSUME NEW s, IsBuf(s), WholeRows(s), NEW scrolls \in BOOLEAN
  PROVE  WholeRows(handle_backspace(s, scrolls))
<1> DEFINE b == Sync(s)
           t == handle_backspace(s, scrolls)
<1>1. IsBuf(b) /\ WholeRows(b)
  BY SyncIs, SyncOn
<1>2. CASE t = s \/ t = b
  BY <1>1, <1>2
<1>3. CASE b.y < editor_line_limit(b) /\ HasCells(b, b.y) /\ b.x > 0 /\ t = Deleted(b)
  <2> HIDE DEF b, t
  <2>1. WholeRows(t)
    BY <1>1, <1>3, DeletedWhole
  <2> QED BY <2>1 DEF t
<1>4. CASE b.y > 0 /\ t = Joined(b, scrolls)
  <2> DEFINE q == remove_line_join_str_data(b, b.y)
             u == Joined(b, scrolls)
             p == b.y - 1
  <2> HIDE DEF b, t
  <2>1. u = b \/ (HasCells(b, b.y) /\ IsBuf(q) /\ SameRows(q, u))
    BY <1>1, <1>4, JoinedIs
  <2>2. CASE u = b
    BY <1>1, <1>4, <2>2 DEF t
  <2>3. CASE HasCells(b, b.y) /\ IsBuf(q) /\ SameRows(q, u)
    <3>1. p \in Nat /\ p + 1 = b.y
      <4>1. b.y \in Nat
        BY <1>1, BufParts
      <4> QED BY <1>4, <4>1
    <3>2. p + 1 \in Rows(b)
      BY <2>3, <3>1 DEF HasCells
    <3> HIDE DEF p
    <3>3. WholeRows(remove_line_join_str_data(b, p + 1))
      BY <1>1, <3>1, <3>2, RemovedWhole
    <3>4. WholeRows(q)
      BY <3>1, <3>3
    <3> HIDE DEF q, u
    <3>5. WholeRows(u)
      BY <2>3, <3>4, SameRowsWhole
    <3> QED BY <1>4, <3>5 DEF t, u
  <2> QED BY <2>1, <2>2, <2>3
<1> QED BY <1>2, <1>3, <1>4, BackspaceCases

\* Enter cuts a row between two glyphs, and the rows below have moved.
LEMMA CutWhole ==
  ASSUME NEW s, IsBuf(s), WholeRows(s), CursorOn(s), CanSplit(s)
  PROVE  WholeRows(CutAt(s))
<1> DEFINE b    == RowsFor(s)
           l    == s.y
           k    == l + 1
           used == Used(s, l)
           col  == ColFor(s)
           t    == CutAt(s)
           n    == b.len[l]
           g    == RowAt(b, l)
           h    == RowAt(t, l)
           e    == RowAt(t, k)
           o    == b.off[l]
           m    == b.rows
           q    == n - col
           p    == o + col
<1>1. /\ Grows(s, b) /\ l \in Rows(s) /\ l \in Rows(b) /\ used \in Rows(b) /\ l < used
      /\ col \in 0 .. s.len[l] /\ col = Clamp(s.x, 0, s.len[l])
      /\ IsBuf(t) /\ t.rows = m /\ t.cells = b.cells
      /\ t.off = Down(b.off, m, l, used, o, p)
      /\ t.len = Down(b.len, m, l, used, col, q)
  BY CutAtIs
<1>2. WholeRows(b)
  <2> DEFINE need == used + 1
  <2>1. need \in Nat
    <3>1. l \in Nat
      BY BufParts
    <3>2. used \in Nat
      BY <3>1, UsedIs
    <3> QED BY <3>2
  <2> HIDE DEF need
  <2>2. WholeRows(editor_ensure_row_capacity(s, need))
    BY <2>1, RowCapacityWhole
  <2> QED BY <2>2 DEF need, RowsFor
<1>3. s.y < editor_line_limit(s) /\ s.x \in Nat
  BY BufParts DEF CanSplit
<1>4. Between(RowAt(s, l), s.len[l], s.x)
  BY <1>3 DEF CursorOn
<1>5. /\ l \in Nat /\ l < used /\ used \in Nat /\ used < m /\ m \in Nat
  <2>1. l \in Nat /\ m \in Nat
    BY <1>1, BufParts DEF Grows
  <2>2. used \in Nat /\ used < m
    BY <1>1, <2>1 DEF Rows
  <2> QED BY <1>1, <2>1, <2>2
<1>6. k = l + 1 /\ q = n - col /\ p = o + col
  OBVIOUS
<1>7. \A i \in 0 .. n - 1 : g[i] = b.cells[o + i]
  BY DEF RowAt, Cell
<1>8. /\ \A i \in 0 .. t.len[l] - 1 : h[i] = t.cells[t.off[l] + i]
      /\ \A i \in 0 .. t.len[k] - 1 : e[i] = t.cells[t.off[k] + i]
  BY DEF RowAt, Cell
<1>9. ASSUME NEW r \in 0 .. m - 1
      PROVE  /\ t.off[r] = IF r = l THEN o ELSE IF r = l + 1 THEN p
                           ELSE IF r \in l + 2 .. used THEN b.off[r - 1] ELSE b.off[r]
             /\ t.len[r] = IF r = l THEN col ELSE IF r = l + 1 THEN q
                           ELSE IF r \in l + 2 .. used THEN b.len[r - 1] ELSE b.len[r]
  <2> HIDE DEF b, l, used, col, t, o, m, q, p
  <2> QED BY <1>1 DEF Down
<1> HIDE DEF b, l, k, used, col, t, n, g, h, e, o, m, q, p
<1>10. n = s.len[l] /\ g = RowAt(s, l)
  <2>1. n = s.len[l] /\ \A i \in 0 .. s.len[l] - 1 : Cell(b, l, i) = Cell(s, l, i)
    BY <1>1 DEF Grows, SameText, n
  <2> QED BY <2>1 DEF RowAt, g, n
<1>11. n \in Nat /\ o \in Nat /\ Whole(g, n)
  BY <1>1, <1>2, RowOf DEF Grows, WholeRows, n, o, g
<1>12. col \in 0 .. n /\ Between(g, n, col)
  <2>1. Between(g, n, s.x)
    BY <1>4, <1>10
  <2>2. s.x <= n
    BY <1>3, <1>11, <2>1 DEF Between
  <2>3. col = s.x
    BY <1>1, <1>3, <1>10, <1>11, <2>2 DEF Clamp
  <2> QED BY <1>1, <1>10, <2>1, <2>3
<1>13. col \in Nat /\ q \in Nat /\ l \in 0 .. m - 1 /\ k \in 0 .. m - 1
  BY <1>5, <1>6, <1>11, <1>12
<1>14. t.off[l] = o /\ t.len[l] = col
  BY <1>9, <1>13
<1>15. t.off[k] = p /\ t.len[k] = q
  <2>1. k # l /\ k = l + 1
    BY <1>5, <1>6
  <2> QED BY <1>9, <1>13, <2>1
<1>16. \A i \in 0 .. col - 1 : h[i] = g[i]
  <2> SUFFICES ASSUME NEW i \in 0 .. col - 1 PROVE h[i] = g[i]
    OBVIOUS
  <2>1. i \in 0 .. n - 1
    BY <1>11, <1>12
  <2>2. h[i] = t.cells[o + i]
    BY <1>8, <1>14
  <2> QED BY <1>1, <1>7, <2>1, <2>2
<1>17. \A i \in 0 .. n - col - 1 : e[i] = g[i + col]
  <2> SUFFICES ASSUME NEW i \in 0 .. n - col - 1 PROVE e[i] = g[i + col]
    OBVIOUS
  <2>1. i + col \in 0 .. n - 1 /\ i \in 0 .. q - 1 /\ p + i = o + (i + col)
    BY <1>6, <1>11, <1>12
  <2>2. e[i] = t.cells[p + i]
    BY <1>8, <1>15, <2>1
  <2>3. g[i + col] = b.cells[o + (i + col)]
    BY <1>7, <2>1
  <2> QED BY <1>1, <2>1, <2>2, <2>3
<1>18. Whole(h, col) /\ Whole(e, q)
  <2>1. Whole(h, col) /\ Whole(e, n - col)
    BY <1>11, <1>12, <1>16, <1>17, WholeCut
  <2> QED BY <1>6, <2>1
<1>19. ASSUME NEW r \in Rows(t) PROVE Whole(RowAt(t, r), t.len[r])
  <2>1. r \in 0 .. m - 1 /\ r \in Nat /\ Rows(b) = 0 .. m - 1
    BY <1>1 DEF Rows, m
  <2>2. CASE r = l
    BY <1>14, <1>18, <2>2 DEF h
  <2>3. CASE r = k
    BY <1>15, <1>18, <2>3 DEF e
  <2>4. CASE r # l /\ r # k
    <3> DEFINE v == IF r \in l + 2 .. used THEN r - 1 ELSE r
    <3>1. v \in Rows(b)
      BY <1>5, <2>1
    <3>2. t.off[r] = b.off[v] /\ t.len[r] = b.len[v]
      BY <1>6, <1>9, <2>1, <2>4
    <3> HIDE DEF v
    <3>3. b.len[v] \in Nat /\ Whole(RowAt(b, v), b.len[v])
      BY <1>1, <1>2, <3>1, RowOf DEF Grows, WholeRows
    <3>4. \A i \in 0 .. b.len[v] - 1 : Cell(t, r, i) = Cell(b, v, i)
      BY <1>1, <3>2 DEF Cell
    <3> QED BY <3>2, <3>3, <3>4, RowKept
  <2> QED BY <2>2, <2>3, <2>4
<1> QED BY <1>19 DEF WholeRows, t

LEMMA NewlineWhole ==
  ASSUME NEW s, IsBuf(s), s.x <= s.view, WholeRows(s), CursorOn(s), NEW scrolls \in BOOLEAN
  PROVE  WholeRows(handle_newline(s, scrolls))
<1> DEFINE t == handle_newline(s, scrolls)
           u == SplitOf(s)
           c == CutAt(s)
<1>1. t = s \/ (CanSplit(s) /\ SameRows(u, t))
  BY NewlineIs
<1>2. ASSUME CanSplit(s), SameRows(u, t) PROVE WholeRows(t)
  <2>1. Grows(c, u) /\ u.rows = c.rows
    BY <1>2, SplitOfIs
  <2>2. IsBuf(c)
    BY <1>2, CutAtIs
  <2>3. WholeRows(c)
    BY <1>2, CutWhole
  <2> HIDE DEF t, u, c
  <2>4. WholeRows(u)
    BY <2>1, <2>2, <2>3, SameTextWhole DEF Grows
  <2>5. IsBuf(u)
    BY <2>1 DEF Grows
  <2> QED BY <1>2, <2>4, <2>5, SameRowsWhole
<1> QED BY <1>1, <1>2

\* The glyph of a file that is put into cell i, as LoadedCell finds it.
Here(f, o, i) ==
  {p \in (0 .. Least(Len(f), LoadLines) - 1) \X (1 .. ColMax) :
     /\ p[2] <= Len(f[p[1] + 1])
     /\ i = o[p[1]] + Columns(f[p[1] + 1], p[2] - 1)
     /\ Columns(f[p[1] + 1], p[2]) <= LoadedLen(f, p[1], o[p[1]])}

\* It is a glyph of the row whose cell i is.
LEMMA HereIs ==
  ASSUME NEW f \in Files, NEW o \in Offsets[f], NEW r \in 0 .. loaded_rows(f) - 1,
         NEW i \in 0 .. LoadedLen(f, r, o[r]) - 1, NEW p \in Here(f, o, o[r] + i)
  PROVE  /\ p = <<r, p[2]>> /\ p[2] \in Nat \ {0} /\ p[2] <= Len(f[r + 1])
         /\ Columns(f[r + 1], p[2] - 1) = i
<1> DEFINE m    == loaded_rows(f)
           t    == loaded_cells(f)
           s    == Starts(f, o)
           k    == Caps(f, o)
           n    == Lens(f, o)
           q    == p[1]
           j    == p[2]
           line == f[q + 1]
           c    == Columns(line, j - 1)
           d    == Columns(line, j)
<1>1. /\ IsRows(m, s, k, n, t) /\ t \in Nat /\ m \in 1 .. LoadLines
  BY LoadedRows
<1>2. LoadLines \in Nat \ {0} /\ ColMax \in Nat /\ Len(f) \in Nat
  BY FileIs, BufferAssumption
<1>3. /\ p = <<q, j>> /\ q \in 0 .. Least(Len(f), LoadLines) - 1 /\ j \in 1 .. ColMax
      /\ j <= Len(line) /\ o[r] + i = o[q] + c /\ d <= LoadedLen(f, q, o[q])
  BY DEF Here
<1>4. m = Least(Len(f) + 1, LoadLines)
  BY DEF loaded_rows
<1>5. \A x \in 0 .. m - 1 : s[x] = o[x] /\ n[x] = LoadedLen(f, x, o[x])
  BY DEF Starts, Lens
<1>6. i \in 0 .. n[r] - 1 /\ r \in 0 .. m - 1
  BY <1>5
<1>7. line = f[q + 1]
  OBVIOUS
<1> HIDE DEF m, t, s, k, n, q, j, line, c, d
<1>8. q \in 0 .. m - 1 /\ j \in Nat \ {0}
  BY <1>2, <1>3, <1>4 DEF Least
<1>9. c < d /\ c \in Nat /\ d \in Nat
  <2> DEFINE a == j - 1
  <2>1. a \in Nat /\ a < j /\ j \in Nat
    BY <1>8
  <2>2. c = Columns(line, a)
    BY DEF c
  <2> HIDE DEF a
  <2> QED BY <2>1, <2>2, ColumnsGrow, ColumnsIs DEF d
<1>10. /\ s \in [0 .. m - 1 -> Nat] /\ k \in [0 .. m - 1 -> Nat] /\ n \in [0 .. m - 1 -> Nat]
       /\ \A x \in 0 .. m - 1 : n[x] <= k[x]
  BY <1>1 DEF IsRows, Laid
<1>11. d <= n[q] /\ s[r] + i = s[q] + c
  BY <1>3, <1>5, <1>6, <1>8
<1>12. q = r
  <2>1. m \in Nat \ {0} /\ t \in Nat
    BY <1>1, <1>2
  <2>2. /\ s[q] \in Nat /\ s[r] \in Nat /\ k[q] \in Nat /\ k[r] \in Nat /\ n[q] \in Nat
        /\ n[r] \in Nat /\ n[q] <= k[q] /\ n[r] <= k[r] /\ i \in Nat /\ i < n[r]
    BY <1>6, <1>8, <1>10
  <2>3. CASE q < r
    <3>1. s[q] + k[q] <= s[r]
      BY <1>1, <1>6, <1>8, <2>1, <2>3, Behind
    <3> QED BY <1>9, <1>11, <2>2, <3>1
  <2>4. CASE r < q
    <3>1. s[r] + k[r] <= s[q]
      BY <1>1, <1>6, <1>8, <2>1, <2>4, Behind
    <3> QED BY <1>9, <1>11, <2>2, <3>1
  <2>5. q \in Int /\ r \in Int
    BY <1>6, <1>8
  <2> QED BY <2>3, <2>4, <2>5
<1>13. c = i
  <2>1. s[r] \in Nat /\ i \in Nat /\ c \in Nat
    BY <1>6, <1>9, <1>10
  <2>2. s[r] + i = s[r] + c
    BY <1>11, <1>12
  <2> QED BY <2>1, <2>2
<1>14. p = <<r, j>> /\ j <= Len(f[r + 1]) /\ Columns(f[r + 1], j - 1) = i
  BY <1>3, <1>7, <1>12, <1>13 DEF c
<1> QED BY <1>8, <1>14 DEF j

\* The glyphs of a line stand where the columns before them end, and the
\* second cell of a wide one is empty.
LEMMA LoadedGlyph ==
  ASSUME NEW f \in Files, NEW o \in Offsets[f], NEW r \in 0 .. loaded_rows(f) - 1, r < Len(f),
         NEW b \in 0 .. Len(f[r + 1]), LoadedLen(f, r, o[r]) = Columns(f[r + 1], b),
         NEW a \in 0 .. b - 1
  PROVE  LET line == f[r + 1]
             x    == Columns(line, a)
         IN  /\ line[a + 1] \in Glyph
             /\ LoadedCell(f, o, o[r] + x) = line[a + 1]
             /\ Width(line[a + 1]) = 2 => LoadedCell(f, o, o[r] + (x + 1)) = Nul
<1> DEFINE line == f[r + 1]
           x    == Columns(line, a)
           y    == x + 1
           j    == a + 1
           w    == Width(line[j])
           n    == LoadedLen(f, r, o[r])
           R    == loaded_rows(f)
<1>1. /\ f \in Seq(Seq(Glyph)) /\ Len(f) \in Nat /\ ColMax \in Nat /\ LoadLines \in Nat \ {0}
      /\ \A l \in DOMAIN f : Len(f[l]) <= ColMax
  <2>1. f \in Seq(Seq(Glyph))
    BY FileIs
  <2>2. Len(f) \in Nat
    BY <2>1
  <2>3. ColMax \in Nat /\ LoadLines \in Nat \ {0} /\ \A l \in DOMAIN f : Len(f[l]) <= ColMax
    <3> HIDE DEF line, x, y, j, w, n, R
    <3> QED BY BufferAssumption
  <2> QED BY <2>1, <2>2, <2>3
<1>2. R \in 1 .. LoadLines /\ R = Least(Len(f) + 1, LoadLines)
  BY LoadedRows DEF loaded_rows
<1>3. r \in Nat /\ r + 1 \in 1 .. Len(f) /\ r \in 0 .. Least(Len(f), LoadLines) - 1
  <2> DEFINE z == Len(f)
  <2>1. r \in 0 .. R - 1 /\ r < z /\ z \in Nat /\ LoadLines \in Nat
    BY <1>1
  <2>2. R \in Nat /\ R <= LoadLines
    BY <1>1, <1>2
  <2> HIDE DEF line, x, y, j, w, n, R, z
  <2>3. r \in Nat /\ r + 1 \in 1 .. z /\ r < LoadLines
    BY <2>1, <2>2
  <2>4. r \in 0 .. Least(z, LoadLines) - 1
    BY <2>1, <2>3 DEF Least
  <2> QED BY <2>3, <2>4 DEF z
<1>4. line \in Seq(Glyph) /\ Len(line) \in Nat /\ Len(line) <= ColMax
  BY <1>1, <1>3
<1>5. n = Columns(line, b) /\ b \in 0 .. Len(line)
  OBVIOUS
<1> HIDE DEF line, n, R
<1>6. /\ a \in Nat /\ j \in Nat /\ b \in Nat /\ j <= b /\ j \in 1 .. ColMax /\ j \in 1 .. Len(line)
      /\ a = j - 1 /\ j <= Len(line)
  BY <1>1, <1>4, <1>5
<1>7. line[j] \in Glyph
  BY <1>4, <1>6
<1>8. Columns(line, j) = x + w /\ w \in {1, 2} /\ x \in Nat
  BY <1>6, ColumnsOn, ColumnsIs, WidthIs
<1>9. Columns(line, j) <= n /\ n \in Nat
  BY <1>5, <1>6, ColumnsGrow, ColumnsIs
<1>10. line = f[r + 1] /\ n = LoadedLen(f, r, o[r])
  BY DEF line, n
<1> HIDE DEF j
<1>11. x = Columns(line, j - 1)
  BY <1>6
<1> HIDE DEF x, w
<1>12. x \in 0 .. n - 1 /\ (w = 2 => y \in 0 .. n - 1)
  BY <1>8, <1>9
<1> HIDE DEF y
<1>13. ASSUME NEW p \in Here(f, o, o[r] + x) PROVE p = <<r, j>>
  <2> DEFINE e == p[2] - 1
  <2>1. p = <<r, p[2]>> /\ p[2] \in Nat \ {0} /\ Columns(line, p[2] - 1) = x
    BY <1>10, <1>12, HereIs
  <2>2. e \in Nat /\ Columns(line, e) = x /\ p[2] = e + 1
    BY <2>1
  <2> HIDE DEF e
  <2>3. x = Columns(line, a)
    BY DEF x
  <2>4. ~ (e < a) /\ ~ (a < e)
    <3>1. Columns(line, e) \in Nat
      BY <2>2, ColumnsIs
    <3> QED BY <1>6, <2>2, <2>3, <3>1, ColumnsGrow
  <2>5. e = a
    BY <1>6, <2>2, <2>4
  <2>6. p[2] = j
    BY <1>6, <2>2, <2>5
  <2> QED BY <2>1, <2>6
<1>14. <<r, j>> \in Here(f, o, o[r] + x)
  BY <1>3, <1>6, <1>9, <1>10, <1>11 DEF Here
<1>15. LoadedCell(f, o, o[r] + x) = line[j]
  <2> DEFINE h  == Here(f, o, o[r] + x)
             at == CHOOSE p \in h : TRUE
  <2>1. LoadedCell(f, o, o[r] + x) = IF h = {} THEN Nul ELSE f[at[1] + 1][at[2]]
    BY DEF LoadedCell, Here
  <2>2. h # {}
    BY <1>14
  <2>3. at \in h
    <3> HIDE DEF h
    <3> QED BY <2>2, Zenon
  <2>4. at = <<r, j>>
    BY <1>13, <2>3
  <2> HIDE DEF at, h
  <2> QED BY <1>10, <2>1, <2>2, <2>4
<1>16. ASSUME w = 2 PROVE LoadedCell(f, o, o[r] + y) = Nul
  <2>1. ASSUME NEW p \in Here(f, o, o[r] + y) PROVE FALSE
    <3> DEFINE e == p[2] - 1
    <3>1. y \in 0 .. n - 1
      BY <1>12, <1>16
    <3>2. p[2] \in Nat \ {0} /\ Columns(line, p[2] - 1) = y
      BY <1>10, <3>1, HereIs
    <3>3. e \in Nat /\ Columns(line, e) = y
      BY <3>2
    <3> HIDE DEF e
    <3>4. Columns(line, a) = x /\ y = x + 1 /\ Columns(line, j) = x + 2
      BY <1>8, <1>16 DEF x, y
    <3>5. CASE e <= a
      <4>1. Columns(line, e) <= Columns(line, a)
        BY <1>6, <3>3, <3>5, ColumnsGrow
      <4> QED BY <1>8, <3>3, <3>4, <4>1
    <3>6. CASE j <= e
      <4>1. Columns(line, j) <= Columns(line, e)
        BY <1>6, <3>3, <3>6, ColumnsGrow
      <4> QED BY <1>8, <3>3, <3>4, <4>1
    <3>7. e <= a \/ j <= e
      BY <1>6, <3>3
    <3> QED BY <3>5, <3>6, <3>7
  <2>2. Here(f, o, o[r] + y) = {}
    BY <2>1
  <2> QED BY <2>2 DEF LoadedCell, Here
<1> QED BY <1>7, <1>15, <1>16 DEF line, x, y, j, w

LEMMA LoadedColumns ==
  ASSUME NEW f \in Files, NEW o \in Offsets[f], NEW r \in 0 .. loaded_rows(f) - 1, r < Len(f)
  PROVE  \E b \in 0 .. Len(f[r + 1]) : LoadedLen(f, r, o[r]) = Columns(f[r + 1], b)
<1> DEFINE room == loaded_cells(f) - o[r]
           line_room == IF room < Slack THEN room ELSE room - Slack
<1>1. f \in Seq(Seq(Glyph)) /\ loaded_cells(f) \in Nat /\ Slack \in Nat /\ r \in Nat
  BY LoadedRows, FileIs, BufferAssumption
<1>2. f[r + 1] \in Seq(Glyph)
  <2>1. r + 1 \in 1 .. Len(f)
    BY <1>1
  <2> QED BY <1>1, <2>1
<1>3. o[r] \in 0 .. loaded_cells(f)
  <2> DEFINE m == loaded_rows(f)
             z == loaded_cells(f)
  <2>1. m \in Nat
    BY LoadedRows, BufferAssumption
  <2>2. o \in [0 .. m -> 0 .. z] /\ r \in 0 .. m - 1
    BY DEF Offsets
  <2> HIDE DEF m, z
  <2>3. r \in 0 .. m
    BY <2>1, <2>2
  <2> QED BY <2>2, <2>3 DEF z
<1>4. line_room \in Nat
  <2> DEFINE t == loaded_cells(f)
             a == o[r]
  <2>1. a \in 0 .. t /\ t \in Nat /\ room = t - a
    BY <1>1, <1>3
  <2> HIDE DEF a, t, room
  <2>2. room \in Nat
    BY <2>1
  <2> QED BY <1>1, <2>2
<1>5. LoadedLen(f, r, o[r]) = Fitted(f[r + 1], line_room)
  BY DEF LoadedLen
<1> HIDE DEF line_room
<1> QED BY <1>2, <1>4, <1>5, FittedIs

\* A glyph behind the last.
LEMMA WholeAppended ==
  ASSUME NEW n \in Nat, NEW g, Whole(g, n), NEW ch \in Glyph, g[n] = ch,
         Width(ch) = 2 => g[n + 1] = Nul
  PROVE  Whole(g, n + Width(ch))
<1> DEFINE w == Width(ch)
<1>1. w \in {1, 2} /\ (w = 2 <=> ch \in Wide) /\ (w = 2 => g[n + 1] = Nul)
  BY WidthIs
<1> HIDE DEF w
<1>2. Between(g, n, n)
  BY DEF Between
<1>3. ASSUME NEW i \in 0 .. n + w - 1
      PROVE  g[i] = IF i < n THEN g[i] ELSE IF i = n THEN ch
                    ELSE IF i < n + w THEN Nul ELSE g[i - w]
  <2>1. i = n \/ i < n \/ (w = 2 /\ i = n + 1)
    BY <1>1
  <2>2. CASE i < n
    BY <2>2
  <2>3. CASE i = n
    BY <2>3
  <2>4. CASE w = 2 /\ i = n + 1
    <3>1. ~ (i < n) /\ i # n /\ i < n + w
      BY <2>4
    <3> QED BY <1>1, <2>4, <3>1
  <2> QED BY <2>1, <2>2, <2>3, <2>4
<1>4. n \in 0 .. n
  OBVIOUS
<1>5. Whole(g, n + w)
  BY <1>1, <1>2, <1>3, <1>4, WholePut
<1> QED BY <1>5 DEF w

\* A row of a file that is opened holds whole glyphs.
LEMMA LoadedRowWhole ==
  ASSUME NEW f \in Files, NEW o \in Offsets[f], NEW r \in 0 .. loaded_rows(f) - 1, NEW g,
         \A i \in 0 .. LoadedLen(f, r, o[r]) - 1 : g[i] = LoadedCell(f, o, o[r] + i)
  PROVE  Whole(g, LoadedLen(f, r, o[r]))
<1> DEFINE n    == LoadedLen(f, r, o[r])
           line == f[r + 1]
           C(a) == Columns(line, a)
<1>1. CASE ~ (r < Len(f))
  <2>1. n = 0
    BY <1>1 DEF LoadedLen
  <2> HIDE DEF n
  <2>2. Whole(g, n)
    BY <2>1, EmptyWhole
  <2> QED BY <2>2 DEF n
<1>2. CASE r < Len(f)
  <2>1. PICK b \in 0 .. Len(line) : n = C(b)
    BY <1>2, LoadedColumns
  <2> DEFINE S == {a \in Nat : a <= b => Whole(g, C(a))}
  <2>2. 0 \in S
    BY ColumnsOn, EmptyWhole
  <2>3. ASSUME NEW a \in S PROVE a + 1 \in S
    <3> SUFFICES ASSUME a + 1 <= b PROVE Whole(g, C(a + 1))
      OBVIOUS
    <3> DEFINE x  == C(a)
               ch == line[a + 1]
               w  == Width(ch)
               y  == x + 1
    <3>1. a \in Nat /\ a <= b /\ a \in 0 .. b - 1 /\ Whole(g, x)
      OBVIOUS
    <3>2. /\ ch \in Glyph /\ LoadedCell(f, o, o[r] + x) = ch
          /\ w = 2 => LoadedCell(f, o, o[r] + y) = Nul
      BY <1>2, <2>1, <3>1, LoadedGlyph
    <3>3. C(a + 1) = x + w /\ x \in Nat /\ w \in {1, 2}
      BY <3>1, ColumnsOn, ColumnsIs, WidthIs
    <3>4. C(a + 1) <= n /\ n \in Nat
      <4> DEFINE c == a + 1
      <4>1. c \in Nat /\ b \in Nat /\ c <= b
        BY <3>1
      <4> HIDE DEF c, n
      <4>2. Columns(line, c) <= Columns(line, b) /\ Columns(line, b) \in Nat
        BY <4>1, ColumnsGrow, ColumnsIs
      <4> QED BY <2>1, <4>2 DEF c
    <3>5. \A i \in 0 .. n - 1 : g[i] = LoadedCell(f, o, o[r] + i)
      OBVIOUS
    <3>6. y = x + 1 /\ w = Width(ch)
      OBVIOUS
    <3> DEFINE e == C(a + 1)
    <3> HIDE DEF S, x, y, ch, w, n, e
    <3>7. x \in 0 .. n - 1 /\ (w = 2 => y \in 0 .. n - 1) /\ e = x + w
      BY <3>3, <3>4, <3>6 DEF e
    <3>8. g[x] = ch /\ (w = 2 => g[y] = Nul)
      BY <3>2, <3>5, <3>7
    <3>9. Whole(g, x + w)
      BY <3>1, <3>2, <3>3, <3>6, <3>8, WholeAppended
    <3> QED BY <3>7, <3>9 DEF e
  <2>4. S = Nat
    <3>1. S \in SUBSET Nat
      OBVIOUS
    <3> HIDE DEF S
    <3> QED BY <2>2, <2>3, <3>1, Induction
  <2>5. b \in S /\ b <= b
    <3>1. b \in Nat
      BY <2>1
    <3> HIDE DEF S
    <3> QED BY <2>4, <3>1
  <2> QED BY <2>1, <2>5
<1> QED BY <1>1, <1>2

LEMMA OpenedWhole ==
  ASSUME NEW s, IsBuf(s), NEW f \in Files, NEW b \in Buffers[f]
  PROVE  WholeRows(Opened0(s, f, b))
<1> DEFINE t == Opened0(s, f, b)
           m == loaded_rows(f)
<1>1. PICK o \in Offsets[f] : /\ IsBuf(t) /\ t.cells = Cells0(f, o) /\ t.off = Starts(f, o)
                              /\ t.len = Lens(f, o) /\ t.rows = m
  BY OpenedIs
<1> HIDE DEF t
<1>2. ASSUME NEW r \in Rows(t) PROVE Whole(RowAt(t, r), t.len[r])
  <2> DEFINE n == LoadedLen(f, r, o[r])
             g == RowAt(t, r)
  <2>1. r \in 0 .. m - 1
    BY <1>1 DEF Rows
  <2>2. t.off[r] = o[r] /\ t.len[r] = n
    BY <1>1, <2>1 DEF Starts, Lens
  <2>3. /\ IsRows(m, Starts(f, o), Caps(f, o), Lens(f, o), loaded_cells(f))
        /\ loaded_cells(f) \in Nat
    BY LoadedRows
  <2>4. /\ t.off[r] \in Nat /\ t.cap[r] \in Nat /\ t.len[r] \in Nat /\ t.len[r] <= t.cap[r]
        /\ t.off[r] + t.cap[r] <= t.total /\ t.total \in Nat
    BY <1>1, RowOf, BufParts
  <2>5. DOMAIN t.cells = 0 .. t.total - 1 /\ DOMAIN t.cells = 0 .. loaded_cells(f) - 1
    BY <1>1, BufParts DEF Cells0
  <2>6. \A i \in 0 .. loaded_cells(f) - 1 : t.cells[i] = LoadedCell(f, o, i)
    BY <1>1 DEF Cells0
  <2>7. \A i \in 0 .. t.len[r] - 1 : g[i] = t.cells[t.off[r] + i]
    BY DEF RowAt, Cell
  <2> DEFINE a == o[r]
  <2>8. a = t.off[r] /\ n = t.len[r] /\ \A i \in 0 .. n - 1 : g[i] = t.cells[a + i]
    BY <2>2, <2>7
  <2> HIDE DEF n, g, m, a
  <2>9. ASSUME NEW i \in 0 .. n - 1 PROVE g[i] = LoadedCell(f, o, a + i)
    <3> DEFINE j == a + i
    <3>1. j \in 0 .. t.total - 1
      <4> DEFINE k == t.cap[r]
                 z == t.total
      <4>1. a \in Nat /\ n \in Nat /\ k \in Nat /\ n <= k /\ a + k <= z /\ z \in Nat
        BY <2>4, <2>8
      <4> HIDE DEF k, z
      <4>2. j \in 0 .. z - 1
        BY <4>1
      <4> QED BY <4>2 DEF z
    <3>2. g[i] = t.cells[j]
      BY <2>8
    <3> HIDE DEF j
    <3>3. t.cells[j] = LoadedCell(f, o, j)
      BY <2>5, <2>6, <3>1
    <3> QED BY <3>2, <3>3 DEF j
  <2>10. Whole(g, n)
    <3>1. r \in 0 .. loaded_rows(f) - 1
      BY <2>1 DEF m
    <3>2. \A i \in 0 .. LoadedLen(f, r, o[r]) - 1 : g[i] = LoadedCell(f, o, o[r] + i)
      BY <2>9 DEF n, a
    <3> QED BY <3>1, <3>2, LoadedRowWhole DEF n
  <2> QED BY <2>8, <2>10 DEF g
<1> QED BY <1>2 DEF WholeRows, t

-----------------------------------------------------------------------------
(* The invariant                                                           *)

BufInv == IsBuf(ed) /\ ed.x <= ed.view /\ todo \in Seq(Glyph)

LEMMA RoundIs ==
  ASSUME NEW s, IsBuf(s), Handled(s), todo \in Seq(Glyph)
  PROVE  BufInv'
<1>1. ed' = Sync(s) /\ todo' = todo
  BY DEF Handled
<1>2. IsBuf(Sync(s)) /\ Sync(s).x <= Sync(s).view
  BY SyncIs
<1>3. IsBuf(ed') /\ ed'.x <= ed'.view
  BY <1>1, <1>2
<1>4. todo' \in Seq(Glyph)
  BY <1>1
<1> QED BY <1>3, <1>4 DEF BufInv, IsBuf

LEMMA WidthChanges ==
  ASSUME NEW s, IsBuf(s), NEW v \in Views
  PROVE  LET t == [s EXCEPT !.view = v] IN IsBuf(t) /\ SameRows(s, t)
<1> DEFINE t == [s EXCEPT !.view = v]
<1>1. v \in Nat \ {0} /\ s \in Buffer
  BY BufferAssumption DEF IsBuf
<1>2. t \in Buffer
  BY <1>1 DEF Buffer
<1>3. SameRows(s, t) /\ SameTally(s, t) /\ t.y = s.y /\ t.view = v
  BY <1>1 DEF Buffer, SameRows, SameTally
<1> HIDE DEF t
<1>4. IsBuf(t)
  BY <1>2, <1>3 DEF IsBuf, SameRows, SameTally
<1> QED BY <1>3, <1>4 DEF t

LEMMA InitIs == TBInit => BufInv
<1> SUFFICES ASSUME TBInit PROVE BufInv
  OBVIOUS
<1> DEFINE m == LoadLines
           t == LoadLines * ScratchCols
           a == [i \in 0 .. t - 1 |-> Nul]
           o == [r \in 0 .. m - 1 |-> r * ScratchCols]
           k == [r \in 0 .. m - 1 |-> ScratchCols]
           n == [r \in 0 .. m - 1 |-> 0]
<1>1. PICK v \in Views :
        ed = [cells |-> a, total |-> t, off |-> o, cap |-> k, len |-> n, rows |-> m, end |-> 0,
              counter |-> 0, open |-> FALSE, x |-> 0, y |-> 0, view |-> v]
  BY DEF TBInit
<1>2. /\ m \in Nat \ {0} /\ ScratchCols \in Nat \ {0} /\ v \in Nat \ {0} /\ m < MaxRows
      /\ MaxRows \in Nat
  BY BufferAssumption
<1>3. t \in Nat
  BY <1>2
<1>4. a \in [0 .. t - 1 -> Content]
  <2>1. Nul \in Content
    BY DEF Content
  <2> HIDE DEF t
  <2> QED BY <2>1
<1>5. IsRows(m, o, k, n, t)
  <2>1. o \in [0 .. m - 1 -> Nat] /\ k \in [0 .. m - 1 -> Nat] /\ n \in [0 .. m - 1 -> Nat]
    <3>1. \A r \in 0 .. m - 1 : r * ScratchCols \in Nat
      BY <1>2
    <3> QED BY <1>2, <3>1
  <2>2. ASSUME NEW r \in 0 .. m - 1
        PROVE  n[r] <= k[r] /\ o[r] + k[r] <= (IF r + 1 \in 0 .. m - 1 THEN o[r + 1] ELSE t)
    <3>1. n[r] = 0 /\ k[r] = ScratchCols /\ o[r] = r * ScratchCols
      OBVIOUS
    <3>2. r * ScratchCols + ScratchCols = (r + 1) * ScratchCols
      BY <1>2
    <3>3. r + 1 \in 0 .. m - 1 => o[r + 1] = (r + 1) * ScratchCols
      OBVIOUS
    <3>4. r + 1 \notin 0 .. m - 1 => r + 1 = m
      BY <1>2
    <3>5. r + 1 \notin 0 .. m - 1 => (r + 1) * ScratchCols = t
      BY <3>4
    <3> DEFINE z == r * ScratchCols
               y == (r + 1) * ScratchCols
    <3>6. z + ScratchCols = y /\ z \in Nat /\ y \in Nat
      BY <1>2, <3>2
    <3> HIDE DEF z, y, o, k, n, t
    <3>7. CASE r + 1 \in 0 .. m - 1
      BY <1>2, <3>1, <3>3, <3>6, <3>7 DEF z, y
    <3>8. CASE r + 1 \notin 0 .. m - 1
      BY <1>2, <3>1, <3>5, <3>6, <3>8 DEF z, y
    <3> QED BY <3>7, <3>8
  <2> HIDE DEF o, k, n, t
  <2> QED BY <2>1, <2>2 DEF IsRows, Laid
<1>6. a \in Arrays
  <2> HIDE DEF a, t
  <2> QED BY <1>3, <1>4 DEF Arrays
<1>7. o \in Numbers /\ k \in Numbers /\ n \in Numbers
  <2> HIDE DEF o, k, n
  <2> QED BY <1>2, <1>5 DEF Numbers, IsRows
<1> HIDE DEF a, t, o, k, n
<1>8. ed \in Buffer
  BY <1>1, <1>2, <1>3, <1>6, <1>7 DEF Buffer
<1>9. /\ ed.cells = a /\ ed.total = t /\ ed.off = o /\ ed.cap = k /\ ed.len = n /\ ed.rows = m
      /\ ed.end = 0 /\ ed.counter = 0 /\ ed.x = 0 /\ ed.y = 0 /\ ed.view = v
  BY <1>1
<1>10. ed.cells \in [0 .. ed.total - 1 -> Content]
  BY <1>4, <1>9
<1>11. IsRows(ed.rows, ed.off, ed.cap, ed.len, ed.total)
  BY <1>5, <1>9
<1>12. /\ ed.rows <= MaxRows /\ ed.end <= MaxRows /\ ed.counter <= LoadLines
       /\ ed.y < MaxRows /\ ed.view \in Views /\ ed.x <= ed.view
  BY <1>2, <1>9
<1>13. todo \in Seq(Glyph)
  BY DEF TBInit
<1> QED BY <1>8, <1>10, <1>11, <1>12, <1>13 DEF BufInv, IsBuf

LEMMA StepIs == BufInv /\ [TBNext]_TBvars => BufInv'
<1> SUFFICES ASSUME BufInv, [TBNext]_TBvars PROVE BufInv'
  OBVIOUS
<1>0. IsBuf(ed) /\ ed.x <= ed.view /\ todo \in Seq(Glyph)
  BY DEF BufInv
<1>1. ASSUME NEW ch \in Glyph, Type(ch) PROVE BufInv'
  <2>1. Handled(handle_char_input(ed, ch))
    BY <1>1 DEF Type
  <2>2. IsBuf(handle_char_input(ed, ch))
    BY <1>0, CharInputIs
  <2> QED BY <1>0, <2>1, <2>2, RoundIs
<1>2. ASSUME NEW w \in Words, EnterWord(w) PROVE BufInv'
  <2>1. ed' = ed /\ todo' = w
    BY <1>2 DEF EnterWord
  <2>2. w \in Seq(Glyph)
    BY BufferAssumption
  <2> QED BY <1>0, <2>1, <2>2 DEF BufInv, IsBuf
<1>3. ASSUME TypeNext PROVE BufInv'
  <2> DEFINE ch == Head(todo)
             s == handle_char_input(ed, ch)
  <2>1. ch \in Glyph /\ Tail(todo) \in Seq(Glyph)
    BY <1>0, <1>3 DEF TypeNext
  <2>2. todo' = Tail(todo) /\ ed' \in {Sync(s), s}
    BY <1>3 DEF TypeNext
  <2> HIDE DEF ch
  <2>3. IsBuf(s) /\ s.x <= s.view
    BY <1>0, <2>1, CharInputIs
  <2> HIDE DEF s
  <2>4. IsBuf(Sync(s)) /\ Sync(s).x <= Sync(s).view
    BY <2>3, SyncIs
  <2>5. IsBuf(ed') /\ ed'.x <= ed'.view
    BY <2>2, <2>3, <2>4
  <2>6. todo' \in Seq(Glyph)
    BY <2>1, <2>2
  <2> QED BY <2>5, <2>6 DEF BufInv, IsBuf
<1>4. ASSUME Backspace PROVE BufInv'
  <2>1. PICK scrolls \in BOOLEAN : Handled(handle_backspace(ed, scrolls))
    BY <1>4 DEF Backspace
  <2>2. IsBuf(handle_backspace(ed, scrolls))
    BY <1>0, BackspaceIs
  <2> QED BY <1>0, <2>1, <2>2, RoundIs
<1>5. ASSUME Newline PROVE BufInv'
  <2>1. PICK scrolls \in BOOLEAN : Handled(handle_newline(ed, scrolls))
    BY <1>5 DEF Newline
  <2>2. IsBuf(handle_newline(ed, scrolls))
    BY <1>0, NewlineIs
  <2> QED BY <1>0, <2>1, <2>2, RoundIs
<1>6. ASSUME NEW l \in 0 .. editor_line_limit(ed) - 1, NEW col \in 0 .. ed.len[l], MoveCursor(l, col)
      PROVE  BufInv'
  <2>1. Handled(editor_set_cursor(ed, l, col))
    BY <1>6 DEF MoveCursor
  <2>2. l \in Int /\ col \in Int
    OBVIOUS
  <2>3. Moves(ed, editor_set_cursor(ed, l, col))
    BY <1>0, <2>2, SetCursorIs
  <2>4. IsBuf(editor_set_cursor(ed, l, col))
    BY <1>0, <2>3, Moved
  <2> QED BY <1>0, <2>1, <2>4, RoundIs
<1>7. ASSUME NEW num \in {-1, 1}, ScrollCursor(num) PROVE BufInv'
  <2>1. Handled(editor_screen_move_line(ed, num))
    BY <1>7 DEF ScrollCursor
  <2>2. num \in Int
    OBVIOUS
  <2>3. IsBuf(editor_screen_move_line(ed, num))
    BY <1>0, <2>2, ScreenMoveIs, Moved
  <2> QED BY <1>0, <2>1, <2>3, RoundIs
<1>8. ASSUME NEW v \in Views, Resize(v) PROVE BufInv'
  <2> DEFINE s == [ed EXCEPT !.view = v]
  <2>1. Handled(s)
    BY <1>8 DEF Resize
  <2>5. IsBuf(s)
    BY <1>0, WidthChanges
  <2> QED BY <1>0, <2>1, <2>5, RoundIs
<1>9. ASSUME NEW f \in Files, Open(f) PROVE BufInv'
  <2>1. PICK b \in Buffers[f] : Handled(Opened0(ed, f, b))
    BY <1>9 DEF Open, Opened0
  <2>2. IsBuf(Opened0(ed, f, b))
    BY <1>0, OpenedIs
  <2> QED BY <1>0, <2>1, <2>2, RoundIs
<1>10. ASSUME NEW f \in Files, OpenUnread(f) PROVE BufInv'
  <2> DEFINE n == Len(f)
             s == [set_line_memory(ed, n) EXCEPT !.open = TRUE, !.x = 0, !.y = 0]
  <2>1. Handled(s)
    BY <1>10 DEF OpenUnread
  <2>2. n \in Nat
    BY FileIs
  <2> HIDE DEF n
  <2>3. IsBuf(s)
    BY <1>0, <2>2, CountedIs
  <2> HIDE DEF s
  <2> QED BY <1>0, <2>1, <2>3, RoundIs
<1>11. ASSUME Save PROVE BufInv'
  <2> DEFINE n == ed.end
             s == [set_line_memory(ed, n) EXCEPT !.open = TRUE]
  <2>1. Handled(s)
    BY <1>11 DEF Save
  <2>2. n \in Nat
    BY <1>0, BufParts
  <2> HIDE DEF n
  <2>3. IsBuf(s)
    BY <1>0, <2>2, SavedIs
  <2> HIDE DEF s
  <2> QED BY <1>0, <2>1, <2>3, RoundIs
<1>12. CASE UNCHANGED TBvars
  BY <1>0, <1>12 DEF BufInv, IsBuf, TBvars
<1> QED BY <1>1, <1>2, <1>3, <1>4, <1>5, <1>6, <1>7, <1>8, <1>9, <1>10, <1>11, <1>12 DEF TBNext

\* The cells, rows and counters of the buffer fit together after every key and
\* every glyph of a word: the rows in use lie in the array one behind the other,
\* no line is longer than its row, and nothing but glyphs and 0 is in a cell
\* (txt_editor.h:278-321, txt_editor_file.c:246-276, txt_editor_func.c:463-572).
THEOREM BufferSound == TBSpec => []BufInv
<1>1. TBInit => BufInv
  BY InitIs
<1>2. BufInv /\ [TBNext]_TBvars => BufInv'
  BY StepIs
<1> QED BY <1>1, <1>2, PTL DEF TBSpec

\* No two rows share a cell, whatever grew, was cut or was joined.
THEOREM RowsDisjointAlways == TBSpec => []RowsDisjoint
<1>1. BufInv => RowsDisjoint
  <2> SUFFICES ASSUME BufInv PROVE RowsDisjoint
    OBVIOUS
  <2>1. IsRows(ed.rows, ed.off, ed.cap, ed.len, ed.total)
    BY DEF BufInv, IsBuf
  <2> QED BY <2>1 DEF RowsDisjoint, Rows, IsRows, Laid
<1> QED BY <1>1, BufferSound, PTL

\* Type correctness: for every file, view and length of text each row lies within
\* the cells that were allocated and each line within its row (txt_editor.h:278-321).
THEOREM BufferTypeCorrect == TBSpec => []TBTypeOK
<1>1. BufInv => TBTypeOK
  <2> SUFFICES ASSUME BufInv PROVE TBTypeOK
    OBVIOUS
  <2>0. IsBuf(ed) /\ ed.x <= ed.view /\ todo \in Seq(Glyph)
    BY DEF BufInv
  <2>1. /\ ed.total \in Nat /\ ed.rows \in Nat \ {0} /\ ed.rows <= MaxRows
        /\ ed.end \in Nat /\ ed.end <= MaxRows
        /\ ed.counter \in Nat /\ ed.counter <= LoadLines /\ ed.open \in BOOLEAN
        /\ ed.x \in Nat /\ ed.y \in Nat /\ ed.y < MaxRows /\ ed.view \in Nat \ {0} /\ ed.view \in Views
        /\ ed.cells \in [0 .. ed.total - 1 -> Content] /\ MaxRows \in Nat /\ LoadLines \in Nat
    BY <2>0, BufParts, BufferAssumption
  <2>2. /\ ed.off \in [0 .. ed.rows - 1 -> Nat] /\ ed.cap \in [0 .. ed.rows - 1 -> Nat]
        /\ ed.len \in [0 .. ed.rows - 1 -> Nat]
    BY <2>0, RowParts
  <2>3. ASSUME NEW r \in Rows(ed)
        PROVE  /\ ed.off[r] \in 0 .. ed.total /\ ed.cap[r] \in 0 .. ed.total
               /\ ed.len[r] \in 0 .. ed.total
    <3>1. /\ ed.off[r] \in Nat /\ ed.cap[r] \in Nat /\ ed.len[r] \in Nat
          /\ ed.len[r] <= ed.cap[r] /\ ed.off[r] + ed.cap[r] <= ed.total
      BY <2>0, RowOf
    <3> DEFINE o == ed.off[r]
               k == ed.cap[r]
               n == ed.len[r]
               z == ed.total
    <3>2. o \in Nat /\ k \in Nat /\ n \in Nat /\ n <= k /\ o + k <= z /\ z \in Nat
      BY <2>1, <3>1
    <3> HIDE DEF o, k, n, z
    <3>3. o \in 0 .. z /\ k \in 0 .. z /\ n \in 0 .. z
      BY <3>2
    <3> QED BY <3>3 DEF o, k, n, z
  <2>4. DOMAIN ed.cells = 0 .. ed.total - 1 /\ ed.total \in Nat
        /\ \A i \in DOMAIN ed.cells : ed.cells[i] \in Glyph \cup {Nul}
    BY <2>1 DEF Content
  <2>5. \A f \in {ed.off, ed.cap, ed.len} :
          DOMAIN f = Rows(ed) /\ \A r \in Rows(ed) : f[r] \in 0 .. ed.total
    BY <2>2, <2>3 DEF Rows
  <2>6. /\ ed.rows \in 1 .. MaxRows /\ ed.end \in 0 .. MaxRows /\ ed.counter \in 0 .. LoadLines
        /\ ed.y \in 0 .. MaxRows - 1 /\ ed.x \in 0 .. ed.view
    BY <2>0, <2>1
  <2>7. \A i \in DOMAIN todo : todo[i] \in Glyph
    BY <2>0
  <2> QED BY <2>1, <2>4, <2>5, <2>6, <2>7 DEF TBTypeOK
<1> QED BY <1>1, BufferSound, PTL

-----------------------------------------------------------------------------
(* Whole glyphs in every state                                             *)

\* Between two keys the cursor is not inside a glyph: Enter cuts there.
GlyphInv == WholeRows(ed) /\ (todo = <<>> => CursorOn(ed))

LEMMA RoundWhole ==
  ASSUME NEW s, IsBuf(s), WholeRows(s), Handled(s)
  PROVE  GlyphInv'
<1>1. ed' = Sync(s)
  BY DEF Handled
<1>2. WholeRows(Sync(s)) /\ CursorOn(Sync(s))
  BY SyncOn
<1>3. WholeRows(ed') /\ CursorOn(ed')
  BY <1>1, <1>2
<1> QED BY <1>3 DEF GlyphInv, WholeRows, CursorOn, RowAt, Cell, Rows, editor_line_limit

LEMMA InitWhole == TBInit => GlyphInv
<1> SUFFICES ASSUME TBInit PROVE GlyphInv
  OBVIOUS
<1>1. /\ ed.len = [r \in 0 .. LoadLines - 1 |-> 0] /\ ed.rows = LoadLines /\ ed.x = 0 /\ ed.y = 0
      /\ ed.open = FALSE
  BY DEF TBInit
<1>2. ASSUME NEW r \in 0 .. LoadLines - 1 PROVE ed.len[r] = 0
  BY <1>1
<1>3. WholeRows(ed)
  BY <1>1, <1>2, EmptyWhole DEF WholeRows, Rows
<1>4. CursorOn(ed)
  <2>1. 0 \in 0 .. LoadLines - 1
    BY BufferAssumption
  <2>2. ed.len[ed.y] = ed.x
    BY <1>1, <1>2, <2>1
  <2> QED BY <2>2 DEF CursorOn, Between
<1> QED BY <1>3, <1>4 DEF GlyphInv

LEMMA StepWhole == BufInv /\ GlyphInv /\ [TBNext]_TBvars => GlyphInv'
<1> SUFFICES ASSUME BufInv, GlyphInv, [TBNext]_TBvars PROVE GlyphInv'
  OBVIOUS
<1>0. IsBuf(ed) /\ ed.x <= ed.view /\ todo \in Seq(Glyph) /\ WholeRows(ed)
  BY DEF BufInv, GlyphInv
<1>1. ASSUME NEW ch \in Glyph, Type(ch) PROVE GlyphInv'
  <2>1. Handled(handle_char_input(ed, ch))
    BY <1>1 DEF Type
  <2>2. IsBuf(handle_char_input(ed, ch)) /\ WholeRows(handle_char_input(ed, ch))
    BY <1>0, CharInputIs, CharInputWhole
  <2> QED BY <2>1, <2>2, RoundWhole
<1>2. ASSUME NEW w \in Words, EnterWord(w) PROVE GlyphInv'
  <2>1. ed' = ed /\ todo = <<>>
    BY <1>2 DEF EnterWord
  <2>2. CursorOn(ed)
    BY <2>1 DEF GlyphInv
  <2> QED BY <1>0, <2>1, <2>2
        DEF GlyphInv, WholeRows, CursorOn, RowAt, Cell, Rows, editor_line_limit
<1>3. ASSUME TypeNext PROVE GlyphInv'
  <2> DEFINE ch == Head(todo)
             s == handle_char_input(ed, ch)
  <2>1. ch \in Glyph /\ todo # <<>>
    BY <1>0, <1>3 DEF TypeNext
  <2>2. /\ todo' = Tail(todo)
        /\ ed' = IF Len(todo) = 1 THEN Sync(s) ELSE s
    BY <1>3 DEF TypeNext
  <2>3. Len(todo) # 1 => Tail(todo) # <<>>
    <3> HIDE DEF ch, s
    <3> DEFINE q == todo
    <3>1. q \in Seq(Glyph) /\ q # <<>>
      BY <1>0, <2>1
    <3> HIDE DEF q
    <3>2. Len(q) \in Nat /\ Len(q) # 0 /\ Len(Tail(q)) = Len(q) - 1
      BY <3>1
    <3>3. Len(<<>>) = 0
      OBVIOUS
    <3>4. Len(q) # 1 => Len(Tail(q)) # 0
      BY <3>2
    <3>5. Len(q) # 1 => Tail(q) # <<>>
      BY <3>3, <3>4
    <3> QED BY <3>5 DEF q
  <2> HIDE DEF ch
  <2>4. IsBuf(s) /\ WholeRows(s)
    BY <1>0, <2>1, CharInputIs, CharInputWhole
  <2> HIDE DEF s
  <2>5. WholeRows(Sync(s)) /\ CursorOn(Sync(s))
    BY <2>4, SyncOn
  <2>6. WholeRows(ed') /\ (todo' = <<>> => CursorOn(ed'))
    BY <2>2, <2>3, <2>4, <2>5
  <2> QED BY <2>6 DEF GlyphInv, WholeRows, CursorOn, RowAt, Cell, Rows, editor_line_limit
<1>4. ASSUME Backspace PROVE GlyphInv'
  <2>1. PICK scrolls \in BOOLEAN : Handled(handle_backspace(ed, scrolls))
    BY <1>4 DEF Backspace
  <2>2. IsBuf(handle_backspace(ed, scrolls)) /\ WholeRows(handle_backspace(ed, scrolls))
    BY <1>0, BackspaceIs, BackspaceWhole
  <2> QED BY <2>1, <2>2, RoundWhole
<1>5. ASSUME Newline PROVE GlyphInv'
  <2>1. PICK scrolls \in BOOLEAN : Handled(handle_newline(ed, scrolls))
    BY <1>5 DEF Newline
  <2>2. CursorOn(ed)
    BY <2>1 DEF Handled, GlyphInv
  <2>3. IsBuf(handle_newline(ed, scrolls)) /\ WholeRows(handle_newline(ed, scrolls))
    BY <1>0, <2>2, NewlineIs, NewlineWhole
  <2> QED BY <2>1, <2>3, RoundWhole
<1>6. ASSUME NEW l \in 0 .. editor_line_limit(ed) - 1, NEW col \in 0 .. ed.len[l], MoveCursor(l, col)
      PROVE  GlyphInv'
  <2> DEFINE s == editor_set_cursor(ed, l, col)
  <2>1. Handled(s)
    BY <1>6 DEF MoveCursor
  <2>2. l \in Int /\ col \in Int
    OBVIOUS
  <2>3. Moves(ed, s)
    BY <1>0, <2>2, SetCursorIs
  <2> HIDE DEF s
  <2>4. IsBuf(s) /\ SameRows(ed, s)
    BY <1>0, <2>3, Moved
  <2>5. WholeRows(s)
    BY <1>0, <2>4, SameRowsWhole
  <2> QED BY <2>1, <2>4, <2>5, RoundWhole
<1>7. ASSUME NEW num \in {-1, 1}, ScrollCursor(num) PROVE GlyphInv'
  <2> DEFINE s == editor_screen_move_line(ed, num)
  <2>1. Handled(s)
    BY <1>7 DEF ScrollCursor
  <2>2. num \in Int
    OBVIOUS
  <2>3. Moves(ed, s)
    BY <1>0, <2>2, ScreenMoveIs
  <2> HIDE DEF s
  <2>4. IsBuf(s) /\ SameRows(ed, s)
    BY <1>0, <2>3, Moved
  <2>5. WholeRows(s)
    BY <1>0, <2>4, SameRowsWhole
  <2> QED BY <2>1, <2>4, <2>5, RoundWhole
<1>8. ASSUME NEW v \in Views, Resize(v) PROVE GlyphInv'
  <2> DEFINE s == [ed EXCEPT !.view = v]
  <2>1. Handled(s)
    BY <1>8 DEF Resize
  <2>2. IsBuf(s) /\ SameRows(ed, s)
    BY <1>0, WidthChanges
  <2> HIDE DEF s
  <2>3. WholeRows(s)
    BY <1>0, <2>2, SameRowsWhole
  <2> QED BY <2>1, <2>2, <2>3, RoundWhole
<1>9. ASSUME NEW f \in Files, Open(f) PROVE GlyphInv'
  <2>1. PICK b \in Buffers[f] : Handled(Opened0(ed, f, b))
    BY <1>9 DEF Open, Opened0
  <2>2. IsBuf(Opened0(ed, f, b)) /\ WholeRows(Opened0(ed, f, b))
    BY <1>0, OpenedIs, OpenedWhole
  <2> QED BY <2>1, <2>2, RoundWhole
<1>10. ASSUME NEW f \in Files, OpenUnread(f) PROVE GlyphInv'
  <2> DEFINE n == Len(f)
             s == [set_line_memory(ed, n) EXCEPT !.open = TRUE, !.x = 0, !.y = 0]
  <2>1. Handled(s)
    BY <1>10 DEF OpenUnread
  <2>2. n \in Nat
    BY FileIs
  <2> HIDE DEF n
  <2>3. IsBuf(s) /\ SameRows(ed, s)
    BY <1>0, <2>2, CountedIs
  <2> HIDE DEF s
  <2>4. WholeRows(s)
    BY <1>0, <2>3, SameRowsWhole
  <2> QED BY <2>1, <2>3, <2>4, RoundWhole
<1>11. ASSUME Save PROVE GlyphInv'
  <2> DEFINE n == ed.end
             s == [set_line_memory(ed, n) EXCEPT !.open = TRUE]
  <2>1. Handled(s)
    BY <1>11 DEF Save
  <2>2. n \in Nat
    BY <1>0, BufParts
  <2> HIDE DEF n
  <2>3. IsBuf(s) /\ SameRows(ed, s)
    BY <1>0, <2>2, SavedIs
  <2> HIDE DEF s
  <2>4. WholeRows(s)
    BY <1>0, <2>3, SameRowsWhole
  <2> QED BY <2>1, <2>3, <2>4, RoundWhole
<1>12. CASE UNCHANGED TBvars
  <2>1. ed' = ed /\ todo' = todo
    BY <1>12 DEF TBvars
  <2> QED BY <2>1 DEF GlyphInv, WholeRows, CursorOn, RowAt, Cell, Rows, editor_line_limit
<1> QED BY <1>1, <1>2, <1>3, <1>4, <1>5, <1>6, <1>7, <1>8, <1>9, <1>10, <1>11, <1>12 DEF TBNext

\* No key leaves half of a wide glyph behind (txt_editor.h:533-561,
\* txt_editor_func.c:325-336), for every file, view and length of text.
THEOREM GlyphsWholeAlways == TBSpec => []GlyphsWhole
<1>1. TBInit => GlyphInv
  BY InitWhole
<1>2. BufInv /\ GlyphInv /\ [TBNext]_TBvars => GlyphInv'
  BY StepWhole
<1>3. BufInv /\ GlyphInv => GlyphsWhole
  <2> SUFFICES ASSUME BufInv, GlyphInv, NEW r \in Rows(ed), NEW i \in 1 .. ed.len[r]
               PROVE  /\ Row(ed, r)[i] \in Wide => i < ed.len[r] /\ Row(ed, r)[i + 1] = Nul
                      /\ Row(ed, r)[i] = Nul => i > 1 /\ Row(ed, r)[i - 1] \in Wide
    BY DEF GlyphsWhole
  <2> DEFINE n == ed.len[r]
             j == i - 1
             g == RowAt(ed, r)
             h == Row(ed, r)
  <2>1. n \in Nat /\ Whole(g, n)
    BY RowOf DEF BufInv, GlyphInv, WholeRows
  <2>2. \A x \in 0 .. n - 1 : g[x] = Cell(ed, r, x)
    BY DEF RowAt
  <2>3. \A x \in 1 .. n : h[x] = Cell(ed, r, x - 1)
    BY DEF Row
  <2> HIDE DEF n, g, h
  <2>4. i \in 1 .. n
    BY DEF n
  <2>5. j \in 0 .. n - 1 /\ i = j + 1 /\ (i < n => j + 1 \in 0 .. n - 1 /\ i + 1 \in 1 .. n)
        /\ (i > 1 => j - 1 \in 0 .. n - 1 /\ i - 1 \in 1 .. n)
    BY <2>1, <2>4
  <2>6. /\ g[j] \in Wide => j + 1 < n /\ g[j + 1] = Nul
        /\ g[j] = Nul => j > 0 /\ g[j - 1] \in Wide
    BY <2>1, <2>5 DEF Whole
  <2>7. h[i] = g[j]
    BY <2>2, <2>3, <2>4, <2>5
  <2>8. i < n => h[i + 1] = g[j + 1]
    <3>1. i < n => i + 1 - 1 = j + 1
      BY <2>5
    <3> HIDE DEF j
    <3> QED BY <2>2, <2>3, <2>5, <3>1
  <2>9. i > 1 => h[i - 1] = g[j - 1]
    <3>1. i > 1 => i - 1 - 1 = j - 1
      BY <2>5
    <3> HIDE DEF j
    <3> QED BY <2>2, <2>3, <2>5, <3>1
  <2>10. /\ h[i] \in Wide => i < n /\ h[i + 1] = Nul
         /\ h[i] = Nul => i > 1 /\ h[i - 1] \in Wide
    BY <2>4, <2>5, <2>6, <2>7, <2>8, <2>9
  <2> QED BY <2>10 DEF n, h
<1> QED BY <1>1, <1>2, <1>3, BufferSound, PTL DEF TBSpec
=============================================================================
