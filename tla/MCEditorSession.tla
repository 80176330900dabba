--------------------------- MODULE MCEditorSession ---------------------------
(* Two files, so that one is edited while another is named or opened, and two *)
(* texts; one other program that interferes and one crash.  The first session *)
(* begins with the menu, the one after the crash with any of the openings.    *)
EXTENDS EditorSession, TLC

Symmetric == Permutations(Path)

MCInit == Init /\ has_plugin
MCSpec == MCInit /\ [][Next]_vars
=============================================================================
