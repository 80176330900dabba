---------------------------- MODULE MCTextBuffer ----------------------------
(* An empty file and one with as many lines as are loaded; what a tab of two *)
(* columns enters.                                                           *)
EXTENDS TextBuffer

MCFiles == {<<>>, <<<<"w">>, <<>>>>}
MCWords == {<<"a", "a">>}
=============================================================================
