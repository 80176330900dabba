----------------------------- MODULE MCEditView -----------------------------
(* A file whose rows, with the empty one at its end, are as many as are      *)
(* loaded at most and more than the views show; two sizes of the terminal,   *)
(* and one that is too small to be used.                                     *)
EXTENDS EditView

MCFiles == {<<2, 1>>}
MCSizes == {<<5, 4>>, <<4, 3>>, <<3, 3>>}
=============================================================================
