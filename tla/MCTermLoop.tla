------------------------------ MODULE MCTermLoop ------------------------------
(* A paste of three bytes, one of them not typed, over a pty that takes two;  *)
(* windows of one and two cells.                                              *)
EXTENDS TermLoop

MCSize == {1, 4}
MCClip == {<<97, 10, 98, 200>>}
=============================================================================
