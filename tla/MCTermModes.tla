------------------------------ MODULE MCTermModes ------------------------------
(* A screen of two rows and two columns that becomes lower and wider, or      *)
(* narrower; a clipboard text that Base64 does not fill up.                   *)
EXTENDS TermModes

Shape(w, h) == [w |-> w, h |-> h]
MCInit == Shape(2, 2)
MCSize == {MCInit, Shape(3, 1), Shape(1, 2)}
MCClip == {<<97, 10, 200>>}
=============================================================================
