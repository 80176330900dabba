----------------------------- MODULE MCResizeDrag -----------------------------
(* A window of 6 x 6 at (2, 2) on a small output.  With a resize zone of 2    *)
(* and a title band that is the row 3, the row 5 and the columns 0..1 and 5 of *)
(* the window are zones: either side, the bottom and its corners can be held,  *)
(* and in the title band nothing.  The top is treated as the left side is.     *)
EXTENDS ResizeDrag

Both(n)    == [a \in Axis |-> n]
MCReach    == [x |-> {1, 3, 7}, y |-> {5, 7}]
MCMonitor  == Both(9)
MCMin      == [x |-> 4, y |-> 5]
Unset      == Both(0)
MCStart    == Both(2)
MCSize     == Both(6)
=============================================================================
