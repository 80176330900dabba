----------------------------- MODULE MCCompositor -----------------------------
(* Two windows and the bar: enough for one window to be moved or resized     *)
(* while the other is mapped, focused, raised or destroyed.  The windows are *)
(* not declared symmetric: a temporal property is checked.                   *)
EXTENDS Compositor
=============================================================================
