------------------------------ MODULE MCLspLink ------------------------------
(* Two files, so that the file the server was told of last need not be the   *)
(* one that is edited; messages of two parts and pipes for three, so that    *)
(* every message can be cut and every pipe can be full.                      *)
EXTENDS LspLink
=============================================================================
