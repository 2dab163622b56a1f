----------------------------- MODULE MCNodeInit -----------------------------
(***************************************************************************)
(* One node, two installations and two reboots.                            *)
(***************************************************************************)
EXTENDS NodeInit
=============================================================================
