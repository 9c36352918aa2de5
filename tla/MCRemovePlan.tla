---------------------------- MODULE MCRemovePlan ----------------------------
(* Small instances of RemovePlan.                                          *)
EXTENDS RemovePlan
=============================================================================
