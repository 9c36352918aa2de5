--------------------------- MODULE MCEpochKeeper ---------------------------
(* Small instances of EpochKeeper.                                         *)
EXTENDS EpochKeeper

CONSTANTS t1, t2, t3
=============================================================================
