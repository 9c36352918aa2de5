---------------------------- MODULE MCTxSequence ----------------------------
(* Small instances of TxSequence for TLC.                                  *)
EXTENDS TxSequence

OneOrTwo == {<<1>>, <<1, 2>>}

(* Nothing, or step 2: of a flow of two what is left, of one another call.  *)
Rebuilt == {<<>>, <<2>>}
=============================================================================
