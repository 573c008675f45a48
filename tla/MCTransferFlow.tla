--------------------------- MODULE MCTransferFlow ---------------------------
(***************************************************************************)
(* An instance of TransferFlow for TLC.  The transfers are interchangeable *)
(* and only safety is checked.                                             *)
(***************************************************************************)
EXTENDS TransferFlow, TLC

CONSTANTS t1, t2, wallet, other

MCTransfers == {t1, t2}
MCAccounts == {wallet, other}

Symmetry == Permutations(Transfers)
=============================================================================
