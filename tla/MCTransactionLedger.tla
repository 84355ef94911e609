------------------------ MODULE MCTransactionLedger ------------------------
(* Values for the run of the ledger.                                       *)
EXTENDS TransactionLedger

\* Every class of legal status, and one number on each side of the range.
MCLegalInputs == {-1, 0, 1, 2, 3, 6, 7}

\* The statuses the code gives a meaning to, a middle one, and one too many.
MCStatusInputs == {0, 1, 2, 10, 11}

=============================================================================
