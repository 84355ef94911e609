--------------------------- MODULE MCCreditPolicy ---------------------------
(* The policy at every boundary of its scores and prices, on both sides.   *)
EXTENDS CreditPolicy

MCScores == {0, 59, 60, 69, 70, 79, 80, 81, 89, 90, 100, 101}
MCPrices ==
  {0, 1, 100000, 100001, 300000, 300001, 1000000, 1000001, 2000000, 2000001}

=============================================================================
