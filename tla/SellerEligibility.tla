------------------------- MODULE SellerEligibility -------------------------
(***************************************************************************)
(* The seller credit policy as pure operators, in the two forms the Go     *)
(* code has: the chaincode's decision and the transaction server's         *)
(* explanation, each with its own copy of the grades and limits.           *)
(*                                                                         *)
(* A definition X_Bug is a mutated form of X: no specification uses it; it *)
(* shows that a property would notice that bug.                            *)
(***************************************************************************)
EXTENDS Naturals

-----------------------------------------------------------------------------
(* The chaincode: seller_eligibility.go with the constants of models.go.   *)

sellerPriceEligible(score, price) ==
  \/ score \in 90..100
  \/ score \in 80..89 /\ price <= 1000000
  \/ score \in 70..79 /\ price <= 300000
  \/ score \in 60..69 /\ price <= 100000

\* CheckSellerEligibility refuses a zero price with an error before it reads
\* the score, so no launch at price zero is ever eligible.
CheckSellerEligibility(score, price) ==
  price > 0 /\ sellerPriceEligible(score, price)

-----------------------------------------------------------------------------
(* The transaction server: seller_credit_policy.go.                        *)

Grades == {"A", "B", "C", "D", "E", "Invalid"}

Standing ==
  [score : Nat, grade : Grades, canLaunch : BOOLEAN, unlimited : BOOLEAN,
   maximumPrice : Nat]

\* A limit is left at zero for the grades that have none.
standingOf(score, grade, canLaunch, unlimited, maximumPrice) ==
  [score |-> score, grade |-> grade, canLaunch |-> canLaunch,
   unlimited |-> unlimited, maximumPrice |-> maximumPrice]

limitedSellerCreditStanding(score, grade, maximumPrice) ==
  standingOf(score, grade, TRUE, FALSE, maximumPrice)

\* Mutated form: the range check of scores above 100 is missing.
sellerCreditStanding_NoRangeCheck(score) ==
  CASE score >= 90      -> standingOf(score, "A", TRUE, TRUE, 0)
    [] score \in 80..89 -> limitedSellerCreditStanding(score, "B", 1000000)
    [] score \in 70..79 -> limitedSellerCreditStanding(score, "C", 300000)
    [] score \in 60..69 -> limitedSellerCreditStanding(score, "D", 100000)
    [] score < 60       -> standingOf(score, "E", FALSE, FALSE, 0)

sellerCreditStanding(score) ==
  CASE score > 100       -> standingOf(score, "Invalid", FALSE, FALSE, 0)
    [] score \in 90..100 -> standingOf(score, "A", TRUE, TRUE, 0)
    [] score \in 80..89  -> limitedSellerCreditStanding(score, "B", 1000000)
    [] score \in 70..79  -> limitedSellerCreditStanding(score, "C", 300000)
    [] score \in 60..69  -> limitedSellerCreditStanding(score, "D", 100000)
    [] score < 60        -> standingOf(score, "E", FALSE, FALSE, 0)

\* The table shown beside the standing.
rule(grade, minimum, maximum, canLaunch, unlimited, maximumPrice) ==
  [grade |-> grade, minimumScore |-> minimum, maximumScore |-> maximum,
   canLaunch |-> canLaunch, unlimited |-> unlimited, maximumPrice |-> maximumPrice]

sellerCreditRules ==
  {rule("A", 90, 100, TRUE, TRUE, 0),
   rule("B", 80, 89, TRUE, FALSE, 1000000),
   rule("C", 70, 79, TRUE, FALSE, 300000),
   rule("D", 60, 69, TRUE, FALSE, 100000),
   rule("E", 0, 59, FALSE, FALSE, 0)}

\* evaluateSellerPriceQualification(...).Eligible; the mode only changes the
\* words of the message.
evaluateSellerPriceQualification(score, price) ==
  LET standing == sellerCreditStanding(score)
  IN  /\ standing.canLaunch
      /\ price # 0
      /\ standing.unlimited \/ price <= standing.maximumPrice

=============================================================================
