---------------------------- MODULE CreditPolicy ----------------------------
(***************************************************************************)
(* The browser session in which the three versions of the seller credit    *)
(* policy meet: the chaincode's, which decides, the transaction server's,  *)
(* which explains (both in SellerEligibility), and the page's, which       *)
(* enables the launch button.  The standing is loaded at login, the price  *)
(* is edited in the form, and the score on the ledger may have moved.      *)
(*                                                                         *)
(* A definition X_Bug is a mutated form of X: no specification uses it; it *)
(* shows that a property would notice that bug.                            *)
(***************************************************************************)
EXTENDS SellerEligibility

CONSTANTS
  Scores,          \* the seller credit scores a ledger record may hold
  Prices,          \* the prices a form may hold
  MaxSafeInteger   \* Number.MAX_SAFE_INTEGER of the browser (2^53 - 1)

ASSUME ScoresAssumption == Scores \subseteq Nat
ASSUME PricesAssumption == Prices \subseteq Nat
ASSUME MaxSafeIntegerAssumption == MaxSafeInteger \in Nat

-----------------------------------------------------------------------------
(* The browser: app.js.  "current" is the standing of the login response,  *)
(* or NoStanding before a login.                                           *)

NoStanding == [grade |-> "none"]

\* Mutated form: the limit is compared even where the grade has none.
currentSellerPriceQualification_AlwaysLimited(current, price) ==
  /\ current # NoStanding
  /\ current.canLaunch
  /\ price > 0 /\ price <= MaxSafeInteger
  /\ price <= current.maximumPrice

currentSellerPriceQualification(current, price) ==
  /\ current # NoStanding
  /\ current.canLaunch
  /\ price > 0 /\ price <= MaxSafeInteger
  /\ current.unlimited \/ price <= current.maximumPrice

-----------------------------------------------------------------------------
(* The session.                                                            *)

VARIABLES
  score,    \* the seller credit score on the ledger
  current,  \* state.sellerCreditPolicy.current of the page
  price     \* the price typed into the form

vars == <<score, current, price>>

Init ==
  /\ score \in Scores
  /\ current = NoStanding
  /\ price = 0

\* A login (or another one) loads the standing of the score on the ledger.
Login ==
  /\ current' = sellerCreditStanding(score)
  /\ UNCHANGED <<score, price>>

EditPrice ==
  /\ price' \in Prices
  /\ UNCHANGED <<score, current>>

\* No function of the chaincode moves a score after registration; the server
\* is written for scores that move (errSellerEligibilityChanged), so the
\* session is checked with an external one that does.
Rescore ==
  /\ score' \in Scores
  /\ UNCHANGED <<current, price>>

Next == Login \/ EditPrice \/ Rescore

Spec == Init /\ [][Next]_vars

-----------------------------------------------------------------------------
(* Properties.                                                             *)

\* The variables hold scores, prices and standings of the policy.
TypeOK ==
  /\ score \in Scores
  /\ current \in Standing \cup {NoStanding}
  /\ price \in Prices \cup {0}

\* The explanation the server gives (evaluateSellerPriceQualification) and
\* the decision the chaincode takes (CheckSellerEligibility) never differ,
\* at any score, in range or not, and at any price, zero included.
ServerAgreesWithChain ==
  evaluateSellerPriceQualification(score, price) <=> CheckSellerEligibility(score, price)

\* While the score has not moved since the login, the launch button is
\* enabled exactly for the prices the chaincode accepts, up to the largest
\* integer the browser represents exactly.
BrowserAgreesWithChain ==
  (current # NoStanding /\ current.score = score)
    => (currentSellerPriceQualification(current, price)
          <=> (price <= MaxSafeInteger /\ CheckSellerEligibility(score, price)))

Improves ==
  /\ score <= score' /\ score' <= 100
  /\ 0 < price' /\ price' <= price

\* A better score (still in range) or a lower price (still positive) never
\* turns an eligible launch into an ineligible one (sellerPriceEligible).
EligibilityMonotone ==
  [][Improves /\ CheckSellerEligibility(score, price)
       => CheckSellerEligibility(score', price')]_vars

=============================================================================
