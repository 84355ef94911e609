------------------------- MODULE CreditPolicyProofs -------------------------
(***************************************************************************)
(* The three versions of the policy agree for every score and every price, *)
(* not only at the boundaries the run of MCCreditPolicy visits.            *)
(***************************************************************************)
EXTENDS CreditPolicy, TLAPS

\* What sellerCreditStanding grants, read off its cases: it keeps the score,
\* it is a standing, and it allows a positive price exactly when the
\* chaincode's sellerPriceEligible does.
LEMMA StandingGrants ==
  ASSUME NEW s \in Nat
  PROVE  LET st == sellerCreditStanding(s)
         IN  /\ st \in Standing
             /\ st.score = s
             /\ \A p \in Nat :
                  (st.canLaunch /\ (st.unlimited \/ p <= st.maximumPrice))
                    <=> sellerPriceEligible(s, p)
<1> USE DEF sellerCreditStanding, limitedSellerCreditStanding, standingOf,
            sellerPriceEligible, Standing, Grades
<1>1. CASE s > 100
  BY <1>1
<1>2. CASE s \in 90..100
  BY <1>2
<1>3. CASE s \in 80..89
  BY <1>3
<1>4. CASE s \in 70..79
  BY <1>4
<1>5. CASE s \in 60..69
  BY <1>5
<1>6. CASE s < 60
  BY <1>6
<1> QED
  BY <1>1, <1>2, <1>3, <1>4, <1>5, <1>6

\* The server's explanation and the chaincode's decision are the same
\* predicate of the score and the price.
THEOREM PoliciesAgree ==
  ASSUME NEW s \in Nat, NEW p \in Nat
  PROVE  evaluateSellerPriceQualification(s, p) <=> CheckSellerEligibility(s, p)
BY StandingGrants DEF evaluateSellerPriceQualification, CheckSellerEligibility

\* The table on the page has exactly one row for each valid score, and that
\* row promises what the standing of the score grants (sellerCreditPolicy).
THEOREM TableAgrees ==
  ASSUME NEW s \in 0..100
  PROVE  \E r \in sellerCreditRules :
           /\ \A q \in sellerCreditRules :
                (q.minimumScore <= s /\ s <= q.maximumScore) <=> q = r
           /\ sellerCreditStanding(s) =
                standingOf(s, r.grade, r.canLaunch, r.unlimited, r.maximumPrice)
<1> USE DEF sellerCreditRules, rule, sellerCreditStanding, limitedSellerCreditStanding,
            standingOf
<1>1. CASE s \in 90..100
  <2> WITNESS rule("A", 90, 100, TRUE, TRUE, 0) \in sellerCreditRules
  <2> QED
    BY <1>1
<1>2. CASE s \in 80..89
  <2> WITNESS rule("B", 80, 89, TRUE, FALSE, 1000000) \in sellerCreditRules
  <2> QED
    BY <1>2
<1>3. CASE s \in 70..79
  <2> WITNESS rule("C", 70, 79, TRUE, FALSE, 300000) \in sellerCreditRules
  <2> QED
    BY <1>3
<1>4. CASE s \in 60..69
  <2> WITNESS rule("D", 60, 69, TRUE, FALSE, 100000) \in sellerCreditRules
  <2> QED
    BY <1>4
<1>5. CASE s \in 0..59
  <2> WITNESS rule("E", 0, 59, FALSE, FALSE, 0) \in sellerCreditRules
  <2> QED
    BY <1>5
<1> QED
  BY <1>1, <1>2, <1>3, <1>4, <1>5

\* The session only ever holds scores, prices and standings of the policy.
THEOREM TypeCorrect == Spec => []TypeOK
<1>1. Init => TypeOK
  BY DEF Init, TypeOK
<1>2. TypeOK /\ [Next]_vars => TypeOK'
  <2> SUFFICES ASSUME TypeOK, [Next]_vars
               PROVE  TypeOK'
    OBVIOUS
  <2>1. CASE Login
    <3>1. score \in Nat
      BY ScoresAssumption DEF TypeOK
    <3>2. sellerCreditStanding(score) \in Standing
      BY <3>1, StandingGrants
    <3> QED
      BY <2>1, <3>2 DEF Login, TypeOK
  <2>2. CASE EditPrice
    BY <2>2 DEF EditPrice, TypeOK
  <2>3. CASE Rescore
    BY <2>3 DEF Rescore, TypeOK
  <2>4. CASE UNCHANGED vars
    BY <2>4 DEF vars, TypeOK
  <2> QED
    BY <2>1, <2>2, <2>3, <2>4 DEF Next
<1> QED
  BY <1>1, <1>2, PTL DEF Spec

\* The server never explains a decision the chaincode would not take.
THEOREM ServerAgrees == Spec => []ServerAgreesWithChain
<1>1. TypeOK => ServerAgreesWithChain
  BY PoliciesAgree, ScoresAssumption, PricesAssumption
     DEF TypeOK, ServerAgreesWithChain
<1> QED
  BY <1>1, TypeCorrect, PTL

\* A standing shown in the browser is always the standing of its own score.
StandingOfItsScore ==
  current # NoStanding => current = sellerCreditStanding(current.score)

\* The session keeps it so: only a login stores a standing, and it stores
\* the one of the score it reads.
LEMMA StandingIsOfItsScore == Spec => []StandingOfItsScore
<1>1. Init => StandingOfItsScore
  BY DEF Init, StandingOfItsScore
<1>2. TypeOK /\ StandingOfItsScore /\ [Next]_vars => StandingOfItsScore'
  <2> SUFFICES ASSUME TypeOK, StandingOfItsScore, [Next]_vars
               PROVE  StandingOfItsScore'
    OBVIOUS
  <2>1. CASE Login
    <3>1. sellerCreditStanding(score).score = score
      BY StandingGrants, ScoresAssumption DEF TypeOK
    <3> QED
      BY <2>1, <3>1 DEF Login, StandingOfItsScore
  <2>2. CASE UNCHANGED current
    BY <2>2 DEF StandingOfItsScore
  <2> QED
    BY <2>1, <2>2 DEF Next, EditPrice, Rescore, vars
<1> QED
  BY <1>1, <1>2, TypeCorrect, PTL DEF Spec

\* While the score has not moved since the login, the launch button is
\* enabled exactly for the prices the chaincode accepts.
THEOREM BrowserAgrees == Spec => []BrowserAgreesWithChain
<1>1. TypeOK /\ StandingOfItsScore => BrowserAgreesWithChain
  <2> SUFFICES ASSUME TypeOK, StandingOfItsScore,
                      current # NoStanding, current.score = score
               PROVE  currentSellerPriceQualification(current, price)
                        <=> (price <= MaxSafeInteger /\ CheckSellerEligibility(score, price))
    BY DEF BrowserAgreesWithChain
  <2>1. score \in Nat /\ price \in Nat
    BY ScoresAssumption, PricesAssumption DEF TypeOK
  <2>2. current = sellerCreditStanding(score)
    BY DEF StandingOfItsScore
  <2>3. (current.canLaunch /\ (current.unlimited \/ price <= current.maximumPrice))
          <=> sellerPriceEligible(score, price)
    BY <2>1, <2>2, StandingGrants
  <2> QED
    BY <2>3 DEF currentSellerPriceQualification, CheckSellerEligibility
<1> QED
  BY <1>1, TypeCorrect, StandingIsOfItsScore, PTL

\* Improving the score within its range or lowering the price never loses
\* the eligibility.
THEOREM MonotoneEligibility == Spec => EligibilityMonotone
<1>1. ASSUME NEW s \in Nat, NEW t \in Nat, NEW p \in Nat, NEW q \in Nat,
             CheckSellerEligibility(s, p), s <= t, t <= 100, 0 < q, q <= p
      PROVE  CheckSellerEligibility(t, q)
  BY <1>1 DEF CheckSellerEligibility, sellerPriceEligible
<1>2. TypeOK /\ TypeOK' =>
        (Improves /\ CheckSellerEligibility(score, price)
           => CheckSellerEligibility(score', price'))
  <2>1. ASSUME TypeOK, TypeOK'
        PROVE  score \in Nat /\ score' \in Nat /\ price \in Nat /\ price' \in Nat
    BY <2>1, ScoresAssumption, PricesAssumption DEF TypeOK
  <2> QED
    BY <1>1, <2>1 DEF Improves
<1> QED
  BY <1>2, TypeCorrect, PTL DEF EligibilityMonotone

=============================================================================
