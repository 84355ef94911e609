------------------------- MODULE RegistrationProofs -------------------------
(***************************************************************************)
(* The registration of a user keeps its two chains together for any number *)
(* of requests, timeouts and failures.                                     *)
(*                                                                         *)
(* Neither TradingHasIdentity nor RegisteredCanLogin is inductive: both    *)
(* depend on how far the handlers of the request have come, and on the     *)
(* invocation that one of them gave up waiting for.  The inductive         *)
(* invariant says in which state of the chains each call finds them,       *)
(* whether its handler still waits for it or not.                          *)
(***************************************************************************)
EXTENDS Registration, TLAPS

Recorded(r, key) == pimgr[r] # NoRecord /\ pimgr[r].key = key

\* The state of the two chains that each call finds.
Before(call, r) ==
  /\ call = "RegisterIdentity" => pimgr[r] = NoRecord
  /\ call = "SetProfile" => Recorded(r, NoKey) /\ ~pimgr[r].profile
  /\ call = "SetPublicKey" => Recorded(r, NoKey) /\ pimgr[r].profile
  /\ call = "RegisterTradingIdentity" => trading[r] = NoRecord
  /\ call = "SetTradingPublicKey" => trading[r] = NoKey

Complete(r) == Recorded(r, KeyOf[r]) /\ pimgr[r].profile

\* The calls of the authority come in order, the one it gave up for lost
\* included, and the transaction server is asked after the last of them.
IdentityOrder(r) ==
  /\ authority[r] \in IdentityCalls => Before(authority[r], r)
  /\ authority[r] = "idle" => Before("RegisterIdentity", r)
  /\ service[r] # "idle" \/ authority[r] \in {"PostTradingIdentity", "waiting", "ok"}
       => Complete(r)
  /\ \A call \in IdentityCalls :
       <<call, r>> \in late =>
         authority[r] = "error" /\ service[r] = "idle" /\ Before(call, r)

\* So do those of the transaction server.
TradingOrder(r) ==
  /\ service[r] = "idle" => Before("RegisterTradingIdentity", r)
  /\ service[r] # "idle" => authority[r] \in {"waiting", "ok", "error"}
  /\ service[r] \in TradingCalls => Before(service[r], r)
  /\ service[r] = "ok" => trading[r] = KeyOf[r]
  /\ trading[r] \in {NoRecord, NoKey, KeyOf[r]}
  /\ \A call \in TradingCalls :
       <<call, r>> \in late => service[r] = "error" /\ Before(call, r)

\* A process confirms what the one it called has confirmed.
AnswersAgree(r) ==
  /\ authority[r] = "ok" => service[r] = "ok"
  /\ helper[r] = "registered" => authority[r] = "ok"
  /\ helper[r] = "idle" => authority[r] = "idle"

RequestInv(r) == IdentityOrder(r) /\ TradingOrder(r) /\ AnswersAgree(r)

IInv == TypeOK /\ \A r \in Requests : RequestInv(r)

-----------------------------------------------------------------------------

\* The order of the calls.
LEMMA CallOrder ==
  /\ DOMAIN AuthorityNext = IdentityCalls /\ DOMAIN ServiceNext = TradingCalls
  /\ AuthorityNext["RegisterIdentity"] = "SetProfile"
  /\ AuthorityNext["SetProfile"] = "SetPublicKey"
  /\ AuthorityNext["SetPublicKey"] = "PostTradingIdentity"
  /\ ServiceNext["RegisterTradingIdentity"] = "SetTradingPublicKey"
  /\ ServiceNext["SetTradingPublicKey"] = "ok"
BY DEF AuthorityNext, ServiceNext, IdentityCalls, TradingCalls

LEMMA InitIInv == Init => IInv
BY RegistrationAssumption
   DEF Init, IInv, TypeOK, RequestInv, IdentityOrder, TradingOrder, AnswersAgree,
       Before, Complete, IdentityCalls, TradingCalls, AuthorityNext, ServiceNext

\* What a call that commits does to the two chains: from the state that it
\* finds to the one that the next call finds.
After(call, r) ==
  /\ call = "RegisterIdentity" => Before("SetProfile", r)
  /\ call = "SetProfile" => Before("SetPublicKey", r)
  /\ call = "SetPublicKey" => Complete(r)
  /\ call = "RegisterTradingIdentity" => Before("SetTradingPublicKey", r)
  /\ call = "SetTradingPublicKey" => trading[r] = KeyOf[r]

\* No two calls of a handler find the chains in the same state.
LEMMA BeforeUnique ==
  ASSUME NEW r, NEW c, NEW d, Before(c, r), Before(d, r),
         \/ c \in IdentityCalls /\ d \in IdentityCalls
         \/ c \in TradingCalls /\ d \in TradingCalls
  PROVE  c = d
BY AbsentAssumption DEF Before, Recorded, IdentityCalls, TradingCalls

LEMMA AppliedStep ==
  ASSUME TypeOK, NEW r \in Requests, NEW call \in IdentityCalls \cup TradingCalls,
         Before(call, r), Applied(call, r)
  PROVE  /\ pimgr' \in [Requests -> [profile : BOOLEAN, key : Keys \cup {NoKey}] \cup {NoRecord}]
         /\ trading' \in [Requests -> Keys \cup {NoKey, NoRecord}]
         /\ After(call, r)'
         /\ call \in IdentityCalls => trading' = trading
         /\ call \in TradingCalls => pimgr' = pimgr
         /\ \A q \in Requests : q # r => pimgr'[q] = pimgr[q] /\ trading'[q] = trading[q]
<1>0. KeyOf[r] \in Keys
  BY DEF Keys
<1>5. ASSUME NEW record \in [profile : BOOLEAN, key : Keys \cup {NoKey}],
             pimgr' = [pimgr EXCEPT ![r] = record]
      PROVE  /\ pimgr' \in [Requests -> [profile : BOOLEAN, key : Keys \cup {NoKey}] \cup {NoRecord}]
             /\ pimgr'[r] = record
             /\ \A q \in Requests : q # r => pimgr'[q] = pimgr[q]
  BY <1>5 DEF TypeOK
<1>1. CASE call = "RegisterIdentity"
  <2>1. pimgr' = [pimgr EXCEPT ![r] = [profile |-> FALSE, key |-> NoKey]] /\ trading' = trading
    BY <1>1 DEF Applied, IdentityAfter, IdentityCalls
  <2>2. ASSUME NEW i, i = [profile |-> FALSE, key |-> NoKey]
        PROVE  /\ i \in [profile : BOOLEAN, key : Keys \cup {NoKey}]
               /\ ~i.profile /\ i.key = NoKey
    BY <2>2
  <2> QED
    BY <1>1, <1>5, <2>1, <2>2, AbsentAssumption
       DEF Before, After, Recorded, TypeOK, TradingCalls
<1>2. CASE call = "SetProfile"
  <2>1. pimgr' = [pimgr EXCEPT ![r] = [pimgr[r] EXCEPT !.profile = TRUE]] /\ trading' = trading
    BY <1>2 DEF Applied, IdentityAfter, IdentityCalls
  <2>2. pimgr[r] \in [profile : BOOLEAN, key : Keys \cup {NoKey}] /\ pimgr[r].key = NoKey
    BY <1>2 DEF Before, Recorded, TypeOK
  <2>3. ASSUME NEW i, i = [pimgr[r] EXCEPT !.profile = TRUE]
        PROVE  /\ i \in [profile : BOOLEAN, key : Keys \cup {NoKey}]
               /\ i.profile /\ i.key = NoKey
    BY <2>2, <2>3
  <2> QED
    BY <1>2, <1>5, <2>1, <2>3, AbsentAssumption
       DEF Before, After, Recorded, TypeOK, TradingCalls
<1>3. CASE call = "SetPublicKey"
  <2>1. pimgr' = [pimgr EXCEPT ![r] = [pimgr[r] EXCEPT !.key = KeyOf[r]]] /\ trading' = trading
    BY <1>3 DEF Applied, IdentityAfter, IdentityCalls
  <2>2. pimgr[r] \in [profile : BOOLEAN, key : Keys \cup {NoKey}] /\ pimgr[r].profile
    BY <1>3 DEF Before, Recorded, TypeOK
  <2>3. ASSUME NEW i, i = [pimgr[r] EXCEPT !.key = KeyOf[r]]
        PROVE  /\ i \in [profile : BOOLEAN, key : Keys \cup {NoKey}]
               /\ i.profile /\ i.key = KeyOf[r]
    BY <1>0, <2>2, <2>3
  <2> QED
    BY <1>3, <1>5, <2>1, <2>3, AbsentAssumption
       DEF After, Complete, Recorded, TypeOK, TradingCalls
<1>4. CASE call \in TradingCalls
  BY <1>0, <1>4
     DEF Applied, TradingAfter, Before, After, TypeOK, IdentityCalls, TradingCalls
<1> QED
  BY <1>1, <1>2, <1>3, <1>4 DEF IdentityCalls

\* A step that touches nothing of a request but the helper, or an invocation
\* of it that is lost, keeps the order of its calls.
LEMMA OrderKept ==
  ASSUME NEW q \in Requests, IdentityOrder(q), TradingOrder(q),
         authority'[q] = authority[q], service'[q] = service[q],
         pimgr'[q] = pimgr[q], trading'[q] = trading[q],
         \A call \in IdentityCalls \cup TradingCalls : <<call, q>> \in late' => <<call, q>> \in late
  PROVE  IdentityOrder(q)' /\ TradingOrder(q)'
<1>1. ASSUME NEW call
      PROVE  Before(call, q) => Before(call, q)'
  BY DEF Before, Recorded
<1>2. IdentityOrder(q)'
  BY DEF IdentityOrder, Before, Complete, Recorded
<1>3. TradingOrder(q)'
  BY <1>1 DEF TradingOrder
<1> QED
  BY <1>2, <1>3

\* One that does not touch the helper either keeps the whole invariant.
LEMMA RequestUntouched ==
  ASSUME NEW q \in Requests, RequestInv(q),
         helper'[q] = helper[q], authority'[q] = authority[q], service'[q] = service[q],
         pimgr'[q] = pimgr[q], trading'[q] = trading[q],
         \A call \in IdentityCalls \cup TradingCalls : <<call, q>> \in late' => <<call, q>> \in late
  PROVE  RequestInv(q)'
<1>1. AnswersAgree(q)'
  BY DEF RequestInv, AnswersAgree
<1> QED
  BY <1>1, OrderKept DEF RequestInv

\* The authority and the transaction server submit their calls in order.
LEMMA AuthoritySubmitsInv ==
  ASSUME IInv, NEW r \in Requests, AuthoritySubmits(r)
  PROVE  IInv'
<1> USE DEF IInv
<1>1. PICK call \in IdentityCalls : authority[r] = call
  BY DEF AuthoritySubmits, AuthorityNext, IdentityCalls
<1>2. /\ Before(call, r) /\ service[r] = "idle" /\ trading[r] = NoRecord
      /\ helper[r] \notin {"registered", "idle"}
      /\ \A c \in IdentityCalls \cup TradingCalls : <<c, r>> \notin late
  BY <1>1 DEF RequestInv, IdentityOrder, TradingOrder, AnswersAgree, Before,
              IdentityCalls, TradingCalls
<1>3. /\ pimgr' \in [Requests -> [profile : BOOLEAN, key : Keys \cup {NoKey}] \cup {NoRecord}]
      /\ After(call, r)'
      /\ trading' = trading
      /\ \A q \in Requests : q # r => pimgr'[q] = pimgr[q]
  BY <1>1, <1>2, AppliedStep DEF AuthoritySubmits
<1>4. TypeOK'
  <2>1. authority' = [authority EXCEPT ![r] = AuthorityNext[call]]
    BY <1>1 DEF AuthoritySubmits
  <2>2. AuthorityNext[call] \in IdentityCalls \cup {"PostTradingIdentity"}
    BY CallOrder DEF IdentityCalls
  <2>3. authority' \in [Requests -> IdentityCalls
                          \cup {"idle", "PostTradingIdentity", "waiting", "ok", "error"}]
    BY <2>1, <2>2, CallOrder DEF TypeOK
  <2> QED
    BY <1>3, <2>3 DEF AuthoritySubmits, TypeOK
<1>5. RequestInv(r)'
  <2>1. authority'[r] = AuthorityNext[call] /\ After(call, r)'
    BY <1>1, <1>3 DEF AuthoritySubmits, TypeOK
  <2>2. CASE call = "RegisterIdentity" \/ call = "SetProfile"
    <3>1. authority'[r] \in IdentityCalls /\ Before(authority[r], r)'
      BY <2>1, <2>2, CallOrder DEF After, IdentityCalls
    <3> QED
      BY <1>2, <1>3, <3>1
         DEF AuthoritySubmits, IdentityCalls, TradingCalls, RequestInv, IdentityOrder,
             TradingOrder, AnswersAgree, Before
  <2>3. CASE call = "SetPublicKey"
    <3>1. authority'[r] = "PostTradingIdentity" /\ Complete(r)'
      BY <2>1, <2>3, CallOrder DEF After
    <3> QED
      BY <1>2, <1>3, <3>1
         DEF AuthoritySubmits, IdentityCalls, TradingCalls, RequestInv, IdentityOrder,
             TradingOrder, AnswersAgree, Before
  <2> QED
    BY <2>2, <2>3 DEF IdentityCalls
<1>6. ASSUME NEW q \in Requests, q # r
      PROVE  RequestInv(q)'
  BY <1>3, <1>6, RequestUntouched DEF AuthoritySubmits, TypeOK
<1> QED
  BY <1>4, <1>5, <1>6

LEMMA ServiceSubmitsInv ==
  ASSUME IInv, NEW r \in Requests, ServiceSubmits(r)
  PROVE  IInv'
<1> USE DEF IInv
<1>1. PICK call \in TradingCalls : service[r] = call
  BY CallOrder DEF ServiceSubmits
<1>2. /\ Before(call, r)
      /\ authority[r] \in {"waiting", "ok", "error"} /\ authority[r] # "ok"
      /\ Complete(r)
      /\ \A c \in IdentityCalls \cup TradingCalls : <<c, r>> \notin late
  BY <1>1 DEF RequestInv, IdentityOrder, TradingOrder, AnswersAgree, TradingCalls
<1>3. /\ trading' \in [Requests -> Keys \cup {NoKey, NoRecord}]
      /\ After(call, r)'
      /\ pimgr' = pimgr
      /\ \A q \in Requests : q # r => trading'[q] = trading[q]
  BY <1>1, <1>2, AppliedStep DEF ServiceSubmits
<1>4. service' = [service EXCEPT ![r] = ServiceNext[call]]
  BY <1>1 DEF ServiceSubmits
<1>5. TypeOK'
  <2>1. service' \in [Requests -> TradingCalls \cup {"idle", "ok", "error"}]
    BY <1>4, CallOrder DEF TypeOK, TradingCalls
  <2> QED
    BY <1>3, <2>1 DEF ServiceSubmits, TypeOK
<1>6. RequestInv(r)'
  <2>1. service'[r] = ServiceNext[call] /\ After(call, r)'
    BY <1>3, <1>4 DEF TypeOK
  <2>2. CASE call = "RegisterTradingIdentity"
    BY <1>2, <1>3, <2>1, <2>2, CallOrder
       DEF ServiceSubmits, IdentityCalls, TradingCalls, RequestInv, IdentityOrder,
           TradingOrder, AnswersAgree, Before, After, Complete, Recorded
  <2>3. CASE call = "SetTradingPublicKey"
    BY <1>2, <1>3, <2>1, <2>3, CallOrder
       DEF ServiceSubmits, IdentityCalls, TradingCalls, RequestInv, IdentityOrder,
           TradingOrder, AnswersAgree, Before, After, Complete, Recorded
  <2> QED
    BY <2>2, <2>3 DEF TradingCalls
<1>7. ASSUME NEW q \in Requests, q # r
      PROVE  RequestInv(q)'
  BY <1>3, <1>7, RequestUntouched DEF ServiceSubmits, TypeOK
<1> QED
  BY <1>5, <1>6, <1>7

\* A request that is made finds the chains empty.
LEMMA RegisterInv ==
  ASSUME IInv, NEW r \in Requests, Register(r)
  PROVE  IInv'
<1>1. TypeOK'
  BY DEF IInv, Register, TypeOK, IdentityCalls
<1>2. /\ helper'[r] = "waiting" /\ authority'[r] = "RegisterIdentity"
      /\ authority[r] = "idle" /\ service[r] = "idle"
      /\ pimgr[r] = NoRecord /\ trading[r] = NoRecord
      /\ \A call \in IdentityCalls \cup TradingCalls : <<call, r>> \notin late
  BY DEF IInv, Register, TypeOK, IdentityCalls, TradingCalls, RequestInv, IdentityOrder, TradingOrder,
         AnswersAgree, Before
<1>3. RequestInv(r)'
  BY <1>2
     DEF Register, IdentityCalls, TradingCalls, RequestInv, IdentityOrder, TradingOrder,
         AnswersAgree, Before
<1>4. ASSUME NEW q \in Requests, q # r
      PROVE  RequestInv(q)'
  BY <1>4, RequestUntouched DEF IInv, Register, TypeOK
<1> QED
  BY <1>1, <1>3, <1>4 DEF IInv

\* The transaction server is asked when the identity is complete.
LEMMA AuthorityPostsInv ==
  ASSUME IInv, NEW r \in Requests, AuthorityPosts(r)
  PROVE  IInv'
<1>1. TypeOK'
  BY DEF IInv, AuthorityPosts, TypeOK, TradingCalls
<1>2. /\ authority'[r] = "waiting" /\ service'[r] = "RegisterTradingIdentity"
      /\ authority[r] = "PostTradingIdentity" /\ service[r] = "idle"
      /\ Complete(r) /\ trading[r] = NoRecord /\ helper[r] # "registered" /\ helper[r] # "idle"
      /\ \A call \in IdentityCalls \cup TradingCalls : <<call, r>> \notin late
  BY DEF IInv, AuthorityPosts, TypeOK, IdentityCalls, TradingCalls, RequestInv, IdentityOrder, TradingOrder,
         AnswersAgree, Before
<1>3. RequestInv(r)'
  BY <1>2
     DEF AuthorityPosts, Complete, Recorded, IdentityCalls, TradingCalls, RequestInv, IdentityOrder, TradingOrder,
         AnswersAgree, Before
<1>4. ASSUME NEW q \in Requests, q # r
      PROVE  RequestInv(q)'
  BY <1>4, RequestUntouched DEF IInv, AuthorityPosts, TypeOK
<1> QED
  BY <1>1, <1>3, <1>4 DEF IInv

\* The authority answers what the transaction server has.
LEMMA AuthorityAnswersInv ==
  ASSUME IInv, NEW r \in Requests, AuthorityAnswers(r)
  PROVE  IInv'
<1>1. TypeOK'
  BY DEF IInv, AuthorityAnswers, TypeOK
<1>2. /\ authority'[r] = (IF service[r] = "ok" THEN "ok" ELSE "error")
      /\ authority[r] = "waiting" /\ service[r] \in {"ok", "error"}
      /\ helper[r] # "registered" /\ helper[r] # "idle"
  BY DEF IInv, AuthorityAnswers, Answered, TypeOK, RequestInv, AnswersAgree
<1>3. RequestInv(r)'
  BY <1>2
     DEF IInv, AuthorityAnswers, Complete, Recorded, IdentityCalls, TradingCalls, RequestInv, IdentityOrder, TradingOrder,
         AnswersAgree, Before
<1>4. ASSUME NEW q \in Requests, q # r
      PROVE  RequestInv(q)'
  BY <1>4, RequestUntouched DEF IInv, AuthorityAnswers, TypeOK
<1> QED
  BY <1>1, <1>3, <1>4 DEF IInv

\* The helper tells the user what the authority has answered.
LEMMA HelperAnswersInv ==
  ASSUME IInv, NEW r \in Requests, HelperAnswers(r)
  PROVE  IInv'
<1>1. TypeOK'
  BY DEF IInv, HelperAnswers, TypeOK
<1>2. AnswersAgree(r)'
  BY DEF IInv, HelperAnswers, TypeOK, RequestInv, AnswersAgree
<1>3. RequestInv(r)'
  BY <1>2, OrderKept DEF IInv, HelperAnswers, RequestInv
<1>4. ASSUME NEW q \in Requests, q # r
      PROVE  RequestInv(q)'
  BY <1>4, RequestUntouched DEF IInv, HelperAnswers, TypeOK
<1> QED
  BY <1>1, <1>3, <1>4 DEF IInv

\* A call that fails leaves the chains as it found them.
LEMMA CallFailsInv ==
  ASSUME IInv, NEW r \in Requests, CallFails(r)
  PROVE  IInv'
<1>1. CASE /\ authority[r] \in IdentityCalls \cup {"PostTradingIdentity"}
             /\ authority' = [authority EXCEPT ![r] = "error"]
             /\ UNCHANGED service
  <2>1. TypeOK'
    BY <1>1, RegistrationAssumption DEF IInv, CallFails, TypeOK, IdentityCalls, TradingCalls
  <2>2. authority'[r] = "error" /\ service[r] = "idle" /\ helper[r] \notin {"idle", "registered"}
    BY <1>1 DEF IInv, CallFails, TypeOK, IdentityCalls, RequestInv, TradingOrder,
           AnswersAgree
  <2>3. RequestInv(r)'
    BY <1>1, <2>2
       DEF IInv, CallFails, Complete, Recorded, IdentityCalls, TradingCalls, RequestInv, IdentityOrder, TradingOrder,
           AnswersAgree, Before
  <2>4. ASSUME NEW q \in Requests, q # r
        PROVE  RequestInv(q)'
    BY <1>1, <2>4, RequestUntouched DEF IInv, CallFails, TypeOK
  <2> QED
    BY <2>1, <2>3, <2>4 DEF IInv
<1>2. CASE /\ service[r] \in TradingCalls
             /\ service' = [service EXCEPT ![r] = "error"]
             /\ UNCHANGED authority
  <2>1. TypeOK'
    BY <1>2, RegistrationAssumption DEF IInv, CallFails, TypeOK, IdentityCalls, TradingCalls
  <2>2. service'[r] = "error" /\ authority[r] \in {"waiting", "error"} /\ helper[r] \notin {"idle", "registered"}
    BY <1>2 DEF IInv, CallFails, TypeOK, TradingCalls, RequestInv, TradingOrder,
           AnswersAgree
  <2>3. RequestInv(r)'
    BY <1>2, <2>2
       DEF IInv, CallFails, Complete, Recorded, IdentityCalls, TradingCalls, RequestInv, IdentityOrder, TradingOrder,
           AnswersAgree, Before
  <2>4. ASSUME NEW q \in Requests, q # r
        PROVE  RequestInv(q)'
    BY <1>2, <2>4, RequestUntouched DEF IInv, CallFails, TypeOK
  <2> QED
    BY <2>1, <2>3, <2>4 DEF IInv
<1> QED
  BY <1>1, <1>2, CallOrder DEF CallFails

\* An invocation given up for lost still finds the chains as its call did.
LEMMA SubmitTimesOutInv ==
  ASSUME IInv, NEW r \in Requests, SubmitTimesOut(r)
  PROVE  IInv'
<1>1. CASE /\ authority[r] \in IdentityCalls
             /\ late' = late \cup {<<authority[r], r>>}
             /\ authority' = [authority EXCEPT ![r] = "error"]
             /\ UNCHANGED service
  <2>1. TypeOK'
    BY <1>1, RegistrationAssumption DEF IInv, SubmitTimesOut, TypeOK, IdentityCalls, TradingCalls
  <2>2. /\ authority'[r] = "error" /\ service[r] = "idle"
        /\ helper[r] \notin {"idle", "registered"} /\ Before(authority[r], r)
        /\ \A call \in IdentityCalls \cup TradingCalls :
             <<call, r>> \in late' => call = authority[r]
    BY <1>1 DEF IInv, SubmitTimesOut, TypeOK, IdentityCalls, TradingCalls, RequestInv, IdentityOrder,
           TradingOrder, AnswersAgree
  <2>3. RequestInv(r)'
    BY <1>1, <2>2
       DEF IInv, SubmitTimesOut, Complete, Recorded, IdentityCalls, TradingCalls, RequestInv, IdentityOrder, TradingOrder,
           AnswersAgree, Before
  <2>4. ASSUME NEW q \in Requests, q # r
        PROVE  RequestInv(q)'
    BY <1>1, <2>4, RequestUntouched DEF IInv, SubmitTimesOut, TypeOK
  <2> QED
    BY <2>1, <2>3, <2>4 DEF IInv
<1>2. CASE /\ service[r] \in TradingCalls
             /\ late' = late \cup {<<service[r], r>>}
             /\ service' = [service EXCEPT ![r] = "error"]
             /\ UNCHANGED authority
  <2>1. TypeOK'
    BY <1>2, RegistrationAssumption DEF IInv, SubmitTimesOut, TypeOK, IdentityCalls, TradingCalls
  <2>2. /\ service'[r] = "error" /\ authority[r] \in {"waiting", "error"}
        /\ helper[r] \notin {"idle", "registered"} /\ Before(service[r], r)
        /\ \A call \in IdentityCalls \cup TradingCalls :
             <<call, r>> \in late' => call = service[r]
    BY <1>2 DEF IInv, SubmitTimesOut, TypeOK, IdentityCalls, TradingCalls, RequestInv, IdentityOrder,
           TradingOrder, AnswersAgree
  <2>3. RequestInv(r)'
    BY <1>2, <2>2
       DEF IInv, SubmitTimesOut, Complete, Recorded, IdentityCalls, TradingCalls, RequestInv, IdentityOrder, TradingOrder,
           AnswersAgree, Before
  <2>4. ASSUME NEW q \in Requests, q # r
        PROVE  RequestInv(q)'
    BY <1>2, <2>4, RequestUntouched DEF IInv, SubmitTimesOut, TypeOK
  <2> QED
    BY <2>1, <2>3, <2>4 DEF IInv
<1> QED
  BY <1>1, <1>2, CallOrder DEF SubmitTimesOut

\* A caller that gives up leaves the one it called where it was.
LEMMA RequestTimesOutInv ==
  ASSUME IInv, NEW r \in Requests, RequestTimesOut(r)
  PROVE  IInv'
<1>1. CASE helper' = [helper EXCEPT ![r] = "failed"] /\ UNCHANGED authority
  <2>1. TypeOK'
    BY <1>1, RegistrationAssumption DEF IInv, RequestTimesOut, TypeOK, IdentityCalls, TradingCalls
  <2>2. helper'[r] = "failed"
    BY <1>1 DEF IInv, RequestTimesOut, TypeOK, IdentityCalls
  <2>3. RequestInv(r)'
    BY <1>1, <2>2
       DEF IInv, RequestTimesOut, Complete, Recorded, IdentityCalls, TradingCalls, RequestInv, IdentityOrder, TradingOrder,
           AnswersAgree, Before
  <2>4. ASSUME NEW q \in Requests, q # r
        PROVE  RequestInv(q)'
    BY <1>1, <2>4, RequestUntouched DEF IInv, RequestTimesOut, TypeOK
  <2> QED
    BY <2>1, <2>3, <2>4 DEF IInv
<1>2. CASE /\ authority[r] = "waiting"
             /\ authority' = [authority EXCEPT ![r] = "error"]
             /\ UNCHANGED helper
  <2>1. TypeOK'
    BY <1>2, RegistrationAssumption DEF IInv, RequestTimesOut, TypeOK, IdentityCalls, TradingCalls
  <2>2. /\ authority'[r] = "error" /\ Complete(r)
        /\ \A call \in IdentityCalls : <<call, r>> \notin late
    BY <1>2 DEF IInv, RequestTimesOut, TypeOK, RequestInv, IdentityOrder, IdentityCalls
  <2>3. RequestInv(r)'
    BY <1>2, <2>2
       DEF IInv, RequestTimesOut, Complete, Recorded, IdentityCalls, TradingCalls, RequestInv, IdentityOrder, TradingOrder,
           AnswersAgree, Before
  <2>4. ASSUME NEW q \in Requests, q # r
        PROVE  RequestInv(q)'
    BY <1>2, <2>4, RequestUntouched DEF IInv, RequestTimesOut, TypeOK
  <2> QED
    BY <2>1, <2>3, <2>4 DEF IInv
<1> QED
  BY <1>1, <1>2, CallOrder DEF RequestTimesOut

\* An invocation given up for lost commits in the state its call found.
LEMMA LateCommitInv == IInv /\ LateCommit => IInv'
<1> SUFFICES ASSUME IInv, NEW t \in late, Applied(t[1], t[2]), late' = late \ {t},
                    UNCHANGED <<helper, authority, service, timeouts, failures>>
             PROVE  IInv'
  BY DEF LateCommit
<1>1. PICK call \in IdentityCalls \cup TradingCalls, r \in Requests : t = <<call, r>>
  BY DEF IInv, TypeOK
<1>2. Before(call, r)
  BY <1>1 DEF IInv, RequestInv, IdentityOrder, TradingOrder
<1>3. /\ pimgr' \in [Requests -> [profile : BOOLEAN, key : Keys \cup {NoKey}] \cup {NoRecord}]
      /\ trading' \in [Requests -> Keys \cup {NoKey, NoRecord}]
      /\ After(call, r)'
      /\ call \in IdentityCalls => trading' = trading
      /\ call \in TradingCalls => pimgr' = pimgr
      /\ \A q \in Requests : q # r => pimgr'[q] = pimgr[q] /\ trading'[q] = trading[q]
  BY <1>1, <1>2, AppliedStep DEF IInv
<1>4. TypeOK'
  BY <1>3 DEF IInv, TypeOK
<1>5. ASSUME NEW q \in Requests, q # r
      PROVE  RequestInv(q)'
  BY <1>3, <1>5, RequestUntouched DEF IInv
<1>6. RequestInv(r)'
  <2>1. CASE call \in IdentityCalls
    <3>1. /\ authority[r] = "error" /\ service[r] = "idle"
          /\ trading'[r] = NoRecord
      BY <1>1, <1>3, <2>1 DEF IInv, RequestInv, IdentityOrder, TradingOrder, Before
    <3>2. \A c \in IdentityCalls \cup TradingCalls : <<c, r>> \notin late'
      <4>1. ASSUME NEW c \in IdentityCalls, <<c, r>> \in late
            PROVE  c = call
        <5>1. Before(c, r)
          BY <4>1 DEF IInv, RequestInv, IdentityOrder
        <5> QED
          BY <1>2, <2>1, <4>1, <5>1, BeforeUnique
      <4>2. ASSUME NEW c \in TradingCalls
            PROVE  <<c, r>> \notin late
        BY <3>1 DEF IInv, RequestInv, TradingOrder
      <4> QED
        BY <1>1, <4>1, <4>2
    <3> QED
      BY <3>1, <3>2
         DEF IInv, IdentityCalls, TradingCalls, RequestInv, IdentityOrder, TradingOrder,
             AnswersAgree, Before
  <2>2. CASE call \in TradingCalls
    <3>1. /\ service[r] = "error" /\ authority[r] \in {"waiting", "error", "ok"}
          /\ pimgr'[r] = pimgr[r] /\ Complete(r)
          /\ trading'[r] \in {NoKey, KeyOf[r]}
      BY <1>1, <1>3, <2>2
         DEF IInv, TradingCalls, RequestInv, IdentityOrder, TradingOrder, Before, After
    <3>2. \A c \in IdentityCalls \cup TradingCalls : <<c, r>> \notin late'
      BY <1>1, <1>2, <2>2, <3>1, BeforeUnique
         DEF IInv, RequestInv, IdentityOrder, TradingOrder
    <3> QED
      BY <3>1, <3>2
         DEF IInv, IdentityCalls, TradingCalls, RequestInv, IdentityOrder, TradingOrder,
             AnswersAgree, Complete, Recorded
  <2> QED
    BY <2>1, <2>2
<1> QED
  BY <1>4, <1>5, <1>6 DEF IInv

\* An invocation that is lost for good changes nothing.
LEMMA LateLossInv == IInv /\ LateLoss => IInv'
<1> SUFFICES ASSUME IInv, NEW t \in late, late' = late \ {t},
                    UNCHANGED <<helper, authority, service, pimgr, trading, timeouts, failures>>
             PROVE  IInv'
  BY DEF LateLoss
<1>1. TypeOK'
  BY DEF IInv, TypeOK
<1>2. ASSUME NEW q \in Requests
      PROVE  RequestInv(q)'
  BY RequestUntouched DEF IInv
<1> QED
  BY <1>1, <1>2 DEF IInv

\* The invariant is inductive.
LEMMA NextIInv == IInv /\ [Next]_vars => IInv'
<1> SUFFICES ASSUME IInv, [Next]_vars
             PROVE  IInv'
  OBVIOUS
<1>1. CASE UNCHANGED vars
  <2>1. TypeOK'
    BY <1>1 DEF IInv, TypeOK, vars
  <2>2. ASSUME NEW q \in Requests
        PROVE  RequestInv(q)'
    BY <1>1, RequestUntouched DEF IInv, vars
  <2> QED
    BY <2>1, <2>2 DEF IInv
<1> QED
  BY <1>1, RegisterInv, AuthoritySubmitsInv, AuthorityPostsInv, AuthorityAnswersInv,
     ServiceSubmitsInv, HelperAnswersInv, CallFailsInv, SubmitTimesOutInv,
     RequestTimesOutInv, LateCommitInv, LateLossInv
     DEF Next, Server

LEMMA Invariance == Spec => []IInv
BY InitIInv, NextIInv, PTL DEF Spec

\* The records of both chains and the steps of all handlers are well formed.
THEOREM TypeCorrect == Spec => []TypeOK
<1>1. IInv => TypeOK
  BY DEF IInv
<1> QED
  BY <1>1, Invariance, PTL

\* A user of the transaction chain has a complete identity with the same key,
\* through any failures, timeouts and invocations that commit late.
THEOREM TradingUsersHaveIdentity == Spec => []TradingHasIdentity
<1>1. IInv => TradingHasIdentity
  <2> SUFFICES ASSUME IInv, NEW r \in Requests, trading[r] # NoRecord
               PROVE  /\ pimgr[r] # NoRecord
                      /\ pimgr[r].profile /\ pimgr[r].key # NoKey
                      /\ trading[r] \in {NoKey, pimgr[r].key}
    BY DEF TradingHasIdentity
  <2>1. service[r] # "idle"
    BY DEF IInv, RequestInv, TradingOrder, Before
  <2>2. Complete(r) /\ KeyOf[r] # NoKey
    BY <2>1, RegistrationAssumption DEF IInv, RequestInv, IdentityOrder, Keys
  <2>3. trading[r] \in {NoKey, KeyOf[r]}
    BY DEF IInv, RequestInv, TradingOrder
  <2> QED
    BY <2>2, <2>3 DEF Complete, Recorded
<1> QED
  BY <1>1, Invariance, PTL

\* A user who is told that she is registered can log in with her key.
THEOREM RegisteredUsersCanLogin == Spec => []RegisteredCanLogin
<1>1. IInv => RegisteredCanLogin
  BY DEF IInv, RequestInv, AnswersAgree, TradingOrder, RegisteredCanLogin
<1> QED
  BY <1>1, Invariance, PTL

-----------------------------------------------------------------------------

\* What a call that commits in the state it finds takes away: nothing.
LEMMA AppliedKeeps ==
  ASSUME TypeOK, NEW r \in Requests, NEW call \in IdentityCalls \cup TradingCalls,
         Before(call, r), Applied(call, r)
  PROVE  /\ pimgr[r] # NoRecord =>
              /\ pimgr'[r] # NoRecord
              /\ pimgr[r].profile => pimgr'[r].profile
              /\ pimgr[r].key # NoKey => pimgr'[r].key = pimgr[r].key
         /\ trading[r] # NoRecord => trading'[r] # NoRecord
         /\ trading[r] \in Keys => trading'[r] = trading[r]
<1>1. /\ After(call, r)'
      /\ call \in IdentityCalls => trading' = trading
      /\ call \in TradingCalls => pimgr' = pimgr
  BY AppliedStep
<1>2. NoKey \notin Keys /\ NoRecord \notin Keys
  BY RegistrationAssumption, AbsentAssumption
<1>3. KeyOf[r] # NoRecord /\ NoKey # NoRecord
  BY AbsentAssumption DEF Keys
<1>4. CASE call \in IdentityCalls
  BY <1>1, <1>4 DEF Before, After, Complete, Recorded, IdentityCalls
<1>5. CASE call \in TradingCalls
  BY <1>1, <1>2, <1>3, <1>5 DEF Before, After, TradingCalls
<1> QED
  BY <1>4, <1>5

\* Neither chain loses what a registration wrote: every invocation that
\* commits, late or not, finds the state it was meant for.
THEOREM NothingIsEverLost == Spec => NothingIsLost
<1> DEFINE Kept(r) ==
      /\ pimgr[r] # NoRecord =>
           /\ pimgr'[r] # NoRecord
           /\ pimgr[r].profile => pimgr'[r].profile
           /\ pimgr[r].key # NoKey => pimgr'[r].key = pimgr[r].key
      /\ trading[r] # NoRecord => trading'[r] # NoRecord
      /\ trading[r] \in Keys => trading'[r] = trading[r]
<1>1. IInv /\ [Next]_vars => [\A r \in Requests : Kept(r)]_vars
  <2> SUFFICES ASSUME IInv, Next, NEW q \in Requests
               PROVE  Kept(q)
    OBVIOUS
  <2> USE DEF IInv
  <2>1. ASSUME NEW r \in Requests, NEW call \in IdentityCalls \cup TradingCalls,
               Before(call, r), Applied(call, r)
        PROVE  Kept(q)
    <3>1. CASE q = r
      BY <2>1, <3>1, AppliedKeeps
    <3>2. CASE q # r
      <4>1. pimgr'[q] = pimgr[q] /\ trading'[q] = trading[q]
        BY <2>1, <3>2, AppliedStep
      <4> QED
        BY <4>1
    <3> QED
      BY <3>1, <3>2
  <2>2. ASSUME NEW r \in Requests, AuthoritySubmits(r)
        PROVE  Kept(q)
    <3>1. PICK call \in IdentityCalls : authority[r] = call
      BY <2>2, CallOrder DEF AuthoritySubmits
    <3> QED
      BY <2>1, <2>2, <3>1 DEF AuthoritySubmits, RequestInv, IdentityOrder
  <2>3. ASSUME NEW r \in Requests, ServiceSubmits(r)
        PROVE  Kept(q)
    <3>1. PICK call \in TradingCalls : service[r] = call
      BY <2>3, CallOrder DEF ServiceSubmits
    <3> QED
      BY <2>1, <2>3, <3>1 DEF ServiceSubmits, RequestInv, TradingOrder
  <2>4. CASE LateCommit
    <3>1. PICK t \in late : Applied(t[1], t[2])
      BY <2>4 DEF LateCommit
    <3>2. PICK call \in IdentityCalls \cup TradingCalls, r \in Requests : t = <<call, r>>
      BY DEF TypeOK
    <3>3. Before(call, r)
      BY <3>2 DEF RequestInv, IdentityOrder, TradingOrder
    <3> QED
      BY <2>1, <3>1, <3>2, <3>3
  <2>5. CASE UNCHANGED <<pimgr, trading>>
    BY <2>5
  <2> QED
    BY <2>2, <2>3, <2>4, <2>5
       DEF Next, Server, Register, AuthorityPosts, AuthorityAnswers, HelperAnswers, CallFails,
           SubmitTimesOut, RequestTimesOut, LateLoss
<1> QED
  BY <1>1, Invariance, PTL DEF Spec, NothingIsLost

=============================================================================
