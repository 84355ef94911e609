---------------------------- MODULE Registration ----------------------------
(***************************************************************************)
(* The registration of a user across five processes: the helper server of  *)
(* the client device (apiRegisterHandler), the authority server            *)
(* (registerHandler), the identity chaincode, the transaction server       *)
(* (registerTradingIdentityHandler) and the transaction chaincode.         *)
(*                                                                         *)
(* Each process calls the next one and waits with a timeout of its own:    *)
(* 45 s in the helper, 30 s in the authority, up to 80 s in the Fabric     *)
(* Gateway.  A caller that gives up does not stop the one it called.       *)
(*                                                                         *)
(* A request is one run of the protocol.  RegisterIdentity derives the     *)
(* user DID from the ID of its transaction, so a DID is the request that   *)
(* created it: a retry is another request and gets another DID.            *)
(*                                                                         *)
(* A definition X_Bug is a mutated form of X: no specification uses it; it *)
(* shows that a property would notice that bug.                            *)
(***************************************************************************)
EXTENDS Naturals, FiniteSets

CONSTANTS
  Requests,        \* the registrations users ask for
  KeyOf,           \* the public key of the device each one comes from
  NoKey,           \* no public key has been set
  NoRecord,        \* no record in the world state
  MaxTimeouts,     \* how many callers give up
  MaxFailures      \* how many calls fail without an effect

Keys == {KeyOf[r] : r \in Requests}

ASSUME RegistrationAssumption ==
  /\ NoKey \notin Keys
  /\ MaxTimeouts \in Nat /\ MaxFailures \in Nat

ASSUME AbsentAssumption ==
  /\ NoRecord \notin Keys \cup {NoKey}
  /\ NoRecord \notin [profile : BOOLEAN, key : Keys \cup {NoKey}]

VARIABLES
  helper,      \* apiRegisterHandler: what the user is told
  authority,   \* registerHandler: the call it makes next
  service,     \* registerTradingIdentityHandler: the call it makes next
  pimgr,       \* the identity chain: PIMGR of each user DID
  trading,     \* the transaction chain: TRADING_IDENTITY of each user DID
  late,        \* the submitted transactions whose caller gave up
  timeouts, failures

vars == <<helper, authority, service, pimgr, trading, late, timeouts, failures>>

Init ==
  /\ helper = [r \in Requests |-> "idle"]
  /\ authority = [r \in Requests |-> "idle"]
  /\ service = [r \in Requests |-> "idle"]
  /\ pimgr = [r \in Requests |-> NoRecord]
  /\ trading = [r \in Requests |-> NoRecord]
  /\ late = {}
  /\ timeouts = 0
  /\ failures = 0

-----------------------------------------------------------------------------
(* The two chaincodes: which invocation is allowed, and what it writes.    *)

IdentityCalls == {"RegisterIdentity", "SetProfile", "SetPublicKey"}
TradingCalls == {"RegisterTradingIdentity", "SetTradingPublicKey"}

\* The calls of a request come in order and for the record of its own DID, so
\* the chaincode refuses none that its handler makes.
Allowed(call, r) ==
  CASE call = "RegisterIdentity" -> pimgr[r] = NoRecord
    [] call \in {"SetProfile", "SetPublicKey"} -> pimgr[r] # NoRecord
    [] call = "RegisterTradingIdentity" -> trading[r] = NoRecord
    [] call = "SetTradingPublicKey" -> trading[r] # NoRecord

\* The record of the identity chain after a call.
IdentityAfter(call, r) ==
  CASE call = "RegisterIdentity" -> [profile |-> FALSE, key |-> NoKey]
    [] call = "SetProfile" -> [pimgr[r] EXCEPT !.profile = TRUE]
    [] call = "SetPublicKey" -> [pimgr[r] EXCEPT !.key = KeyOf[r]]

\* The public key of the transaction chain after a call.
TradingAfter(call, r) ==
  IF call = "RegisterTradingIdentity" THEN NoKey ELSE KeyOf[r]

\* The invocation commits.
Applied(call, r) ==
  /\ Allowed(call, r)
  /\ IF call \in IdentityCalls
     THEN /\ pimgr' = [pimgr EXCEPT ![r] = IdentityAfter(call, r)]
          /\ UNCHANGED trading
     ELSE /\ trading' = [trading EXCEPT ![r] = TradingAfter(call, r)]
          /\ UNCHANGED pimgr

-----------------------------------------------------------------------------
(* The authority server.                                                   *)

\* Mutated form: the trading identity is asked for before the public key is
\* set on the identity chain.
AuthorityNext_TradingFirst ==
  [RegisterIdentity |-> "SetProfile", SetProfile |-> "PostTradingIdentity",
   SetPublicKey |-> "PostTradingIdentity"]

\* The calls registerHandler submits, each with the one after it; GetPIMgr,
\* which only reads, is part of the step to SetProfile.
AuthorityNext ==
  [RegisterIdentity |-> "SetProfile", SetProfile |-> "SetPublicKey",
   SetPublicKey |-> "PostTradingIdentity"]

\* The user asks; the helper has a key pair and posts a signed request,
\* which the authority verifies.
Register(r) ==
  /\ helper[r] = "idle"
  /\ helper' = [helper EXCEPT ![r] = "waiting"]
  /\ authority' = [authority EXCEPT ![r] = "RegisterIdentity"]
  /\ UNCHANGED <<service, pimgr, trading, late, timeouts, failures>>

AuthoritySubmits(r) ==
  /\ authority[r] \in DOMAIN AuthorityNext
  /\ Applied(authority[r], r)
  /\ authority' = [authority EXCEPT ![r] = AuthorityNext[@]]
  /\ UNCHANGED <<helper, service, late, timeouts, failures>>

\* registerTradingIdentity: the HTTP request to the transaction server.
AuthorityPosts(r) ==
  /\ authority[r] = "PostTradingIdentity"
  /\ authority' = [authority EXCEPT ![r] = "waiting"]
  /\ service' = [service EXCEPT ![r] = "RegisterTradingIdentity"]
  /\ UNCHANGED <<helper, pimgr, trading, late, timeouts, failures>>

\* The transaction server has answered with a status between 200 and 299.
Answered(r) == service[r] = "ok"

\* Mutated form: an error of the transaction server is never handled.
AuthorityAnswers_OnlySuccess(r) ==
  /\ authority[r] = "waiting"
  /\ service[r] = "ok"
  /\ authority' = [authority EXCEPT ![r] = "ok"]
  /\ UNCHANGED <<helper, service, pimgr, trading, late, timeouts, failures>>

AuthorityAnswers(r) ==
  /\ authority[r] = "waiting"
  /\ service[r] \in {"ok", "error"}
  /\ authority' = [authority EXCEPT ![r] = IF Answered(r) THEN "ok" ELSE "error"]
  /\ UNCHANGED <<helper, service, pimgr, trading, late, timeouts, failures>>

-----------------------------------------------------------------------------
(* The transaction server.                                                 *)

\* Mutated form: the trading identity is confirmed before it has a key.
ServiceNext_KeySkipped ==
  [RegisterTradingIdentity |-> "ok", SetTradingPublicKey |-> "ok"]

ServiceNext ==
  [RegisterTradingIdentity |-> "SetTradingPublicKey", SetTradingPublicKey |-> "ok"]

ServiceSubmits(r) ==
  /\ service[r] \in DOMAIN ServiceNext
  /\ Applied(service[r], r)
  /\ service' = [service EXCEPT ![r] = ServiceNext[@]]
  /\ UNCHANGED <<helper, authority, late, timeouts, failures>>

-----------------------------------------------------------------------------
(* The helper.                                                             *)

HelperAnswers(r) ==
  /\ helper[r] = "waiting"
  /\ authority[r] \in {"ok", "error"}
  /\ helper' = [helper EXCEPT ![r] = IF authority[r] = "ok" THEN "registered" ELSE "failed"]
  /\ UNCHANGED <<authority, service, pimgr, trading, late, timeouts, failures>>

-----------------------------------------------------------------------------
(* The environment.                                                        *)

\* A call fails and has no effect; its caller answers with an error.
CallFails(r) ==
  /\ failures < MaxFailures
  /\ failures' = failures + 1
  /\ \/ /\ authority[r] \in DOMAIN AuthorityNext \cup {"PostTradingIdentity"}
        /\ authority' = [authority EXCEPT ![r] = "error"]
        /\ UNCHANGED service
     \/ /\ service[r] \in DOMAIN ServiceNext
        /\ service' = [service EXCEPT ![r] = "error"]
        /\ UNCHANGED authority
  /\ UNCHANGED <<helper, pimgr, trading, late, timeouts>>

\* A caller of the gateway gives up; the transaction is still on its way.
SubmitTimesOut(r) ==
  /\ timeouts < MaxTimeouts
  /\ timeouts' = timeouts + 1
  /\ \/ /\ authority[r] \in DOMAIN AuthorityNext
        /\ late' = late \cup {<<authority[r], r>>}
        /\ authority' = [authority EXCEPT ![r] = "error"]
        /\ UNCHANGED service
     \/ /\ service[r] \in DOMAIN ServiceNext
        /\ late' = late \cup {<<service[r], r>>}
        /\ service' = [service EXCEPT ![r] = "error"]
        /\ UNCHANGED authority
  /\ UNCHANGED <<helper, pimgr, trading, failures>>

\* An HTTP caller gives up; the handler it called goes on.
RequestTimesOut(r) ==
  /\ timeouts < MaxTimeouts
  /\ timeouts' = timeouts + 1
  /\ \/ /\ helper[r] = "waiting"
        /\ helper' = [helper EXCEPT ![r] = "failed"]
        /\ UNCHANGED authority
     \/ /\ authority[r] = "waiting"
        /\ authority' = [authority EXCEPT ![r] = "error"]
        /\ UNCHANGED helper
  /\ UNCHANGED <<service, pimgr, trading, late, failures>>

\* An abandoned transaction commits after all, or never does.
LateCommit ==
  \E t \in late :
    /\ Applied(t[1], t[2])
    /\ late' = late \ {t}
    /\ UNCHANGED <<helper, authority, service, timeouts, failures>>

LateLoss ==
  \E t \in late :
    /\ late' = late \ {t}
    /\ UNCHANGED <<helper, authority, service, pimgr, trading, timeouts, failures>>

Server(r) ==
  \/ AuthoritySubmits(r) \/ AuthorityPosts(r) \/ AuthorityAnswers(r)
  \/ ServiceSubmits(r) \/ HelperAnswers(r)

Next ==
  \/ \E r \in Requests :
       Register(r) \/ Server(r) \/ CallFails(r) \/ SubmitTimesOut(r) \/ RequestTimesOut(r)
  \/ LateCommit \/ LateLoss

Spec == Init /\ [][Next]_vars

\* Handlers are goroutines, scheduled while they have something to do.
FairSpec == Spec /\ \A r \in Requests : WF_vars(Server(r))

-----------------------------------------------------------------------------
(* Properties.                                                             *)

\* The records of the chains and the steps of the handlers are well formed.
TypeOK ==
  /\ helper \in [Requests -> {"idle", "waiting", "registered", "failed"}]
  /\ authority \in [Requests -> IdentityCalls
                                  \cup {"idle", "PostTradingIdentity", "waiting", "ok", "error"}]
  /\ service \in [Requests -> TradingCalls \cup {"idle", "ok", "error"}]
  /\ pimgr \in [Requests -> [profile : BOOLEAN, key : Keys \cup {NoKey}] \cup {NoRecord}]
  /\ trading \in [Requests -> Keys \cup {NoKey, NoRecord}]
  /\ late \subseteq (IdentityCalls \cup TradingCalls) \X Requests
  /\ timeouts \in 0..MaxTimeouts
  /\ failures \in 0..MaxFailures

\* A user exists on the transaction chain only with a complete identity: her
\* profile and the same key on the identity chain.  Nothing compares the two
\* chains; only the order of the calls keeps them together, through failures
\* and transactions that commit late.
TradingHasIdentity ==
  \A r \in Requests :
    trading[r] # NoRecord =>
      /\ pimgr[r] # NoRecord
      /\ pimgr[r].profile /\ pimgr[r].key # NoKey
      /\ trading[r] \in {NoKey, pimgr[r].key}

\* A user told that she is registered can log in with the key of her device
\* from then on.
RegisteredCanLogin ==
  \A r \in Requests : helper[r] = "registered" => trading[r] = KeyOf[r]

\* Neither chain loses what a registration wrote: a late transaction never
\* takes a public key or a profile away again.
NothingIsLost ==
  [][\A r \in Requests :
       /\ pimgr[r] # NoRecord =>
            /\ pimgr'[r] # NoRecord
            /\ pimgr[r].profile => pimgr'[r].profile
            /\ pimgr[r].key # NoKey => pimgr'[r].key = pimgr[r].key
       /\ trading[r] # NoRecord => trading'[r] # NoRecord
       /\ trading[r] \in Keys => trading'[r] = trading[r]]_vars

\* Every user who asks is told how it went.
EveryRequestAnswered ==
  \A r \in Requests : (helper[r] = "waiting") ~> (helper[r] \in {"registered", "failed"})

=============================================================================
