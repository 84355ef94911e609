--------------------------- MODULE LaunchService ---------------------------
(***************************************************************************)
(* The transaction launch of the transaction server (transaction_launch.go)*)
(* running concurrently on a Fabric channel.                               *)
(*                                                                         *)
(* Each HTTP request is served by a handler that goes through the calls of *)
(* transactionLaunchHandlerWithDependencies one at a time.  A call that    *)
(* submits is two steps: a peer simulates it on the committed state        *)
(* (Endorse), and later it is ordered, validated and committed (Commit) or *)
(* invalidated because a key it read was written in between (Invalidate).  *)
(* The gateway's timeouts (gateway.go) may give the handler an error while *)
(* the invocation is still on its way (LoseAnswer); the server may crash;  *)
(* a call may fail outright (CallFails).  Budgets bound these faults.      *)
(*                                                                         *)
(* The committed state is the key-value store "world"; TransactionLedger   *)
(* read through LedgerOf below is the abstract specification it follows.   *)
(*                                                                         *)
(* A definition X_Bug is a mutated form of X: no specification uses it; it *)
(* shows that a property would notice that bug.                            *)
(***************************************************************************)
EXTENDS Integers

CONSTANTS
  Users, Assets, Keys, MaxUint, Times,
  PriceInputs, ModeInputs, LegalInputs, StatusInputs, RoleInputs, ScoreInputs,
  NoIdentity, NoKey, NoCert, NoOwner, NoInfo, NoEntry,  \* of TransactionLedger
  Handlers,        \* one per launch request the server receives
  Requests,        \* the verified requests clients may send
  NoRequest,       \* the request of a handler that has none yet
  OwnerOf,         \* the owner of each asset, all registered beforehand
  InitialScore,    \* the seller score of each user at the start
  Nobody,          \* the sender of an invocation whose caller gave up
  MaxFailures, MaxLostAnswers, MaxCrashes, MaxScoreMoves  \* the budgets

\* validateTransactionLaunchRequest accepts the request, whose finalizing time
\* is in the future (zero stands for none).
ValidRequest(r) ==
  /\ r.user \in Users /\ r.asset \in Assets
  /\ r.price \in Nat \ {0}
  /\ r.mode \in 0..2
  /\ r.mode # 0 => r.final \in Times

ASSUME RequestsAssumption == \A r \in Requests : ValidRequest(r)

ASSUME HandlersAssumption == Nobody \notin Handlers /\ NoRequest \notin Requests

\* The channel before the launches: every user is registered with a key, every
\* asset with its owner.
ASSUME ChannelAssumption ==
  /\ MaxUint \in Nat /\ Times \subseteq Nat \ {0} /\ Keys # {} /\ NoKey \notin Keys
  /\ OwnerOf \in [Assets -> Users] /\ InitialScore \in [Users -> Nat]

\* The inputs of the ledger are those of the launches, and maybe others.
ASSUME InputsAssumption ==
  /\ 0..3 \subseteq LegalInputs /\ {0, 10} \subseteq StatusInputs /\ 2 \in RoleInputs
  /\ ScoreInputs \subseteq Nat
  /\ \A r \in Requests :
       r.price \in PriceInputs /\ r.mode \in ModeInputs /\ r.final \in Times \cup {0}

ASSUME AbsentAssumption ==
  /\ NoIdentity \notin [key : Keys \cup {NoKey}, sellerScore : Nat]
  /\ NoCert \notin 0..6
  /\ NoInfo \notin [asset : Assets, seller : Users, status : 0..10, mode : 0..2,
                    startTime : Nat, fixedPrice : Nat, basicPrice : Nat,
                    finalizingTime : Nat]
  /\ NoEntry \notin [asset : Assets, role : 0..2, active : BOOLEAN]

VARIABLES
  world,      \* the committed state of the channel
  flight,     \* the endorsed invocations not yet committed or invalidated
  pc,         \* the call each handler makes next, or waits for
  request,    \* the request each handler serves
  txid,       \* transactionID, once AddNewTransaction has answered
  answer,     \* what the handler answers, or will if nothing else fails
  cache,      \* activeTransactionCache of this server process
  spent       \* how much of each budget is used up

vars == <<world, flight, pc, request, txid, answer, cache, spent>>

-----------------------------------------------------------------------------
(* The world state, keyed as in contract.go.                               *)

tradingIdentityKey(u) == <<"TRADING_IDENTITY", u>>
assetCertificateKey(a) == <<"ASSET_CERT", a>>
transactionCounterKey == <<"TRANSACTION_COUNTER", 0>>
transactionInfoKey(id) == <<"TRANSACTION_INFO", id>>
userTransactionListKey(u) == <<"USER_TRANSACTION_LIST", u>>

TransactionIDs == 1..MaxUint

WorldKeys ==
  {tradingIdentityKey(u) : u \in Users} \cup {assetCertificateKey(a) : a \in Assets}
    \cup {transactionCounterKey} \cup {transactionInfoKey(id) : id \in TransactionIDs}
    \cup {userTransactionListKey(u) : u \in Users}

LedgerOf == INSTANCE TransactionLedger WITH
  identity <- [u \in Users |-> world[tradingIdentityKey(u)]],
  cert <- [a \in Assets |-> world[assetCertificateKey(a)]],
  owner <- OwnerOf,
  assetList <- [u \in Users |-> {a \in Assets : OwnerOf[a] = u}],
  counter <- world[transactionCounterKey],
  info <- [id \in TransactionIDs |-> world[transactionInfoKey(id)]],
  tradeList <- [u \in Users |-> world[userTransactionListKey(u)]]

legalStatus(a) == world[assetCertificateKey(a)]
infoOf(id) == world[transactionInfoKey(id)]
entryOf(u, id) == world[userTransactionListKey(u)][id]

-----------------------------------------------------------------------------
(* What a peer answers to an invocation: a chaincode error (refused), or   *)
(* a reply with the keys read and the values to write.  Keys no invocation *)
(* of the launch writes (indexes, owners) are left out of the read sets.   *)

endorsed(id, reads, writes) ==
  [refused |-> FALSE, reply |-> TRUE, id |-> id, reads |-> reads, writes |-> writes]
declined(id, reads) ==
  [refused |-> FALSE, reply |-> FALSE, id |-> id, reads |-> reads, writes |-> <<>>]
refused == [refused |-> TRUE]
write(key, value) == [k \in {key} |-> value]

AddNewTransactionCall(a, seller) ==
  LET id == LedgerOf!nextTransactionID IN
  IF LedgerOf!AddNewTransactionAllowed(a)
  THEN endorsed(id, {transactionCounterKey},
                [k \in {transactionCounterKey, transactionInfoKey(id)} |->
                   IF k = transactionCounterKey THEN id ELSE LedgerOf!ReviewingInfo(a, seller)])
  ELSE refused

\* Mutated form: any status may replace any other.
UpdateStatusCall_AnyTransition(id, a, targetStatus) ==
  IF targetStatus \in LedgerOf!LegalStatuses
  THEN endorsed(id, {assetCertificateKey(a)}, write(assetCertificateKey(a), targetStatus))
  ELSE refused

UpdateStatusCall(id, a, targetStatus) ==
  IF LedgerOf!UpdateStatusAllowed(a, targetStatus)
  THEN endorsed(id, {assetCertificateKey(a)}, write(assetCertificateKey(a), targetStatus))
  ELSE refused

ChangeTransactionStatusCall(id, originalStatus, newStatus) ==
  IF LedgerOf!ChangeTransactionStatusAllowed(id, originalStatus, newStatus)
  THEN endorsed(id, {transactionInfoKey(id)},
                write(transactionInfoKey(id), [infoOf(id) EXCEPT !.status = newStatus]))
  ELSE declined(id, {transactionInfoKey(id)})

\* Mutated form: the eligibility of the seller is not checked again.
StartTransactionCall_NoRecheck(id, r, startTime) ==
  LET seller == infoOf(id).seller
      asset == infoOf(id).asset
  IN
  IF /\ LedgerOf!StartTransactionReady(id, r.price, r.mode)
     /\ legalStatus(asset) = LedgerOf!expectedLegalStatus(r.mode)
     /\ LedgerOf!FinalizingTimeAccepted(r.mode, startTime, r.final)
  THEN endorsed(id,
         {transactionInfoKey(id), tradingIdentityKey(seller), assetCertificateKey(asset)},
         write(transactionInfoKey(id),
               LedgerOf!StartedInfo(infoOf(id), r.price, r.mode, startTime, r.final)))
  ELSE refused

StartTransactionCall(id, r, startTime) ==
  LET seller == infoOf(id).seller
      asset == infoOf(id).asset
  IN
  IF ~LedgerOf!StartTransactionReady(id, r.price, r.mode)
  THEN refused
  ELSE IF ~LedgerOf!SellerEligible(seller, r.price)
  THEN declined(id, {transactionInfoKey(id), tradingIdentityKey(seller)})
  ELSE IF LedgerOf!StartTransactionAllowed(id, r.price, r.mode, startTime, r.final)
  THEN endorsed(id,
         {transactionInfoKey(id), tradingIdentityKey(seller), assetCertificateKey(asset)},
         write(transactionInfoKey(id),
               LedgerOf!StartedInfo(infoOf(id), r.price, r.mode, startTime, r.final)))
  ELSE refused

\* Mutated form: the list is written without being read in the invocation, so
\* that no other write of it is noticed.
UpdateTransactionListCall_BlindWrite(u, id, a, role, active) ==
  LET key == userTransactionListKey(u) IN
  IF LedgerOf!UpdateTransactionListAllowed(u, id, role)
  THEN endorsed(id, {}, write(key, LedgerOf!UpdatedList(world[key], id, a, role, active)))
  ELSE refused

UpdateTransactionListCall(u, id, a, role, active) ==
  LET key == userTransactionListKey(u) IN
  IF LedgerOf!UpdateTransactionListAllowed(u, id, role)
  THEN endorsed(id, {key}, write(key, LedgerOf!UpdatedList(world[key], id, a, role, active)))
  ELSE refused

-----------------------------------------------------------------------------
(* The handler: the calls it makes and where each outcome leads.           *)

\* Mutated form: a rejected launch stays active in the list of its seller.
AfterSuccess_NoDeactivation ==
  [AddNewTransaction |-> "ListActive",
   ListActive |-> "CheckStatus",
   SetPending |-> "Review",
   ApproveStatus |-> "StartTransaction",
   StartTransaction |-> "LoadAndCache",
   RestoreStatus |-> "RejectTransaction",
   RejectTransaction |-> "done",
   ListInactive |-> "done"]

\* The calls that submit, each with the one that follows its success.
AfterSuccess ==
  [AddNewTransaction |-> "ListActive",
   ListActive |-> "CheckStatus",
   SetPending |-> "Review",
   ApproveStatus |-> "StartTransaction",
   StartTransaction |-> "LoadAndCache",
   RestoreStatus |-> "RejectTransaction",
   RejectTransaction |-> "ListInactive",
   ListInactive |-> "done"]

Submits == DOMAIN AfterSuccess
Evaluates == {"CheckStatus", "Review", "LoadAndCache"}
Active == Submits \cup Evaluates

\* Mutated form: a rejected application always puts the asset back to
\* Normal.
restoreLegalStatus_Always(call) == TRUE

\* Mutated form: a rejected application never puts the asset back.
restoreLegalStatus_Never(call) == FALSE

\* The restoreLegalStatus argument each call site gives rejectTransaction.
restoreLegalStatus(call) == call \in {"Review", "ApproveStatus", "StartTransaction"}

\* Mutated form: a transaction that did not start is tried again.
AfterFailure_RetryStart(call) ==
  IF call \in {"AddNewTransaction", "RestoreStatus", "RejectTransaction", "ListInactive"}
  THEN "done"
  ELSE IF call = "StartTransaction" THEN "StartTransaction"
  ELSE IF restoreLegalStatus(call) THEN "RestoreStatus" ELSE "RejectTransaction"

\* Mutated form: a transaction that did not start is not taken back.
AfterFailure_KeepsUnstarted(call) ==
  IF call \in {"AddNewTransaction", "StartTransaction", "RestoreStatus", "RejectTransaction",
               "ListInactive"}
  THEN "done"
  ELSE IF restoreLegalStatus(call) THEN "RestoreStatus" ELSE "RejectTransaction"

\* What follows a call that failed: before AddNewTransaction has answered
\* there is nothing to reject, and rejectTransaction itself gives up.
AfterFailure(call) ==
  IF call \in {"AddNewTransaction", "RestoreStatus", "RejectTransaction", "ListInactive"}
  THEN "done"
  ELSE IF restoreLegalStatus(call) THEN "RestoreStatus" ELSE "RejectTransaction"

\* The approved legal status, and the arguments of the other calls.
Call(h, startTime) ==
  LET r == request[h] IN
  CASE pc[h] = "AddNewTransaction" -> AddNewTransactionCall(r.asset, r.user)
    [] pc[h] = "ListActive" ->
         UpdateTransactionListCall(r.user, txid[h], r.asset, LedgerOf!transactionRoleSeller, TRUE)
    [] pc[h] = "SetPending" ->
         UpdateStatusCall(txid[h], r.asset, LedgerOf!legalStatusPending)
    [] pc[h] = "ApproveStatus" ->
         UpdateStatusCall(txid[h], r.asset, LedgerOf!expectedLegalStatus(r.mode))
    [] pc[h] = "StartTransaction" -> StartTransactionCall(txid[h], r, startTime)
    [] pc[h] = "RestoreStatus" ->
         UpdateStatusCall(txid[h], r.asset, LedgerOf!legalStatusNormal)
    [] pc[h] = "RejectTransaction" ->
         ChangeTransactionStatusCall(txid[h], LedgerOf!transactionStatusReviewing,
                                     LedgerOf!transactionStatusRejected)
    [] pc[h] = "ListInactive" ->
         UpdateTransactionListCall(r.user, txid[h], r.asset, LedgerOf!transactionRoleSeller, FALSE)

Waiting(h) == \E f \in flight : f.by = h

\* The handler goes on after a successful call.
Succeeds(h, id) ==
  /\ pc' = [pc EXCEPT ![h] = AfterSuccess[@]]
  /\ txid' = [txid EXCEPT ![h] = id]
  /\ UNCHANGED answer

\* The handler goes on after an error; verdict is the answer it now owes.
Fails(h, verdict) ==
  /\ pc' = [pc EXCEPT ![h] = AfterFailure(@)]
  /\ answer' = [answer EXCEPT ![h] = verdict]
  /\ UNCHANGED txid

-----------------------------------------------------------------------------

Init ==
  /\ world = [k \in WorldKeys |->
                CASE k[1] = "TRADING_IDENTITY" ->
                       [key |-> CHOOSE key \in Keys : TRUE, sellerScore |-> InitialScore[k[2]]]
                  [] k[1] = "ASSET_CERT" -> LedgerOf!legalStatusNormal
                  [] k[1] = "TRANSACTION_COUNTER" -> 0
                  [] k[1] = "TRANSACTION_INFO" -> NoInfo
                  [] k[1] = "USER_TRANSACTION_LIST" -> [id \in TransactionIDs |-> NoEntry]]
  /\ flight = {}
  /\ pc = [h \in Handlers |-> "idle"]
  /\ request = [h \in Handlers |-> NoRequest]
  /\ txid = [h \in Handlers |-> 0]
  /\ answer = [h \in Handlers |-> "none"]
  /\ cache = [id \in TransactionIDs |-> NoInfo]
  /\ spent = [failures |-> 0, lostAnswers |-> 0, crashes |-> 0, scoreMoves |-> 0]

\* verifyTransactionLaunchCredential: the seller DID belongs to the user, who
\* has a public key on the ledger, and the signature is hers.
CredentialVerifies(r) ==
  /\ world[tradingIdentityKey(r.user)] # NoIdentity
  /\ world[tradingIdentityKey(r.user)].key # NoKey

\* A request whose session, fields, timestamp and credential verify reaches
\* the first call; any other one changes nothing.
Receive(h) ==
  /\ pc[h] = "idle"
  /\ \E r \in Requests :
       /\ CredentialVerifies(r)
       /\ request' = [request EXCEPT ![h] = r]
  /\ pc' = [pc EXCEPT ![h] = "AddNewTransaction"]
  /\ UNCHANGED <<world, flight, txid, answer, cache, spent>>

\* A peer simulates the next submitted call of the handler.
Endorse(h) ==
  /\ pc[h] \in Submits /\ ~Waiting(h)
  /\ \E startTime \in Times :
       LET c == Call(h, startTime) IN
       /\ ~c.refused
       /\ flight' = flight \cup
            {[by |-> h, id |-> c.id, reply |-> c.reply, reads |-> c.reads,
              writes |-> c.writes, stale |-> FALSE]}
  /\ UNCHANGED <<world, pc, request, txid, answer, cache, spent>>

\* The chaincode returns an error to the simulation: the call fails at once.
Refuse(h) ==
  /\ pc[h] \in Submits /\ ~Waiting(h)
  /\ \E startTime \in Times : Call(h, startTime).refused
  /\ Fails(h, "error")
  /\ UNCHANGED <<world, flight, request, cache, spent>>

\* Whatever read a key that is now written can no longer be valid.
Overtaken(fs, keys) ==
  {[f EXCEPT !.stale = @ \/ f.reads \cap keys # {}] : f \in fs}

\* Mutated form: the boolean a submitted call returns is ignored.
Accepted_Ignored(f) == TRUE

\* submitBool and startTransaction take a false reply for a failure.
Accepted(f) == f.reply

\* The writes of a valid invocation reach the committed state.
Apply(f) ==
  /\ ~f.stale
  /\ world' = [k \in WorldKeys |-> IF k \in DOMAIN f.writes THEN f.writes[k] ELSE world[k]]
  /\ flight' = Overtaken(flight \ {f}, DOMAIN f.writes)

\* A valid invocation commits; the caller that still waits gets the reply.
\* A reply of false to StartTransaction is errSellerEligibilityChanged, and
\* leads to the rejected answer; any other false is an error.
Commit(f) ==
  /\ Apply(f)
  /\ IF f.by = Nobody THEN UNCHANGED <<pc, txid, answer>>
     ELSE IF Accepted(f) THEN Succeeds(f.by, f.id)
     ELSE Fails(f.by, IF pc[f.by] = "StartTransaction" THEN "rejected" ELSE "error")
  /\ UNCHANGED <<request, cache, spent>>

\* The version check of the channel discards a stale invocation.
Invalidate(f) ==
  /\ f.stale
  /\ flight' = flight \ {f}
  /\ IF f.by = Nobody THEN UNCHANGED <<pc, txid, answer>>
     ELSE Fails(f.by, "error")
  /\ UNCHANGED <<world, request, cache, spent>>

-----------------------------------------------------------------------------
(* The calls that evaluate.                                                *)

\* GetCertAddr and CheckStatus, on the committed state.
CheckStatus(h) ==
  /\ pc[h] = "CheckStatus"
  /\ IF legalStatus(request[h].asset) = LedgerOf!legalStatusNormal
     THEN pc' = [pc EXCEPT ![h] = "SetPending"] /\ UNCHANGED <<answer, txid>>
     ELSE Fails(h, "rejected")
  /\ UNCHANGED <<world, flight, request, cache, spent>>

\* Mutated form: the owner of the asset is not compared with the user.
ReviewPasses_NoOwnerCheck(r) ==
  /\ world[tradingIdentityKey(r.user)].key # NoKey
  /\ LedgerOf!SellerEligible(r.user, r.price)

\* reviewTransactionLaunch returns no reason to reject.  Accounts are always
\* available: no function of the contract disables one.
ReviewPasses(r) ==
  /\ world[tradingIdentityKey(r.user)].key # NoKey
  /\ OwnerOf[r.asset] = r.user
  /\ LedgerOf!SellerEligible(r.user, r.price)

Review(h) ==
  /\ pc[h] = "Review"
  /\ IF ReviewPasses(request[h])
     THEN pc' = [pc EXCEPT ![h] = "ApproveStatus"] /\ UNCHANGED <<answer, txid>>
     ELSE Fails(h, "rejected")
  /\ UNCHANGED <<world, flight, request, cache, spent>>

\* Mutated form: the price is always taken for a fixed price.
InfoFromLaunch_FixedPrice(r) ==
  [LedgerOf!StartedInfo(LedgerOf!ReviewingInfo(r.asset, r.user), r.price, r.mode, 0, r.final)
     EXCEPT !.fixedPrice = r.price, !.basicPrice = 0]

\* transactionInfoFromLaunch: the record rebuilt from the request.
InfoFromLaunch(r) ==
  LedgerOf!StartedInfo(LedgerOf!ReviewingInfo(r.asset, r.user), r.price, r.mode, 0, r.final)

\* Mutated form: a failed read of the started transaction fails the launch.
LoadAndCache_ReadFailureFails(h) ==
  /\ pc[h] = "LoadAndCache"
  /\ pc' = [pc EXCEPT ![h] = "done"]
  /\ \/ /\ cache' = [cache EXCEPT ![txid[h]] = infoOf(txid[h])]
        /\ answer' = [answer EXCEPT ![h] = "approved"]
        /\ UNCHANGED spent
     \/ /\ spent.failures < MaxFailures
        /\ answer' = [answer EXCEPT ![h] = "error"]
        /\ spent' = [spent EXCEPT !.failures = @ + 1]
        /\ UNCHANGED cache
  /\ UNCHANGED <<world, flight, request, txid>>

\* GetTransactionInfo and activeCache.Add.  A failed read is tolerated: the
\* record rebuilt from the request is cached instead.
LoadAndCache(h) ==
  /\ pc[h] = "LoadAndCache"
  /\ \/ /\ cache' = [cache EXCEPT ![txid[h]] = infoOf(txid[h])]
        /\ UNCHANGED spent
     \/ /\ spent.failures < MaxFailures
        /\ cache' = [cache EXCEPT ![txid[h]] = InfoFromLaunch(request[h])]
        /\ spent' = [spent EXCEPT !.failures = @ + 1]
  /\ pc' = [pc EXCEPT ![h] = "done"]
  /\ answer' = [answer EXCEPT ![h] = "approved"]
  /\ UNCHANGED <<world, flight, request, txid>>

-----------------------------------------------------------------------------
(* The environment.                                                        *)

\* A call fails and has no effect.
CallFails(h) ==
  /\ spent.failures < MaxFailures
  /\ pc[h] \in Active \ {"LoadAndCache"} /\ ~Waiting(h)
  /\ Fails(h, "error")
  /\ spent' = [spent EXCEPT !.failures = @ + 1]
  /\ UNCHANGED <<world, flight, request, cache>>

\* The submit or commit-status timeout fires while the invocation is still
\* on its way: the handler sees an error, the invocation stays in flight.
LoseAnswer(f) ==
  /\ spent.lostAnswers < MaxLostAnswers
  /\ f.by # Nobody
  /\ flight' = (flight \ {f}) \cup {[f EXCEPT !.by = Nobody]}
  /\ Fails(f.by, "error")
  /\ spent' = [spent EXCEPT !.lostAnswers = @ + 1]
  /\ UNCHANGED <<world, request, cache>>

\* An abandoned invocation never reaches the orderer.
Discard(f) ==
  /\ f.by = Nobody
  /\ flight' = flight \ {f}
  /\ UNCHANGED <<world, pc, request, txid, answer, cache, spent>>

\* The server process dies and is started again: its handlers and its cache
\* are gone, their invocations are not.
Crash ==
  /\ spent.crashes < MaxCrashes
  /\ \E h \in Handlers : pc[h] \in Active \cup {"done"}
  /\ pc' = [h \in Handlers |-> IF pc[h] \in Active THEN "dead" ELSE pc[h]]
  /\ answer' = [h \in Handlers |-> IF pc[h] \in Active THEN "none" ELSE answer[h]]
  /\ flight' = {[f EXCEPT !.by = Nobody] : f \in flight}
  /\ cache' = [id \in TransactionIDs |-> NoInfo]
  /\ spent' = [spent EXCEPT !.crashes = @ + 1]
  /\ UNCHANGED <<world, request, txid>>

\* A credit score moves on the channel (see MoveSellerScore of the ledger).
MoveScore(u, score) ==
  LET key == tradingIdentityKey(u) IN
  /\ spent.scoreMoves < MaxScoreMoves
  /\ world' = [world EXCEPT ![key].sellerScore = score]
  /\ flight' = Overtaken(flight, {key})
  /\ spent' = [spent EXCEPT !.scoreMoves = @ + 1]
  /\ UNCHANGED <<pc, request, txid, answer, cache>>

Handler(h) ==
  \/ Endorse(h) \/ Refuse(h) \/ CheckStatus(h) \/ Review(h) \/ LoadAndCache(h)

Channel == \E f \in flight : Commit(f) \/ Invalidate(f)

Environment ==
  \/ \E h \in Handlers : CallFails(h)
  \/ \E f \in flight : LoseAnswer(f) \/ Discard(f)
  \/ Crash
  \/ \E u \in Users, score \in ScoreInputs : MoveScore(u, score)

Next ==
  \/ \E h \in Handlers : Receive(h) \/ Handler(h)
  \/ Channel
  \/ Environment

Spec == Init /\ [][Next]_vars

\* A handler is a goroutine: it is scheduled again while it has something to
\* do.  The channel orders and validates every invocation it was given.
FairSpec ==
  /\ Spec
  /\ \A h \in Handlers : WF_vars(Handler(h))
  /\ WF_vars(Channel)

-----------------------------------------------------------------------------
(* Properties.                                                             *)

\* The committed state is a ledger state and every handler and invocation is
\* well formed, whatever was committed, invalidated or lost.
TypeOK ==
  /\ DOMAIN world = WorldKeys
  /\ LedgerOf!TypeOK
  /\ \A f \in flight :
       /\ f.by \in Handlers \cup {Nobody} /\ f.id \in TransactionIDs
       /\ f.reply \in BOOLEAN /\ f.stale \in BOOLEAN
       /\ f.reads \subseteq WorldKeys /\ DOMAIN f.writes \subseteq f.reads \cup {transactionInfoKey(f.id)}
  /\ pc \in [Handlers -> Active \cup {"idle", "done", "dead"}]
  /\ request \in [Handlers -> Requests \cup {NoRequest}]
  /\ txid \in [Handlers -> 0..MaxUint]
  /\ answer \in [Handlers -> {"none", "approved", "rejected", "error"}]
  /\ cache \in [TransactionIDs -> LedgerOf!TransactionInfo \cup {NoInfo}]

InProgress(id) ==
  infoOf(id) # NoInfo /\ infoOf(id).status = LedgerOf!transactionStatusInProgress

\* However many launches of an asset run at once, at most one of them puts
\* it up for sale: the CheckStatus each made may be stale, the Pending status
\* is what lets one pass (transaction_launch.go:152-178).
OneSalePerAsset ==
  \A i, j \in TransactionIDs :
    InProgress(i) /\ InProgress(j) /\ infoOf(i).asset = infoOf(j).asset => i = j

\* An asset with a transaction in progress stays on the market in that
\* transaction's mode: no rejected launch restores an asset that another one
\* has put up for sale (transaction_launch.go:584).
SaleOnMarket ==
  \A id \in TransactionIDs :
    InProgress(id) =>
      legalStatus(infoOf(id).asset) = LedgerOf!expectedLegalStatus(infoOf(id).mode)

\* Only the owner of an asset sells it, although a launch is added, listed
\* and its asset set to Pending before the owner is looked up.
OnlyOwnerSells ==
  \A id \in TransactionIDs :
    InProgress(id) => OwnerOf[infoOf(id).asset] = infoOf(id).seller

\* An asset is Pending only while a transaction about it is under review:
\* a rejected transaction has put it back first (rejectTransaction).
PendingHasReview ==
  \A a \in Assets :
    legalStatus(a) = LedgerOf!legalStatusPending =>
      \E id \in TransactionIDs :
        /\ infoOf(id) # NoInfo /\ infoOf(id).asset = a
        /\ infoOf(id).status = LedgerOf!transactionStatusReviewing

Answered(h, verdict) == pc[h] = "done" /\ answer[h] = verdict

\* A client told that her launch was approved has the sale she asked for: her
\* price, mode and end, and an active entry in her list.
ApprovedMeansStarted ==
  \A h \in Handlers :
    Answered(h, "approved") =>
      LET r == request[h] IN
      /\ InProgress(txid[h])
      /\ infoOf(txid[h]) = [InfoFromLaunch(r) EXCEPT !.startTime = infoOf(txid[h]).startTime]
      /\ entryOf(r.user, txid[h]) # NoEntry /\ entryOf(r.user, txid[h]).active

\* A client told that her launch was rejected has a rejected transaction and
\* an inactive entry in her list, whatever other launches did meanwhile, also
\* when the score of the seller dropped after the review and StartTransaction
\* answered false (transaction_launch.go:236).
RejectedMeansClosed ==
  \A h \in Handlers :
    Answered(h, "rejected") =>
      /\ infoOf(txid[h]).status = LedgerOf!transactionStatusRejected
      /\ entryOf(request[h].user, txid[h]) # NoEntry
      /\ ~entryOf(request[h].user, txid[h]).active

\* A client told that her launch failed has nothing for sale: the server
\* answers "failed to start transaction" (transaction_launch.go:270) and the
\* like only when the transaction did not start.
FailedMeansNotStarted ==
  \A h \in Handlers :
    Answered(h, "error") /\ txid[h] # 0 => ~InProgress(txid[h])

\* The transactions shown to users at login are in progress on the ledger
\* under the terms shown (activeTransactionCache); only the start time may be
\* missing, when the record was rebuilt from the request.
CacheShowsLedger ==
  \A id \in TransactionIDs :
    cache[id] # NoInfo =>
      /\ InProgress(id)
      /\ [cache[id] EXCEPT !.startTime = 0] = [infoOf(id) EXCEPT !.startTime = 0]

\* Concurrent invocations only ever change the world state the way the
\* contract does when invocations run one at a time: no read of a simulation
\* is out of date when its writes are applied.
ImplementsLedger == [][LedgerOf!Next]_(LedgerOf!vars)

\* Every request is answered, whatever fails, unless the server dies.
EveryRequestAnswered ==
  \A h \in Handlers : (pc[h] \in Active) ~> (pc[h] \in {"done", "dead"})

\* No call has failed, no answer was lost and the server has not died.
Undisturbed == spent.failures = 0 /\ spent.lostAnswers = 0 /\ spent.crashes = 0

\* As long as no call fails, no review leaves its asset Pending for ever: it
\* is put on the market or back to Normal, even when other launches get in the
\* way and the score of the seller moves (transaction_launch.go:187-272).
PendingResolved ==
  \A a \in Assets :
    (legalStatus(a) = LedgerOf!legalStatusPending)
      ~> (legalStatus(a) # LedgerOf!legalStatusPending \/ ~Undisturbed)

=============================================================================
