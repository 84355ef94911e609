------------------------ MODULE LaunchServiceProofs ------------------------
(***************************************************************************)
(* The launches keep the ledger and their word, for any users, assets,     *)
(* requests, handlers and budgets of faults.                               *)
(*                                                                         *)
(* The argument has two layers.                                            *)
(*                                                                         *)
(* IInv says of every invocation in flight which call of which handler it  *)
(* came from and, as long as it is not stale, that every key it read holds *)
(* what the simulation saw.  A commit is then a step of the serial         *)
(* chaincode (LaunchesImplementLedger), because the guard it was endorsed  *)
(* under is still true.  What a handler has been told is on the ledger     *)
(* follows from where it stands, and survives the other handlers because   *)
(* no effect reopens a transaction, a list entry or the ownership of an    *)
(* asset (EffectKeepsHistory).                                             *)
(*                                                                         *)
(* ClaimInv says that an asset is in the hands of one launch: the one that *)
(* set it to Pending, until it puts it back or has sold it.  A launch can  *)
(* count on the legal status of the asset it holds, since whoever else     *)
(* endorsed a change of it is made stale by the first one to commit.  It   *)
(* holds as long as no answer is lost.  A lost answer voids it: the launch *)
(* is taken back although its last invocation commits, and the asset is    *)
(* set back to Normal under its sale, or left Pending with nobody to put   *)
(* it back (the runs MCLaunchFailedButStarted and                          *)
(* MCLaunchStrandedPending).                                               *)
(***************************************************************************)
EXTENDS LaunchService, TLAPS

-----------------------------------------------------------------------------
(* The world state as the records it holds.                                *)

Identity(u) == world[tradingIdentityKey(u)]
Counter == world[transactionCounterKey]
ListOf(u) == world[userTransactionListKey(u)]

Info == LedgerOf!TransactionInfo
Lists == [TransactionIDs -> LedgerOf!TradeEntry \cup {NoEntry}]

IsFunction == world = [k \in WorldKeys |-> world[k]]

Reviewing == LedgerOf!transactionStatusReviewing
Rejected == LedgerOf!transactionStatusRejected

\* Every key holds a record of its type, and the counter is the ID of the last
\* transaction.
WorldInv ==
  /\ IsFunction
  /\ \A u \in Users : Identity(u) \in LedgerOf!TradingIdentity
  /\ \A a \in Assets : legalStatus(a) \in 0..6
  /\ Counter \in 0..MaxUint
  /\ \A id \in TransactionIDs :
       IF id <= Counter THEN infoOf(id) \in Info ELSE infoOf(id) = NoInfo
  /\ \A u \in Users : ListOf(u) \in Lists

\* No two records share a key.
LEMMA KeysDiffer ==
  /\ \A u, v : tradingIdentityKey(u) = tradingIdentityKey(v) => u = v
  /\ \A a, b : assetCertificateKey(a) = assetCertificateKey(b) => a = b
  /\ \A i, j : transactionInfoKey(i) = transactionInfoKey(j) => i = j
  /\ \A u, v : userTransactionListKey(u) = userTransactionListKey(v) => u = v
  /\ \A x, y : /\ tradingIdentityKey(x) # assetCertificateKey(y)
               /\ tradingIdentityKey(x) # transactionInfoKey(y)
               /\ tradingIdentityKey(x) # userTransactionListKey(y)
               /\ assetCertificateKey(x) # transactionInfoKey(y)
               /\ assetCertificateKey(x) # userTransactionListKey(y)
               /\ transactionInfoKey(x) # userTransactionListKey(y)
  /\ \A x : /\ tradingIdentityKey(x) # transactionCounterKey
            /\ assetCertificateKey(x) # transactionCounterKey
            /\ transactionInfoKey(x) # transactionCounterKey
            /\ userTransactionListKey(x) # transactionCounterKey
BY DEF tradingIdentityKey, assetCertificateKey, transactionCounterKey, transactionInfoKey,
       userTransactionListKey

LEMMA KeysExist ==
  /\ \A u \in Users : tradingIdentityKey(u) \in WorldKeys /\ userTransactionListKey(u) \in WorldKeys
  /\ \A a \in Assets : assetCertificateKey(a) \in WorldKeys
  /\ \A id \in TransactionIDs : transactionInfoKey(id) \in WorldKeys
  /\ transactionCounterKey \in WorldKeys
BY DEF WorldKeys

-----------------------------------------------------------------------------
(* What a write does to the records.                                       *)

IdentitiesKept == \A u \in Users : Identity(u)' = Identity(u)
StatusesKept == \A a \in Assets : legalStatus(a)' = legalStatus(a)
InfosKept == \A id \in TransactionIDs : infoOf(id)' = infoOf(id)
ListsKept == \A u \in Users : ListOf(u)' = ListOf(u)

Stored(key, value) ==
  world' = [k \in WorldKeys |-> IF k = key THEN value ELSE world[k]]

LEMMA StoredStatus ==
  ASSUME NEW a \in Assets, NEW s, Stored(assetCertificateKey(a), s)
  PROVE  /\ IsFunction' /\ IdentitiesKept /\ Counter' = Counter /\ InfosKept /\ ListsKept
         /\ legalStatus(a)' = s /\ \A b \in Assets \ {a} : legalStatus(b)' = legalStatus(b)
<1> USE KeysDiffer, KeysExist DEF Stored
<1>1. IsFunction'
  BY DEF IsFunction
<1>2. IdentitiesKept
  BY DEF IdentitiesKept, Identity
<1>3. Counter' = Counter
  BY DEF Counter
<1>4. InfosKept
  BY DEF InfosKept, infoOf
<1>5. ListsKept
  BY DEF ListsKept, ListOf
<1>6. legalStatus(a)' = s /\ \A b \in Assets \ {a} : legalStatus(b)' = legalStatus(b)
  BY DEF legalStatus
<1> QED
  BY <1>1, <1>2, <1>3, <1>4, <1>5, <1>6

LEMMA StoredInfo ==
  ASSUME NEW i \in TransactionIDs, NEW x, Stored(transactionInfoKey(i), x)
  PROVE  /\ IsFunction' /\ IdentitiesKept /\ Counter' = Counter /\ StatusesKept /\ ListsKept
         /\ infoOf(i)' = x /\ \A j \in TransactionIDs \ {i} : infoOf(j)' = infoOf(j)
<1> USE KeysDiffer, KeysExist DEF Stored
<1>1. IsFunction'
  BY DEF IsFunction
<1>2. IdentitiesKept
  BY DEF IdentitiesKept, Identity
<1>3. Counter' = Counter
  BY DEF Counter
<1>4. StatusesKept
  BY DEF StatusesKept, legalStatus
<1>5. ListsKept
  BY DEF ListsKept, ListOf
<1>6. infoOf(i)' = x /\ \A j \in TransactionIDs \ {i} : infoOf(j)' = infoOf(j)
  BY DEF infoOf
<1> QED
  BY <1>1, <1>2, <1>3, <1>4, <1>5, <1>6

LEMMA StoredList ==
  ASSUME NEW u \in Users, NEW x, Stored(userTransactionListKey(u), x)
  PROVE  /\ IsFunction' /\ IdentitiesKept /\ Counter' = Counter /\ StatusesKept /\ InfosKept
         /\ ListOf(u)' = x /\ \A v \in Users \ {u} : ListOf(v)' = ListOf(v)
<1> USE KeysDiffer, KeysExist DEF Stored
<1>1. IsFunction'
  BY DEF IsFunction
<1>2. IdentitiesKept
  BY DEF IdentitiesKept, Identity
<1>3. Counter' = Counter
  BY DEF Counter
<1>4. StatusesKept
  BY DEF StatusesKept, legalStatus
<1>5. InfosKept
  BY DEF InfosKept, infoOf
<1>6. ListOf(u)' = x /\ \A v \in Users \ {u} : ListOf(v)' = ListOf(v)
  BY DEF ListOf
<1> QED
  BY <1>1, <1>2, <1>3, <1>4, <1>5, <1>6

LEMMA StoredIdentity ==
  ASSUME NEW u \in Users, NEW x, Stored(tradingIdentityKey(u), x)
  PROVE  /\ IsFunction' /\ Counter' = Counter /\ StatusesKept /\ InfosKept /\ ListsKept
         /\ Identity(u)' = x /\ \A v \in Users \ {u} : Identity(v)' = Identity(v)
<1> USE KeysDiffer, KeysExist DEF Stored
<1>1. IsFunction'
  BY DEF IsFunction
<1>2. ListsKept
  BY DEF ListsKept, ListOf
<1>3. Counter' = Counter
  BY DEF Counter
<1>4. StatusesKept
  BY DEF StatusesKept, legalStatus
<1>5. InfosKept
  BY DEF InfosKept, infoOf
<1>6. Identity(u)' = x /\ \A v \in Users \ {u} : Identity(v)' = Identity(v)
  BY DEF Identity
<1> QED
  BY <1>1, <1>2, <1>3, <1>4, <1>5, <1>6

\* AddNewTransaction writes two keys at once.
LEMMA StoredTransaction ==
  ASSUME NEW i \in TransactionIDs, NEW x,
         world' = [k \in WorldKeys |->
                     IF k \in {transactionCounterKey, transactionInfoKey(i)}
                     THEN IF k = transactionCounterKey THEN i ELSE x
                     ELSE world[k]]
  PROVE  /\ IsFunction' /\ IdentitiesKept /\ Counter' = i /\ StatusesKept /\ ListsKept
         /\ infoOf(i)' = x /\ \A j \in TransactionIDs \ {i} : infoOf(j)' = infoOf(j)
<1> USE KeysDiffer, KeysExist
<1>1. IsFunction'
  BY DEF IsFunction
<1>2. IdentitiesKept
  BY DEF IdentitiesKept, Identity
<1>3. Counter' = i
  BY DEF Counter
<1>4. StatusesKept
  BY DEF StatusesKept, legalStatus
<1>5. ListsKept
  BY DEF ListsKept, ListOf
<1>6. infoOf(i)' = x /\ \A j \in TransactionIDs \ {i} : infoOf(j)' = infoOf(j)
  BY DEF infoOf
<1> QED
  BY <1>1, <1>2, <1>3, <1>4, <1>5, <1>6

LEMMA StoredNothing ==
  ASSUME IsFunction, UNCHANGED world
  PROVE  /\ IsFunction' /\ IdentitiesKept /\ Counter' = Counter /\ StatusesKept
         /\ InfosKept /\ ListsKept
BY DEF IsFunction, IdentitiesKept, StatusesKept, InfosKept, ListsKept, Identity, Counter,
       legalStatus, infoOf, ListOf

\* The writes of an invocation that reach the world state.
LEMMA AppliedWrite ==
  ASSUME IsFunction, NEW f, Apply(f), NEW key, NEW value, f.writes = write(key, value)
  PROVE  Stored(key, value)
BY DEF Apply, Stored, write

-----------------------------------------------------------------------------
(* What an invocation that is not stale says of the current world state.   *)

Added(f, r) ==
  /\ f.id = Counter + 1 /\ f.id \in TransactionIDs /\ f.reply
  /\ f.reads = {transactionCounterKey}
  /\ f.writes = [k \in {transactionCounterKey, transactionInfoKey(f.id)} |->
                   IF k = transactionCounterKey
                   THEN f.id ELSE LedgerOf!ReviewingInfo(r.asset, r.user)]

StatusSet(f, id, a, status) ==
  /\ f.id = id /\ f.reply
  /\ f.reads = {assetCertificateKey(a)}
  /\ f.writes = write(assetCertificateKey(a), status)
  /\ status \in 0..6 /\ LedgerOf!legalStatusTransitionAllowed(legalStatus(a), status)

TransactionRejected(f, id) ==
  /\ f.id = id
  /\ f.reply <=> (infoOf(id) # NoInfo /\ infoOf(id).status = Reviewing)
  /\ f.reads = {transactionInfoKey(id)}
  /\ f.reply => f.writes = write(transactionInfoKey(id), [infoOf(id) EXCEPT !.status = Rejected])
  /\ ~f.reply => f.writes = <<>>

Eligible(r) == LedgerOf!CheckSellerEligibility(Identity(r.user).sellerScore, r.price)

OnMarket(r) == legalStatus(r.asset) = LedgerOf!expectedLegalStatus(r.mode)

TransactionStarted(f, id, r, start) ==
  /\ f.id = id
  /\ infoOf(id) # NoInfo /\ infoOf(id).status = Reviewing
  /\ f.reply => /\ Eligible(r) /\ OnMarket(r)
                /\ LedgerOf!FinalizingTimeAccepted(r.mode, start, r.final)
                /\ f.reads = {transactionInfoKey(id), tradingIdentityKey(r.user),
                              assetCertificateKey(r.asset)}
                /\ f.writes = write(transactionInfoKey(id),
                     LedgerOf!StartedInfo(infoOf(id), r.price, r.mode, start, r.final))
  /\ ~f.reply => /\ f.reads = {transactionInfoKey(id), tradingIdentityKey(r.user)}
                 /\ f.writes = <<>>

ListSet(f, u, id, a, role, active) ==
  /\ f.id = id /\ f.reply
  /\ f.reads = {userTransactionListKey(u)}
  /\ f.writes = write(userTransactionListKey(u),
                      LedgerOf!UpdatedList(ListOf(u), id, a, role, active))

\* What the invocation of a step says, for the request r and transaction id
\* of its handler.
Says(f, step, r, id, start) ==
  /\ step = "AddNewTransaction" => Added(f, r)
  /\ step = "ListActive" => ListSet(f, r.user, id, r.asset, LedgerOf!transactionRoleSeller, TRUE)
  /\ step = "SetPending" => StatusSet(f, id, r.asset, LedgerOf!legalStatusPending)
  /\ step = "ApproveStatus" => StatusSet(f, id, r.asset, LedgerOf!expectedLegalStatus(r.mode))
  /\ step = "StartTransaction" => TransactionStarted(f, id, r, start)
  /\ step = "RestoreStatus" => StatusSet(f, id, r.asset, LedgerOf!legalStatusNormal)
  /\ step = "RejectTransaction" => TransactionRejected(f, id)
  /\ step = "ListInactive" =>
       ListSet(f, r.user, id, r.asset, LedgerOf!transactionRoleSeller, FALSE)

\* An invocation that is not stale stays right as long as what it has read is
\* not written.
LEMMA SaysStays ==
  ASSUME NEW f, NEW step \in Submits, NEW r, NEW id, NEW start,
         Says(f, step, r, id, start),
         \A k \in f.reads : world'[k] = world[k]
  PROVE  Says(f, step, r, id, start)'
<1>1. CASE step = "AddNewTransaction"
  BY <1>1 DEF Says, Added, Counter
<1>2. CASE step \in {"ListActive", "ListInactive"}
  BY <1>2 DEF Says, ListSet, ListOf
<1>3. CASE step \in {"SetPending", "ApproveStatus", "RestoreStatus"}
  BY <1>3 DEF Says, StatusSet, legalStatus
<1>4. CASE step = "StartTransaction"
  <2>1. TransactionStarted(f, id, r, start)
    BY <1>4 DEF Says
  <2>2. infoOf(id)' = infoOf(id)
    BY <2>1 DEF TransactionStarted, infoOf
  <2>3. f.reply => Identity(r.user)' = Identity(r.user) /\ legalStatus(r.asset)' = legalStatus(r.asset)
    BY <2>1 DEF TransactionStarted, Identity, legalStatus
  <2>4. TransactionStarted(f, id, r, start)'
    BY <2>1, <2>2, <2>3 DEF TransactionStarted, Eligible, OnMarket
  <2> QED
    BY <1>4, <2>4 DEF Says
<1>5. CASE step = "RejectTransaction"
  BY <1>5 DEF Says, TransactionRejected, infoOf
<1> QED
  BY <1>1, <1>2, <1>3, <1>4, <1>5 DEF Submits, AfterSuccess

-----------------------------------------------------------------------------
(* The simulation of a call says what it should.                           *)

Tells(f, c) ==
  /\ ~c.refused
  /\ f.id = c.id /\ f.reply = c.reply /\ f.reads = c.reads /\ f.writes = c.writes

\* No record is mistaken for an absent one.
LEMMA RecordsArePresent ==
  NoInfo \notin Info /\ NoEntry \notin LedgerOf!TradeEntry
    /\ NoIdentity \notin LedgerOf!TradingIdentity /\ NoCert \notin 0..6
BY AbsentAssumption
   DEF Info, LedgerOf!TransactionInfo, LedgerOf!TradeEntry, LedgerOf!TradingIdentity,
       LedgerOf!TransactionStatuses, LedgerOf!TransactionModes, LedgerOf!TransactionRoles,
       LedgerOf!transactionModeSealedBid, LedgerOf!transactionRoleSeller

LEMMA RequestFields ==
  ASSUME NEW r \in Requests
  PROVE  /\ r.user \in Users /\ r.asset \in Assets /\ r.price \in Nat \ {0}
         /\ r.price \in PriceInputs /\ r.mode \in ModeInputs
         /\ r.mode \in 0..2 /\ r.final \in Times \cup {0} /\ (r.mode # 0 => r.final \in Times)
BY RequestsAssumption, InputsAssumption DEF ValidRequest

LEMMA AddNewTransactionSays ==
  ASSUME WorldInv, NEW r \in Requests, NEW f,
         Tells(f, AddNewTransactionCall(r.asset, r.user))
  PROVE  Added(f, r)
<1>1. Counter \in Nat /\ LedgerOf!nextTransactionID = Counter + 1
  BY ChannelAssumption DEF WorldInv, Counter, LedgerOf!nextTransactionID
<1>2. LedgerOf!AddNewTransactionAllowed(r.asset)
  BY DEF Tells, AddNewTransactionCall, refused
<1>3. Counter + 1 \in TransactionIDs
  BY <1>1, <1>2, ChannelAssumption DEF LedgerOf!AddNewTransactionAllowed, TransactionIDs
<1> QED
  BY <1>1, <1>2, <1>3 DEF Tells, AddNewTransactionCall, endorsed, Added

LEMMA UpdateStatusSays ==
  ASSUME WorldInv, NEW r \in Requests, NEW f, NEW id, NEW status,
         Tells(f, UpdateStatusCall(id, r.asset, status))
  PROVE  StatusSet(f, id, r.asset, status)
<1>1. LedgerOf!UpdateStatusAllowed(r.asset, status)
  BY DEF Tells, UpdateStatusCall, refused
<1>2. status \in 0..6 /\ LedgerOf!legalStatusTransitionAllowed(legalStatus(r.asset), status)
  BY <1>1, RequestFields
     DEF LedgerOf!UpdateStatusAllowed, LedgerOf!LegalStatuses, legalStatus
<1> QED
  BY <1>1, <1>2 DEF Tells, UpdateStatusCall, endorsed, StatusSet

LEMMA ChangeTransactionStatusSays ==
  ASSUME NEW f, NEW id \in TransactionIDs,
         Tells(f, ChangeTransactionStatusCall(id, Reviewing, Rejected))
  PROVE  TransactionRejected(f, id)
<1>1. LedgerOf!ChangeTransactionStatusAllowed(id, Reviewing, Rejected)
        <=> infoOf(id) # NoInfo /\ infoOf(id).status = Reviewing
  BY DEF LedgerOf!ChangeTransactionStatusAllowed, Reviewing, Rejected, infoOf, TransactionIDs,
         LedgerOf!TransactionIDs, LedgerOf!TransactionStatuses,
         LedgerOf!transactionStatusReviewing, LedgerOf!transactionStatusRejected,
         LedgerOf!transactionStatusInProgress
<1> QED
  BY <1>1 DEF Tells, ChangeTransactionStatusCall, endorsed, declined, TransactionRejected

LEMMA StartTransactionSays ==
  ASSUME WorldInv, NEW f, NEW id \in TransactionIDs, id <= Counter,
         NEW r \in Requests, infoOf(id).asset = r.asset, infoOf(id).seller = r.user,
         NEW start, Tells(f, StartTransactionCall(id, r, start))
  PROVE  TransactionStarted(f, id, r, start)
<1> USE RequestFields
<1>1. infoOf(id) \in Info /\ infoOf(id) # NoInfo
  BY RecordsArePresent DEF WorldInv
<1>2. Identity(r.user) # NoIdentity
  BY RecordsArePresent DEF WorldInv
<1>3. LedgerOf!StartTransactionReady(id, r.price, r.mode)
        <=> infoOf(id) # NoInfo /\ infoOf(id).status = Reviewing
  BY <1>1, <1>2 DEF LedgerOf!StartTransactionReady, infoOf, Reviewing, Identity, TransactionIDs,
     LedgerOf!TransactionIDs, LedgerOf!TransactionModes, LedgerOf!transactionModeSealedBid
<1>4. LedgerOf!SellerEligible(r.user, r.price) <=> Eligible(r)
  BY <1>2 DEF LedgerOf!SellerEligible, Eligible, Identity
<1>5. LedgerOf!StartTransactionAllowed(id, r.price, r.mode, start, r.final)
        <=> /\ LedgerOf!StartTransactionReady(id, r.price, r.mode)
            /\ Eligible(r) /\ OnMarket(r)
            /\ LedgerOf!FinalizingTimeAccepted(r.mode, start, r.final)
  BY <1>4 DEF LedgerOf!StartTransactionAllowed, OnMarket, legalStatus, infoOf,
     TransactionIDs, LedgerOf!TransactionIDs
<1> QED
  BY <1>3, <1>4, <1>5
     DEF Tells, StartTransactionCall, endorsed, declined, refused, TransactionStarted

LEMMA UpdateTransactionListSays ==
  ASSUME NEW u \in Users, NEW f, NEW id, NEW a, NEW role, NEW active,
         Tells(f, UpdateTransactionListCall(u, id, a, role, active))
  PROVE  ListSet(f, u, id, a, role, active)
BY DEF Tells, UpdateTransactionListCall, endorsed, refused, ListSet, ListOf

LEMMA CallSays ==
  ASSUME WorldInv, NEW h, pc[h] \in Submits, NEW r \in Requests, r = request[h],
         NEW id \in 0..Counter, id = txid[h],
         pc[h] # "AddNewTransaction" =>
           id # 0 /\ infoOf(id).asset = r.asset /\ infoOf(id).seller = r.user,
         NEW start \in Times, NEW f, Tells(f, Call(h, start))
  PROVE  Says(f, pc[h], r, id, start)
<1>1. id # 0 => id \in TransactionIDs
  BY ChannelAssumption DEF TransactionIDs, WorldInv
<1>2. CASE pc[h] = "AddNewTransaction"
  BY <1>2, AddNewTransactionSays DEF Call, Says
<1>3. CASE pc[h] \in {"ListActive", "ListInactive"}
  BY <1>3, UpdateTransactionListSays, RequestFields DEF Call, Says
<1>4. CASE pc[h] \in {"SetPending", "ApproveStatus", "RestoreStatus"}
  BY <1>4, UpdateStatusSays DEF Call, Says
<1>5. CASE pc[h] = "StartTransaction"
  BY <1>1, <1>5, StartTransactionSays DEF Call, Says
<1>6. CASE pc[h] = "RejectTransaction"
  BY <1>1, <1>6, ChangeTransactionStatusSays DEF Call, Says, Reviewing, Rejected
<1> QED
  BY <1>2, <1>3, <1>4, <1>5, <1>6 DEF Submits, AfterSuccess

-----------------------------------------------------------------------------
(* What the commit of an invocation does to the records.                   *)

TransactionAdded(i, r) ==
  /\ i = Counter + 1 /\ Counter' = i
  /\ i \in TransactionIDs /\ infoOf(i)' = LedgerOf!ReviewingInfo(r.asset, r.user)
  /\ \A j \in TransactionIDs \ {i} : infoOf(j)' = infoOf(j)
  /\ IdentitiesKept /\ StatusesKept /\ ListsKept

StatusReplaced(a, status) ==
  /\ LedgerOf!legalStatusTransitionAllowed(legalStatus(a), status) /\ status \in 0..6
  /\ legalStatus(a)' = status
  /\ \A b \in Assets \ {a} : legalStatus(b)' = legalStatus(b)
  /\ IdentitiesKept /\ Counter' = Counter /\ InfosKept /\ ListsKept

InfoReplaced(i, x) ==
  /\ infoOf(i) # NoInfo /\ infoOf(i).status = Reviewing
  /\ infoOf(i)' = x /\ \A j \in TransactionIDs \ {i} : infoOf(j)' = infoOf(j)
  /\ IdentitiesKept /\ Counter' = Counter /\ StatusesKept /\ ListsKept

EntryReplaced(u, id, a, role, active) ==
  /\ ListOf(u)' = LedgerOf!UpdatedList(ListOf(u), id, a, role, active)
  /\ \A v \in Users \ {u} : ListOf(v)' = ListOf(v)
  /\ IdentitiesKept /\ Counter' = Counter /\ StatusesKept /\ InfosKept

NothingReplaced ==
  IdentitiesKept /\ Counter' = Counter /\ StatusesKept /\ InfosKept /\ ListsKept

\* The record of a transaction of a by u that started on the terms of r.
StartedOn(a, u, r, start) ==
  LET fixed == r.mode = LedgerOf!transactionModeFixedPrice
  IN  [asset |-> a, seller |-> u, status |-> LedgerOf!transactionStatusInProgress,
       mode |-> r.mode, startTime |-> start,
       fixedPrice |-> IF fixed THEN r.price ELSE 0,
       basicPrice |-> IF fixed THEN 0 ELSE r.price,
       finalizingTime |-> IF fixed THEN 0 ELSE r.final]

LEMMA StartedInfoIs ==
  ASSUME NEW i, i \in Info, NEW r, NEW start
  PROVE  LedgerOf!StartedInfo(i, r.price, r.mode, start, r.final)
           = StartedOn(i.asset, i.seller, r, start)
<1> SUFFICES ASSUME NEW s, s = LedgerOf!StartedInfo(i, r.price, r.mode, start, r.final)
             PROVE  s = StartedOn(i.asset, i.seller, r, start)
  OBVIOUS
<1> DEFINE fixed == r.mode = LedgerOf!transactionModeFixedPrice
<1>1. s = [asset |-> i.asset, seller |-> i.seller,
           status |-> LedgerOf!transactionStatusInProgress, mode |-> r.mode,
           startTime |-> start,
           fixedPrice |-> IF fixed THEN r.price ELSE 0,
           basicPrice |-> IF fixed THEN 0 ELSE r.price,
           finalizingTime |-> IF fixed THEN 0 ELSE r.final]
  BY DEF LedgerOf!StartedInfo, Info, LedgerOf!TransactionInfo
<1> QED
  BY <1>1 DEF StartedOn

\* The record StartTransaction writes.
LEMMA StartedInfoType ==
  ASSUME NEW i \in Info, NEW r \in Requests, NEW start \in Times
  PROVE  LET s == LedgerOf!StartedInfo(i, r.price, r.mode, start, r.final)
         IN  /\ s \in Info /\ s.status = LedgerOf!transactionStatusInProgress
             /\ s.asset = i.asset /\ s.seller = i.seller
<1> SUFFICES ASSUME NEW s, s = StartedOn(i.asset, i.seller, r, start)
             PROVE  /\ s \in Info /\ s.status = LedgerOf!transactionStatusInProgress
                    /\ s.asset = i.asset /\ s.seller = i.seller
  BY StartedInfoIs
<1>1. /\ r.price \in Nat /\ r.mode \in LedgerOf!TransactionModes
      /\ r.final \in Nat /\ start \in Nat
  <2>1. \A t \in Times \cup {0} : t \in Nat
    BY ChannelAssumption
  <2> QED
    BY <2>1, RequestFields DEF LedgerOf!TransactionModes, LedgerOf!transactionModeSealedBid
<1>2. LedgerOf!transactionStatusInProgress \in LedgerOf!TransactionStatuses
  BY DEF LedgerOf!TransactionStatuses, LedgerOf!transactionStatusInProgress
<1>3. i.asset \in Assets /\ i.seller \in Users
  BY DEF Info, LedgerOf!TransactionInfo
<1>4. s \in Info
  BY <1>1, <1>2, <1>3 DEF StartedOn, Info, LedgerOf!TransactionInfo
<1> QED
  BY <1>4 DEF StartedOn

LEMMA ReviewingInfoType ==
  ASSUME NEW r \in Requests
  PROVE  LedgerOf!ReviewingInfo(r.asset, r.user) \in Info
BY RequestFields
   DEF LedgerOf!ReviewingInfo, Info, LedgerOf!TransactionInfo, LedgerOf!TransactionStatuses,
       LedgerOf!TransactionModes, LedgerOf!transactionStatusReviewing,
       LedgerOf!transactionModeSealedBid

\* The record rebuilt from the request lacks the start time only.
LEMMA LaunchInfoIs ==
  ASSUME NEW r \in Requests
  PROVE  /\ InfoFromLaunch(r) = StartedOn(r.asset, r.user, r, 0) /\ InfoFromLaunch(r) \in Info
         /\ \A start : [InfoFromLaunch(r) EXCEPT !.startTime = start]
                         = StartedOn(r.asset, r.user, r, start)
<1> DEFINE i == LedgerOf!ReviewingInfo(r.asset, r.user)
<1>1. i \in Info /\ i.asset = r.asset /\ i.seller = r.user
  BY ReviewingInfoType DEF LedgerOf!ReviewingInfo
<1>2. InfoFromLaunch(r) = LedgerOf!StartedInfo(i, r.price, r.mode, 0, r.final)
  BY DEF InfoFromLaunch
<1> HIDE DEF i
<1>3. InfoFromLaunch(r) = StartedOn(r.asset, r.user, r, 0)
  BY <1>1, <1>2, StartedInfoIs
<1>4. \A start : [StartedOn(r.asset, r.user, r, 0) EXCEPT !.startTime = start]
                   = StartedOn(r.asset, r.user, r, start)
  BY DEF StartedOn
<1>5. StartedOn(r.asset, r.user, r, 0) \in Info
  <2>1. \A t \in Times \cup {0} : t \in Nat
    BY ChannelAssumption
  <2>2. LedgerOf!transactionStatusInProgress \in LedgerOf!TransactionStatuses
    BY DEF LedgerOf!TransactionStatuses, LedgerOf!transactionStatusInProgress
  <2>3. r.mode \in LedgerOf!TransactionModes
    BY RequestFields DEF LedgerOf!TransactionModes, LedgerOf!transactionModeSealedBid
  <2> QED
    BY <2>1, <2>2, <2>3, RequestFields DEF StartedOn, Info, LedgerOf!TransactionInfo
<1> QED
  BY <1>3, <1>4, <1>5

LEMMA RejectedInfoType ==
  ASSUME NEW i \in Info
  PROVE  /\ [i EXCEPT !.status = Rejected] \in Info
         /\ [i EXCEPT !.status = Rejected].status = Rejected
         /\ [i EXCEPT !.status = Rejected].asset = i.asset
         /\ [i EXCEPT !.status = Rejected].seller = i.seller
<1>1. Rejected \in LedgerOf!TransactionStatuses
  BY DEF Rejected, LedgerOf!TransactionStatuses, LedgerOf!transactionStatusRejected
<1> QED
  BY <1>1 DEF Info, LedgerOf!TransactionInfo

\* An update of a list changes one entry: its active flag only, or the whole
\* of an absent one.
LEMMA UpdatedListEntries ==
  ASSUME NEW list \in Lists, NEW id \in TransactionIDs, NEW a \in Assets, NEW role \in 0..2,
         NEW active \in BOOLEAN
  PROVE  LET new == LedgerOf!UpdatedList(list, id, a, role, active)
         IN  /\ new \in Lists
             /\ \A j \in TransactionIDs \ {id} : new[j] = list[j]
             /\ new[id] # NoEntry /\ new[id].active = active
<1> DEFINE new == LedgerOf!UpdatedList(list, id, a, role, active)
           entry == IF list[id] # NoEntry THEN [list[id] EXCEPT !.active = active]
                    ELSE [asset |-> a, role |-> role, active |-> active]
<1>1. new = [list EXCEPT ![id] = entry]
  BY DEF LedgerOf!UpdatedList, Lists
<1>2. entry \in LedgerOf!TradeEntry /\ entry.active = active
  <2>1. CASE list[id] = NoEntry
    BY <2>1 DEF LedgerOf!TradeEntry, LedgerOf!TransactionRoles, LedgerOf!transactionRoleSeller
  <2>2. CASE list[id] # NoEntry
    <3>1. list[id] \in LedgerOf!TradeEntry
      BY <2>2 DEF Lists
    <3> QED
      BY <2>2, <3>1 DEF LedgerOf!TradeEntry
  <2> QED
    BY <2>1, <2>2
<1> HIDE DEF entry
<1> QED
  BY <1>1, <1>2, RecordsArePresent DEF Lists

LEMMA StatusWritten ==
  ASSUME WorldInv, NEW f, NEW id, NEW a \in Assets, NEW status, StatusSet(f, id, a, status),
         Apply(f)
  PROVE  StatusReplaced(a, status) /\ WorldInv'
<1>1. Stored(assetCertificateKey(a), status)
  BY AppliedWrite DEF StatusSet, WorldInv
<1>2. StatusReplaced(a, status) /\ IsFunction'
  BY <1>1, StoredStatus DEF StatusReplaced, StatusSet
<1>3. \A b \in Assets : legalStatus(b)' \in 0..6
  BY <1>2 DEF StatusReplaced, WorldInv
<1> QED
  BY <1>2, <1>3 DEF StatusReplaced, WorldInv, IdentitiesKept, InfosKept, ListsKept

LEMMA InfoWritten ==
  ASSUME WorldInv, NEW f, NEW i \in 1..Counter, NEW x \in Info, infoOf(i).status = Reviewing,
         f.writes = write(transactionInfoKey(i), x), Apply(f)
  PROVE  InfoReplaced(i, x) /\ WorldInv'
<1>1. i \in TransactionIDs /\ infoOf(i) # NoInfo
  BY ChannelAssumption, RecordsArePresent DEF WorldInv, TransactionIDs
<1>2. Stored(transactionInfoKey(i), x)
  BY AppliedWrite DEF WorldInv
<1>3. InfoReplaced(i, x) /\ IsFunction'
  BY <1>1, <1>2, StoredInfo DEF InfoReplaced
<1>4. \A j \in TransactionIDs :
        IF j <= Counter THEN infoOf(j)' \in Info ELSE infoOf(j)' = NoInfo
  BY <1>3 DEF InfoReplaced, WorldInv
<1> QED
  BY <1>3, <1>4 DEF InfoReplaced, WorldInv, IdentitiesKept, StatusesKept, ListsKept

LEMMA ListWritten ==
  ASSUME WorldInv, NEW f, NEW u \in Users, NEW id \in TransactionIDs, NEW a \in Assets,
         NEW role \in 0..2, NEW active \in BOOLEAN, ListSet(f, u, id, a, role, active), Apply(f)
  PROVE  EntryReplaced(u, id, a, role, active) /\ WorldInv'
<1>1. Stored(userTransactionListKey(u), LedgerOf!UpdatedList(ListOf(u), id, a, role, active))
  BY AppliedWrite DEF ListSet, WorldInv
<1>2. EntryReplaced(u, id, a, role, active) /\ IsFunction'
  BY <1>1, StoredList DEF EntryReplaced
<1>3. \A v \in Users : ListOf(v)' \in Lists
  <2>1. LedgerOf!UpdatedList(ListOf(u), id, a, role, active) \in Lists
    BY UpdatedListEntries DEF WorldInv
  <2> QED
    BY <1>2, <2>1 DEF EntryReplaced, WorldInv
<1> QED
  BY <1>2, <1>3 DEF EntryReplaced, WorldInv, IdentitiesKept, StatusesKept, InfosKept

LEMMA TransactionWritten ==
  ASSUME WorldInv, NEW f, NEW r \in Requests, Added(f, r), Apply(f)
  PROVE  TransactionAdded(f.id, r) /\ WorldInv'
<1> DEFINE i == f.id
           x == LedgerOf!ReviewingInfo(r.asset, r.user)
<1>1. i \in TransactionIDs /\ i = Counter + 1 /\ i \in 0..MaxUint
  BY ChannelAssumption DEF Added, TransactionIDs
<1>2. x \in Info
  BY ReviewingInfoType
<1>3. f.writes = [k \in {transactionCounterKey, transactionInfoKey(i)} |->
                    IF k = transactionCounterKey THEN i ELSE x]
  BY DEF Added
<1> HIDE DEF i, x
<1>4. world' = [k \in WorldKeys |->
                  IF k \in {transactionCounterKey, transactionInfoKey(i)}
                  THEN IF k = transactionCounterKey THEN i ELSE x
                  ELSE world[k]]
  BY <1>3 DEF Apply
<1>5. /\ IsFunction' /\ IdentitiesKept /\ Counter' = i /\ StatusesKept /\ ListsKept
      /\ infoOf(i)' = x /\ \A j \in TransactionIDs \ {i} : infoOf(j)' = infoOf(j)
  BY <1>1, <1>4, StoredTransaction
<1>6. TransactionAdded(i, r)
  BY <1>1, <1>5 DEF TransactionAdded, x
<1>7. \A j \in TransactionIDs :
        IF j <= Counter' THEN infoOf(j)' \in Info ELSE infoOf(j)' = NoInfo
  <2>1. Counter \in Nat
    BY ChannelAssumption DEF WorldInv
  <2> QED
    BY <1>1, <1>2, <1>5, <2>1 DEF WorldInv, TransactionIDs
<1> QED
  BY <1>1, <1>5, <1>6, <1>7 DEF WorldInv, IdentitiesKept, StatusesKept, ListsKept, i

LEMMA NothingWritten ==
  ASSUME WorldInv, NEW f, f.writes = <<>>, Apply(f)
  PROVE  NothingReplaced /\ WorldInv' /\ UNCHANGED world
<1>1. UNCHANGED world
  BY DEF Apply, WorldInv, IsFunction
<1>2. NothingReplaced /\ IsFunction'
  BY <1>1, StoredNothing DEF NothingReplaced, WorldInv
<1> QED
  BY <1>1, <1>2
     DEF NothingReplaced, WorldInv, IdentitiesKept, StatusesKept, InfosKept, ListsKept

\* The effect of a committed invocation of a step.
Effect(f, step, r, id, start) ==
  /\ step = "AddNewTransaction" => TransactionAdded(f.id, r)
  /\ step = "ListActive" =>
       EntryReplaced(r.user, id, r.asset, LedgerOf!transactionRoleSeller, TRUE)
  /\ step = "SetPending" => StatusReplaced(r.asset, LedgerOf!legalStatusPending)
  /\ step = "ApproveStatus" => StatusReplaced(r.asset, LedgerOf!expectedLegalStatus(r.mode))
  /\ step = "StartTransaction" =>
       IF f.reply
       THEN /\ InfoReplaced(id, LedgerOf!StartedInfo(infoOf(id), r.price, r.mode, start, r.final))
            /\ Eligible(r) /\ OnMarket(r) /\ LedgerOf!FinalizingTimeAccepted(r.mode, start, r.final)
       ELSE NothingReplaced /\ UNCHANGED world
  /\ step = "RestoreStatus" => StatusReplaced(r.asset, LedgerOf!legalStatusNormal)
  /\ step = "RejectTransaction" =>
       IF f.reply THEN InfoReplaced(id, [infoOf(id) EXCEPT !.status = Rejected])
                  ELSE NothingReplaced /\ UNCHANGED world
  /\ step = "ListInactive" =>
       EntryReplaced(r.user, id, r.asset, LedgerOf!transactionRoleSeller, FALSE)

LEMMA CommittedEffect ==
  ASSUME WorldInv, NEW f, NEW step \in Submits, NEW r \in Requests, NEW id \in 0..Counter,
         (id = 0) <=> (step = "AddNewTransaction"), NEW start \in Times,
         Says(f, step, r, id, start), Apply(f)
  PROVE  Effect(f, step, r, id, start) /\ WorldInv'
<1> USE RequestFields
<1>1. id # 0 => id \in TransactionIDs /\ id \in 1..Counter
  BY ChannelAssumption DEF TransactionIDs, WorldInv
<1>2. CASE step = "AddNewTransaction"
  BY <1>2, TransactionWritten DEF Says, Effect
<1>3. CASE step \in {"ListActive", "ListInactive"}
  <2>1. LedgerOf!transactionRoleSeller \in 0..2
    BY DEF LedgerOf!transactionRoleSeller
  <2>2. \A active \in BOOLEAN :
          ListSet(f, r.user, id, r.asset, LedgerOf!transactionRoleSeller, active) =>
            EntryReplaced(r.user, id, r.asset, LedgerOf!transactionRoleSeller, active) /\ WorldInv'
    BY <1>1, <1>3, <2>1, ListWritten
  <2> QED
    BY <1>3, <2>2 DEF Says, Effect
<1>4. CASE step \in {"SetPending", "ApproveStatus", "RestoreStatus"}
  BY <1>4, StatusWritten DEF Says, Effect
<1>5. CASE step = "StartTransaction"
  <2>1. TransactionStarted(f, id, r, start) /\ infoOf(id) \in Info
    BY <1>1, <1>5 DEF Says, WorldInv
  <2>2. CASE f.reply
    <3> DEFINE x == LedgerOf!StartedInfo(infoOf(id), r.price, r.mode, start, r.final)
    <3>1. x \in Info
      BY <2>1, StartedInfoType
    <3>2. f.writes = write(transactionInfoKey(id), x) /\ infoOf(id).status = Reviewing
      BY <2>1, <2>2 DEF TransactionStarted
    <3> HIDE DEF x
    <3>3. InfoReplaced(id, x) /\ WorldInv'
      BY <1>1, <1>5, <3>1, <3>2, InfoWritten
    <3> QED
      BY <1>5, <2>1, <2>2, <3>3 DEF Effect, TransactionStarted, x
  <2>3. CASE ~f.reply
    BY <1>5, <2>1, <2>3, NothingWritten DEF Effect, TransactionStarted
  <2> QED
    BY <2>2, <2>3
<1>6. CASE step = "RejectTransaction"
  <2>1. TransactionRejected(f, id) /\ infoOf(id) \in Info
    BY <1>1, <1>6 DEF Says, WorldInv
  <2>2. CASE f.reply
    BY <1>1, <1>6, <2>1, <2>2, InfoWritten, RejectedInfoType DEF Effect, TransactionRejected
  <2>3. CASE ~f.reply
    BY <1>6, <2>1, <2>3, NothingWritten DEF Effect, TransactionRejected
  <2> QED
    BY <2>2, <2>3
<1> QED
  BY <1>2, <1>3, <1>4, <1>5, <1>6 DEF Submits, AfterSuccess

-----------------------------------------------------------------------------
(* The inductive invariant.                                                *)

\* Before a handler owes an answer, and while it rejects its launch.
Going == {"AddNewTransaction", "ListActive", "CheckStatus", "SetPending", "Review",
          "ApproveStatus", "StartTransaction", "LoadAndCache"}
Rejecting == {"RestoreStatus", "RejectTransaction", "ListInactive"}

\* The launches that are listed as active.
Listed == {"CheckStatus", "SetPending", "Review", "ApproveStatus", "StartTransaction",
           "LoadAndCache"}

Entry(h) == ListOf(request[h].user)[txid[h]]

\* The transaction h was asked for is in progress on the terms h was asked for.
HasSale(h) ==
  /\ InProgress(txid[h])
  /\ infoOf(txid[h]) = [InfoFromLaunch(request[h]) EXCEPT !.startTime = infoOf(txid[h]).startTime]

HandlerTypes ==
  /\ pc \in [Handlers -> Active \cup {"idle", "done", "dead"}]
  /\ request \in [Handlers -> Requests \cup {NoRequest}]
  /\ txid \in [Handlers -> 0..MaxUint]
  /\ answer \in [Handlers -> {"none", "approved", "rejected", "error"}]

\* The place of a handler in its program, and the transaction it has by then.
Progress(h) ==
  /\ pc[h] = "idle" => request[h] = NoRequest
  /\ pc[h] # "idle" => request[h] \in Requests
  /\ pc[h] \in {"idle", "AddNewTransaction"} => txid[h] = 0
  /\ pc[h] \in Active \ {"AddNewTransaction"} => txid[h] # 0
  /\ pc[h] \in Going \cup {"idle", "dead"} => answer[h] = "none"
  /\ pc[h] \in Rejecting => answer[h] \in {"rejected", "error"}
  /\ pc[h] = "done" => answer[h] # "none"
  /\ pc[h] = "done" /\ answer[h] # "error" => txid[h] # 0

\* The records of its transaction.
Records(h) ==
  /\ txid[h] <= Counter
  /\ txid[h] # 0 => /\ infoOf(txid[h]).asset = request[h].asset
                    /\ infoOf(txid[h]).seller = request[h].user
  /\ pc[h] \in {"ApproveStatus", "StartTransaction"} =>
       OwnerOf[request[h].asset] = request[h].user
  /\ pc[h] \in Listed \/ Answered(h, "approved") => Entry(h) # NoEntry /\ Entry(h).active
  /\ pc[h] = "LoadAndCache" \/ Answered(h, "approved") => HasSale(h)
  /\ pc[h] = "ListInactive" \/ Answered(h, "rejected") => infoOf(txid[h]).status = Rejected
  /\ Answered(h, "rejected") => Entry(h) # NoEntry /\ ~Entry(h).active

HandlersInv ==
  /\ HandlerTypes
  /\ \A h \in Handlers : Progress(h) /\ Records(h)
  /\ \A h, g \in Handlers : txid[h] = txid[g] /\ txid[h] # 0 => h = g

CacheTypes == cache \in [TransactionIDs -> Info \cup {NoInfo}]

StateInv == WorldInv /\ HandlersInv /\ CacheTypes /\ CacheShowsLedger /\ OnlyOwnerSells

\* A well-formed invocation.
Invocation(f) ==
  /\ f = [by |-> f.by, id |-> f.id, reply |-> f.reply, reads |-> f.reads,
          writes |-> f.writes, stale |-> f.stale]
  /\ f.id \in TransactionIDs /\ f.reply \in BOOLEAN /\ f.stale \in BOOLEAN
  /\ f.reads \subseteq WorldKeys /\ DOMAIN f.writes \subseteq f.reads \cup {transactionInfoKey(f.id)}

\* The keys an invocation of a step reads, stale or not.
Reads(f, step, r, id) ==
  /\ step = "AddNewTransaction" => f.reads = {transactionCounterKey}
  /\ step \in {"ListActive", "ListInactive"} => f.reads = {userTransactionListKey(r.user)}
  /\ step \in {"SetPending", "ApproveStatus", "RestoreStatus"} =>
       f.reads = {assetCertificateKey(r.asset)}
  /\ step = "StartTransaction" =>
       transactionInfoKey(id) \in f.reads /\ tradingIdentityKey(r.user) \in f.reads
  /\ step = "RejectTransaction" => f.reads = {transactionInfoKey(id)}

\* h does not wait for its last invocation any longer.
GaveUp(h) == pc[h] = "dead" \/ answer[h] = "error"

\* f is an invocation of a step of h, which serves r and has transaction id.
From(f, h, step, start, r, id) ==
  /\ r = request[h] /\ id = txid[h]
  /\ (id = 0) <=> (step = "AddNewTransaction")
  /\ step = "StartTransaction" => OwnerOf[r.asset] = r.user
  /\ \/ f.by = h /\ pc[h] = step
     \/ f.by = Nobody /\ GaveUp(h)
  /\ Invocation(f) /\ Reads(f, step, r, id) /\ (id # 0 => f.id = id)
  /\ ~f.stale => Says(f, step, r, id, start)

IsFrom(f, h, step) ==
  \E start \in Times, r \in Requests, id \in 0..MaxUint : From(f, h, step, start, r, id)

FromHandler(f) == \E h \in Handlers, step \in Submits : IsFrom(f, h, step)

\* A handler waits for one invocation at a time.
OneEach(S) == \A f, g \in S : f.by = g.by /\ f.by # Nobody => f = g
OneAwaited == OneEach(flight)

FlightInv == \A f \in flight : FromHandler(f)

IInv == StateInv /\ FlightInv /\ OneAwaited

\* The channel may also carry invocations of other callers (LoginService).  The
\* launches keep their own invariant beside them, as long as what others commit
\* disturbs no launch.
Stranger(f) == Invocation(f) /\ f.by \notin Handlers

SharedInv ==
  StateInv /\ OneAwaited /\ \A f \in flight : FromHandler(f) \/ Stranger(f)

-----------------------------------------------------------------------------
(* The initial state.                                                      *)

LEMMA InitWorld == Init => WorldInv
<1> SUFFICES ASSUME Init PROVE WorldInv
  OBVIOUS
<1>1. IsFunction
  <2> DEFINE first(k) ==
        CASE k[1] = "TRADING_IDENTITY" ->
               [key |-> CHOOSE key \in Keys : TRUE, sellerScore |-> InitialScore[k[2]]]
          [] k[1] = "ASSET_CERT" -> LedgerOf!legalStatusNormal
          [] k[1] = "TRANSACTION_COUNTER" -> 0
          [] k[1] = "TRANSACTION_INFO" -> NoInfo
          [] k[1] = "USER_TRANSACTION_LIST" -> [id \in TransactionIDs |-> NoEntry]
  <2>1. world = [k \in WorldKeys |-> first(k)]
    BY DEF Init
  <2> HIDE DEF first
  <2> QED
    BY <2>1 DEF IsFunction
<1> USE KeysExist DEF Init
<1>2. \A u \in Users : Identity(u) \in LedgerOf!TradingIdentity
  <2> SUFFICES ASSUME NEW u \in Users PROVE Identity(u) \in LedgerOf!TradingIdentity
    OBVIOUS
  <2>1. Identity(u) = [key |-> CHOOSE key \in Keys : TRUE, sellerScore |-> InitialScore[u]]
    BY DEF Identity, tradingIdentityKey
  <2>2. (CHOOSE key \in Keys : TRUE) \in Keys /\ InitialScore[u] \in Nat
    BY ChannelAssumption
  <2> QED
    BY <2>1, <2>2 DEF LedgerOf!TradingIdentity
<1>3. \A a \in Assets : legalStatus(a) = 0
  BY DEF legalStatus, assetCertificateKey, LedgerOf!legalStatusNormal
<1>4. Counter = 0
  BY DEF Counter, transactionCounterKey
<1>5. \A id \in TransactionIDs : infoOf(id) = NoInfo
  BY DEF infoOf, transactionInfoKey
<1>6. \A u \in Users : ListOf(u) \in Lists
  BY DEF ListOf, Lists, userTransactionListKey
<1> QED
  BY <1>1, <1>2, <1>3, <1>4, <1>5, <1>6, ChannelAssumption DEF WorldInv, TransactionIDs

LEMMA InitIInv == Init => IInv
<1> SUFFICES ASSUME Init PROVE IInv
  OBVIOUS
<1>1. WorldInv
  BY InitWorld
<1>2. HandlersInv
  <2>1. HandlerTypes
    BY ChannelAssumption DEF Init, HandlerTypes
  <2>2. \A h \in Handlers : Progress(h) /\ Records(h)
    BY <1>1 DEF Init, Progress, Records, WorldInv, Active, Submits, AfterSuccess, Evaluates,
       Going, Rejecting, Listed, Answered
  <2> QED
    BY <2>1, <2>2 DEF HandlersInv, Init
<1>3. CacheTypes /\ CacheShowsLedger
  BY DEF Init, CacheTypes, CacheShowsLedger
<1>4. OnlyOwnerSells
  <2>1. \A id \in TransactionIDs : infoOf(id) = NoInfo
    BY KeysExist DEF Init, infoOf, transactionInfoKey
  <2> QED
    BY <2>1 DEF OnlyOwnerSells, InProgress
<1>5. FlightInv /\ OneAwaited
  BY DEF Init, FlightInv, OneAwaited, OneEach
<1> QED
  BY <1>1, <1>2, <1>3, <1>4, <1>5 DEF IInv, StateInv

-----------------------------------------------------------------------------
(* Invocations that stay what they are while something else happens.       *)

\* g is f, or f without its caller, or f overtaken by a write.
Remains(g, f) ==
  /\ g.by \in {f.by, Nobody} /\ g.id = f.id /\ g.reply = f.reply
  /\ g.reads = f.reads /\ g.writes = f.writes /\ (f.stale => g.stale)
  /\ Invocation(g)

\* Moreover, if it is not stale then what it read is what it was.
Keeps(g, f) == Remains(g, f) /\ (~g.stale => \A k \in f.reads : world'[k] = world[k])

FlightKept ==
  \A g \in flight' : FromHandler(g)' \/ \E f \in flight : ~FromHandler(f) /\ Keeps(g, f)

\* What every step of a launch does.
InvKept == StateInv' /\ OneAwaited' /\ FlightKept

LEMMA SharedStays ==
  /\ SharedInv /\ InvKept => SharedInv'
  /\ IInv /\ InvKept => IInv'
  /\ IInv => SharedInv
<1>1. ASSUME SharedInv, InvKept PROVE SharedInv'
  <2> SUFFICES ASSUME NEW g \in flight' PROVE FromHandler(g)' \/ Stranger(g)'
    BY <1>1 DEF SharedInv, InvKept
  <2>1. ASSUME NEW f \in flight, ~FromHandler(f), Keeps(g, f) PROVE Stranger(g)'
    BY <1>1, <2>1, HandlersAssumption DEF SharedInv, Stranger, Keeps, Remains, Invocation
  <2> QED
    BY <1>1, <2>1 DEF InvKept, FlightKept
<1> QED
  BY <1>1 DEF IInv, FlightInv, SharedInv, InvKept, FlightKept

LEMMA FromStays ==
  ASSUME NEW f, NEW g, NEW h \in Handlers, NEW step \in Submits, NEW start, NEW r, NEW id,
         From(f, h, step, start, r, id), Remains(g, f),
         request'[h] = request[h], txid'[h] = txid[h],
         g.by # Nobody => pc'[h] = pc[h],
         g.by = Nobody => GaveUp(h)',
         ~g.stale => \A k \in f.reads : world'[k] = world[k]
  PROVE  From(g, h, step, start, r, id)'
<1>1. ~g.stale => Says(g, step, r, id, start)'
  <2> SUFFICES ASSUME ~g.stale PROVE Says(g, step, r, id, start)'
    OBVIOUS
  <2>1. Says(f, step, r, id, start)
    BY DEF From, Remains
  <2>2. Says(g, step, r, id, start)
    BY <2>1 DEF Remains, Says, Added, StatusSet, TransactionRejected, TransactionStarted, ListSet
  <2>3. \A k \in g.reads : world'[k] = world[k]
    BY DEF Remains
  <2> QED
    BY <2>2, <2>3, SaysStays
<1>2. Reads(g, step, r, id) /\ Invocation(g) /\ (id # 0 => g.id = id)
  BY DEF From, Reads, Remains
<1>3. \/ g.by = h /\ pc'[h] = step
      \/ g.by = Nobody /\ GaveUp(h)'
  BY DEF From, Remains
<1> QED
  BY <1>1, <1>2, <1>3 DEF From

\* An overtaken set of invocations.
LEMMA OvertakenInvocations ==
  ASSUME NEW S, NEW keys, \A f \in S : Invocation(f), NEW g \in Overtaken(S, keys)
  PROVE  \E f \in S : /\ Remains(g, f) /\ g.by = f.by
                      /\ g.stale <=> f.stale \/ f.reads \cap keys # {}
<1>1. PICK f \in S : g = [f EXCEPT !.stale = @ \/ f.reads \cap keys # {}]
  BY DEF Overtaken
<1>2. Invocation(f) /\ f.stale \in BOOLEAN
  BY DEF Invocation
<1> DEFINE late == f.stale \/ f.reads \cap keys # {}
<1>3. late \in BOOLEAN
  OBVIOUS
<1>4. g = [f EXCEPT !.stale = late]
  BY <1>1
<1> HIDE DEF late
<1>5. g = [by |-> f.by, id |-> f.id, reply |-> f.reply, reads |-> f.reads,
           writes |-> f.writes, stale |-> late]
  BY <1>2, <1>4 DEF Invocation
<1>6. /\ g.by = f.by /\ g.id = f.id /\ g.reply = f.reply /\ g.reads = f.reads
      /\ g.writes = f.writes /\ g.stale = late
  BY <1>5
<1>7. Invocation(g)
  BY <1>2, <1>3, <1>5, <1>6 DEF Invocation
<1> QED
  BY <1>6, <1>7 DEF Remains, late

LEMMA AbandonedInvocation ==
  ASSUME NEW f, Invocation(f), NEW g, g = [f EXCEPT !.by = Nobody]
  PROVE  Remains(g, f) /\ g.by = Nobody /\ (g.stale <=> f.stale)
<1>1. g = [by |-> Nobody, id |-> f.id, reply |-> f.reply, reads |-> f.reads,
           writes |-> f.writes, stale |-> f.stale]
  BY DEF Invocation
<1>2. /\ g.by = Nobody /\ g.id = f.id /\ g.reply = f.reply /\ g.reads = f.reads
      /\ g.writes = f.writes /\ g.stale = f.stale
  BY <1>1
<1>3. Invocation(g)
  BY <1>1, <1>2 DEF Invocation
<1> QED
  BY <1>2, <1>3 DEF Remains

-----------------------------------------------------------------------------
(* What no commit does.                                                    *)

\* A transaction keeps its asset and its seller, settles once, and has its
\* record and its entries written by its own launch only.
HistoryKept(id) ==
  /\ Counter <= Counter' /\ Counter' \in Nat
  /\ \A j \in 1..Counter :
       /\ infoOf(j)'.asset = infoOf(j).asset /\ infoOf(j)'.seller = infoOf(j).seller
       /\ infoOf(j).status # Reviewing => infoOf(j)' = infoOf(j)
       /\ j # id => /\ infoOf(j)' = infoOf(j)
                    /\ \A u \in Users : ListOf(u)'[j] = ListOf(u)[j]

LEMMA UpdatedEntry ==
  ASSUME WorldInv, NEW u \in Users, NEW id \in TransactionIDs, NEW a \in Assets,
         NEW active \in BOOLEAN,
         EntryReplaced(u, id, a, LedgerOf!transactionRoleSeller, active)
  PROVE  /\ \A j \in TransactionIDs \ {id} : \A v \in Users : ListOf(v)'[j] = ListOf(v)[j]
         /\ ListOf(u)'[id] # NoEntry /\ ListOf(u)'[id].active = active
<1>1. LedgerOf!transactionRoleSeller \in 0..2
  BY DEF LedgerOf!transactionRoleSeller
<1>2. ListOf(u) \in Lists
  BY DEF WorldInv
<1> QED
  BY <1>1, <1>2, UpdatedListEntries DEF EntryReplaced

LEMMA EffectKeepsHistory ==
  ASSUME WorldInv, NEW f, NEW step \in Submits, NEW r \in Requests, NEW id \in 0..Counter,
         (id = 0) <=> (step = "AddNewTransaction"), NEW start \in Times,
         Effect(f, step, r, id, start)
  PROVE  HistoryKept(id)
<1> USE RequestFields
<1>1. /\ Counter \in Nat /\ Counter <= MaxUint /\ MaxUint \in Nat
      /\ \A j \in 1..Counter : j \in TransactionIDs /\ infoOf(j) \in Info
      /\ id # 0 => id \in TransactionIDs /\ id \in 1..Counter
  BY ChannelAssumption DEF TransactionIDs, WorldInv
<1>2. CASE step = "AddNewTransaction"
  <2>1. TransactionAdded(f.id, r)
    BY <1>2 DEF Effect
  <2>2. \A j \in 1..Counter : infoOf(j)' = infoOf(j)
    BY <1>1, <2>1 DEF TransactionAdded
  <2> QED
    BY <1>1, <2>1, <2>2 DEF TransactionAdded, HistoryKept, ListsKept
<1>3. CASE step \in {"ListActive", "ListInactive"}
  <2>1. PICK active \in BOOLEAN :
          EntryReplaced(r.user, id, r.asset, LedgerOf!transactionRoleSeller, active)
    BY <1>3 DEF Effect
  <2>2. \A j \in TransactionIDs \ {id} : \A v \in Users : ListOf(v)'[j] = ListOf(v)[j]
    BY <1>1, <1>3, <2>1, UpdatedEntry
  <2> QED
    BY <1>1, <2>1, <2>2 DEF EntryReplaced, HistoryKept, InfosKept
<1>4. CASE step \in {"SetPending", "ApproveStatus", "RestoreStatus"}
  BY <1>1, <1>4 DEF Effect, StatusReplaced, HistoryKept, InfosKept, ListsKept
<1>5. CASE step \in {"StartTransaction", "RejectTransaction"}
  <2>1. infoOf(id) \in Info
    BY <1>1, <1>5
  <2>2. CASE NothingReplaced
    BY <1>1, <2>2 DEF NothingReplaced, HistoryKept, InfosKept, ListsKept
  <2>3. CASE f.reply
    <3>1. PICK x : /\ InfoReplaced(id, x)
                   /\ x.asset = infoOf(id).asset /\ x.seller = infoOf(id).seller
      <4>1. CASE step = "StartTransaction"
        <5> DEFINE x == LedgerOf!StartedInfo(infoOf(id), r.price, r.mode, start, r.final)
        <5>1. x.asset = infoOf(id).asset /\ x.seller = infoOf(id).seller
          BY <2>1, StartedInfoType
        <5>2. InfoReplaced(id, x)
          BY <2>3, <4>1 DEF Effect
        <5> QED
          BY <5>1, <5>2
      <4>2. CASE step = "RejectTransaction"
        <5> DEFINE x == [infoOf(id) EXCEPT !.status = Rejected]
        <5>1. x.asset = infoOf(id).asset /\ x.seller = infoOf(id).seller
          BY <2>1, RejectedInfoType
        <5>2. InfoReplaced(id, x)
          BY <2>3, <4>2 DEF Effect
        <5> QED
          BY <5>1, <5>2
      <4> QED
        BY <1>5, <4>1, <4>2
    <3> QED
      BY <1>1, <1>5, <3>1 DEF InfoReplaced, HistoryKept, ListsKept
  <2> QED
    BY <1>5, <2>2, <2>3 DEF Effect
<1> QED
  BY <1>2, <1>3, <1>4, <1>5 DEF Submits, AfterSuccess

\* A handler whose place, request and transaction stay, and so do its records.
LEMMA RecordsStay ==
  ASSUME NEW h \in Handlers, Records(h), txid[h] \in Nat, request[h] \in Requests \/ txid[h] = 0,
         pc'[h] = pc[h], request'[h] = request[h], txid'[h] = txid[h], answer'[h] = answer[h],
         Counter <= Counter', Counter \in Nat, Counter' \in Nat,
         txid[h] # 0 => infoOf(txid[h])' = infoOf(txid[h]) /\ Entry(h)' = Entry(h),
         Progress(h)
  PROVE  Records(h)'
<1>1. CASE txid[h] = 0
  BY <1>1 DEF Records, Progress, Answered, Listed, Active, Submits, Evaluates, AfterSuccess
<1>2. CASE txid[h] # 0
  BY <1>2 DEF Records, HasSale, InProgress, Answered, InfoFromLaunch, infoOf
<1> QED
  BY <1>1, <1>2

-----------------------------------------------------------------------------
(* A commit and the state of the handlers.                                 *)

Starts(f, step, id, j) == step = "StartTransaction" /\ f.reply /\ j = id

\* A transaction is put in progress by the invocation that starts it only.
LEMMA EffectInProgress ==
  ASSUME WorldInv, NEW f, NEW step \in Submits, NEW r \in Requests, NEW id \in 0..Counter,
         (id = 0) <=> (step = "AddNewTransaction"), NEW start \in Times,
         Effect(f, step, r, id, start), WorldInv',
         NEW j \in TransactionIDs, InProgress(j)'
  PROVE  \/ InProgress(j) /\ infoOf(j)' = infoOf(j)
         \/ /\ Starts(f, step, id, j)
            /\ infoOf(j)' = LedgerOf!StartedInfo(infoOf(j), r.price, r.mode, start, r.final)
<1> USE DEF InProgress, LedgerOf!transactionStatusInProgress
<1>1. /\ Counter \in Nat /\ Counter <= MaxUint /\ MaxUint \in Nat
      /\ id # 0 => id \in TransactionIDs /\ infoOf(id) \in Info
  BY ChannelAssumption DEF TransactionIDs, WorldInv
<1>2. CASE infoOf(j)' = infoOf(j)
  BY <1>2
<1>3. CASE step = "AddNewTransaction"
  <2>1. CASE j = f.id
    <3>1. infoOf(j)'.status = 0
      BY <1>3, <2>1 DEF Effect, TransactionAdded, LedgerOf!ReviewingInfo,
         LedgerOf!transactionStatusReviewing
    <3> QED
      BY <3>1
  <2>2. CASE j # f.id
    BY <1>2, <1>3, <2>2 DEF Effect, TransactionAdded
  <2> QED
    BY <2>1, <2>2
<1>4. CASE step = "StartTransaction"
  BY <1>2, <1>4 DEF Effect, InfoReplaced, NothingReplaced, InfosKept, Starts
<1>5. CASE step = "RejectTransaction"
  <2>1. CASE j = id /\ f.reply
    <3>1. infoOf(j)'.status = 10
      BY <1>1, <1>5, <2>1, RejectedInfoType
         DEF Effect, InfoReplaced, Rejected, LedgerOf!transactionStatusRejected
    <3> QED
      BY <3>1
  <2>2. CASE ~(j = id /\ f.reply)
    BY <1>2, <1>5, <2>2 DEF Effect, InfoReplaced, NothingReplaced, InfosKept
  <2> QED
    BY <2>1, <2>2
<1>6. CASE step \in {"ListActive", "ListInactive", "SetPending", "ApproveStatus", "RestoreStatus"}
  BY <1>2, <1>6 DEF Effect, EntryReplaced, StatusReplaced, InfosKept
<1> QED
  BY <1>3, <1>4, <1>5, <1>6 DEF Submits, AfterSuccess

\* The cache and the owners do not notice a commit.
LEMMA CacheStays ==
  ASSUME WorldInv, CacheShowsLedger, NEW id, HistoryKept(id), UNCHANGED cache
  PROVE  CacheShowsLedger'
<1> SUFFICES ASSUME NEW j \in TransactionIDs, cache[j] # NoInfo
             PROVE  /\ InProgress(j)'
                    /\ [cache[j] EXCEPT !.startTime = 0] = [infoOf(j)' EXCEPT !.startTime = 0]
  BY DEF CacheShowsLedger
<1>1. InProgress(j)
  BY DEF CacheShowsLedger
<1>2. j \in 1..Counter /\ infoOf(j).status # Reviewing
  BY <1>1, ChannelAssumption
     DEF WorldInv, TransactionIDs, InProgress, Reviewing, LedgerOf!transactionStatusReviewing,
         LedgerOf!transactionStatusInProgress
<1>3. infoOf(j)' = infoOf(j)
  BY <1>2 DEF HistoryKept
<1> QED
  BY <1>1, <1>3 DEF CacheShowsLedger, InProgress

LEMMA OwnersStay ==
  ASSUME WorldInv, OnlyOwnerSells, NEW f, NEW step \in Submits, NEW r \in Requests,
         NEW id \in 0..Counter, (id = 0) <=> (step = "AddNewTransaction"), NEW start \in Times,
         Effect(f, step, r, id, start), WorldInv',
         id # 0 => infoOf(id).asset = r.asset /\ infoOf(id).seller = r.user,
         step = "StartTransaction" => OwnerOf[r.asset] = r.user
  PROVE  OnlyOwnerSells'
<1> SUFFICES ASSUME NEW j \in TransactionIDs, InProgress(j)'
             PROVE  OwnerOf[infoOf(j)'.asset] = infoOf(j)'.seller
  BY DEF OnlyOwnerSells
<1>1. CASE InProgress(j) /\ infoOf(j)' = infoOf(j)
  BY <1>1 DEF OnlyOwnerSells
<1>2. CASE Starts(f, step, id, j)
             /\ infoOf(j)' = LedgerOf!StartedInfo(infoOf(j), r.price, r.mode, start, r.final)
  <2>1. j = id /\ id # 0 /\ infoOf(j) \in Info
    BY <1>2, ChannelAssumption DEF Starts, TransactionIDs, WorldInv
  <2>2. infoOf(j)'.asset = r.asset /\ infoOf(j)'.seller = r.user
    BY <1>2, <2>1, StartedInfoType
  <2> QED
    BY <1>2, <2>2 DEF Starts
<1> QED
  BY <1>1, <1>2, EffectInProgress

\* A handler of another transaction.
LEMMA OthersStay ==
  ASSUME StateInv, NEW id, HistoryKept(id), NEW h \in Handlers, txid[h] # 0 => txid[h] # id,
         pc'[h] = pc[h], request'[h] = request[h], txid'[h] = txid[h], answer'[h] = answer[h]
  PROVE  Progress(h)' /\ Records(h)'
<1>1. Progress(h) /\ Records(h) /\ txid[h] \in 0..MaxUint /\ Counter \in Nat /\ MaxUint \in Nat
  BY ChannelAssumption DEF StateInv, HandlersInv, HandlerTypes, WorldInv
<1>2. Progress(h)'
  BY <1>1 DEF Progress
<1>3. pc[h] = "idle" => txid[h] = 0
  BY <1>1 DEF Progress
<1>4. request[h] \in Requests \/ txid[h] = 0
  BY <1>1, <1>3 DEF Progress
<1>5. ASSUME txid[h] # 0 PROVE infoOf(txid[h])' = infoOf(txid[h]) /\ Entry(h)' = Entry(h)
  <2>1. txid[h] \in 1..Counter
    BY <1>1, <1>5 DEF Records
  <2>2. request[h].user \in Users
    BY <1>4, <1>5, RequestFields
  <2> DEFINE j == txid[h]
             u == request[h].user
  <2>3. PICK i, v : i = j /\ v = u
    OBVIOUS
  <2>4. infoOf(i)' = infoOf(i) /\ ListOf(v)'[i] = ListOf(v)[i]
    BY <1>5, <2>1, <2>2, <2>3 DEF HistoryKept
  <2> QED
    BY <2>3, <2>4 DEF Entry, infoOf, ListOf
<1> QED
  BY <1>1, <1>2, <1>4, <1>5, RecordsStay DEF HistoryKept

\* A handler that has given up.
LEMMA GivenUpStays ==
  ASSUME StateInv, NEW id, HistoryKept(id), NEW h \in Handlers, GaveUp(h),
         pc'[h] = pc[h], request'[h] = request[h], txid'[h] = txid[h], answer'[h] = answer[h]
  PROVE  Progress(h)' /\ Records(h)'
<1>1. Progress(h) /\ Records(h) /\ txid[h] \in 0..MaxUint /\ Counter \in Nat /\ MaxUint \in Nat
  BY ChannelAssumption DEF StateInv, HandlersInv, HandlerTypes, WorldInv
<1>2. Progress(h)'
  BY <1>1 DEF Progress
<1>3. /\ pc[h] \notin Listed \cup {"ApproveStatus", "StartTransaction", "LoadAndCache"}
      /\ ~Answered(h, "approved") /\ ~Answered(h, "rejected")
      /\ pc[h] = "ListInactive" => txid[h] # 0
  BY <1>1 DEF GaveUp, Progress, Answered, Listed, Going, Active, Submits, AfterSuccess
<1>4. ASSUME txid[h] # 0
      PROVE  /\ (infoOf(txid[h]).asset)' = infoOf(txid[h]).asset
             /\ (infoOf(txid[h]).seller)' = infoOf(txid[h]).seller
             /\ infoOf(txid[h]).status = Rejected => (infoOf(txid[h]).status)' = Rejected
  <2>1. txid[h] \in 1..Counter
    BY <1>1, <1>4 DEF Records
  <2>2. PICK i : i = txid[h]
    OBVIOUS
  <2>3. /\ infoOf(i)'.asset = infoOf(i).asset /\ infoOf(i)'.seller = infoOf(i).seller
        /\ infoOf(i).status # Reviewing => infoOf(i)' = infoOf(i)
    BY <2>1, <2>2 DEF HistoryKept
  <2> QED
    BY <2>2, <2>3 DEF infoOf, Reviewing, Rejected, LedgerOf!transactionStatusReviewing,
       LedgerOf!transactionStatusRejected
<1>5. txid[h] <= Counter'
  BY <1>1 DEF Records, HistoryKept
<1>6. Records(h)'
  BY <1>1, <1>3, <1>4, <1>5 DEF Records, Answered, Rejected
<1> QED
  BY <1>2, <1>6

\* Where each outcome of a call leads.
LEMMA NextSteps ==
  /\ AfterSuccess["AddNewTransaction"] = "ListActive"
  /\ AfterSuccess["ListActive"] = "CheckStatus"
  /\ AfterSuccess["SetPending"] = "Review"
  /\ AfterSuccess["ApproveStatus"] = "StartTransaction"
  /\ AfterSuccess["StartTransaction"] = "LoadAndCache"
  /\ AfterSuccess["RestoreStatus"] = "RejectTransaction"
  /\ AfterSuccess["RejectTransaction"] = "ListInactive"
  /\ AfterSuccess["ListInactive"] = "done"
  /\ \A s \in {"AddNewTransaction", "RestoreStatus", "RejectTransaction", "ListInactive"} :
       AfterFailure(s) = "done"
  /\ \A s \in {"ListActive", "CheckStatus", "SetPending"} : AfterFailure(s) = "RejectTransaction"
  /\ \A s \in {"Review", "ApproveStatus", "StartTransaction"} : AfterFailure(s) = "RestoreStatus"
BY DEF AfterSuccess, AfterFailure, restoreLegalStatus

LEMMA Steps ==
  /\ Submits = {"AddNewTransaction", "ListActive", "SetPending", "ApproveStatus",
                "StartTransaction", "RestoreStatus", "RejectTransaction", "ListInactive"}
  /\ Active = Submits \cup {"CheckStatus", "Review", "LoadAndCache"}
BY DEF Submits, AfterSuccess, Active, Evaluates

\* h has moved to the place p with the transaction i and owes the answer v.
Moved(h, p, i, v) ==
  /\ pc' = [pc EXCEPT ![h] = p] /\ txid' = [txid EXCEPT ![h] = i]
  /\ answer' = [answer EXCEPT ![h] = v]

LEMMA MovedTypes ==
  ASSUME HandlerTypes, NEW h \in Handlers, NEW p \in Active \cup {"done"},
         NEW i \in 0..MaxUint, NEW v \in {"none", "approved", "rejected", "error"},
         Moved(h, p, i, v), UNCHANGED request
  PROVE  /\ HandlerTypes'
         /\ pc'[h] = p /\ txid'[h] = i /\ answer'[h] = v
         /\ \A k \in Handlers \ {h} :
              pc'[k] = pc[k] /\ txid'[k] = txid[k] /\ answer'[k] = answer[k]
BY DEF HandlerTypes, Moved

\* Where the caller of a committed invocation goes.
LEMMA CommitMoves ==
  ASSUME HandlerTypes, NEW f, NEW h \in Handlers, f.by = h, Commit(f), f.id \in TransactionIDs
  PROVE  IF f.reply THEN Moved(h, AfterSuccess[pc[h]], f.id, answer[h])
         ELSE Moved(h, AfterFailure(pc[h]), txid[h],
                    IF pc[h] = "StartTransaction" THEN "rejected" ELSE "error")
<1>1. f.by # Nobody
  BY HandlersAssumption
<1>2. CASE f.reply
  BY <1>1, <1>2 DEF Commit, Accepted, Succeeds, Moved, HandlerTypes
<1>3. CASE ~f.reply
  BY <1>1, <1>3 DEF Commit, Accepted, Fails, Moved, HandlerTypes
<1> QED
  BY <1>2, <1>3

\* The records of a handler after its own step.
LEMMA OwnStepStays ==
  ASSUME StateInv, NEW f, NEW h \in Handlers, f.by = h, Commit(f),
         NEW step \in Submits, NEW start \in Times, NEW r \in Requests, NEW id \in 0..Counter,
         From(f, h, step, start, r, id), Effect(f, step, r, id, start), WorldInv',
         HistoryKept(id)
  PROVE  /\ HandlerTypes' /\ Progress(h)' /\ Records(h)'
         /\ step # "AddNewTransaction" => txid'[h] = id
         /\ step = "AddNewTransaction" => txid'[h] = Counter + 1
         /\ \A k \in Handlers \ {h} :
              pc'[k] = pc[k] /\ txid'[k] = txid[k] /\ answer'[k] = answer[k]
<1> USE RequestFields
<1>1. /\ HandlerTypes /\ Progress(h) /\ Records(h) /\ WorldInv
      /\ r = request[h] /\ id = txid[h] /\ pc[h] = step /\ Invocation(f)
      /\ ((id = 0) <=> (step = "AddNewTransaction"))
      /\ (id # 0 => f.id = id)
      /\ f.id \in TransactionIDs /\ f.id \in 1..MaxUint /\ f.reply \in BOOLEAN
      /\ UNCHANGED request /\ ~f.stale /\ Says(f, step, r, id, start)
  BY HandlersAssumption
     DEF StateInv, HandlersInv, From, Invocation, Commit, Apply, TransactionIDs
<1>2. /\ Counter \in Nat /\ MaxUint \in Nat /\ Counter <= MaxUint
      /\ id # 0 => id \in TransactionIDs /\ id \in 1..Counter /\ infoOf(id) \in Info
  BY <1>1, ChannelAssumption DEF TransactionIDs, WorldInv
<1>3. \A k : Entry(k)' = ListOf(request[k].user)'[txid'[k]]
  BY <1>1 DEF Entry, ListOf
<1>4. \A k : (InProgress(k)' <=> infoOf(k)' # NoInfo
                 /\ infoOf(k)'.status = LedgerOf!transactionStatusInProgress)
  BY DEF InProgress
<1>5. step # "AddNewTransaction" =>
        infoOf(id).asset = r.asset /\ infoOf(id).seller = r.user
          /\ infoOf(id)'.asset = r.asset /\ infoOf(id)'.seller = r.user
  BY <1>1, <1>2 DEF Records, HistoryKept
<1>6. CASE step = "AddNewTransaction"
  <2>1. f.reply /\ TransactionAdded(f.id, r) /\ answer[h] = "none"
    BY <1>1, <1>6 DEF Says, Added, Effect, Progress, Going
  <2>2. Moved(h, "ListActive", f.id, "none")
    BY <1>1, <1>6, <2>1, CommitMoves, NextSteps
  <2>3. /\ HandlerTypes'
        /\ pc'[h] = "ListActive" /\ txid'[h] = f.id /\ answer'[h] = "none"
        /\ \A k \in Handlers \ {h} :
             pc'[k] = pc[k] /\ txid'[k] = txid[k] /\ answer'[k] = answer[k]
    BY <1>1, <2>2, MovedTypes, Steps
  <2>4. infoOf(f.id)'.asset = r.asset /\ infoOf(f.id)'.seller = r.user
    BY <2>1 DEF TransactionAdded, LedgerOf!ReviewingInfo
  <2>5. (infoOf(txid[h]).asset)' = r.asset /\ (infoOf(txid[h]).seller)' = r.user
    BY <2>3, <2>4 DEF infoOf
  <2>6. Records(h)'
    BY <1>1, <1>2, <2>1, <2>3, <2>5 DEF Records, TransactionAdded, Answered, Listed
  <2>7. Progress(h)'
    BY <1>1, <1>2, <2>3 DEF Progress, Going, Rejecting
  <2> QED
    BY <1>6, <2>1, <2>3, <2>6, <2>7 DEF TransactionAdded
<1>7. CASE step # "AddNewTransaction"
  <2>1. txid[h] # 0 /\ id # 0 /\ f.id = id /\ id \in 0..MaxUint
    <3>1. id # 0 /\ f.id = id
      BY <1>1, <1>7
    <3> QED
      BY <1>1, <1>2, <3>1
  <2>2. ASSUME NEW p \in Active \cup {"done"},
               NEW v \in {"none", "approved", "rejected", "error"}, Moved(h, p, id, v)
        PROVE  /\ HandlerTypes'
               /\ pc'[h] = p /\ txid'[h] = id /\ answer'[h] = v
               /\ \A k \in Handlers \ {h} :
                    pc'[k] = pc[k] /\ txid'[k] = txid[k] /\ answer'[k] = answer[k]
               /\ (txid[h] <= Counter)'
               /\ (infoOf(txid[h]).asset)' = r.asset /\ (infoOf(txid[h]).seller)' = r.user
               /\ request'[h] = r
    <3>1. /\ HandlerTypes'
          /\ pc'[h] = p /\ txid'[h] = id /\ answer'[h] = v
          /\ \A k \in Handlers \ {h} :
               pc'[k] = pc[k] /\ txid'[k] = txid[k] /\ answer'[k] = answer[k]
      BY <1>1, <2>1, <2>2, MovedTypes
    <3>2. (txid[h] <= Counter)'
      BY <1>2, <3>1 DEF HistoryKept
    <3> QED
      BY <1>1, <1>5, <1>7, <3>1, <3>2 DEF infoOf
  <2>3. CASE step \in {"ListActive", "ListInactive"}
    <3>1. PICK active \in BOOLEAN :
            /\ EntryReplaced(r.user, id, r.asset, LedgerOf!transactionRoleSeller, active)
            /\ active <=> step = "ListActive"
      BY <2>3 DEF Effect
    <3>2. ListOf(r.user)'[id] # NoEntry /\ ListOf(r.user)'[id].active = active
      BY <1>1, <1>2, <2>1, <3>1, UpdatedEntry
    <3>3. f.reply
      BY <1>1, <2>3 DEF Says, ListSet
    <3>4. CASE step = "ListActive"
      <4>1. Moved(h, "CheckStatus", id, "none")
        BY <1>1, <2>1, <3>3, <3>4, CommitMoves, NextSteps DEF Progress, Going
      <4>2. ListOf(r.user)'[id].active
        BY <3>1, <3>2, <3>4
      <4> QED
        BY <1>1, <1>7, <2>1, <2>2, <3>2, <3>4, <4>1, <4>2, Steps
           DEF Progress, Records, Going, Rejecting, Listed, Answered, Entry, ListOf
    <3>5. CASE step = "ListInactive"
      <4>1. Moved(h, "done", id, answer[h]) /\ answer[h] \in {"rejected", "error"}
        BY <1>1, <2>1, <3>3, <3>5, CommitMoves, NextSteps DEF Progress, Rejecting
      <4>2. infoOf(id)'.status = Rejected
        BY <1>1, <2>1, <3>1, <3>5 DEF Records, EntryReplaced, InfosKept
      <4>3. (infoOf(txid[h]).status)' = Rejected
        BY <2>2, <4>1, <4>2 DEF infoOf
      <4> QED
        BY <1>1, <1>7, <2>1, <2>2, <3>1, <3>2, <3>5, <4>1, <4>3, Steps
           DEF Progress, Records, Going, Rejecting, Listed, Answered, Entry, ListOf, Rejected
    <3> QED
      BY <2>3, <3>4, <3>5
  <2>4. CASE step \in {"SetPending", "ApproveStatus", "RestoreStatus"}
    <3>1. ListsKept /\ f.reply
      BY <1>1, <2>4 DEF Effect, StatusReplaced, Says, StatusSet
    <3>2. ListOf(r.user)'[id] = ListOf(r.user)[id]
      BY <3>1 DEF ListsKept
    <3>3. CASE step \in {"SetPending", "ApproveStatus"}
      <4>1. PICK p \in {"Review", "StartTransaction"} :
              /\ Moved(h, p, id, "none")
              /\ p = "StartTransaction" => OwnerOf[r.asset] = r.user
        BY <1>1, <2>1, <3>1, <3>3, CommitMoves, NextSteps DEF Progress, Going, Records
      <4>2. ListOf(r.user)[id] # NoEntry /\ ListOf(r.user)[id].active
        BY <1>1, <3>3 DEF Records, Listed, Entry
      <4> QED
        BY <1>1, <1>7, <2>1, <2>2, <3>2, <3>3, <4>1, <4>2, Steps
           DEF Progress, Records, Going, Rejecting, Listed, Answered, Entry, ListOf
    <3>4. CASE step = "RestoreStatus"
      <4>1. Moved(h, "RejectTransaction", id, answer[h]) /\ answer[h] \in {"rejected", "error"}
        BY <1>1, <2>1, <3>1, <3>4, CommitMoves, NextSteps DEF Progress, Rejecting
      <4> QED
        BY <1>1, <1>7, <2>1, <2>2, <3>4, <4>1, Steps
           DEF Progress, Records, Going, Rejecting, Listed, Answered
    <3> QED
      BY <2>4, <3>3, <3>4
  <2>5. CASE step = "StartTransaction"
    <3>1. CASE ~f.reply
      <4>1. Moved(h, "RestoreStatus", id, "rejected")
        BY <1>1, <2>1, <2>5, <3>1, CommitMoves, NextSteps
      <4> QED
        BY <1>1, <1>7, <2>1, <2>2, <2>5, <4>1, Steps
           DEF Progress, Records, Going, Rejecting, Listed, Answered
    <3>2. CASE f.reply
      <4> DEFINE x == LedgerOf!StartedInfo(infoOf(id), r.price, r.mode, start, r.final)
      <4>1. Moved(h, "LoadAndCache", id, "none")
        BY <1>1, <2>1, <2>5, <3>2, CommitMoves, NextSteps DEF Progress, Going
      <4>2. ListsKept /\ infoOf(id)' = x
        BY <2>5, <3>2 DEF Effect, InfoReplaced
      <4>3. x \in Info /\ x.status = LedgerOf!transactionStatusInProgress
        BY <1>2, <2>1, StartedInfoType
      <4>4. x = [InfoFromLaunch(r) EXCEPT !.startTime = x.startTime]
        <5>1. x = StartedOn(r.asset, r.user, r, start)
          <6>1. infoOf(id) \in Info
            BY <1>2, <2>1
          <6>2. x = StartedOn(infoOf(id).asset, infoOf(id).seller, r, start)
            BY ONLY <6>1, StartedInfoIs
          <6> QED
            BY <1>5, <1>7, <6>2
        <5>2. x.startTime = start
          BY <5>1 DEF StartedOn
        <5> QED
          BY <5>1, <5>2, LaunchInfoIs
      <4> HIDE DEF x
      <4>5. (InProgress(txid[h]))'
        BY <2>2, <4>1, <4>2, <4>3, RecordsArePresent, Steps DEF InProgress, infoOf
      <4>6. HasSale(h)'
        BY <2>2, <4>1, <4>2, <4>4, <4>5, Steps DEF HasSale, infoOf, InfoFromLaunch
      <4>7. ListOf(r.user)'[id] # NoEntry /\ ListOf(r.user)'[id].active
        BY <1>1, <2>5, <4>2 DEF Records, Listed, Entry, ListsKept
      <4> QED
        BY <1>1, <1>7, <2>1, <2>2, <2>5, <4>1, <4>6, <4>7, Steps
           DEF Progress, Records, Going, Rejecting, Listed, Answered, Entry, ListOf
    <3> QED
      BY <3>1, <3>2
  <2>6. CASE step = "RejectTransaction"
    <3>1. CASE ~f.reply
      <4>1. Moved(h, "done", id, "error")
        BY <1>1, <2>1, <2>6, <3>1, CommitMoves, NextSteps
      <4> QED
        BY <1>1, <1>7, <2>1, <2>2, <2>6, <4>1, Steps
           DEF Progress, Records, Going, Rejecting, Listed, Answered
    <3>2. CASE f.reply
      <4>1. Moved(h, "ListInactive", id, answer[h]) /\ answer[h] \in {"rejected", "error"}
        BY <1>1, <2>1, <2>6, <3>2, CommitMoves, NextSteps DEF Progress, Rejecting
      <4>2. infoOf(id)'.status = Rejected
        BY <1>2, <2>1, <2>6, <3>2, RejectedInfoType DEF Effect, InfoReplaced
      <4>3. (infoOf(txid[h]).status)' = Rejected
        BY <2>2, <4>1, <4>2, Steps DEF infoOf
      <4> QED
        BY <1>1, <1>7, <2>1, <2>2, <2>6, <4>1, <4>3, Steps
           DEF Progress, Records, Going, Rejecting, Listed, Answered, Rejected
    <3> QED
      BY <3>1, <3>2
  <2> QED
    BY <1>7, <2>3, <2>4, <2>5, <2>6, Steps
<1> QED
  BY <1>6, <1>7

\* What is known of an invocation that commits.
LEMMA CommittedFrom ==
  ASSUME StateInv, NEW f, Commit(f), NEW h \in Handlers, NEW step \in Submits,
         NEW start \in Times, NEW r \in Requests, NEW id \in 0..MaxUint,
         From(f, h, step, start, r, id)
  PROVE  /\ r = request[h] /\ id = txid[h] /\ id \in 0..Counter
         /\ (id = 0) <=> (step = "AddNewTransaction")
         /\ id # 0 => infoOf(id).asset = r.asset /\ infoOf(id).seller = r.user
         /\ Effect(f, step, r, id, start) /\ WorldInv' /\ HistoryKept(id)
         /\ f.id \in TransactionIDs /\ (id # 0 => f.id = id) /\ f.reply \in BOOLEAN
         /\ UNCHANGED <<request, cache, spent>>
<1>1. /\ r = request[h] /\ id = txid[h] /\ Records(h) /\ WorldInv /\ Apply(f)
      /\ ((id = 0) <=> (step = "AddNewTransaction"))
      /\ (id # 0 => f.id = id)
      /\ f.id \in TransactionIDs /\ f.reply \in BOOLEAN /\ Says(f, step, r, id, start)
  BY DEF From, StateInv, HandlersInv, Commit, Apply, Invocation
<1>2. id \in 0..Counter /\ (id # 0 => infoOf(id).asset = r.asset /\ infoOf(id).seller = r.user)
  BY <1>1, ChannelAssumption DEF Records, WorldInv
<1>3. Effect(f, step, r, id, start) /\ WorldInv'
  BY <1>1, <1>2, CommittedEffect
<1>4. HistoryKept(id)
  BY <1>1, <1>2, <1>3, EffectKeepsHistory
<1> QED
  BY <1>1, <1>2, <1>3, <1>4 DEF Commit

LEMMA CommitState ==
  ASSUME StateInv, NEW f, Commit(f), NEW h \in Handlers, NEW step \in Submits,
         NEW start \in Times, NEW r \in Requests, NEW id \in 0..MaxUint,
         From(f, h, step, start, r, id)
  PROVE  StateInv'
<1>1. /\ r = request[h] /\ id = txid[h] /\ id \in 0..Counter
      /\ ((id = 0) <=> (step = "AddNewTransaction"))
      /\ (id # 0 => infoOf(id).asset = r.asset /\ infoOf(id).seller = r.user)
      /\ Effect(f, step, r, id, start) /\ WorldInv' /\ HistoryKept(id)
      /\ UNCHANGED <<request, cache, spent>>
  BY CommittedFrom
<1>2. /\ WorldInv /\ HandlersInv /\ CacheTypes /\ CacheShowsLedger /\ OnlyOwnerSells
      /\ HandlerTypes /\ txid[h] \in 0..MaxUint /\ Counter \in Nat /\ MaxUint \in Nat
  BY ChannelAssumption DEF StateInv, HandlersInv, HandlerTypes, WorldInv
<1>3. CacheTypes' /\ CacheShowsLedger'
  BY <1>1, <1>2, CacheStays DEF CacheTypes
<1>4. OnlyOwnerSells'
  BY <1>1, <1>2, OwnersStay DEF From
<1>5. \A k \in Handlers \ {h} : txid[k] # 0 => txid[k] # id
  BY <1>1, <1>2 DEF HandlersInv
<1>6. HandlersInv'
  <2>1. CASE f.by = Nobody
    <3>1. UNCHANGED <<pc, txid, answer, request>> /\ GaveUp(h)
      BY <1>1, <2>1, HandlersAssumption DEF Commit, From
    <3>2. Progress(h)' /\ Records(h)'
      BY <1>1, <3>1, GivenUpStays
    <3>3. \A k \in Handlers \ {h} : Progress(k)' /\ Records(k)'
      BY <1>1, <1>5, <3>1, OthersStay
    <3>4. HandlerTypes'
      BY <1>2, <3>1 DEF HandlerTypes
    <3> QED
      BY <1>2, <3>1, <3>2, <3>3, <3>4 DEF HandlersInv
  <2>2. CASE f.by = h
    <3>1. /\ HandlerTypes' /\ Progress(h)' /\ Records(h)'
          /\ (step # "AddNewTransaction" => txid'[h] = id)
          /\ (step = "AddNewTransaction" => txid'[h] = Counter + 1)
          /\ \A k \in Handlers \ {h} :
               pc'[k] = pc[k] /\ txid'[k] = txid[k] /\ answer'[k] = answer[k]
      BY <1>1, <2>2, OwnStepStays
    <3>2. \A k \in Handlers \ {h} : Progress(k)' /\ Records(k)'
      BY <1>1, <1>5, <3>1, OthersStay
    <3>3. \A k \in Handlers \ {h} : txid'[k] = txid'[h] => txid'[k] = 0
      <4>1. \A k \in Handlers : txid[k] <= Counter
        BY <1>2 DEF HandlersInv, Records
      <4> QED
        BY <1>1, <1>2, <1>5, <3>1, <4>1
    <3> QED
      BY <1>2, <3>1, <3>2, <3>3 DEF HandlersInv
  <2> QED
    BY <2>1, <2>2 DEF From
<1> QED
  BY <1>1, <1>3, <1>4, <1>6 DEF StateInv

\* The other invocations stay what they are, unless they are overtaken.
LEMMA CommitOthers ==
  ASSUME StateInv, NEW f, Commit(f), NEW h \in Handlers, NEW step \in Submits,
         NEW start \in Times, NEW r \in Requests, NEW id \in 0..MaxUint,
         From(f, h, step, start, r, id),
         NEW g, NEW k \in Handlers, NEW other \in Submits, NEW start2 \in Times,
         NEW r2 \in Requests, NEW id2 \in 0..MaxUint,
         From(g, k, other, start2, r2, id2), g.by = f.by => f.by = Nobody,
         NEW g2, Remains(g2, g), g2.by = g.by,
         g2.stale <=> g.stale \/ g.reads \cap DOMAIN f.writes # {}
  PROVE  From(g2, k, other, start2, r2, id2)'
<1>1. /\ r = request[h] /\ id = txid[h]
      /\ ((id = 0) <=> (step = "AddNewTransaction"))
      /\ Effect(f, step, r, id, start) /\ HistoryKept(id)
      /\ UNCHANGED <<request, cache, spent>>
      /\ WorldInv /\ HandlerTypes /\ Progress(h) /\ Progress(k)
      /\ Invocation(g) /\ k \in Handlers /\ (g.by = k \/ g.by = Nobody)
  BY CommittedFrom DEF StateInv, HandlersInv, From
<1>2. ~g2.stale => \A key \in g.reads : world'[key] = world[key]
  BY <1>1 DEF Commit, Apply, Invocation
<1>3. CASE f.by = Nobody
  <2>1. UNCHANGED <<pc, txid, answer>>
    BY <1>3 DEF Commit
  <2>2. g2.by = Nobody => GaveUp(k)'
    BY <1>1, <2>1, HandlersAssumption DEF From, GaveUp
  <2> QED
    BY <1>1, <1>2, <2>1, <2>2, FromStays
<1>4. CASE f.by = h
  <2>1. /\ \A j \in Handlers \ {h} :
             pc'[j] = pc[j] /\ txid'[j] = txid[j] /\ answer'[j] = answer[j]
        /\ (step # "AddNewTransaction" => txid'[h] = id)
    BY <1>1, <1>4, OwnStepStays, CommittedFrom
  <2>2. CASE k # h
    <3>1. g2.by = Nobody => GaveUp(k)'
      BY <1>1, <2>1, <2>2, HandlersAssumption DEF From, GaveUp
    <3> QED
      BY <1>1, <1>2, <2>1, <2>2, <3>1, FromStays
  <2>3. CASE k = h
    <3>1. g.by = Nobody /\ GaveUp(h) /\ pc[h] = step
      BY <1>1, <1>4, <2>3, HandlersAssumption DEF From
    <3>2. answer[h] = "error" /\ step \in Rejecting
      BY <1>1, <3>1, Steps DEF GaveUp, Progress, Going, Rejecting
    <3>3. txid'[h] = txid[h]
      BY <1>1, <2>1, <3>2 DEF Rejecting
    <3>4. answer'[h] = "error"
      <4>1. f.id \in TransactionIDs /\ f.reply \in BOOLEAN /\ HandlerTypes
        BY <1>1 DEF From, Invocation
      <4> QED
        BY <1>1, <1>4, <3>1, <3>2, <4>1, CommitMoves DEF Moved, Rejecting, HandlerTypes
    <3> QED
      BY <1>1, <1>2, <2>3, <3>1, <3>3, <3>4, FromStays DEF GaveUp
  <2> QED
    BY <2>2, <2>3
<1> QED
  BY <1>3, <1>4 DEF From

LEMMA OvertakenOneEach ==
  ASSUME NEW S, NEW keys, \A f \in S : Invocation(f), OneEach(S)
  PROVE  OneEach(Overtaken(S, keys))
<1> SUFFICES ASSUME NEW g1 \in Overtaken(S, keys), NEW g2 \in Overtaken(S, keys),
                    g1.by = g2.by, g1.by # Nobody
             PROVE  g1 = g2
  BY DEF OneEach
<1>1. PICK f1 \in S : g1 = [f1 EXCEPT !.stale = @ \/ f1.reads \cap keys # {}]
  BY DEF Overtaken
<1>2. PICK f2 \in S : g2 = [f2 EXCEPT !.stale = @ \/ f2.reads \cap keys # {}]
  BY DEF Overtaken
<1>3. g1.by = f1.by
  <2> DEFINE late == f1.stale \/ f1.reads \cap keys # {}
  <2>1. g1 = [f1 EXCEPT !.stale = late]
    BY <1>1
  <2> HIDE DEF late
  <2> QED
    BY <2>1 DEF Invocation
<1>4. g2.by = f2.by
  <2> DEFINE late == f2.stale \/ f2.reads \cap keys # {}
  <2>1. g2 = [f2 EXCEPT !.stale = late]
    BY <1>2
  <2> HIDE DEF late
  <2> QED
    BY <2>1 DEF Invocation
<1>5. f1 = f2
  BY <1>3, <1>4 DEF OneEach
<1> QED
  BY <1>1, <1>2, <1>5

LEMMA CommitInv ==
  ASSUME SharedInv, NEW f \in flight, FromHandler(f), Commit(f)
  PROVE  InvKept
<1>1. PICK h \in Handlers, step \in Submits, start \in Times, r \in Requests, id \in 0..MaxUint :
        From(f, h, step, start, r, id)
  BY DEF FromHandler, IsFrom
<1>2. StateInv /\ StateInv'
  BY <1>1, CommitState DEF SharedInv
<1>3. \A g \in flight : Invocation(g)
  BY DEF SharedInv, Stranger, FromHandler, IsFrom, From
<1>4. flight' = Overtaken(flight \ {f}, DOMAIN f.writes)
  BY DEF Commit, Apply
<1>5. FlightKept
  <2> SUFFICES ASSUME NEW g2 \in flight'
               PROVE  FromHandler(g2)' \/ \E g \in flight : ~FromHandler(g) /\ Keeps(g2, g)
    BY DEF FlightKept
  <2>1. PICK g \in flight \ {f} :
          Remains(g2, g) /\ g2.by = g.by /\ (g2.stale <=> g.stale \/ g.reads \cap DOMAIN f.writes # {})
    BY <1>3, <1>4, OvertakenInvocations
  <2>2. CASE FromHandler(g)
    <3>1. PICK k \in Handlers, other \in Submits, start2 \in Times, r2 \in Requests,
               id2 \in 0..MaxUint : From(g, k, other, start2, r2, id2)
      BY <2>2 DEF FromHandler, IsFrom
    <3>2. g.by = f.by => f.by = Nobody
      BY DEF SharedInv, OneAwaited, OneEach
    <3>3. From(g2, k, other, start2, r2, id2)'
      BY <1>1, <1>2, <2>1, <3>1, <3>2, CommitOthers
    <3> QED
      BY <3>3 DEF FromHandler, IsFrom
  <2>3. CASE ~FromHandler(g)
    <3>1. ~g2.stale => \A k \in g.reads : world'[k] = world[k]
      BY <1>3, <2>1 DEF Commit, Apply, Invocation
    <3> QED
      BY <2>1, <2>3, <3>1 DEF Keeps
  <2> QED
    BY <2>2, <2>3
<1>6. OneAwaited'
  <2>1. OneEach(flight \ {f})
    BY DEF SharedInv, OneAwaited, OneEach
  <2>2. OneEach(Overtaken(flight \ {f}, DOMAIN f.writes))
    BY <1>3, <2>1, OvertakenOneEach
  <2> QED
    BY <1>4, <2>2 DEF OneAwaited
<1> QED
  BY <1>2, <1>5, <1>6 DEF InvKept

-----------------------------------------------------------------------------
(* The steps that leave the world state alone.                             *)

\* A step of h after which the invocations are those of before, of which h may
\* have given up its own.
LEMMA FlightsStay ==
  ASSUME SharedInv, NEW h \in Handlers, UNCHANGED <<world, request, txid>>,
         \A k \in Handlers \ {h} : pc'[k] = pc[k] /\ answer'[k] = answer[k],
         GaveUp(h) => GaveUp(h)',
         \A g2 \in flight' : \E g \in flight :
           /\ Remains(g2, g) /\ (g2.stale <=> g.stale)
           /\ g.by # h => g2.by = g.by
           /\ g.by = h => g2.by = Nobody /\ GaveUp(h)'
  PROVE  FlightKept
<1> SUFFICES ASSUME NEW g2 \in flight'
             PROVE  FromHandler(g2)' \/ \E g \in flight : ~FromHandler(g) /\ Keeps(g2, g)
  BY DEF FlightKept
<1>1. PICK g \in flight :
        /\ Remains(g2, g) /\ (g2.stale <=> g.stale)
        /\ (g.by # h => g2.by = g.by)
        /\ (g.by = h => g2.by = Nobody /\ GaveUp(h)')
  OBVIOUS
<1>2. CASE FromHandler(g)
  <2>1. PICK k \in Handlers, step \in Submits, start \in Times, r \in Requests, id \in 0..MaxUint :
          From(g, k, step, start, r, id)
    BY <1>2 DEF FromHandler, IsFrom
  <2>2. g.by = k \/ (g.by = Nobody /\ GaveUp(k))
    BY <2>1 DEF From
  <2>3. GaveUp(k) => GaveUp(k)'
    BY DEF GaveUp
  <2>4. g2.by = Nobody => GaveUp(k)'
    BY <1>1, <2>2, <2>3, HandlersAssumption
  <2>5. g2.by # Nobody => pc'[k] = pc[k]
    BY <1>1, <2>2, HandlersAssumption
  <2>6. From(g2, k, step, start, r, id)'
    BY <1>1, <2>1, <2>4, <2>5, FromStays
  <2> QED
    BY <2>6 DEF FromHandler, IsFrom
<1>3. CASE ~FromHandler(g)
  BY <1>1, <1>3 DEF Keeps
<1> QED
  BY <1>2, <1>3

\* The state keeps its invariant when one handler moves and keeps its own.
LEMMA StateStays ==
  ASSUME StateInv, NEW h \in Handlers, UNCHANGED <<world, request, txid, cache>>,
         \A k \in Handlers \ {h} : pc'[k] = pc[k] /\ answer'[k] = answer[k],
         HandlerTypes', Progress(h)', Records(h)'
  PROVE  StateInv'
<1>1. WorldInv /\ HandlersInv /\ HandlerTypes
  BY DEF StateInv, HandlersInv
<1>2. WorldInv'
  BY <1>1 DEF WorldInv, IsFunction, Identity, Counter, ListOf, legalStatus, infoOf
<1>3. \A k \in Handlers \ {h} : Progress(k)' /\ Records(k)'
  BY <1>1 DEF HandlersInv, Progress, Records, HasSale, InProgress, InfoFromLaunch, infoOf,
     Answered, Entry, ListOf, Counter
<1>4. HandlersInv'
  BY <1>1, <1>3 DEF HandlersInv
<1>5. CacheTypes' /\ CacheShowsLedger' /\ OnlyOwnerSells'
  BY DEF StateInv, CacheTypes, CacheShowsLedger, OnlyOwnerSells, InProgress, infoOf
<1> QED
  BY <1>2, <1>4, <1>5 DEF StateInv

\* A handler that fails puts its transaction on the way to rejection, or ends.
LEMMA FailsInv ==
  ASSUME SharedInv, NEW h \in Handlers, pc[h] \in Active \ {"LoadAndCache"},
         NEW v \in {"rejected", "error"}, Fails(h, v),
         v = "error" \/ pc[h] \in {"CheckStatus", "Review"},
         UNCHANGED <<world, request, cache>>,
         \A g2 \in flight' : \E g \in flight :
           /\ Remains(g2, g) /\ (g2.stale <=> g.stale)
           /\ g.by # h => g2.by = g.by
           /\ g.by = h => g2.by = Nobody /\ v = "error",
         OneEach(flight')
  PROVE  InvKept
<1>1. /\ HandlerTypes /\ Progress(h) /\ Records(h) /\ txid[h] \in 0..MaxUint
      /\ StateInv /\ UNCHANGED txid
  BY DEF SharedInv, StateInv, HandlersInv, HandlerTypes, Fails
<1>2. AfterFailure(pc[h]) \in {"done", "RejectTransaction", "RestoreStatus"}
  BY NextSteps, Steps
<1>3. Moved(h, AfterFailure(pc[h]), txid[h], v)
  BY <1>1 DEF Fails, Moved, HandlerTypes
<1>4. /\ HandlerTypes'
      /\ pc'[h] = AfterFailure(pc[h]) /\ txid'[h] = txid[h] /\ answer'[h] = v
      /\ \A k \in Handlers \ {h} : pc'[k] = pc[k] /\ txid'[k] = txid[k] /\ answer'[k] = answer[k]
  BY <1>1, <1>2, <1>3, MovedTypes, Steps
<1>5. pc'[h] = "done" <=> pc[h] \in {"AddNewTransaction", "RestoreStatus", "RejectTransaction",
                                       "ListInactive"}
  BY <1>4, NextSteps, Steps
<1>6. Progress(h)' /\ Records(h)'
  <2>1. Progress(h)'
    BY <1>1, <1>2, <1>4, <1>5, Steps DEF Progress, Going, Rejecting
  <2>2. v = "rejected" => pc'[h] # "done"
    BY <1>5
  <2>3. Records(h)'
    BY <1>1, <1>2, <1>4, <2>2, Steps DEF Records, Listed, Answered, Counter, infoOf
  <2> QED
    BY <2>1, <2>3
<1>7. StateInv'
  BY <1>1, <1>4, <1>6, StateStays
<1>8. GaveUp(h) => GaveUp(h)'
  <2>1. GaveUp(h) => v = "error"
    BY <1>1, Steps DEF GaveUp, Progress, Going
  <2> QED
    BY <1>4, <2>1, Steps DEF GaveUp
<1>9. v = "error" => GaveUp(h)'
  BY <1>4 DEF GaveUp
<1>10. FlightKept
  <2>1. \A g2 \in flight' : \E g \in flight :
          /\ Remains(g2, g) /\ (g2.stale <=> g.stale)
          /\ g.by # h => g2.by = g.by
          /\ g.by = h => g2.by = Nobody /\ GaveUp(h)'
    BY <1>9
  <2> QED
    BY <1>1, <1>4, <1>8, <2>1, FlightsStay
<1> QED
  BY <1>7, <1>10 DEF InvKept, OneAwaited

LEMMA RemainsItself == \A g : Invocation(g) => Remains(g, g)
BY DEF Remains

\* The invocations stay, and none is h's.
LEMMA FlightStays ==
  ASSUME SharedInv, NEW h, UNCHANGED flight, \A g \in flight : g.by # h
  PROVE  \A g2 \in flight' : \E g \in flight :
           /\ Remains(g2, g) /\ (g2.stale <=> g.stale)
           /\ g.by # h => g2.by = g.by
           /\ g.by = h => FALSE
BY RemainsItself DEF SharedInv, Stranger, FromHandler, IsFrom, From

\* A handler that evaluates has no invocation of its own.
LEMMA EvaluatesAlone ==
  ASSUME SharedInv, NEW h \in Handlers, pc[h] \notin Submits
  PROVE  \A g \in flight : g.by # h
BY HandlersAssumption DEF SharedInv, Stranger, FromHandler, IsFrom, From

LEMMA FailsAloneInv ==
  ASSUME SharedInv, NEW h \in Handlers, pc[h] \in Active \ {"LoadAndCache"},
         NEW v \in {"rejected", "error"}, Fails(h, v),
         v = "error" \/ pc[h] \in {"CheckStatus", "Review"},
         UNCHANGED <<world, request, cache, flight>>, \A g \in flight : g.by # h
  PROVE  InvKept
<1>1. \A g2 \in flight' : \E g \in flight :
        /\ Remains(g2, g) /\ (g2.stale <=> g.stale)
        /\ g.by # h => g2.by = g.by
        /\ g.by = h => g2.by = Nobody /\ v = "error"
  <2>1. \A g2 \in flight' : \E g \in flight :
          /\ Remains(g2, g) /\ (g2.stale <=> g.stale)
          /\ g.by # h => g2.by = g.by
          /\ g.by = h => FALSE
    BY FlightStays
  <2> QED
    BY <2>1
<1>2. OneEach(flight')
  BY DEF SharedInv, OneAwaited
<1> QED
  BY <1>1, <1>2, FailsInv

LEMMA RefuseInv == ASSUME SharedInv, NEW h \in Handlers, Refuse(h) PROVE InvKept
<1>1. /\ pc[h] \in Active \ {"LoadAndCache"} /\ Fails(h, "error")
      /\ UNCHANGED <<world, request, cache, flight>> /\ \A g \in flight : g.by # h
  BY Steps DEF Refuse, Waiting
<1> QED
  BY <1>1, FailsAloneInv

LEMMA CallFailsInv == ASSUME SharedInv, NEW h \in Handlers, CallFails(h) PROVE InvKept
<1>1. /\ pc[h] \in Active \ {"LoadAndCache"} /\ Fails(h, "error")
      /\ UNCHANGED <<world, request, cache, flight>> /\ \A g \in flight : g.by # h
  BY Steps DEF CallFails, Waiting
<1> QED
  BY <1>1, FailsAloneInv

\* An evaluation that goes well.
LEMMA EvaluatedInv ==
  ASSUME SharedInv, NEW h \in Handlers, pc[h] \in {"CheckStatus", "Review", "LoadAndCache"},
         NEW p \in {"SetPending", "ApproveStatus", "done"}, pc' = [pc EXCEPT ![h] = p],
         UNCHANGED <<world, flight, request, txid>>,
         pc[h] = "Review" <=> p = "ApproveStatus", pc[h] = "LoadAndCache" <=> p = "done",
         p = "ApproveStatus" => OwnerOf[request[h].asset] = request[h].user,
         p # "done" => UNCHANGED <<answer, cache>>,
         p = "done" => /\ answer' = [answer EXCEPT ![h] = "approved"]
                       /\ CacheTypes' /\ CacheShowsLedger'
  PROVE  InvKept
<1>1. /\ HandlerTypes /\ Progress(h) /\ Records(h) /\ WorldInv /\ StateInv
      /\ \A k \in Handlers : Progress(k) /\ Records(k)
  BY DEF SharedInv, StateInv, HandlersInv
<1>2. /\ HandlerTypes' /\ pc'[h] = p
      /\ \A k \in Handlers \ {h} : pc'[k] = pc[k] /\ answer'[k] = answer[k]
      /\ answer[h] = "none" /\ answer'[h] = (IF p = "done" THEN "approved" ELSE "none")
      /\ request[h] \in Requests /\ txid[h] # 0
  <2>1. answer[h] = "none" /\ request[h] \in Requests /\ txid[h] # 0
    BY <1>1, Steps DEF Progress, Going
  <2> QED
    BY <1>1, <2>1, Steps DEF HandlerTypes
<1>3. Progress(h)'
  BY <1>1, <1>2, Steps DEF Progress, Going, Rejecting
<1>4. Records(h)'
  BY <1>1, <1>2 DEF Records, HasSale, InProgress, InfoFromLaunch, infoOf, Answered, Entry, ListOf,
     Counter, Listed
<1>5. \A k \in Handlers \ {h} : Progress(k)' /\ Records(k)'
  BY <1>1, <1>2 DEF Progress, Records, HasSale, InProgress, InfoFromLaunch, infoOf,
     Answered, Entry, ListOf, Counter
<1>6. HandlersInv'
  BY <1>1, <1>2, <1>3, <1>4, <1>5 DEF HandlersInv, StateInv
<1>7. WorldInv' /\ OnlyOwnerSells'
  BY <1>1 DEF StateInv, OnlyOwnerSells, InProgress, WorldInv, IsFunction, Identity, Counter,
     ListOf, legalStatus, infoOf
<1>8. CacheTypes' /\ CacheShowsLedger'
  BY <1>1 DEF StateInv, CacheTypes, CacheShowsLedger, InProgress, infoOf
<1>9. FlightKept
  <2>1. \A g \in flight : g.by # h
    BY EvaluatesAlone, Steps
  <2>2. ~GaveUp(h)
    BY <1>2 DEF GaveUp
  <2>3. \A g2 \in flight' : \E g \in flight :
          /\ Remains(g2, g) /\ (g2.stale <=> g.stale)
          /\ g.by # h => g2.by = g.by
          /\ g.by = h => g2.by = Nobody /\ GaveUp(h)'
    <3>1. \A g2 \in flight' : \E g \in flight :
            /\ Remains(g2, g) /\ (g2.stale <=> g.stale)
            /\ g.by # h => g2.by = g.by
            /\ g.by = h => FALSE
      BY <2>1, FlightStays
    <3> QED
      BY <3>1
  <2> QED
    BY <1>2, <2>2, <2>3, FlightsStay
<1> QED
  BY <1>6, <1>7, <1>8, <1>9 DEF SharedInv, InvKept, StateInv, OneAwaited, OneEach

LEMMA CheckStatusInv == ASSUME SharedInv, NEW h \in Handlers, CheckStatus(h) PROVE InvKept
<1>1. pc[h] = "CheckStatus" /\ UNCHANGED <<world, flight, request, cache, spent>>
  BY DEF CheckStatus
<1>2. CASE pc' = [pc EXCEPT ![h] = "SetPending"] /\ UNCHANGED <<answer, txid>>
  BY <1>1, <1>2, EvaluatedInv
<1>3. CASE Fails(h, "rejected")
  <2>1. \A g \in flight : g.by # h
    BY <1>1, EvaluatesAlone, Steps
  <2>2. pc[h] \in Active \ {"LoadAndCache"}
    BY <1>1, Steps
  <2> QED
    BY <1>1, <1>3, <2>1, <2>2, FailsAloneInv
<1> QED
  BY <1>2, <1>3 DEF CheckStatus

LEMMA ReviewInv == ASSUME SharedInv, NEW h \in Handlers, Review(h) PROVE InvKept
<1>1. pc[h] = "Review" /\ UNCHANGED <<world, flight, request, cache, spent>>
  BY DEF Review
<1>2. CASE /\ ReviewPasses(request[h])
           /\ pc' = [pc EXCEPT ![h] = "ApproveStatus"] /\ UNCHANGED <<answer, txid>>
  BY <1>1, <1>2, EvaluatedInv DEF ReviewPasses
<1>3. CASE Fails(h, "rejected")
  <2>1. \A g \in flight : g.by # h
    BY <1>1, EvaluatesAlone, Steps
  <2>2. pc[h] \in Active \ {"LoadAndCache"}
    BY <1>1, Steps
  <2> QED
    BY <1>1, <1>3, <2>1, <2>2, FailsAloneInv
<1> QED
  BY <1>2, <1>3 DEF Review

\* What is cached is what has started, read from the ledger or rebuilt.
LEMMA LoadAndCacheInv == ASSUME SharedInv, NEW h \in Handlers, LoadAndCache(h) PROVE InvKept
<1>1. /\ pc[h] = "LoadAndCache" /\ UNCHANGED <<world, flight, request, txid>>
      /\ pc' = [pc EXCEPT ![h] = "done"] /\ answer' = [answer EXCEPT ![h] = "approved"]
  BY DEF LoadAndCache
<1>2. /\ CacheTypes /\ CacheShowsLedger /\ Progress(h) /\ HasSale(h) /\ WorldInv
      /\ txid[h] \in 0..MaxUint /\ txid[h] <= Counter
  BY <1>1 DEF SharedInv, StateInv, HandlersInv, HandlerTypes, Records
<1>3. txid[h] \in TransactionIDs /\ request[h] \in Requests /\ infoOf(txid[h]) \in Info
  BY <1>1, <1>2, ChannelAssumption, Steps DEF Progress, TransactionIDs, WorldInv
<1>4. PICK x \in Info : /\ cache' = [cache EXCEPT ![txid[h]] = x]
                        /\ [x EXCEPT !.startTime = 0] = [infoOf(txid[h]) EXCEPT !.startTime = 0]
  <2>1. CASE cache' = [cache EXCEPT ![txid[h]] = infoOf(txid[h])]
    BY <1>3, <2>1
  <2>2. CASE cache' = [cache EXCEPT ![txid[h]] = InfoFromLaunch(request[h])]
    <3>1. InfoFromLaunch(request[h]) \in Info
      BY <1>3, LaunchInfoIs
    <3>2. [infoOf(txid[h]) EXCEPT !.startTime = 0] = [InfoFromLaunch(request[h]) EXCEPT !.startTime = 0]
      BY <1>2, <3>1 DEF HasSale, Info, LedgerOf!TransactionInfo
    <3> QED
      BY <2>2, <3>1, <3>2
  <2> QED
    BY <2>1, <2>2 DEF LoadAndCache
<1>5. CacheTypes'
  BY <1>2, <1>3, <1>4 DEF CacheTypes
<1>6. CacheShowsLedger'
  <2> SUFFICES ASSUME NEW j \in TransactionIDs, cache'[j] # NoInfo
               PROVE  /\ InProgress(j)'
                      /\ [cache'[j] EXCEPT !.startTime = 0] = [infoOf(j)' EXCEPT !.startTime = 0]
    BY DEF CacheShowsLedger
  <2>1. infoOf(j)' = infoOf(j) /\ (InProgress(j)' <=> InProgress(j))
    BY <1>1 DEF infoOf, InProgress
  <2>2. CASE j = txid[h]
    BY <1>2, <1>3, <1>4, <2>1, <2>2 DEF CacheTypes, HasSale
  <2>3. CASE j # txid[h]
    BY <1>2, <1>4, <2>1, <2>3 DEF CacheTypes, CacheShowsLedger
  <2> QED
    BY <2>2, <2>3
<1> QED
  BY <1>1, <1>5, <1>6, EvaluatedInv

LEMMA StateUnchanged ==
  ASSUME StateInv, UNCHANGED <<world, pc, request, txid, answer, cache>>
  PROVE  StateInv'
<1>1. WorldInv'
  BY DEF StateInv, WorldInv, IsFunction, Identity, Counter, ListOf, legalStatus, infoOf
<1>2. \A h \in Handlers : Progress(h)' /\ Records(h)'
  BY DEF StateInv, HandlersInv, Progress, Records, HasSale, InProgress, InfoFromLaunch, infoOf,
     Answered, Entry, ListOf, Counter
<1>3. HandlersInv'
  BY <1>2 DEF StateInv, HandlersInv, HandlerTypes
<1>4. CacheTypes' /\ CacheShowsLedger' /\ OnlyOwnerSells'
  BY DEF StateInv, CacheTypes, CacheShowsLedger, OnlyOwnerSells, InProgress, infoOf
<1> QED
  BY <1>1, <1>3, <1>4 DEF StateInv

LEMMA FromUnchanged ==
  ASSUME NEW f, NEW h \in Handlers, NEW step \in Submits, NEW start, NEW r, NEW id,
         From(f, h, step, start, r, id), UNCHANGED <<world, pc, request, txid, answer>>
  PROVE  From(f, h, step, start, r, id)'
<1>1. Remains(f, f) /\ (f.by = Nobody => GaveUp(h))
  BY RemainsItself, HandlersAssumption DEF From
<1>2. f.by = Nobody => GaveUp(h)'
  BY <1>1 DEF GaveUp
<1> QED
  BY <1>1, <1>2, FromStays

LEMMA FlightUnchanged ==
  ASSUME SharedInv, UNCHANGED <<world, pc, request, txid, answer>>, NEW f \in flight
  PROVE  FromHandler(f)' \/ (~FromHandler(f) /\ Keeps(f, f))
<1>1. CASE FromHandler(f)
  <2>1. PICK h \in Handlers, step \in Submits, start \in Times, r \in Requests,
             id \in 0..MaxUint : From(f, h, step, start, r, id)
    BY <1>1 DEF FromHandler, IsFrom
  <2>2. From(f, h, step, start, r, id)'
    BY <2>1, FromUnchanged
  <2> QED
    BY <2>2 DEF FromHandler, IsFrom
<1>2. CASE ~FromHandler(f)
  BY <1>2, RemainsItself DEF SharedInv, Stranger, Keeps
<1> QED
  BY <1>1, <1>2

LEMMA InvalidateInv ==
  ASSUME SharedInv, NEW f \in flight, f.by \in Handlers \cup {Nobody}, Invalidate(f)
  PROVE  InvKept
<1>1. /\ flight' = flight \ {f} /\ UNCHANGED <<world, request, cache, spent>>
      /\ \A g \in flight : Invocation(g)
  BY DEF Invalidate, SharedInv, Stranger, FromHandler, IsFrom, From
<1>2. OneEach(flight')
  BY <1>1 DEF SharedInv, OneAwaited, OneEach
<1>3. CASE f.by = Nobody
  <2>1. UNCHANGED <<pc, txid, answer>>
    BY <1>3 DEF Invalidate
  <2>2. StateInv'
    BY <1>1, <2>1, StateUnchanged DEF SharedInv
  <2>3. FlightKept
    BY <1>1, <2>1, FlightUnchanged DEF FlightKept
  <2> QED
    BY <1>2, <2>2, <2>3 DEF InvKept, OneAwaited
<1>4. CASE f.by # Nobody
  <2> DEFINE h == f.by
  <2>1. h \in Handlers /\ Fails(h, "error") /\ pc[h] \in Submits
    BY <1>1, <1>4 DEF Invalidate, SharedInv, Stranger, FromHandler, IsFrom, From
  <2>2. \A g \in flight' : g \in flight /\ g.by # h
    BY <1>1, <1>4 DEF SharedInv, OneAwaited, OneEach
  <2>3. \A g2 \in flight' : \E g \in flight :
          /\ Remains(g2, g) /\ (g2.stale <=> g.stale)
          /\ g.by # h => g2.by = g.by
          /\ g.by = h => g2.by = Nobody /\ "error" = "error"
    BY <1>1, <2>2, RemainsItself
  <2>4. pc[h] \in Active \ {"LoadAndCache"}
    BY <2>1, Steps
  <2> HIDE DEF h
  <2> QED
    BY <1>1, <1>2, <2>1, <2>3, <2>4, FailsInv
<1> QED
  BY <1>3, <1>4

-----------------------------------------------------------------------------
(* An invocation that begins.                                              *)

LEMMA ReplyIsBoolean ==
  ASSUME NEW h, pc[h] \in Submits, NEW start, ~Call(h, start).refused
  PROVE  Call(h, start).reply \in BOOLEAN
<1> USE DEF endorsed, declined, refused
<1>1. CASE pc[h] = "AddNewTransaction"
  BY <1>1 DEF Call, AddNewTransactionCall
<1>2. CASE pc[h] \in {"ListActive", "ListInactive"}
  BY <1>2 DEF Call, UpdateTransactionListCall
<1>3. CASE pc[h] \in {"SetPending", "ApproveStatus", "RestoreStatus"}
  BY <1>3 DEF Call, UpdateStatusCall
<1>4. CASE pc[h] = "StartTransaction"
  BY <1>4 DEF Call, StartTransactionCall
<1>5. CASE pc[h] = "RejectTransaction"
  BY <1>5 DEF Call, ChangeTransactionStatusCall
<1> QED
  BY <1>1, <1>2, <1>3, <1>4, <1>5, Steps

\* What an invocation says determines its shape.
LEMMA SaysShape ==
  ASSUME NEW f, NEW step \in Submits, NEW r \in Requests, NEW id \in 0..MaxUint, NEW start,
         (id = 0) <=> (step = "AddNewTransaction"), Says(f, step, r, id, start),
         f.reply \in BOOLEAN
  PROVE  /\ f.id \in TransactionIDs /\ (id # 0 => f.id = id) /\ Reads(f, step, r, id)
         /\ f.reads \subseteq WorldKeys
         /\ DOMAIN f.writes \subseteq f.reads \cup {transactionInfoKey(f.id)}
<1> USE RequestFields, KeysExist DEF write
<1>1. id # 0 => id \in TransactionIDs
  BY ChannelAssumption DEF TransactionIDs
<1>2. DOMAIN (<<>>) = {}
  OBVIOUS
<1>3. CASE step = "AddNewTransaction"
  BY <1>3 DEF Says, Added, Reads
<1>4. CASE step \in {"ListActive", "ListInactive"}
  BY <1>1, <1>4 DEF Says, ListSet, Reads
<1>5. CASE step \in {"SetPending", "ApproveStatus", "RestoreStatus"}
  BY <1>1, <1>5 DEF Says, StatusSet, Reads
<1>6. CASE step = "StartTransaction"
  BY <1>1, <1>2, <1>6 DEF Says, TransactionStarted, Reads
<1>7. CASE step = "RejectTransaction"
  BY <1>1, <1>2, <1>7 DEF Says, TransactionRejected, Reads
<1> QED
  BY <1>3, <1>4, <1>5, <1>6, <1>7, Steps

\* The invocation a peer endorses.
LEMMA EndorsedFrom ==
  ASSUME StateInv, NEW h \in Handlers, pc[h] \in Submits, NEW start \in Times,
         ~Call(h, start).refused,
         NEW f, f = [by |-> h, id |-> Call(h, start).id, reply |-> Call(h, start).reply,
                     reads |-> Call(h, start).reads, writes |-> Call(h, start).writes,
                     stale |-> FALSE]
  PROVE  \E r \in Requests, id \in 0..MaxUint : From(f, h, pc[h], start, r, id)
<1>1. /\ WorldInv /\ HandlerTypes /\ Progress(h) /\ Records(h)
      /\ request[h] \in Requests /\ txid[h] \in 0..MaxUint
      /\ (txid[h] = 0) <=> (pc[h] = "AddNewTransaction")
  BY Steps DEF StateInv, HandlersInv, HandlerTypes, Progress
<1>2. PICK r \in Requests, id \in 0..MaxUint : r = request[h] /\ id = txid[h]
  BY <1>1
<1>3. id \in 0..Counter
  BY <1>1, <1>2, ChannelAssumption DEF Records, WorldInv
<1>4. Tells(f, Call(h, start)) /\ f.by = h /\ ~f.stale /\ f.stale \in BOOLEAN
  BY DEF Tells
<1>5. Says(f, pc[h], r, id, start)
  BY <1>1, <1>2, <1>3, <1>4, CallSays DEF Records
<1>6. f.reply \in BOOLEAN
  BY ReplyIsBoolean
<1>7. /\ f.id \in TransactionIDs /\ (id # 0 => f.id = id) /\ Reads(f, pc[h], r, id)
      /\ f.reads \subseteq WorldKeys
      /\ DOMAIN f.writes \subseteq f.reads \cup {transactionInfoKey(f.id)}
  BY <1>1, <1>2, <1>5, <1>6, SaysShape
<1>8. Invocation(f)
  BY <1>4, <1>6, <1>7 DEF Invocation
<1>9. From(f, h, pc[h], start, r, id)
  BY <1>1, <1>2, <1>4, <1>5, <1>7, <1>8 DEF From, Records
<1> QED
  BY <1>9

LEMMA EndorseInv == ASSUME SharedInv, NEW h \in Handlers, Endorse(h) PROVE InvKept
<1>1. PICK start \in Times :
        /\ ~Call(h, start).refused
        /\ flight' = flight \cup
             {[by |-> h, id |-> Call(h, start).id, reply |-> Call(h, start).reply,
               reads |-> Call(h, start).reads, writes |-> Call(h, start).writes, stale |-> FALSE]}
  BY DEF Endorse
<1>2. PICK f : /\ f = [by |-> h, id |-> Call(h, start).id, reply |-> Call(h, start).reply,
                       reads |-> Call(h, start).reads, writes |-> Call(h, start).writes,
                       stale |-> FALSE]
  OBVIOUS
<1>3. /\ pc[h] \in Submits /\ UNCHANGED <<world, pc, request, txid, answer, cache, spent>>
      /\ \A g \in flight : g.by # h
  BY DEF Endorse, Waiting
<1>4. PICK r \in Requests, id \in 0..MaxUint, step \in Submits :
        step = pc[h] /\ From(f, h, step, start, r, id)
  BY <1>1, <1>2, <1>3, EndorsedFrom DEF SharedInv
<1>5. StateInv'
  BY <1>3, StateUnchanged DEF SharedInv
<1>6. f.by = h /\ flight' = flight \cup {f}
  BY <1>1, <1>2
<1>7. FlightKept
  <2>1. \A g \in flight : FromHandler(g)' \/ (~FromHandler(g) /\ Keeps(g, g))
    BY <1>3, FlightUnchanged
  <2>2. From(f, h, step, start, r, id)'
    BY <1>3, <1>4, FromUnchanged
  <2>3. FromHandler(f)'
    BY <2>2 DEF FromHandler, IsFrom
  <2> QED
    BY <1>6, <2>1, <2>3 DEF FlightKept
<1>8. OneAwaited'
  BY <1>3, <1>6 DEF SharedInv, OneAwaited, OneEach
<1> QED
  BY <1>5, <1>7, <1>8 DEF InvKept

LEMMA ReceiveInv == ASSUME SharedInv, NEW h \in Handlers, Receive(h) PROVE InvKept
<1>1. /\ pc[h] = "idle" /\ pc' = [pc EXCEPT ![h] = "AddNewTransaction"]
      /\ UNCHANGED <<world, flight, txid, answer, cache, spent>>
  BY DEF Receive
<1>2. PICK r \in Requests : request' = [request EXCEPT ![h] = r]
  BY DEF Receive
<1>3. /\ WorldInv /\ HandlersInv /\ HandlerTypes /\ Progress(h) /\ Records(h) /\ txid[h] = 0
      /\ request[h] = NoRequest
  BY <1>1 DEF SharedInv, StateInv, HandlersInv, Progress
<1>4. /\ HandlerTypes' /\ pc'[h] = "AddNewTransaction" /\ request'[h] = r
      /\ \A k \in Handlers \ {h} : pc'[k] = pc[k] /\ request'[k] = request[k]
  BY <1>1, <1>2, <1>3, Steps DEF HandlerTypes
<1>5. WorldInv' /\ CacheTypes' /\ CacheShowsLedger' /\ OnlyOwnerSells'
  BY <1>1 DEF SharedInv, StateInv, CacheTypes, CacheShowsLedger, OnlyOwnerSells, InProgress,
     WorldInv, IsFunction, Identity, Counter, ListOf, legalStatus, infoOf
<1>6. Progress(h)' /\ Records(h)'
  BY <1>1, <1>3, <1>4, Steps
     DEF Progress, Records, Going, Rejecting, Listed, Answered, Counter
<1>7. \A k \in Handlers \ {h} : Progress(k)' /\ Records(k)'
  BY <1>1, <1>3, <1>4 DEF HandlersInv, Progress, Records, HasSale, InProgress,
     InfoFromLaunch, infoOf, Answered, Entry, ListOf, Counter
<1>8. HandlersInv'
  BY <1>1, <1>3, <1>4, <1>6, <1>7 DEF HandlersInv
<1>9. FlightKept
  <2>0. ASSUME NEW g \in flight, ~FromHandler(g) PROVE Keeps(g, g)
    BY <1>1, <2>0, RemainsItself DEF SharedInv, Stranger, Keeps
  <2> SUFFICES ASSUME NEW g \in flight, FromHandler(g) PROVE FromHandler(g)'
    BY <1>1, <2>0 DEF FlightKept
  <2>1. PICK k \in Handlers, step \in Submits, start \in Times, q \in Requests,
             id \in 0..MaxUint : From(g, k, step, start, q, id)
    BY DEF FromHandler, IsFrom
  <2>2. k # h
    BY <1>3, <2>1, HandlersAssumption DEF From
  <2>3. Remains(g, g) /\ (g.by = Nobody => GaveUp(k))
    BY <2>1, RemainsItself, HandlersAssumption DEF From
  <2>4. g.by = Nobody => GaveUp(k)'
    BY <1>1, <1>4, <2>2, <2>3 DEF GaveUp
  <2>5. From(g, k, step, start, q, id)'
    BY <1>1, <1>4, <2>1, <2>2, <2>3, <2>4, FromStays
  <2> QED
    BY <2>5 DEF FromHandler, IsFrom
<1> QED
  BY <1>1, <1>5, <1>8, <1>9 DEF SharedInv, InvKept, StateInv, OneAwaited

\* The handler takes its invocation for failed; the channel may still commit it.
LEMMA LoseAnswerInv ==
  ASSUME SharedInv, NEW f \in flight, f.by \in Handlers \cup {Nobody}, LoseAnswer(f)
  PROVE  InvKept
<1>1. /\ f.by # Nobody /\ Fails(f.by, "error") /\ UNCHANGED <<world, request, cache>>
      /\ \A g \in flight : Invocation(g)
  BY DEF LoseAnswer, SharedInv, Stranger, FromHandler, IsFrom, From
<1>2. PICK h \in Handlers : h = f.by /\ pc[h] \in Submits
  BY <1>1 DEF SharedInv, Stranger, FromHandler, IsFrom, From
<1>3. PICK f2 : f2 = [f EXCEPT !.by = Nobody]
  OBVIOUS
<1>4. Remains(f2, f) /\ f2.by = Nobody /\ (f2.stale <=> f.stale)
  BY <1>1, <1>3, AbandonedInvocation
<1>5. flight' = (flight \ {f}) \cup {f2}
  BY <1>3 DEF LoseAnswer
<1>6. \A g \in flight \ {f} : g.by # h
  BY <1>1, <1>2 DEF SharedInv, OneAwaited, OneEach
<1>7. OneEach(flight')
  BY <1>4, <1>5 DEF SharedInv, OneAwaited, OneEach
<1>8. \A g2 \in flight' : \E g \in flight :
        /\ Remains(g2, g) /\ (g2.stale <=> g.stale)
        /\ g.by # h => g2.by = g.by
        /\ g.by = h => g2.by = Nobody /\ "error" = "error"
  <2> SUFFICES ASSUME NEW g2 \in flight'
               PROVE  \E g \in flight :
                        /\ Remains(g2, g) /\ (g2.stale <=> g.stale)
                        /\ g.by # h => g2.by = g.by
                        /\ g.by = h => g2.by = Nobody /\ "error" = "error"
    OBVIOUS
  <2>1. CASE g2 \in flight \ {f}
    BY <1>1, <1>6, <2>1, RemainsItself
  <2>2. CASE g2 = f2
    BY <1>2, <1>4, <2>2
  <2> QED
    BY <1>5, <2>1, <2>2
<1>9. pc[h] \in Active \ {"LoadAndCache"}
  BY <1>2, Steps
<1> QED
  BY <1>1, <1>2, <1>7, <1>8, <1>9, FailsInv

LEMMA DiscardInv == ASSUME SharedInv, NEW f \in flight, Discard(f) PROVE InvKept
<1>1. flight' = flight \ {f} /\ UNCHANGED <<world, pc, request, txid, answer, cache, spent>>
  BY DEF Discard
<1>2. StateInv'
  BY <1>1, StateUnchanged DEF SharedInv
<1>3. FlightKept
  BY <1>1, FlightUnchanged DEF FlightKept
<1> QED
  BY <1>1, <1>2, <1>3 DEF SharedInv, InvKept, OneAwaited, OneEach

\* After a crash nobody waits for any invocation, and the cache is empty.
LEMMA CrashInv == ASSUME SharedInv, Crash PROVE InvKept
<1>1. /\ pc' = [h \in Handlers |-> IF pc[h] \in Active THEN "dead" ELSE pc[h]]
      /\ answer' = [h \in Handlers |-> IF pc[h] \in Active THEN "none" ELSE answer[h]]
      /\ flight' = {[f EXCEPT !.by = Nobody] : f \in flight}
      /\ cache' = [id \in TransactionIDs |-> NoInfo]
      /\ UNCHANGED <<world, request, txid>>
  BY DEF Crash
<1>2. WorldInv /\ HandlersInv /\ HandlerTypes /\ OnlyOwnerSells
  BY DEF SharedInv, StateInv, HandlersInv
<1>3. WorldInv' /\ OnlyOwnerSells' /\ CacheTypes' /\ CacheShowsLedger'
  BY <1>1, <1>2 DEF OnlyOwnerSells, InProgress, WorldInv, IsFunction, Identity, Counter, ListOf,
     legalStatus, infoOf, CacheTypes, CacheShowsLedger
<1>4. HandlerTypes'
  BY <1>1, <1>2 DEF HandlerTypes
<1>5. ASSUME NEW h \in Handlers PROVE Progress(h)' /\ Records(h)'
  <2>1. Progress(h) /\ Records(h)
    BY <1>2 DEF HandlersInv
  <2>2. CASE pc[h] \in Active
    <3>1. pc'[h] = "dead" /\ answer'[h] = "none"
      BY <1>1, <2>2
    <3>2. Progress(h)'
      BY <1>1, <2>1, <2>2, <3>1, Steps DEF Progress, Going, Rejecting
    <3>3. Records(h)'
      BY <1>1, <2>1, <3>1, Steps DEF Records, Listed, Answered, Counter, infoOf
    <3> QED
      BY <3>2, <3>3
  <2>3. CASE pc[h] \notin Active
    <3>1. pc'[h] = pc[h] /\ answer'[h] = answer[h]
      BY <1>1, <2>3
    <3> QED
      BY <1>1, <2>1, <3>1 DEF Progress, Records, HasSale, InProgress, InfoFromLaunch, infoOf,
         Answered, Entry, ListOf, Counter
  <2> QED
    BY <2>2, <2>3
<1>6. HandlersInv'
  BY <1>1, <1>2, <1>4, <1>5 DEF HandlersInv
<1>7. ASSUME NEW g2 \in flight'
      PROVE  /\ g2.by = Nobody
             /\ FromHandler(g2)' \/ \E g \in flight : ~FromHandler(g) /\ Keeps(g2, g)
  <2>1. PICK g \in flight : g2 = [g EXCEPT !.by = Nobody]
    BY <1>1
  <2>2. Remains(g2, g) /\ g2.by = Nobody /\ (g2.stale <=> g.stale)
    BY <2>1, AbandonedInvocation DEF SharedInv, Stranger, FromHandler, IsFrom, From
  <2>3. CASE FromHandler(g)
    <3>1. PICK h \in Handlers, step \in Submits, start \in Times, r \in Requests,
               id \in 0..MaxUint : From(g, h, step, start, r, id)
      BY <2>3 DEF FromHandler, IsFrom
    <3>2. GaveUp(h)'
      <4>1. CASE pc[h] \in Active
        BY <1>1, <4>1 DEF GaveUp
      <4>2. CASE pc[h] \notin Active
        BY <1>1, <3>1, <4>2, Steps DEF GaveUp, From
      <4> QED
        BY <4>1, <4>2
    <3>3. From(g2, h, step, start, r, id)'
      BY <1>1, <2>2, <3>1, <3>2, FromStays
    <3> QED
      BY <2>2, <3>3 DEF FromHandler, IsFrom
  <2>4. CASE ~FromHandler(g)
    BY <1>1, <2>2, <2>4 DEF Keeps
  <2> QED
    BY <2>3, <2>4
<1> QED
  BY <1>3, <1>6, <1>7 DEF InvKept, StateInv, FlightKept, OneAwaited, OneEach

\* A score that moves overtakes what has read it, and disturbs nothing else.
LEMMA MoveScoreInv ==
  ASSUME SharedInv, NEW u \in Users, NEW score \in ScoreInputs, MoveScore(u, score)
  PROVE  InvKept
<1> DEFINE key == tradingIdentityKey(u)
           x == [Identity(u) EXCEPT !.sellerScore = score]
<1>1. /\ world' = [world EXCEPT ![key].sellerScore = score]
      /\ flight' = Overtaken(flight, {key})
      /\ UNCHANGED <<pc, request, txid, answer, cache>>
  BY DEF MoveScore
<1>2. WorldInv /\ HandlersInv /\ \A g \in flight : Invocation(g)
  BY DEF SharedInv, Stranger, StateInv, FromHandler, IsFrom, From
<1>3. world' = [k \in WorldKeys |-> IF k = key THEN x ELSE world[k]]
  BY <1>1, <1>2 DEF WorldInv, IsFunction, Identity
<1>4. x \in LedgerOf!TradingIdentity
  BY <1>2, InputsAssumption DEF WorldInv, LedgerOf!TradingIdentity
<1> HIDE DEF x
<1>5. /\ IsFunction' /\ Counter' = Counter /\ StatusesKept /\ InfosKept /\ ListsKept
      /\ Identity(u)' = x /\ \A v \in Users \ {u} : Identity(v)' = Identity(v)
  BY <1>3, StoredIdentity DEF Stored
<1>6. WorldInv'
  BY <1>2, <1>4, <1>5 DEF WorldInv, StatusesKept, InfosKept, ListsKept
<1>7. /\ \A id \in TransactionIDs : infoOf(id)' = infoOf(id)
      /\ \A v \in Users : ListOf(v)' = ListOf(v)
      /\ Counter \in Nat
  BY <1>2, <1>5, ChannelAssumption DEF InfosKept, ListsKept, WorldInv
<1>8. HandlersInv'
  <2>1. HistoryKept(0)
    BY <1>2, <1>5, <1>7, ChannelAssumption DEF HistoryKept, WorldInv, TransactionIDs
  <2>2. \A h \in Handlers : Progress(h)' /\ Records(h)'
    BY <1>1, <2>1, OthersStay DEF SharedInv
  <2> QED
    BY <1>1, <1>2, <2>2 DEF HandlersInv, HandlerTypes
<1>9. CacheTypes' /\ CacheShowsLedger' /\ OnlyOwnerSells'
  BY <1>1, <1>7 DEF SharedInv, StateInv, CacheTypes, CacheShowsLedger, OnlyOwnerSells, InProgress
<1>10. FlightKept
  <2> SUFFICES ASSUME NEW g2 \in flight'
               PROVE  FromHandler(g2)' \/ \E g \in flight : ~FromHandler(g) /\ Keeps(g2, g)
    BY DEF FlightKept
  <2>1. PICK g \in flight :
          Remains(g2, g) /\ g2.by = g.by /\ (g2.stale <=> g.stale \/ g.reads \cap {key} # {})
    BY <1>1, <1>2, OvertakenInvocations
  <2>2. ~g2.stale => \A i \in g.reads : world'[i] = world[i]
    BY <1>2, <1>3, <2>1 DEF Invocation
  <2>3. CASE FromHandler(g)
    <3>1. PICK k \in Handlers, step \in Submits, start \in Times, r \in Requests,
               id \in 0..MaxUint : From(g, k, step, start, r, id)
      BY <2>3 DEF FromHandler, IsFrom
    <3>2. g2.by = Nobody => GaveUp(k)'
      BY <1>1, <2>1, <3>1, HandlersAssumption DEF From, GaveUp
    <3>3. From(g2, k, step, start, r, id)'
      BY <1>1, <2>1, <2>2, <3>1, <3>2, FromStays
    <3> QED
      BY <3>3 DEF FromHandler, IsFrom
  <2>4. CASE ~FromHandler(g)
    BY <2>1, <2>2, <2>4 DEF Keeps
  <2> QED
    BY <2>3, <2>4
<1>11. OneAwaited'
  BY <1>1, <1>2, OvertakenOneEach DEF SharedInv, OneAwaited
<1> QED
  BY <1>6, <1>8, <1>9, <1>10, <1>11 DEF InvKept, StateInv

\* No step of a launch disturbs what is known of any launch, and the others'
\* invocations stay what they are: all but those of the channel for others.
LEMMA LaunchSteps ==
  ASSUME SharedInv
  PROVE  /\ \A h \in Handlers : Receive(h) \/ Handler(h) \/ CallFails(h) => InvKept
         /\ \A f \in flight : FromHandler(f) /\ Commit(f) => InvKept
         /\ \A f \in flight :
              /\ f.by \in Handlers \cup {Nobody}
              /\ Invalidate(f) \/ LoseAnswer(f) \/ Discard(f)
              => InvKept
         /\ Crash => InvKept
         /\ \A u \in Users, score \in ScoreInputs : MoveScore(u, score) => InvKept
<1>1. ASSUME NEW h \in Handlers, Receive(h) \/ Handler(h) \/ CallFails(h) PROVE InvKept
  BY <1>1, ReceiveInv, EndorseInv, RefuseInv, CheckStatusInv, ReviewInv, LoadAndCacheInv,
     CallFailsInv DEF Handler
<1>2. ASSUME NEW f \in flight, FromHandler(f), Commit(f) PROVE InvKept
  BY <1>2, CommitInv
<1>3. ASSUME NEW f \in flight, f.by \in Handlers \cup {Nobody},
             Invalidate(f) \/ LoseAnswer(f) \/ Discard(f)
      PROVE  InvKept
  BY <1>3, InvalidateInv, LoseAnswerInv, DiscardInv
<1> QED
  BY <1>1, <1>2, <1>3, CrashInv, MoveScoreInv

LEMMA UnchangedInv ==
  ASSUME SharedInv, UNCHANGED <<world, flight, pc, request, txid, answer, cache>>
  PROVE  InvKept
<1>1. StateInv'
  BY StateUnchanged DEF SharedInv
<1>2. FlightKept
  BY FlightUnchanged DEF FlightKept
<1> QED
  BY <1>1, <1>2 DEF SharedInv, InvKept, OneAwaited

LEMMA NextIInv == IInv /\ [Next]_vars => IInv'
<1> SUFFICES ASSUME IInv, [Next]_vars PROVE InvKept
  BY SharedStays
<1>1. SharedInv /\ \A f \in flight : FromHandler(f) /\ f.by \in Handlers \cup {Nobody}
  BY SharedStays DEF IInv, FlightInv, FromHandler, IsFrom, From
<1>2. CASE UNCHANGED vars
  <2>1. UNCHANGED <<world, flight, pc, request, txid, answer, cache>>
    BY <1>2 DEF vars
  <2> QED
    BY <1>1, <2>1, UnchangedInv
<1> QED
  BY <1>1, <1>2, LaunchSteps DEF Next, Channel, Environment

\* The invariant holds whatever is committed, invalidated or lost, and however
\* often the server dies.
THEOREM Invariance == Spec => []IInv
BY InitIInv, NextIInv, PTL DEF Spec

-----------------------------------------------------------------------------
(* What the invariant is for.                                              *)

\* The committed state stays a ledger state and every handler and invocation
\* well formed, whatever is committed, invalidated or lost (TypeOK).
THEOREM TypeCorrect == Spec => []TypeOK
<1>1. IInv => TypeOK
  <2> SUFFICES ASSUME IInv PROVE TypeOK
    OBVIOUS
  <2>1. WorldInv /\ HandlerTypes /\ CacheTypes
    BY DEF IInv, StateInv, HandlersInv
  <2>2. LedgerOf!TypeOK
    <3>1. [u \in Users |-> world[tradingIdentityKey(u)]]
            \in [Users -> LedgerOf!TradingIdentity \cup {NoIdentity}]
      BY <2>1 DEF WorldInv, Identity
    <3>2. [a \in Assets |-> world[assetCertificateKey(a)]]
            \in [Assets -> LedgerOf!LegalStatuses \cup {NoCert}]
      BY <2>1 DEF WorldInv, legalStatus, LedgerOf!LegalStatuses
    <3>3. /\ OwnerOf \in [Assets -> Users \cup {NoOwner}]
          /\ [u \in Users |-> {a \in Assets : OwnerOf[a] = u}] \in [Users -> SUBSET Assets]
      BY ChannelAssumption
    <3>4. world[transactionCounterKey] \in 0..MaxUint
      BY <2>1 DEF WorldInv, Counter
    <3>5. [id \in TransactionIDs |-> world[transactionInfoKey(id)]]
            \in [TransactionIDs -> LedgerOf!TransactionInfo \cup {NoInfo}]
      BY <2>1 DEF WorldInv, infoOf, Info
    <3>6. [u \in Users |-> world[userTransactionListKey(u)]]
            \in [Users -> [TransactionIDs -> LedgerOf!TradeEntry \cup {NoEntry}]]
      BY <2>1 DEF WorldInv, ListOf, Lists
    <3> QED
      BY <3>1, <3>2, <3>3, <3>4, <3>5, <3>6
         DEF LedgerOf!TypeOK, TransactionIDs, LedgerOf!TransactionIDs
  <2>3. \A f \in flight : Invocation(f) /\ f.by \in Handlers \cup {Nobody}
    BY DEF IInv, FlightInv, FromHandler, IsFrom, From
  <2>4. DOMAIN world = WorldKeys
    BY <2>1 DEF WorldInv, IsFunction
  <2> QED
    BY <2>1, <2>2, <2>3, <2>4 DEF TypeOK, HandlerTypes, CacheTypes, Invocation, Info
<1> QED
  BY <1>1, Invariance, PTL

LEMMA StateMeans ==
  StateInv => OnlyOwnerSells /\ CacheShowsLedger /\ ApprovedMeansStarted /\ RejectedMeansClosed
<1> SUFFICES ASSUME StateInv PROVE ApprovedMeansStarted /\ RejectedMeansClosed
  BY DEF StateInv
<1>1. \A h \in Handlers : Records(h)
  BY DEF StateInv, HandlersInv
<1>2. ApprovedMeansStarted
  <2> SUFFICES ASSUME NEW h \in Handlers, Answered(h, "approved")
               PROVE  /\ InProgress(txid[h])
                      /\ infoOf(txid[h]) = [InfoFromLaunch(request[h]) EXCEPT
                                              !.startTime = infoOf(txid[h]).startTime]
                      /\ entryOf(request[h].user, txid[h]) # NoEntry
                      /\ entryOf(request[h].user, txid[h]).active
    BY DEF ApprovedMeansStarted
  <2> QED
    BY <1>1 DEF Records, HasSale, Entry, ListOf, entryOf
<1>3. RejectedMeansClosed
  <2> SUFFICES ASSUME NEW h \in Handlers, Answered(h, "rejected")
               PROVE  /\ infoOf(txid[h]).status = LedgerOf!transactionStatusRejected
                      /\ entryOf(request[h].user, txid[h]) # NoEntry
                      /\ ~entryOf(request[h].user, txid[h]).active
    BY DEF RejectedMeansClosed
  <2> QED
    BY <1>1 DEF Records, Rejected, Entry, ListOf, entryOf
<1> QED
  BY <1>2, <1>3

\* Only the owner of an asset ever has it in progress, although a launch is
\* listed and its asset put to Pending before the owner is looked up.
THEOREM OnlyOwnersSell == Spec => []OnlyOwnerSells
<1>1. IInv => OnlyOwnerSells
  BY DEF IInv, StateInv
<1> QED
  BY <1>1, Invariance, PTL

\* What the cache of this server shows is in progress on the ledger on the
\* terms shown, whether it was read from there or rebuilt from the request.
THEOREM CacheIsRight == Spec => []CacheShowsLedger
<1>1. IInv => CacheShowsLedger
  BY DEF IInv, StateInv
<1> QED
  BY <1>1, Invariance, PTL

\* A client who was told that her launch is approved has the sale she asked
\* for and an active entry, for as long as the answer stands.
THEOREM ApprovedAreStarted == Spec => []ApprovedMeansStarted
<1>1. IInv => ApprovedMeansStarted
  BY StateMeans DEF IInv
<1> QED
  BY <1>1, Invariance, PTL

\* A client who was told that her launch is rejected has a rejected
\* transaction and an inactive entry, whatever other launches do.
THEOREM RejectedAreClosed == Spec => []RejectedMeansClosed
<1>1. IInv => RejectedMeansClosed
  BY StateMeans DEF IInv
<1> QED
  BY <1>1, Invariance, PTL

-----------------------------------------------------------------------------
(* Every step is one of the ledger, or leaves the ledger alone.            *)

LEMMA UnchangedLedger ==
  ASSUME NothingReplaced
  PROVE  UNCHANGED LedgerOf!vars
BY DEF NothingReplaced, IdentitiesKept, StatusesKept, InfosKept, ListsKept, LedgerOf!vars,
   Identity, legalStatus, Counter, infoOf, ListOf

LEMMA UpdateStatusStep ==
  ASSUME WorldInv, NEW a \in Assets, NEW s \in 0..3, StatusReplaced(a, s)
  PROVE  LedgerOf!Next
<1> DEFINE cert == [b \in Assets |-> world[assetCertificateKey(b)]]
<1>1. cert' = [cert EXCEPT ![a] = s]
  BY DEF StatusReplaced, legalStatus
<1>2. LedgerOf!UpdateStatusAllowed(a, s)
  BY RecordsArePresent
     DEF WorldInv, StatusReplaced, legalStatus, LedgerOf!UpdateStatusAllowed, LedgerOf!LegalStatuses
<1>3. LedgerOf!UpdateStatus(a, s)
  BY <1>1, <1>2
     DEF LedgerOf!UpdateStatus, StatusReplaced, IdentitiesKept, InfosKept, ListsKept,
         Identity, Counter, infoOf, ListOf
<1>4. s \in LegalInputs
  BY InputsAssumption
<1> QED
  BY <1>3, <1>4 DEF LedgerOf!Next

LEMMA AddNewTransactionStep ==
  ASSUME WorldInv, NEW i, NEW r \in Requests, TransactionAdded(i, r)
  PROVE  LedgerOf!Next
<1> DEFINE info == [j \in TransactionIDs |-> world[transactionInfoKey(j)]]
<1> USE RequestFields
<1>1. /\ i = LedgerOf!nextTransactionID /\ LedgerOf!AddNewTransactionAllowed(r.asset)
      /\ Counter' = LedgerOf!nextTransactionID
  BY RecordsArePresent, ChannelAssumption
     DEF TransactionAdded, WorldInv, legalStatus, Counter, TransactionIDs,
         LedgerOf!AddNewTransactionAllowed, LedgerOf!nextTransactionID
<1>2. info' = [info EXCEPT ![i] = LedgerOf!ReviewingInfo(r.asset, r.user)]
  BY DEF TransactionAdded, infoOf
<1>3. LedgerOf!AddNewTransaction(r.asset, r.user)
  BY <1>1, <1>2
     DEF LedgerOf!AddNewTransaction, TransactionAdded, IdentitiesKept, StatusesKept, ListsKept,
         Identity, Counter, legalStatus, ListOf
<1> QED
  BY <1>3 DEF LedgerOf!Next

LEMMA RejectTransactionStep ==
  ASSUME WorldInv, NEW id \in TransactionIDs,
         InfoReplaced(id, [infoOf(id) EXCEPT !.status = Rejected])
  PROVE  LedgerOf!Next
<1> DEFINE info == [j \in TransactionIDs |-> world[transactionInfoKey(j)]]
<1>1. info' = [info EXCEPT ![id].status = Rejected]
  BY DEF InfoReplaced, infoOf
<1>2. LedgerOf!ChangeTransactionStatusAllowed(id, Reviewing, Rejected)
  BY DEF InfoReplaced, infoOf, LedgerOf!ChangeTransactionStatusAllowed, Reviewing, Rejected,
     LedgerOf!TransactionStatuses, LedgerOf!transactionStatusReviewing, TransactionIDs,
     LedgerOf!transactionStatusRejected, LedgerOf!transactionStatusInProgress,
     LedgerOf!TransactionIDs
<1>3. LedgerOf!ChangeTransactionStatus(id, Reviewing, Rejected)
  BY <1>1, <1>2
     DEF LedgerOf!ChangeTransactionStatus, InfoReplaced, IdentitiesKept, StatusesKept, ListsKept,
         Identity, Counter, legalStatus, ListOf
<1>4. Reviewing \in StatusInputs /\ Rejected \in StatusInputs
  BY InputsAssumption DEF Reviewing, Rejected, LedgerOf!transactionStatusReviewing,
     LedgerOf!transactionStatusRejected
<1> QED
  BY <1>3, <1>4 DEF LedgerOf!Next, TransactionIDs, LedgerOf!TransactionIDs

LEMMA StartTransactionStep ==
  ASSUME WorldInv, NEW id \in TransactionIDs, NEW r \in Requests, NEW start \in Times,
         infoOf(id).asset = r.asset, infoOf(id).seller = r.user,
         InfoReplaced(id, LedgerOf!StartedInfo(infoOf(id), r.price, r.mode, start, r.final)),
         Eligible(r), OnMarket(r), LedgerOf!FinalizingTimeAccepted(r.mode, start, r.final)
  PROVE  LedgerOf!Next
<1> DEFINE info == [j \in TransactionIDs |-> world[transactionInfoKey(j)]]
<1> USE RequestFields
<1>1. info' = [info EXCEPT
                 ![id] = LedgerOf!StartedInfo(info[id], r.price, r.mode, start, r.final)]
  BY DEF InfoReplaced, infoOf
<1>2. Identity(r.user) # NoIdentity
  BY RecordsArePresent DEF WorldInv
<1>3. LedgerOf!StartTransactionReady(id, r.price, r.mode)
  BY <1>2
     DEF InfoReplaced, LedgerOf!StartTransactionReady, infoOf, Reviewing, Identity, TransactionIDs,
         LedgerOf!TransactionIDs, LedgerOf!TransactionModes, LedgerOf!transactionModeSealedBid
<1>4. LedgerOf!SellerEligible(r.user, r.price)
  BY <1>2 DEF LedgerOf!SellerEligible, Eligible, Identity
<1>5. LedgerOf!StartTransactionAllowed(id, r.price, r.mode, start, r.final)
  BY <1>3, <1>4
     DEF LedgerOf!StartTransactionAllowed, OnMarket, legalStatus, infoOf, TransactionIDs,
         LedgerOf!TransactionIDs
<1>6. LedgerOf!StartTransaction(id, r.price, r.mode, start, r.final)
  BY <1>1, <1>5
     DEF LedgerOf!StartTransaction, InfoReplaced, IdentitiesKept, StatusesKept, ListsKept,
         Identity, Counter, legalStatus, ListOf, TransactionIDs, LedgerOf!TransactionIDs
<1> QED
  BY <1>6 DEF LedgerOf!Next, TransactionIDs, LedgerOf!TransactionIDs

LEMMA UpdateListStep ==
  ASSUME NEW u \in Users, NEW id \in TransactionIDs, NEW a \in Assets, NEW active \in BOOLEAN,
         EntryReplaced(u, id, a, LedgerOf!transactionRoleSeller, active)
  PROVE  LedgerOf!Next
<1> DEFINE tradeList == [v \in Users |-> world[userTransactionListKey(v)]]
           role == LedgerOf!transactionRoleSeller
<1>1. tradeList' = [tradeList EXCEPT ![u] = LedgerOf!UpdatedList(tradeList[u], id, a, role, active)]
  BY DEF EntryReplaced, ListOf
<1>2. role \in LedgerOf!TransactionRoles /\ role \in RoleInputs
  BY InputsAssumption DEF LedgerOf!TransactionRoles, LedgerOf!transactionRoleSeller
<1> HIDE DEF role
<1>3. LedgerOf!UpdateTransactionListAllowed(u, id, role)
  BY <1>2 DEF LedgerOf!UpdateTransactionListAllowed
<1>4. LedgerOf!UpdateTransactionList(u, id, a, role, active)
  BY <1>1, <1>3
     DEF LedgerOf!UpdateTransactionList, EntryReplaced, IdentitiesKept, StatusesKept, InfosKept,
         Identity, Counter, legalStatus, infoOf
<1> QED
  BY <1>2, <1>4 DEF LedgerOf!Next, TransactionIDs, LedgerOf!TransactionIDs

\* The commit of an invocation is the step the contract makes on its own.
LEMMA CommitStep ==
  ASSUME StateInv, NEW f \in flight, FromHandler(f), Commit(f)
  PROVE  LedgerOf!Next \/ UNCHANGED LedgerOf!vars
<1> USE RequestFields
<1>1. PICK h \in Handlers, step \in Submits, start \in Times, r \in Requests, id \in 0..MaxUint :
        From(f, h, step, start, r, id)
  BY DEF FromHandler, IsFrom
<1>2. /\ WorldInv /\ id \in 0..Counter
      /\ ((id = 0) <=> (step = "AddNewTransaction"))
      /\ (id # 0 => infoOf(id).asset = r.asset /\ infoOf(id).seller = r.user)
      /\ Effect(f, step, r, id, start)
  BY <1>1, CommittedFrom DEF StateInv
<1>3. id # 0 => id \in TransactionIDs
  BY <1>2, ChannelAssumption DEF WorldInv, TransactionIDs
<1>4. CASE step = "AddNewTransaction"
  BY <1>2, <1>4, AddNewTransactionStep DEF Effect
<1>5. CASE step \in {"ListActive", "ListInactive"}
  <2>1. PICK active \in BOOLEAN :
          EntryReplaced(r.user, id, r.asset, LedgerOf!transactionRoleSeller, active)
    BY <1>2, <1>5 DEF Effect
  <2> QED
    BY <1>2, <1>3, <1>5, <2>1, UpdateListStep
<1>6. CASE step \in {"SetPending", "ApproveStatus", "RestoreStatus"}
  <2>1. PICK s \in 0..3 : StatusReplaced(r.asset, s)
    BY <1>2, <1>6 DEF Effect, LedgerOf!legalStatusPending, LedgerOf!legalStatusNormal,
       LedgerOf!expectedLegalStatus, LedgerOf!legalStatusSelling, LedgerOf!legalStatusBidding
  <2> QED
    BY <1>2, <2>1, UpdateStatusStep
<1>7. CASE step = "StartTransaction"
  BY <1>2, <1>3, <1>7, StartTransactionStep, UnchangedLedger DEF Effect
<1>8. CASE step = "RejectTransaction"
  BY <1>2, <1>3, <1>8, RejectTransactionStep, UnchangedLedger DEF Effect
<1> QED
  BY <1>4, <1>5, <1>6, <1>7, <1>8, Steps

LEMMA MoveScoreStep ==
  ASSUME WorldInv, NEW u \in Users, NEW score \in ScoreInputs, MoveScore(u, score)
  PROVE  LedgerOf!Next
<1> DEFINE identity == [v \in Users |-> world[tradingIdentityKey(v)]]
           x == [Identity(u) EXCEPT !.sellerScore = score]
<1>1. Stored(tradingIdentityKey(u), x)
  BY DEF MoveScore, WorldInv, IsFunction, Identity, Stored
<1> HIDE DEF x
<1>2. /\ Counter' = Counter /\ StatusesKept /\ InfosKept /\ ListsKept
      /\ Identity(u)' = x /\ \A v \in Users \ {u} : Identity(v)' = Identity(v)
  BY <1>1, StoredIdentity
<1>3. identity' = [identity EXCEPT ![u].sellerScore = score]
  BY <1>2 DEF Identity, x
<1>4. identity[u] # NoIdentity
  BY RecordsArePresent DEF WorldInv, Identity
<1>5. LedgerOf!MoveSellerScore(u, score)
  BY <1>2, <1>3, <1>4
     DEF LedgerOf!MoveSellerScore, StatusesKept, InfosKept, ListsKept, legalStatus, Counter,
         infoOf, ListOf
<1> QED
  BY <1>5 DEF LedgerOf!Next

\* Concurrent launches, whatever they lose and however they overtake each
\* other, change the channel only the way the contract does one invocation at
\* a time: TransactionLedger is what LaunchService implements.
THEOREM LaunchesImplementLedger == Spec => ImplementsLedger
<1>1. IInv /\ [Next]_vars => [LedgerOf!Next]_(LedgerOf!vars)
  <2> SUFFICES ASSUME IInv, [Next]_vars PROVE LedgerOf!Next \/ UNCHANGED LedgerOf!vars
    OBVIOUS
  <2>1. WorldInv /\ StateInv /\ \A f \in flight : FromHandler(f)
    BY DEF IInv, StateInv, FlightInv
  <2>2. CASE UNCHANGED world
    BY <2>1, <2>2, StoredNothing, UnchangedLedger DEF WorldInv, NothingReplaced
  <2>3. ASSUME NEW f \in flight, Commit(f) PROVE LedgerOf!Next \/ UNCHANGED LedgerOf!vars
    BY <2>1, <2>3, CommitStep
  <2>4. ASSUME NEW u \in Users, NEW score \in ScoreInputs, MoveScore(u, score)
        PROVE  LedgerOf!Next
    BY <2>1, <2>4, MoveScoreStep
  <2>5. UNCHANGED world \/ (\E f \in flight : Commit(f))
          \/ (\E u \in Users, score \in ScoreInputs : MoveScore(u, score))
    BY DEF Next, vars, Receive, Handler, Endorse, Refuse, CheckStatus, Review, LoadAndCache,
       Channel, Invalidate, Environment, CallFails, LoseAnswer, Discard, Crash
  <2> QED
    BY <2>2, <2>3, <2>4, <2>5
<1> QED
  BY <1>1, Invariance, PTL DEF Spec, ImplementsLedger

-----------------------------------------------------------------------------
(* As long as no answer is lost, an asset is in the hands of one launch.   *)

OfTransaction == Submits \ {"AddNewTransaction"}

\* f is an invocation for the transaction i, other than the one that adds it.
Own(f, i) == i # 0 /\ f.id = i /\ transactionCounterKey \notin f.reads

\* f can still put the asset a up for sale, start its sale or put it back.
Grips(f, a) ==
  /\ ~f.stale /\ f.reply /\ assetCertificateKey(a) \in f.reads
  /\ f.writes # write(assetCertificateKey(a), LedgerOf!legalStatusPending)

Gripped(S, i, a) == \E f \in S : Own(f, i) /\ Grips(f, a)

\* No invocation of S can settle the transaction i, and at most one is its own.
Unsettled(S, i) == \A f \in S : Own(f, i) => transactionInfoKey(i) \notin f.reads
Single(S, i) == \A f, g \in S : Own(f, i) /\ Own(g, i) => f = g

Selling(h) == txid[h] # 0 /\ InProgress(txid[h])

\* h holds the asset of its request: it has set it to Pending and not put it
\* back, it has sold it, or its last invocation still can.
Holds(h) ==
  \/ pc[h] \in {"Review", "ApproveStatus", "StartTransaction", "RestoreStatus"}
  \/ Selling(h)
  \/ Gripped(flight, txid[h], request[h].asset)

StillReviewing(h) == infoOf(txid[h]).status = Reviewing

\* What the launch of h can count on at each place.
Place(h) ==
  /\ pc[h] \in {"Review", "ApproveStatus"} =>
       legalStatus(request[h].asset) = LedgerOf!legalStatusPending
  /\ pc[h] = "StartTransaction" => OnMarket(request[h])
  /\ pc[h] = "RestoreStatus" => legalStatus(request[h].asset) # LedgerOf!legalStatusNormal
  /\ pc[h] \in {"ListActive", "CheckStatus", "SetPending", "Review", "ApproveStatus",
                "StartTransaction", "RestoreStatus", "RejectTransaction"} =>
       StillReviewing(h)
  /\ Selling(h) =>
       /\ pc[h] \in {"LoadAndCache", "dead"} \/ Answered(h, "approved")
       /\ legalStatus(infoOf(txid[h]).asset) = LedgerOf!expectedLegalStatus(infoOf(txid[h]).mode)

\* Its invocations: one at a time, abandoned only if it is dead, and none for
\* its asset once its transaction is settled.
Flights(h) ==
  /\ Single(flight, txid[h])
  /\ \A f \in flight :
       Own(f, txid[h]) =>
         /\ f.by = Nobody => pc[h] = "dead"
         /\ assetCertificateKey(request[h].asset) \in f.reads => StillReviewing(h)

\* h has set a to Pending, and its transaction will not be rejected before a is
\* put back.
Reviews(h, a) ==
  /\ txid[h] # 0 /\ request[h].asset = a /\ StillReviewing(h)
  /\ pc[h] \in {"Review", "ApproveStatus", "RestoreStatus", "done", "dead"}
  /\ Unsettled(flight, txid[h])

OneHolder ==
  \A h, g \in Handlers :
    Holds(h) /\ Holds(g) /\ request[h].asset = request[g].asset => h = g

SalesHaveLaunch ==
  \A id \in TransactionIDs : InProgress(id) => \E h \in Handlers : txid[h] = id

PendingHasLaunch ==
  \A a \in Assets :
    legalStatus(a) = LedgerOf!legalStatusPending => \E h \in Handlers : Reviews(h, a)

Claims ==
  /\ OneHolder
  /\ \A h \in Handlers : Place(h) /\ Flights(h)
  /\ SalesHaveLaunch
  /\ PendingHasLaunch

Budgets == spent \in [failures : Nat, lostAnswers : Nat, crashes : Nat, scoreMoves : Nat]

\* A lost answer voids the claims: the launch is rejected although its last
\* invocation may still commit.
ClaimInv == Budgets /\ (spent.lostAnswers = 0 => Claims)

Like(g, f) ==
  /\ g.id = f.id /\ g.reply = f.reply /\ g.reads = f.reads /\ g.writes = f.writes
  /\ f.stale => g.stale

\* No invocation of T is new.
Shrinks(S, T) == \A g \in T : \E f \in S : Like(g, f)

LEMMA ShrinkKeeps ==
  ASSUME NEW S, NEW T, Shrinks(S, T), NEW i, NEW a
  PROVE  /\ Gripped(T, i, a) => Gripped(S, i, a)
         /\ Unsettled(S, i) => Unsettled(T, i)
<1>1. ASSUME NEW g \in T
      PROVE  \E f \in S : /\ Own(g, i) <=> Own(f, i)
                          /\ Grips(g, a) => Grips(f, a)
                          /\ g.reads = f.reads
  <2>1. PICK f \in S : Like(g, f)
    BY DEF Shrinks
  <2> QED
    BY <2>1 DEF Like, Own, Grips
<1>2. Gripped(T, i, a) => Gripped(S, i, a)
  <2> SUFFICES ASSUME NEW g \in T, Own(g, i), Grips(g, a) PROVE Gripped(S, i, a)
    BY DEF Gripped
  <2>1. PICK f \in S : Own(f, i) /\ Grips(f, a)
    BY <1>1
  <2> QED
    BY <2>1 DEF Gripped
<1>3. Unsettled(S, i) => Unsettled(T, i)
  BY <1>1 DEF Unsettled
<1> QED
  BY <1>2, <1>3

\* What an invocation for the transaction of h is from.
LEMMA OwnFrom ==
  ASSUME IInv, NEW f \in flight, NEW h \in Handlers, Own(f, txid[h])
  PROVE  \E step \in OfTransaction, start \in Times, r \in Requests, id \in 0..MaxUint :
           From(f, h, step, start, r, id)
<1>1. PICK k \in Handlers, step \in Submits, start \in Times, r \in Requests, id \in 0..MaxUint :
        From(f, k, step, start, r, id)
  BY DEF IInv, FlightInv, FromHandler, IsFrom
<1>2. step # "AddNewTransaction" /\ id # 0 /\ f.id = id /\ id = txid[k]
  BY <1>1 DEF From, Reads, Own
<1>3. h = k
  BY <1>2 DEF Own, IInv, StateInv, HandlersInv
<1> QED
  BY <1>1, <1>2, <1>3 DEF OfTransaction

\* What is known of a handler that has a transaction.
LEMMA OwnRecords ==
  ASSUME StateInv, NEW h \in Handlers, txid[h] # 0
  PROVE  /\ txid[h] \in TransactionIDs /\ txid[h] \in 1..Counter /\ request[h] \in Requests
         /\ request[h].asset \in Assets /\ infoOf(txid[h]) \in Info
         /\ infoOf(txid[h]).asset = request[h].asset
<1>1. /\ Progress(h) /\ Records(h) /\ WorldInv /\ txid[h] \in 0..MaxUint /\ MaxUint \in Nat
      /\ HandlerTypes
  BY ChannelAssumption DEF StateInv, HandlersInv, HandlerTypes
<1>2. request[h] \in Requests
  BY <1>1 DEF Progress, HandlerTypes
<1>3. txid[h] \in TransactionIDs /\ txid[h] \in 1..Counter
  BY <1>1 DEF TransactionIDs, Records, WorldInv
<1> QED
  BY <1>1, <1>2, <1>3, RequestFields DEF Records, WorldInv

\* An asset that is held is off Normal.
LEMMA HeldIsNotNormal ==
  ASSUME IInv, NEW h \in Handlers, Place(h), Holds(h)
  PROVE  legalStatus(request[h].asset) # LedgerOf!legalStatusNormal
<1> USE DEF LedgerOf!legalStatusNormal, LedgerOf!legalStatusPending, LedgerOf!expectedLegalStatus,
            LedgerOf!legalStatusSelling, LedgerOf!legalStatusBidding
<1>1. CASE pc[h] \in {"Review", "ApproveStatus", "StartTransaction", "RestoreStatus"}
  BY <1>1 DEF Place, OnMarket
<1>2. CASE Selling(h)
  BY <1>2, OwnRecords DEF Place, Selling, IInv
<1>3. CASE Gripped(flight, txid[h], request[h].asset)
  <2>1. PICK f \in flight : Own(f, txid[h]) /\ Grips(f, request[h].asset)
    BY <1>3 DEF Gripped
  <2>2. PICK step \in OfTransaction, start \in Times, r \in Requests, id \in 0..MaxUint :
          From(f, h, step, start, r, id)
    BY <2>1, OwnFrom
  <2>3. /\ Says(f, step, r, id, start) /\ f.reply /\ r = request[h]
        /\ assetCertificateKey(r.asset) \in f.reads
        /\ f.writes # write(assetCertificateKey(r.asset), LedgerOf!legalStatusPending)
    BY <2>1, <2>2 DEF From, Grips
  <2>4. step \in {"ApproveStatus", "StartTransaction", "RestoreStatus"}
    <3>1. step \notin {"ListActive", "ListInactive", "RejectTransaction"}
      <4>1. ASSUME step \in {"ListActive", "ListInactive"} PROVE FALSE
        <5>1. f.reads = {userTransactionListKey(r.user)}
          BY <2>3, <4>1 DEF Says, ListSet
        <5> QED
          BY <2>3, <5>1, KeysDiffer
      <4>2. ASSUME step = "RejectTransaction" PROVE FALSE
        <5>1. f.reads = {transactionInfoKey(id)}
          BY <2>3, <4>2 DEF Says, TransactionRejected
        <5> QED
          BY <2>3, <5>1, KeysDiffer
      <4> QED
        BY <4>1, <4>2
    <3>2. step # "SetPending"
      BY <2>3 DEF Says, StatusSet
    <3> QED
      BY <3>1, <3>2, Steps DEF OfTransaction
  <2> QED
    BY <2>3, <2>4
       DEF Says, StatusSet, TransactionStarted, OnMarket, LedgerOf!legalStatusTransitionAllowed
<1> QED
  BY <1>1, <1>2, <1>3 DEF Holds

-----------------------------------------------------------------------------
(* The steps that touch neither a legal status nor a transaction.          *)

\* Where such a step may lead a handler.
Moves(h) ==
  \/ pc'[h] = pc[h] /\ answer'[h] = answer[h]
  \/ pc[h] = "idle" /\ pc'[h] = "AddNewTransaction"
  \/ pc[h] = "ListActive" /\ pc'[h] = "CheckStatus"
  \/ pc[h] = "CheckStatus" /\ pc'[h] = "SetPending"
  \/ pc[h] = "Review" /\ pc'[h] = "ApproveStatus"
  \/ pc[h] = "LoadAndCache" /\ pc'[h] = "done" /\ answer'[h] = "approved"
  \/ pc[h] = "ListInactive" /\ pc'[h] = "done"
  \/ pc[h] \in Active \ {"LoadAndCache"} /\ pc'[h] = AfterFailure(pc[h])
  \/ pc[h] \in Active /\ pc'[h] = "dead"

RequestStays(h) == txid'[h] = txid[h] /\ (txid[h] # 0 => request'[h] = request[h])

LEMMA QuietRecords ==
  ASSUME StateInv, StatusesKept, InfosKept, NEW h \in Handlers, RequestStays(h), txid[h] # 0
  PROVE  /\ request'[h] = request[h] /\ (infoOf(txid[h]))' = infoOf(txid[h])
         /\ (legalStatus(request[h].asset))' = legalStatus(request[h].asset)
         /\ (StillReviewing(h)' <=> StillReviewing(h)) /\ (Selling(h)' <=> Selling(h))
<1>1. txid[h] \in TransactionIDs /\ request[h].asset \in Assets
  BY OwnRecords
<1>2. PICK i \in TransactionIDs, a \in Assets : i = txid[h] /\ a = request[h].asset
  BY <1>1
<1>3. infoOf(i)' = infoOf(i) /\ legalStatus(a)' = legalStatus(a)
  BY DEF InfosKept, StatusesKept
<1>4. txid'[h] = txid[h] /\ request'[h] = request[h]
  BY DEF RequestStays
<1>5. /\ (infoOf(txid[h]))' = infoOf(txid[h])
      /\ (legalStatus(request[h].asset))' = legalStatus(request[h].asset)
  BY <1>2, <1>3, <1>4 DEF infoOf, legalStatus
<1> QED
  BY <1>4, <1>5 DEF StillReviewing, Selling, InProgress

LEMMA QuietPlace ==
  ASSUME IInv, IInv', StatusesKept, InfosKept, NEW h \in Handlers, RequestStays(h),
         Place(h), Moves(h)
  PROVE  Place(h)'
<1>1. Progress(h) /\ Progress(h)' /\ txid'[h] = txid[h] /\ StateInv
  BY DEF IInv, StateInv, HandlersInv, RequestStays
<1>2. CASE txid[h] = 0
  BY <1>1, <1>2, Steps DEF Progress, Place, Selling
<1>3. CASE txid[h] # 0
  <2>1. /\ request'[h] = request[h] /\ (infoOf(txid[h]))' = infoOf(txid[h])
        /\ (legalStatus(request[h].asset))' = legalStatus(request[h].asset)
        /\ (StillReviewing(h)' <=> StillReviewing(h)) /\ (Selling(h)' <=> Selling(h))
    BY <1>1, <1>3, QuietRecords
  <2>2. infoOf(txid[h]).asset = request[h].asset
    BY <1>1, <1>3, OwnRecords
  <2>3. Selling(h) => /\ pc'[h] \in {"LoadAndCache", "dead"} \/ Answered(h, "approved")'
                      /\ (legalStatus(infoOf(txid[h]).asset)
                            = LedgerOf!expectedLegalStatus(infoOf(txid[h]).mode))'
    <3>1. Selling(h) => pc'[h] \in {"LoadAndCache", "dead"} \/ Answered(h, "approved")'
      BY Steps, NextSteps DEF Moves, Place, Answered
    <3>2. Selling(h) => (legalStatus(infoOf(txid[h]).asset)
                            = LedgerOf!expectedLegalStatus(infoOf(txid[h]).mode))'
      BY <2>1, <2>2 DEF Place
    <3> QED
      BY <3>1, <3>2
  <2>4. pc'[h] \in {"ListActive", "CheckStatus", "SetPending", "Review", "ApproveStatus",
                    "StartTransaction", "RestoreStatus", "RejectTransaction"} => StillReviewing(h)
    BY <1>1, <1>3, NextSteps, Steps DEF Moves, Place, Progress
  <2>5. /\ pc'[h] \in {"Review", "ApproveStatus"} =>
             legalStatus(request[h].asset) = LedgerOf!legalStatusPending
        /\ pc'[h] = "StartTransaction" => OnMarket(request[h])
        /\ pc'[h] = "RestoreStatus" => legalStatus(request[h].asset) # LedgerOf!legalStatusNormal
    BY NextSteps, Steps
       DEF Moves, Place, OnMarket, LedgerOf!legalStatusNormal, LedgerOf!legalStatusPending,
           LedgerOf!expectedLegalStatus, LedgerOf!legalStatusSelling, LedgerOf!legalStatusBidding
  <2> QED
    BY <2>1, <2>3, <2>4, <2>5 DEF Place, OnMarket
<1> QED
  BY <1>2, <1>3

LEMMA QuietClaims ==
  ASSUME IInv, IInv', Claims, StatusesKept, InfosKept, Shrinks(flight, flight'),
         \A h \in Handlers :
           /\ RequestStays(h) /\ Moves(h) /\ Single(flight', txid[h])
           /\ \A f \in flight' : Own(f, txid[h]) /\ f.by = Nobody => pc'[h] = "dead"
  PROVE  Claims'
<1>1. /\ OneHolder /\ SalesHaveLaunch /\ PendingHasLaunch /\ StateInv
      /\ \A h \in Handlers : Place(h) /\ Flights(h) /\ txid'[h] = txid[h]
  BY DEF Claims, RequestStays, IInv
<1>2. \A h \in Handlers : Place(h)'
  BY <1>1, QuietPlace
<1>3. ASSUME NEW h \in Handlers, txid[h] # 0
      PROVE  /\ request'[h] = request[h] /\ (infoOf(txid[h]))' = infoOf(txid[h])
             /\ (StillReviewing(h)' <=> StillReviewing(h)) /\ (Selling(h)' <=> Selling(h))
  BY <1>1, <1>3, QuietRecords
<1>4. ASSUME NEW h \in Handlers PROVE Flights(h)'
  <2>1. ASSUME NEW g \in flight', Own(g, txid[h])
        PROVE  /\ g.by = Nobody => pc'[h] = "dead"
               /\ assetCertificateKey(request'[h].asset) \in g.reads => StillReviewing(h)'
    <3>1. txid[h] # 0
      BY <2>1 DEF Own
    <3>2. PICK f \in flight : Like(g, f)
      BY DEF Shrinks
    <3>3. Own(f, txid[h]) /\ f.reads = g.reads
      BY <2>1, <3>2 DEF Like, Own
    <3> QED
      BY <1>1, <1>3, <2>1, <3>1, <3>3 DEF Flights
  <2> QED
    BY <1>1, <2>1 DEF Flights
<1>5. ASSUME NEW h \in Handlers, Holds(h)' PROVE Holds(h) /\ request'[h] = request[h]
  <2>1. Progress(h)' /\ Progress(h)
    BY DEF IInv, StateInv, HandlersInv
  <2>2. txid[h] # 0
    BY <1>1, <1>5, <2>1, Steps DEF Holds, Progress, Selling, Gripped, Own
  <2>3. Gripped(flight', txid[h], request[h].asset) => Gripped(flight, txid[h], request[h].asset)
    BY ShrinkKeeps
  <2>4. pc'[h] \in {"Review", "ApproveStatus", "StartTransaction", "RestoreStatus"} =>
          pc[h] \in {"Review", "ApproveStatus", "StartTransaction", "RestoreStatus"}
    BY <2>1, <2>2, NextSteps, Steps DEF Moves, Progress
  <2> QED
    BY <1>1, <1>3, <1>5, <2>2, <2>3, <2>4 DEF Holds
<1>6. OneHolder'
  BY <1>1, <1>5 DEF OneHolder
<1>7. SalesHaveLaunch'
  <2> SUFFICES ASSUME NEW i \in TransactionIDs, InProgress(i)'
               PROVE  \E h \in Handlers : txid'[h] = i
    BY DEF SalesHaveLaunch
  <2>1. infoOf(i)' = infoOf(i)
    BY DEF InfosKept
  <2>2. InProgress(i)
    BY <2>1 DEF InProgress
  <2> QED
    BY <1>1, <2>2 DEF SalesHaveLaunch
<1>8. PendingHasLaunch'
  <2> SUFFICES ASSUME NEW a \in Assets, legalStatus(a)' = LedgerOf!legalStatusPending
               PROVE  \E h \in Handlers : Reviews(h, a)'
    BY DEF PendingHasLaunch, LedgerOf!legalStatusPending
  <2>1. legalStatus(a) = LedgerOf!legalStatusPending
    BY DEF StatusesKept
  <2>2. PICK h \in Handlers : Reviews(h, a)
    BY <1>1, <2>1 DEF PendingHasLaunch
  <2>3. Unsettled(flight', txid[h])
    BY <2>2, ShrinkKeeps DEF Reviews
  <2>4. pc'[h] \in {"Review", "ApproveStatus", "RestoreStatus", "done", "dead"}
    BY <2>2, NextSteps, Steps DEF Reviews, Moves
  <2> QED
    BY <1>1, <1>3, <2>2, <2>3, <2>4 DEF Reviews
<1> QED
  BY <1>2, <1>4, <1>6, <1>7, <1>8 DEF Claims

\* A step that keeps the world state and takes no invocation on.
LEMMA KeptClaims ==
  ASSUME IInv, IInv', Claims, UNCHANGED <<world, txid>>, flight' \subseteq flight,
         \A h \in Handlers : txid[h] # 0 => request'[h] = request[h],
         \A h \in Handlers : Moves(h) /\ (pc[h] = "dead" => pc'[h] = "dead")
  PROVE  Claims'
<1>1. StatusesKept /\ InfosKept
  BY DEF StatusesKept, InfosKept, legalStatus, infoOf
<1>2. Shrinks(flight, flight')
  BY DEF Shrinks, Like
<1>3. \A h \in Handlers :
        /\ RequestStays(h) /\ Moves(h) /\ Single(flight', txid[h])
        /\ \A f \in flight' : Own(f, txid[h]) /\ f.by = Nobody => pc'[h] = "dead"
  BY DEF RequestStays, Claims, Flights, Single
<1> QED
  BY <1>1, <1>2, <1>3, QuietClaims

LEMMA FailsClaims ==
  ASSUME IInv, IInv', Claims, NEW h \in Handlers, pc[h] \in Active \ {"LoadAndCache"},
         NEW v, Fails(h, v), UNCHANGED <<world, request>>, flight' \subseteq flight
  PROVE  Claims'
<1>1. /\ UNCHANGED txid /\ pc' = [pc EXCEPT ![h] = AfterFailure(pc[h])]
      /\ answer' = [answer EXCEPT ![h] = v] /\ HandlerTypes
  BY DEF Fails, IInv, StateInv, HandlersInv
<1>2. \A k \in Handlers : Moves(k) /\ (pc[k] = "dead" => pc'[k] = "dead")
  BY <1>1, Steps DEF Moves, HandlerTypes
<1> QED
  BY <1>1, <1>2, KeptClaims

LEMMA ReceiveClaims == ASSUME IInv, IInv', Claims, NEW h \in Handlers, Receive(h) PROVE Claims'
<1>1. /\ pc[h] = "idle" /\ pc' = [pc EXCEPT ![h] = "AddNewTransaction"] /\ HandlerTypes
      /\ UNCHANGED <<world, flight, txid, answer>> /\ txid[h] = 0
      /\ \E r : request' = [request EXCEPT ![h] = r]
  BY DEF Receive, IInv, StateInv, HandlersInv, Progress
<1>2. \A k \in Handlers : Moves(k) /\ (pc[k] = "dead" => pc'[k] = "dead")
  BY <1>1 DEF Moves, HandlerTypes
<1>3. \A k \in Handlers : txid[k] # 0 => request'[k] = request[k]
  BY <1>1 DEF HandlerTypes
<1> QED
  BY <1>1, <1>2, <1>3, KeptClaims

LEMMA EvaluatesClaims ==
  ASSUME IInv, IInv', Claims, NEW h \in Handlers,
         CheckStatus(h) \/ Review(h) \/ LoadAndCache(h)
  PROVE  Claims'
<1>1. HandlerTypes /\ UNCHANGED <<world, flight, request>>
  BY DEF IInv, StateInv, HandlersInv, CheckStatus, Review, LoadAndCache
<1>2. CASE \E v : Fails(h, v) /\ pc[h] \in {"CheckStatus", "Review"}
  BY <1>1, <1>2, FailsClaims, Steps
<1>3. CASE \/ /\ pc[h] = "CheckStatus" /\ pc' = [pc EXCEPT ![h] = "SetPending"]
              /\ UNCHANGED <<txid, answer>>
           \/ /\ pc[h] = "Review" /\ pc' = [pc EXCEPT ![h] = "ApproveStatus"]
              /\ UNCHANGED <<txid, answer>>
           \/ /\ pc[h] = "LoadAndCache" /\ pc' = [pc EXCEPT ![h] = "done"]
              /\ answer' = [answer EXCEPT ![h] = "approved"] /\ UNCHANGED txid
  <2>1. \A k \in Handlers : Moves(k) /\ (pc[k] = "dead" => pc'[k] = "dead")
    BY <1>1, <1>3 DEF Moves, HandlerTypes
  <2> QED
    BY <1>1, <1>3, <2>1, KeptClaims
<1> QED
  BY <1>2, <1>3 DEF CheckStatus, Review, LoadAndCache

\* The invocation that begins is the only one of its handler.
LEMMA EndorseClaims == ASSUME IInv, IInv', Claims, NEW h \in Handlers, Endorse(h) PROVE Claims'
<1>1. /\ pc[h] \in Submits /\ UNCHANGED <<world, pc, request, txid, answer>>
      /\ \A g \in flight : g.by # h
  BY DEF Endorse, Waiting
<1>2. PICK f : flight' = flight \cup {f} /\ f.by = h
  <2>1. PICK start \in Times :
          flight' = flight \cup
            {[by |-> h, id |-> Call(h, start).id, reply |-> Call(h, start).reply,
              reads |-> Call(h, start).reads, writes |-> Call(h, start).writes, stale |-> FALSE]}
    BY DEF Endorse
  <2>2. PICK f : f = [by |-> h, id |-> Call(h, start).id, reply |-> Call(h, start).reply,
                      reads |-> Call(h, start).reads, writes |-> Call(h, start).writes,
                      stale |-> FALSE]
    OBVIOUS
  <2>3. f.by = h
    BY <2>2
  <2> QED
    BY <2>1, <2>2, <2>3
<1>3. /\ OneHolder /\ SalesHaveLaunch /\ PendingHasLaunch /\ StateInv
      /\ \A k \in Handlers : Place(k) /\ Flights(k)
  BY DEF Claims, IInv
<1>4. StatusesKept /\ InfosKept /\ \A k \in Handlers : RequestStays(k)
  BY <1>1 DEF StatusesKept, InfosKept, legalStatus, infoOf, RequestStays
<1>5. \A k \in Handlers : Place(k)'
  BY <1>1, <1>3, <1>4, QuietPlace DEF Moves
<1>6. ASSUME NEW k \in Handlers, Own(f, txid[k])
      PROVE  /\ k = h /\ f.by # Nobody
             /\ \A g \in flight : ~Own(g, txid[h])
             /\ \A a : Grips(f, a) =>
                  pc[h] \in {"ApproveStatus", "StartTransaction", "RestoreStatus"}
             /\ assetCertificateKey(request[h].asset) \in f.reads => StillReviewing(h)
             /\ transactionInfoKey(txid[h]) \in f.reads =>
                  pc[h] \in {"StartTransaction", "RejectTransaction"}
  <2>1. f \in flight' /\ Own(f, txid[k])'
    BY <1>1, <1>2, <1>6 DEF Own, transactionCounterKey
  <2>2. PICK k2 \in Handlers, step \in Submits, start \in Times, r \in Requests, id \in 0..MaxUint :
          From(f, k2, step, start, r, id)'
    BY <2>1 DEF IInv, FlightInv, FromHandler, IsFrom
  <2>3. /\ step # "AddNewTransaction" /\ k2 = h /\ f.by # Nobody /\ pc[h] = step
        /\ id = txid[h] /\ r = request[h] /\ id # 0 /\ f.id = id /\ Reads(f, step, r, id)
    BY <1>1, <1>2, <1>6, <2>2, HandlersAssumption DEF From, Reads, Own
  <2>4. k = h
    BY <1>3, <1>6, <2>3 DEF Own, StateInv, HandlersInv
  <2>5. \A g \in flight : ~Own(g, txid[h])
    <3> SUFFICES ASSUME NEW g \in flight, Own(g, txid[h]) PROVE FALSE
      OBVIOUS
    <3>1. g.by = Nobody
      BY <1>1, OwnFrom DEF From
    <3> QED
      BY <1>1, <1>3, <3>1, Steps DEF Flights
  <2>6. ASSUME NEW a, assetCertificateKey(a) \in f.reads
        PROVE  step \in {"SetPending", "ApproveStatus", "StartTransaction", "RestoreStatus"}
    BY <2>3, <2>6, KeysDiffer, Steps DEF Reads
  <2>7. ASSUME NEW a, Grips(f, a), step = "SetPending" PROVE FALSE
    <3>1. Says(f, step, r, id, start)'
      BY <2>2, <2>7 DEF From, Grips
    <3>2. f.reads = {assetCertificateKey(r.asset)}
            /\ f.writes = write(assetCertificateKey(r.asset), LedgerOf!legalStatusPending)
      BY <2>7, <3>1 DEF Says, StatusSet
    <3> QED
      BY <2>7, <3>2, KeysDiffer DEF Grips
  <2>8. \A a : Grips(f, a) => step \in {"ApproveStatus", "StartTransaction", "RestoreStatus"}
    BY <2>6, <2>7 DEF Grips
  <2>9. transactionInfoKey(id) \in f.reads => step \in {"StartTransaction", "RejectTransaction"}
    BY <2>3, KeysDiffer, Steps DEF Reads
  <2>10. assetCertificateKey(request[h].asset) \in f.reads => StillReviewing(h)
    BY <1>3, <2>3, <2>6 DEF Place
  <2> QED
    BY <2>3, <2>4, <2>5, <2>8, <2>9, <2>10
<1>7. ASSUME NEW k \in Handlers PROVE Flights(k)'
  <2>1. Single(flight', txid[k])
    BY <1>2, <1>3, <1>6 DEF Flights, Single
  <2>2. ASSUME NEW g \in flight', Own(g, txid[k])
        PROVE  /\ g.by = Nobody => pc[k] = "dead"
               /\ assetCertificateKey(request[k].asset) \in g.reads => StillReviewing(k)
    BY <1>2, <1>3, <1>6, <2>2 DEF Flights
  <2>3. StillReviewing(k)' <=> StillReviewing(k)
    BY <1>1 DEF StillReviewing, infoOf
  <2> QED
    BY <1>1, <2>1, <2>2, <2>3 DEF Flights
<1>8. ASSUME NEW k \in Handlers, Holds(k)' PROVE Holds(k)
  <2>1. Selling(k)' <=> Selling(k)
    BY <1>1 DEF Selling, InProgress, infoOf
  <2>2. Gripped(flight', txid[k], request[k].asset) =>
          \/ Gripped(flight, txid[k], request[k].asset)
          \/ Own(f, txid[k]) /\ Grips(f, request[k].asset)
    BY <1>2 DEF Gripped
  <2> QED
    BY <1>1, <1>6, <1>8, <2>1, <2>2 DEF Holds
<1>9. OneHolder'
  BY <1>1, <1>3, <1>8 DEF OneHolder
<1>10. SalesHaveLaunch'
  BY <1>1, <1>3 DEF SalesHaveLaunch, InProgress, infoOf
<1>11. PendingHasLaunch'
  <2> SUFFICES ASSUME NEW a \in Assets, legalStatus(a) = LedgerOf!legalStatusPending
               PROVE  \E k \in Handlers : Reviews(k, a)'
    BY <1>1 DEF PendingHasLaunch, legalStatus, LedgerOf!legalStatusPending
  <2>1. PICK k \in Handlers : Reviews(k, a)
    BY <1>3 DEF PendingHasLaunch
  <2>2. Unsettled(flight', txid[k])
    BY <1>2, <1>6, <2>1 DEF Unsettled, Reviews
  <2>3. Reviews(k, a)'
    BY <1>1, <2>1, <2>2 DEF Reviews, StillReviewing, infoOf
  <2> QED
    BY <2>3
<1> QED
  BY <1>5, <1>7, <1>9, <1>10, <1>11 DEF Claims

\* A crash abandons the invocations of the handlers it kills.
LEMMA CrashClaims == ASSUME IInv, IInv', Claims, Crash PROVE Claims'
<1>1. /\ pc' = [h \in Handlers |-> IF pc[h] \in Active THEN "dead" ELSE pc[h]]
      /\ answer' = [h \in Handlers |-> IF pc[h] \in Active THEN "none" ELSE answer[h]]
      /\ flight' = {[f EXCEPT !.by = Nobody] : f \in flight}
      /\ UNCHANGED <<world, request, txid>>
  BY DEF Crash
<1>2. \A f \in flight : Invocation(f)
  BY DEF IInv, FlightInv, FromHandler, IsFrom, From
<1>3. StatusesKept /\ InfosKept
  BY <1>1 DEF StatusesKept, InfosKept, legalStatus, infoOf
<1>4. \A g \in flight' : \E f \in flight : Like(g, f) /\ g = [f EXCEPT !.by = Nobody]
  <2> SUFFICES ASSUME NEW g \in flight'
               PROVE  \E f \in flight : Like(g, f) /\ g = [f EXCEPT !.by = Nobody]
    OBVIOUS
  <2>1. PICK f \in flight : g = [f EXCEPT !.by = Nobody]
    BY <1>1
  <2>2. Remains(g, f)
    BY <1>2, <2>1, AbandonedInvocation
  <2> QED
    BY <2>1, <2>2 DEF Remains, Like
<1>5. Shrinks(flight, flight')
  BY <1>4 DEF Shrinks
<1>6. ASSUME NEW h \in Handlers
      PROVE  /\ RequestStays(h) /\ Moves(h) /\ Single(flight', txid[h])
             /\ \A g \in flight' : Own(g, txid[h]) /\ g.by = Nobody => pc'[h] = "dead"
  <2>1. RequestStays(h) /\ Moves(h)
    BY <1>1 DEF RequestStays, Moves
  <2>2. Single(flight', txid[h])
    <3> SUFFICES ASSUME NEW g1 \in flight', NEW g2 \in flight', Own(g1, txid[h]), Own(g2, txid[h])
                 PROVE  g1 = g2
      BY DEF Single
    <3>1. PICK f1 \in flight : Like(g1, f1) /\ g1 = [f1 EXCEPT !.by = Nobody]
      BY <1>4
    <3>2. PICK f2 \in flight : Like(g2, f2) /\ g2 = [f2 EXCEPT !.by = Nobody]
      BY <1>4
    <3>3. Own(f1, txid[h]) /\ Own(f2, txid[h])
      BY <3>1, <3>2 DEF Like, Own
    <3>4. f1 = f2
      BY <3>3 DEF Claims, Flights, Single
    <3> QED
      BY <3>1, <3>2, <3>4
  <2>3. ASSUME NEW g \in flight', Own(g, txid[h]) PROVE pc'[h] = "dead"
    <3>1. PICK f \in flight : Like(g, f)
      BY <1>4
    <3>2. Own(f, txid[h])
      BY <2>3, <3>1 DEF Like, Own
    <3>3. f.by = Nobody \/ pc[h] \in Submits
      BY <3>2, OwnFrom DEF From, OfTransaction
    <3>4. pc[h] = "dead" \/ pc[h] \in Active
      BY <3>2, <3>3, Steps DEF Claims, Flights
    <3> QED
      BY <1>1, <3>4
  <2> QED
    BY <2>1, <2>2, <2>3
<1> QED
  BY <1>3, <1>5, <1>6, QuietClaims

\* Overtaken invocations are as many as before, and belong to whom they did.
LEMMA OvertakenFlights ==
  ASSUME NEW S, NEW keys, \A f \in S : Invocation(f), NEW T, T = Overtaken(S, keys)
  PROVE  /\ Shrinks(S, T)
         /\ \A g \in T : \E f \in S : Like(g, f) /\ g.by = f.by
                           /\ (~g.stale => f.reads \cap keys = {})
         /\ \A i : Single(S, i) => Single(T, i)
<1>1. \A g \in T : \E f \in S : Remains(g, f) /\ g.by = f.by
                                  /\ (g.stale <=> f.stale \/ f.reads \cap keys # {})
  BY OvertakenInvocations
<1>2. \A g \in T : \E f \in S : Like(g, f) /\ g.by = f.by
                           /\ (~g.stale => f.reads \cap keys = {})
  BY <1>1 DEF Remains, Like
<1>3. ASSUME NEW i, Single(S, i) PROVE Single(T, i)
  <2> SUFFICES ASSUME NEW g1 \in T, NEW g2 \in T, Own(g1, i), Own(g2, i) PROVE g1 = g2
    BY DEF Single
  <2>1. ASSUME NEW g \in T, Own(g, i)
        PROVE  \E f \in S : Own(f, i) /\ g = [f EXCEPT !.stale = @ \/ f.reads \cap keys # {}]
    <3>1. PICK f \in S : g = [f EXCEPT !.stale = @ \/ f.reads \cap keys # {}]
      BY DEF Overtaken
    <3> DEFINE late == f.stale \/ f.reads \cap keys # {}
    <3>2. g = [f EXCEPT !.stale = late]
      BY <3>1
    <3> HIDE DEF late
    <3>3. g.id = f.id /\ g.reads = f.reads
      BY <3>2 DEF Invocation
    <3>4. Own(f, i)
      BY <2>1, <3>3 DEF Own
    <3> QED
      BY <3>1, <3>4
  <2>2. PICK f1 \in S : Own(f1, i) /\ g1 = [f1 EXCEPT !.stale = @ \/ f1.reads \cap keys # {}]
    BY <2>1
  <2>3. PICK f2 \in S : Own(f2, i) /\ g2 = [f2 EXCEPT !.stale = @ \/ f2.reads \cap keys # {}]
    BY <2>1
  <2>4. f1 = f2
    BY <1>3, <2>2, <2>3 DEF Single
  <2> QED
    BY <2>2, <2>3, <2>4
<1> QED
  BY <1>2, <1>3 DEF Shrinks

LEMMA MoveScoreClaims ==
  ASSUME IInv, IInv', Claims, NEW u \in Users, NEW score, MoveScore(u, score)
  PROVE  Claims'
<1> DEFINE key == tradingIdentityKey(u)
<1>1. /\ world' = [world EXCEPT ![key].sellerScore = score]
      /\ flight' = Overtaken(flight, {key})
      /\ UNCHANGED <<pc, request, txid, answer>>
  BY DEF MoveScore
<1>2. Stored(key, [Identity(u) EXCEPT !.sellerScore = score])
  BY <1>1 DEF IInv, StateInv, WorldInv, IsFunction, Identity, Stored
<1>3. StatusesKept /\ InfosKept
  BY <1>2, StoredIdentity
<1>4. \A f \in flight : Invocation(f)
  BY DEF IInv, FlightInv, FromHandler, IsFrom, From
<1>5. /\ Shrinks(flight, flight')
      /\ \A g \in flight' : \E f \in flight : Like(g, f) /\ g.by = f.by
      /\ \A i : Single(flight, i) => Single(flight', i)
  BY <1>1, <1>4, OvertakenFlights
<1>6. ASSUME NEW h \in Handlers
      PROVE  /\ RequestStays(h) /\ Moves(h) /\ Single(flight', txid[h])
             /\ \A g \in flight' : Own(g, txid[h]) /\ g.by = Nobody => pc'[h] = "dead"
  <2>1. RequestStays(h) /\ Moves(h)
    BY <1>1 DEF RequestStays, Moves
  <2>2. ASSUME NEW g \in flight', Own(g, txid[h]), g.by = Nobody PROVE pc'[h] = "dead"
    <3>1. PICK f \in flight : Like(g, f) /\ g.by = f.by
      BY <1>5
    <3>2. Own(f, txid[h]) /\ f.by = Nobody
      BY <2>2, <3>1 DEF Like, Own
    <3> QED
      BY <1>1, <3>2 DEF Claims, Flights
  <2> QED
    BY <1>5, <2>1, <2>2 DEF Claims, Flights
<1> QED
  BY <1>3, <1>5, <1>6, QuietClaims

-----------------------------------------------------------------------------
(* The commits.                                                            *)

\* A step of one launch that ends its last invocation.  Either it leaves the
\* statuses and the holders alone, or nobody else holds its asset.
LEMMA ActorClaims ==
  ASSUME IInv, IInv', Claims, NEW h \in Handlers, NEW a,
         txid[h] # 0 => request[h].asset = a /\ txid'[h] = txid[h], UNCHANGED request,
         \A k \in Handlers \ {h} :
           pc'[k] = pc[k] /\ txid'[k] = txid[k] /\ answer'[k] = answer[k],
         \A k \in Handlers \ {h} : txid[k] # 0 => (infoOf(txid[k]))' = infoOf(txid[k]),
         \A b \in Assets \ {a} : legalStatus(b)' = legalStatus(b),
         Shrinks(flight, flight'),
         \A k \in Handlers :
           /\ Single(flight', txid[k])
           /\ \A g \in flight' : Own(g, txid[k]) /\ g.by = Nobody => pc[k] = "dead",
         \A g \in flight' : ~Own(g, txid'[h]),
         Place(h)',
         \/ StatusesKept /\ (Holds(h)' => Holds(h))
         \/ \A k \in Handlers \ {h} : Holds(k) => request[k].asset # a,
         \A i \in TransactionIDs : InProgress(i)' => InProgress(i) \/ i = txid'[h],
         \A b \in Assets :
           legalStatus(b)' = LedgerOf!legalStatusPending =>
             \/ Reviews(h, b)'
             \/ legalStatus(b) = LedgerOf!legalStatusPending /\ ~Reviews(h, b),
         Holds(h)' => txid'[h] # 0 /\ request[h].asset = a
  PROVE  Claims'
<1>1. /\ OneHolder /\ SalesHaveLaunch /\ PendingHasLaunch /\ StateInv
      /\ \A k \in Handlers : Place(k) /\ Flights(k)
  BY DEF Claims, IInv
<1>2. ASSUME NEW k \in Handlers \ {h}, txid[k] # 0
      PROVE  /\ (infoOf(txid[k]))' = infoOf(txid[k])
             /\ (StillReviewing(k)' <=> StillReviewing(k)) /\ (Selling(k)' <=> Selling(k))
  BY <1>2 DEF StillReviewing, Selling, InProgress
<1>3. ASSUME NEW k \in Handlers \ {h}, Holds(k)' PROVE Holds(k) /\ txid[k] # 0
  <2>1. Progress(k)
    BY DEF IInv, StateInv, HandlersInv
  <2>2. txid[k] # 0
    BY <1>3, <2>1, Steps DEF Holds, Progress, Selling, Gripped, Own
  <2>3. Gripped(flight', txid[k], request[k].asset) => Gripped(flight, txid[k], request[k].asset)
    BY ShrinkKeeps
  <2> QED
    BY <1>2, <1>3, <2>2, <2>3 DEF Holds
<1>4. ASSUME NEW k \in Handlers \ {h} PROVE Place(k)'
  <2>1. Progress(k) /\ txid'[k] = txid[k] /\ pc'[k] = pc[k]
    BY DEF IInv, StateInv, HandlersInv
  <2>2. CASE txid[k] = 0
    BY <2>1, <2>2, Steps DEF Progress, Place, Selling
  <2>3. CASE txid[k] # 0
    <3>1. request[k].asset \in Assets /\ infoOf(txid[k]).asset = request[k].asset
      BY <1>1, <2>3, OwnRecords
    <3>2. ASSUME Holds(k)
          PROVE  (legalStatus(request[k].asset))' = legalStatus(request[k].asset)
      <4>1. PICK b \in Assets : b = request[k].asset
        BY <3>1
      <4>2. legalStatus(b)' = legalStatus(b)
        BY <3>2, <4>1 DEF StatusesKept
      <4> QED
        BY <4>1, <4>2 DEF legalStatus
    <3>3. Selling(k) => Holds(k)
      BY DEF Holds
    <3>4. pc[k] \in {"Review", "ApproveStatus", "StartTransaction", "RestoreStatus"} => Holds(k)
      BY DEF Holds
    <3>5. Selling(k)' => /\ (pc[k] \in {"LoadAndCache", "dead"} \/ Answered(k, "approved"))'
                         /\ (legalStatus(infoOf(txid[k]).asset)
                               = LedgerOf!expectedLegalStatus(infoOf(txid[k]).mode))'
      BY <1>1, <1>2, <2>1, <2>3, <3>1, <3>2, <3>3 DEF Place, Answered
    <3> QED
      BY <1>1, <1>2, <2>1, <2>3, <3>2, <3>4, <3>5 DEF Place, OnMarket
  <2> QED
    BY <2>2, <2>3
<1>5. ASSUME NEW k \in Handlers PROVE Flights(k)'
  <2>1. CASE k = h
    BY <2>1 DEF Flights, Single
  <2>2. CASE k # h
    <3>1. ASSUME NEW g \in flight', Own(g, txid[k])
          PROVE  assetCertificateKey(request[k].asset) \in g.reads => StillReviewing(k)'
      <4>1. txid[k] # 0
        BY <3>1 DEF Own
      <4>2. PICK f \in flight : Like(g, f)
        BY DEF Shrinks
      <4>3. Own(f, txid[k]) /\ f.reads = g.reads
        BY <3>1, <4>2 DEF Like, Own
      <4> QED
        BY <1>1, <1>2, <2>2, <4>1, <4>3 DEF Flights
    <3> QED
      BY <2>2, <3>1 DEF Flights
  <2> QED
    BY <2>1, <2>2
<1>6. OneHolder'
  <2> SUFFICES ASSUME NEW k \in Handlers, NEW j \in Handlers, Holds(k)', Holds(j)',
                      request[k].asset = request[j].asset
               PROVE  k = j
    BY DEF OneHolder
  <2>1. CASE k # h /\ j # h
    BY <1>1, <1>3, <2>1 DEF OneHolder
  <2>2. ASSUME NEW i \in Handlers \ {h}, Holds(i)', Holds(h)', request[i].asset = request[h].asset
        PROVE  FALSE
    BY <1>1, <1>3, <2>2 DEF OneHolder
  <2> QED
    BY <2>1, <2>2
<1>7. SalesHaveLaunch'
  <2> SUFFICES ASSUME NEW i \in TransactionIDs, InProgress(i)'
               PROVE  \E k \in Handlers : txid'[k] = i
    BY DEF SalesHaveLaunch
  <2>1. CASE InProgress(i)
    <3>1. PICK k \in Handlers : txid[k] = i
      BY <1>1, <2>1 DEF SalesHaveLaunch
    <3>2. i # 0
      BY ChannelAssumption DEF TransactionIDs
    <3> QED
      BY <3>1, <3>2
  <2> QED
    BY <2>1
<1>8. PendingHasLaunch'
  <2> SUFFICES ASSUME NEW b \in Assets, legalStatus(b)' = LedgerOf!legalStatusPending
               PROVE  \E k \in Handlers : Reviews(k, b)'
    BY DEF PendingHasLaunch, LedgerOf!legalStatusPending
  <2>1. CASE legalStatus(b) = LedgerOf!legalStatusPending /\ ~Reviews(h, b)
    <3>1. PICK k \in Handlers \ {h} : Reviews(k, b)
      BY <1>1, <2>1 DEF PendingHasLaunch
    <3>2. Unsettled(flight', txid[k])
      BY <3>1, ShrinkKeeps DEF Reviews
    <3>3. Reviews(k, b)'
      BY <1>2, <3>1, <3>2 DEF Reviews
    <3> QED
      BY <3>3
  <2> QED
    BY <2>1
<1> QED
  BY <1>4, <1>5, <1>6, <1>7, <1>8 DEF Claims

\* What a commit leaves of the invocations and does to its handler.
LEMMA CommitFacts ==
  ASSUME IInv, IInv', Claims, NEW f \in flight, Commit(f), NEW h \in Handlers,
         NEW step \in Submits, NEW start \in Times, NEW r \in Requests, NEW id \in 0..MaxUint,
         From(f, h, step, start, r, id)
  PROVE  /\ step # "AddNewTransaction" => Own(f, id) /\ \A g \in flight' : ~Own(g, id)
         /\ \A g \in flight' : ~Own(g, Counter + 1)
         /\ Shrinks(flight, flight')
         /\ \A k \in Handlers :
              /\ Single(flight', txid[k])
              /\ \A g \in flight' : Own(g, txid[k]) /\ g.by = Nobody => pc[k] = "dead"
         /\ \A k \in Handlers \ {h} :
              pc'[k] = pc[k] /\ txid'[k] = txid[k] /\ answer'[k] = answer[k]
         /\ step # "AddNewTransaction" => txid'[h] = txid[h]
         /\ \/ /\ f.by = Nobody /\ UNCHANGED <<pc, txid, answer>>
               /\ step # "AddNewTransaction" => pc[h] = "dead"
            \/ /\ f.by = h /\ pc[h] = step
               /\ pc'[h] = IF f.reply THEN AfterSuccess[step] ELSE AfterFailure(step)
               /\ step = "AddNewTransaction" => txid'[h] = Counter + 1
<1>1. /\ r = request[h] /\ id = txid[h] /\ id \in 0..Counter
      /\ ((id = 0) <=> (step = "AddNewTransaction"))
      /\ Effect(f, step, r, id, start) /\ WorldInv' /\ HistoryKept(id)
      /\ f.id \in TransactionIDs /\ (id # 0 => f.id = id) /\ f.reply \in BOOLEAN
      /\ StateInv /\ HandlerTypes
  BY CommittedFrom DEF IInv, StateInv, HandlersInv
<1>2. ASSUME step # "AddNewTransaction" PROVE Own(f, id)
  <2>1. Says(f, step, r, id, start)
    BY DEF From, Commit, Apply
  <2>2. transactionCounterKey \notin f.reads
    <3>1. CASE step \in {"ListActive", "ListInactive"}
      <4>1. f.reads = {userTransactionListKey(r.user)}
        BY <2>1, <3>1 DEF Says, ListSet
      <4> QED
        BY <4>1, KeysDiffer
    <3>2. CASE step \in {"SetPending", "ApproveStatus", "RestoreStatus"}
      BY <2>1, <3>2, KeysDiffer DEF Says, StatusSet
    <3>3. CASE step = "StartTransaction"
      <4>1. TransactionStarted(f, id, r, start)
        BY <2>1, <3>3 DEF Says
      <4>2. f.reads \subseteq {transactionInfoKey(id), tradingIdentityKey(r.user),
                               assetCertificateKey(r.asset)}
        BY <4>1 DEF TransactionStarted
      <4> QED
        BY <4>2, KeysDiffer
    <3>4. CASE step = "RejectTransaction"
      BY <2>1, <3>4, KeysDiffer DEF Says, TransactionRejected
    <3> QED
      BY <1>2, <3>1, <3>2, <3>3, <3>4, Steps
  <2> QED
    BY <1>1, <1>2, <2>2 DEF Own
<1>3. \A g \in flight \ {f} : Invocation(g)
  BY DEF IInv, FlightInv, FromHandler, IsFrom, From
<1>4. flight' = Overtaken(flight \ {f}, DOMAIN f.writes)
  BY DEF Commit, Apply
<1>5. /\ \A g \in flight' : \E g0 \in flight \ {f} : Like(g, g0) /\ g.by = g0.by
      /\ \A i : Single(flight \ {f}, i) => Single(flight', i)
  BY <1>3, <1>4, OvertakenFlights
<1>6. Shrinks(flight, flight')
  BY <1>5 DEF Shrinks
<1>7. ASSUME NEW k \in Handlers
      PROVE  /\ Single(flight', txid[k])
             /\ \A g \in flight' : Own(g, txid[k]) /\ g.by = Nobody => pc[k] = "dead"
  <2>1. Flights(k) /\ Single(flight \ {f}, txid[k])
    BY DEF Claims, Flights, Single
  <2>2. ASSUME NEW g \in flight', Own(g, txid[k]), g.by = Nobody PROVE pc[k] = "dead"
    <3>1. PICK g0 \in flight \ {f} : Like(g, g0) /\ g.by = g0.by
      BY <1>5
    <3>2. Own(g0, txid[k])
      BY <2>2, <3>1 DEF Like, Own
    <3> QED
      BY <2>1, <2>2, <3>1, <3>2 DEF Flights
  <2> QED
    BY <1>5, <2>1, <2>2
<1>8. ASSUME step # "AddNewTransaction", NEW g \in flight', Own(g, id) PROVE FALSE
  <2>1. PICK g0 \in flight \ {f} : Like(g, g0)
    BY <1>5
  <2>2. Own(g0, id)
    BY <1>8, <2>1 DEF Like, Own
  <2> QED
    BY <1>1, <1>2, <1>8, <2>2 DEF Claims, Flights, Single
<1>9. ASSUME NEW g \in flight', Own(g, Counter + 1) PROVE FALSE
  <2>1. PICK g0 \in flight \ {f} : Like(g, g0)
    BY <1>5
  <2>2. Own(g0, Counter + 1)
    BY <1>9, <2>1 DEF Like, Own
  <2>3. PICK k \in Handlers, other \in Submits, start2 \in Times, r2 \in Requests,
             id2 \in 0..MaxUint : From(g0, k, other, start2, r2, id2)
    BY DEF IInv, FlightInv, FromHandler, IsFrom
  <2>4. id2 = Counter + 1 /\ id2 = txid[k]
    BY <2>2, <2>3 DEF From, Reads, Own
  <2>5. txid[k] <= Counter /\ Counter \in Nat
    BY ChannelAssumption DEF IInv, StateInv, HandlersInv, Records, WorldInv
  <2> QED
    BY <2>4, <2>5
<1>10. CASE f.by = Nobody
  <2>1. UNCHANGED <<pc, txid, answer>>
    BY <1>10 DEF Commit
  <2>2. step # "AddNewTransaction" => pc[h] = "dead"
    BY <1>1, <1>2, <1>10 DEF Claims, Flights
  <2> QED
    BY <1>2, <1>6, <1>7, <1>8, <1>9, <1>10, <2>1, <2>2
<1>11. CASE f.by = h
  <2>1. /\ step # "AddNewTransaction" => txid'[h] = id
        /\ step = "AddNewTransaction" => txid'[h] = Counter + 1
        /\ \A k \in Handlers \ {h} :
             pc'[k] = pc[k] /\ txid'[k] = txid[k] /\ answer'[k] = answer[k]
    BY <1>1, <1>11, OwnStepStays
  <2>2. pc[h] = step
    BY <1>11, HandlersAssumption DEF From
  <2>3. pc'[h] = IF f.reply THEN AfterSuccess[step] ELSE AfterFailure(step)
    BY <1>1, <1>11, <2>2, CommitMoves DEF Moved, HandlerTypes
  <2> QED
    BY <1>1, <1>2, <1>6, <1>7, <1>8, <1>9, <1>11, <2>1, <2>2, <2>3
<1> QED
  BY <1>10, <1>11 DEF From

LEMMA QuietCommitClaims ==
  ASSUME IInv, IInv', Claims, NEW f \in flight, Commit(f), NEW h \in Handlers,
         NEW step \in Submits, NEW start \in Times, NEW r \in Requests, NEW id \in 0..MaxUint,
         From(f, h, step, start, r, id),
         \/ step \in {"ListActive", "ListInactive"}
         \/ step \in {"StartTransaction", "RejectTransaction"} /\ ~f.reply
  PROVE  Claims'
<1>1. /\ step # "AddNewTransaction" => Own(f, id) /\ \A g \in flight' : ~Own(g, id)
      /\ Shrinks(flight, flight')
      /\ \A k \in Handlers :
           /\ Single(flight', txid[k])
           /\ \A g \in flight' : Own(g, txid[k]) /\ g.by = Nobody => pc[k] = "dead"
      /\ \A k \in Handlers \ {h} :
           pc'[k] = pc[k] /\ txid'[k] = txid[k] /\ answer'[k] = answer[k]
      /\ step # "AddNewTransaction" => txid'[h] = txid[h]
      /\ \/ /\ f.by = Nobody /\ UNCHANGED <<pc, txid, answer>>
            /\ step # "AddNewTransaction" => pc[h] = "dead"
         \/ /\ f.by = h /\ pc[h] = step
            /\ pc'[h] = IF f.reply THEN AfterSuccess[step] ELSE AfterFailure(step)
            /\ step = "AddNewTransaction" => txid'[h] = Counter + 1
  BY CommitFacts
<1>2. Effect(f, step, r, id, start) /\ id = txid[h] /\ UNCHANGED request
  BY CommittedFrom DEF IInv
<1>3. StatusesKept /\ InfosKept
  BY <1>2 DEF Effect, EntryReplaced, NothingReplaced
<1>4. step \in {"ListActive", "ListInactive"} => f.reply
  BY DEF From, Commit, Apply, Says, ListSet
<1>5. ASSUME NEW k \in Handlers
      PROVE  /\ RequestStays(k) /\ Moves(k) /\ Single(flight', txid[k])
             /\ \A g \in flight' : Own(g, txid[k]) /\ g.by = Nobody => pc'[k] = "dead"
  <2>1. RequestStays(k)
    BY <1>1, <1>2 DEF RequestStays
  <2>2. Moves(k)
    BY <1>1, <1>4, NextSteps, Steps DEF Moves
  <2>3. \A g \in flight' : Own(g, txid[k]) /\ g.by = Nobody => pc'[k] = "dead"
    BY <1>1, <1>2
  <2> QED
    BY <1>1, <2>1, <2>2, <2>3
<1> QED
  BY <1>1, <1>3, <1>5, QuietClaims

LEMMA AddedClaims ==
  ASSUME IInv, IInv', Claims, NEW f \in flight, Commit(f), NEW h \in Handlers,
         NEW start \in Times, NEW r \in Requests, NEW id \in 0..MaxUint,
         From(f, h, "AddNewTransaction", start, r, id)
  PROVE  Claims'
<1> DEFINE step == "AddNewTransaction"
<1>0. step \in Submits
  BY Steps
<1>1. /\ \A g \in flight' : ~Own(g, Counter + 1)
      /\ Shrinks(flight, flight')
      /\ \A k \in Handlers :
           /\ Single(flight', txid[k])
           /\ \A g \in flight' : Own(g, txid[k]) /\ g.by = Nobody => pc[k] = "dead"
      /\ \A k \in Handlers \ {h} :
           pc'[k] = pc[k] /\ txid'[k] = txid[k] /\ answer'[k] = answer[k]
      /\ \/ /\ f.by = Nobody /\ UNCHANGED <<pc, txid, answer>>
         \/ /\ f.by = h /\ pc[h] = step
            /\ pc'[h] = IF f.reply THEN AfterSuccess[step] ELSE AfterFailure(step)
            /\ txid'[h] = Counter + 1
  BY <1>0, CommitFacts
<1>2. /\ Effect(f, step, r, id, start) /\ id = txid[h] /\ id = 0 /\ UNCHANGED request
      /\ WorldInv' /\ StateInv /\ WorldInv /\ id \in 0..Counter
  BY <1>0, CommittedFrom DEF IInv, StateInv
<1>3. TransactionAdded(f.id, r) /\ f.reply
  BY <1>2 DEF Effect, From, Commit, Apply, Says, Added
<1>4. /\ f.id = Counter + 1 /\ f.id \in TransactionIDs /\ Counter \in Nat /\ StatusesKept
      /\ \A j \in TransactionIDs \ {f.id} : infoOf(j)' = infoOf(j)
      /\ infoOf(f.id)'.status = Reviewing
  BY <1>2, <1>3, ChannelAssumption
     DEF TransactionAdded, WorldInv, LedgerOf!ReviewingInfo, Reviewing
<1>5. \A k \in Handlers \ {h} : txid[k] # 0 => (infoOf(txid[k]))' = infoOf(txid[k])
  <2> SUFFICES ASSUME NEW k \in Handlers \ {h}, txid[k] # 0
               PROVE  (infoOf(txid[k]))' = infoOf(txid[k])
    OBVIOUS
  <2>1. txid[k] \in TransactionIDs /\ txid[k] \in 1..Counter
    BY <1>2, OwnRecords
  <2>2. PICK i \in TransactionIDs : i = txid[k] /\ i # f.id
    BY <1>4, <2>1
  <2>3. infoOf(i)' = infoOf(i)
    BY <1>4, <2>2
  <2> QED
    BY <1>1, <2>2, <2>3 DEF infoOf
<1>6. \A g \in flight' : ~Own(g, txid'[h])
  BY <1>1, <1>2 DEF Own
<1>7. Progress(h)'
  BY DEF IInv, StateInv, HandlersInv
<1>8. ~Selling(h)' /\ (txid'[h] # 0 => StillReviewing(h)')
  <2>1. CASE txid'[h] = 0
    BY <2>1 DEF Selling
  <2>2. CASE txid'[h] = f.id
    <3>1. (infoOf(txid[h]).status)' = Reviewing
      BY <1>4, <2>2 DEF infoOf, Reviewing
    <3> QED
      BY <3>1 DEF Selling, InProgress, StillReviewing, Reviewing,
         LedgerOf!transactionStatusReviewing, LedgerOf!transactionStatusInProgress
  <2> QED
    BY <1>1, <1>2, <1>4, <2>1, <2>2
<1>9. txid'[h] = 0 \/ pc'[h] = "ListActive"
  BY <1>1, <1>2, <1>3, NextSteps
<1>10. Place(h)' /\ ~Holds(h)'
  BY <1>6, <1>7, <1>8, <1>9, Steps DEF Place, Holds, Progress, Gripped
<1>11. \A i \in TransactionIDs : InProgress(i)' => InProgress(i) \/ i = txid'[h]
  BY <1>0, <1>2, EffectInProgress DEF Starts
<1>12. \A b \in Assets :
         legalStatus(b)' = LedgerOf!legalStatusPending =>
           \/ Reviews(h, b)'
           \/ legalStatus(b) = LedgerOf!legalStatusPending /\ ~Reviews(h, b)
  BY <1>2, <1>4 DEF StatusesKept, Reviews
<1>13. \A b \in Assets : legalStatus(b)' = legalStatus(b)
  BY <1>4 DEF StatusesKept
<1> HIDE DEF step
<1>14. PICK a : a = request[h].asset
  OBVIOUS
<1> QED
  BY <1>1, <1>2, <1>4, <1>5, <1>6, <1>10, <1>11, <1>12, <1>13, <1>14, ActorClaims

\* What is common to the commits that settle a transaction or set a status.
LEMMA OwnCommit ==
  ASSUME IInv, IInv', Claims, NEW f \in flight, Commit(f), NEW h \in Handlers,
         NEW step \in OfTransaction, NEW start \in Times, NEW r \in Requests, NEW id \in 0..MaxUint,
         From(f, h, step, start, r, id)
  PROVE  /\ id = txid[h] /\ id # 0 /\ id \in TransactionIDs /\ txid'[h] = id
         /\ r = request[h] /\ UNCHANGED request /\ infoOf(id) \in Info
         /\ Own(f, id) /\ \A g \in flight' : ~Own(g, txid'[h])
         /\ Says(f, step, r, id, start) /\ ~f.stale /\ Effect(f, step, r, id, start)
         /\ \A k \in Handlers \ {h} : txid[k] # id
         /\ \/ f.by = Nobody /\ pc[h] = "dead" /\ pc'[h] = "dead"
            \/ /\ f.by = h /\ pc[h] = step
               /\ pc'[h] = IF f.reply THEN AfterSuccess[step] ELSE AfterFailure(step)
         /\ \A i \in TransactionIDs :
              InProgress(i)' => InProgress(i) \/ i = txid'[h]
<1>1. step \in Submits /\ step # "AddNewTransaction"
  BY DEF OfTransaction
<1>2. /\ Own(f, id) /\ \A g \in flight' : ~Own(g, id)
      /\ txid'[h] = txid[h]
      /\ \/ f.by = Nobody /\ UNCHANGED <<pc, txid, answer>> /\ pc[h] = "dead"
         \/ /\ f.by = h /\ pc[h] = step
            /\ pc'[h] = IF f.reply THEN AfterSuccess[step] ELSE AfterFailure(step)
  BY <1>1, CommitFacts
<1>3. /\ Effect(f, step, r, id, start) /\ id = txid[h] /\ r = request[h] /\ UNCHANGED request
      /\ WorldInv' /\ StateInv /\ WorldInv /\ id \in 0..Counter /\ id # 0
  BY <1>1, CommittedFrom DEF IInv, StateInv
<1>4. Says(f, step, r, id, start) /\ ~f.stale
  BY DEF From, Commit, Apply
<1>5. id \in TransactionIDs /\ infoOf(id) \in Info
  BY <1>3, OwnRecords
<1>6. \A k \in Handlers \ {h} : txid[k] # id
  BY <1>3 DEF StateInv, HandlersInv
<1>7. \A i \in TransactionIDs : InProgress(i)' => InProgress(i) \/ i = txid'[h]
  BY <1>1, <1>2, <1>3, EffectInProgress DEF Starts
<1> QED
  BY <1>2, <1>3, <1>4, <1>5, <1>6, <1>7

LEMMA StatusClaims ==
  ASSUME IInv, IInv', Claims, NEW f \in flight, Commit(f), NEW h \in Handlers,
         NEW step \in {"SetPending", "ApproveStatus", "RestoreStatus"},
         NEW start \in Times, NEW r \in Requests, NEW id \in 0..MaxUint,
         From(f, h, step, start, r, id)
  PROVE  Claims'
<1> USE DEF LedgerOf!legalStatusNormal, LedgerOf!legalStatusPending, LedgerOf!expectedLegalStatus,
            LedgerOf!legalStatusSelling, LedgerOf!legalStatusBidding
<1>1. step \in Submits /\ step \in OfTransaction /\ step # "AddNewTransaction"
  BY Steps DEF OfTransaction
<1>2. /\ Shrinks(flight, flight')
      /\ \A k \in Handlers :
           /\ Single(flight', txid[k])
           /\ \A g \in flight' : Own(g, txid[k]) /\ g.by = Nobody => pc[k] = "dead"
      /\ \A k \in Handlers \ {h} :
           pc'[k] = pc[k] /\ txid'[k] = txid[k] /\ answer'[k] = answer[k]
  BY <1>1, CommitFacts
<1>3. /\ id = txid[h] /\ id # 0 /\ id \in TransactionIDs /\ txid'[h] = id
      /\ r = request[h] /\ UNCHANGED request
      /\ Own(f, id) /\ \A g \in flight' : ~Own(g, txid'[h])
      /\ Says(f, step, r, id, start) /\ ~f.stale /\ Effect(f, step, r, id, start)
      /\ \/ f.by = Nobody /\ pc[h] = "dead" /\ pc'[h] = "dead"
         \/ /\ f.by = h /\ pc[h] = step
            /\ pc'[h] = IF f.reply THEN AfterSuccess[step] ELSE AfterFailure(step)
      /\ \A i \in TransactionIDs : InProgress(i)' => InProgress(i) \/ i = txid'[h]
  BY <1>1, OwnCommit
<1>4. PICK a \in Assets : a = r.asset
  BY RequestFields
<1>5. PICK s \in 0..6 :
        /\ s = IF step = "SetPending" THEN LedgerOf!legalStatusPending
               ELSE IF step = "ApproveStatus" THEN LedgerOf!expectedLegalStatus(r.mode)
               ELSE LedgerOf!legalStatusNormal
        /\ StatusReplaced(a, s) /\ f.reply
        /\ f.reads = {assetCertificateKey(a)} /\ f.writes = write(assetCertificateKey(a), s)
  <2>1. CASE step = "SetPending"
    BY <1>3, <1>4, <2>1 DEF Says, StatusSet, Effect
  <2>2. CASE step = "ApproveStatus"
    BY <1>3, <1>4, <2>2 DEF Says, StatusSet, Effect
  <2>3. CASE step = "RestoreStatus"
    BY <1>3, <1>4, <2>3 DEF Says, StatusSet, Effect
  <2> QED
    BY <2>1, <2>2, <2>3
<1>6. InfosKept /\ legalStatus(a)' = s /\ \A b \in Assets \ {a} : legalStatus(b)' = legalStatus(b)
  BY <1>5 DEF StatusReplaced
<1>7. /\ OneHolder /\ StateInv /\ \A k \in Handlers : Place(k) /\ Flights(k)
  BY DEF Claims, IInv
<1>8. ASSUME NEW k \in Handlers \ {h}, Holds(k), request[k].asset = a PROVE FALSE
  <2>1. CASE step = "SetPending"
    <3>1. legalStatus(a) = LedgerOf!legalStatusNormal
      BY <1>5, <2>1 DEF StatusReplaced, LedgerOf!legalStatusTransitionAllowed
    <3> QED
      BY <1>7, <1>8, <3>1, HeldIsNotNormal
  <2>2. CASE step # "SetPending"
    <3>1. Grips(f, a)
      <4>1. s # LedgerOf!legalStatusPending
        BY <1>5, <2>2
      <4>2. write(assetCertificateKey(a), s)
              # write(assetCertificateKey(a), LedgerOf!legalStatusPending)
        <5>1. /\ write(assetCertificateKey(a), s)[assetCertificateKey(a)] = s
              /\ write(assetCertificateKey(a), LedgerOf!legalStatusPending)[assetCertificateKey(a)]
                   = LedgerOf!legalStatusPending
          BY DEF write
        <5> QED
          BY <4>1, <5>1
      <4> QED
        BY <1>3, <1>5, <4>2 DEF Grips
    <3>2. Holds(h)
      BY <1>3, <1>4, <3>1 DEF Holds, Gripped
    <3> QED
      BY <1>3, <1>4, <1>7, <1>8, <3>2 DEF OneHolder
  <2> QED
    BY <2>1, <2>2
<1>9. StillReviewing(h)
  BY <1>3, <1>4, <1>5, <1>7 DEF Flights
<1>10. \A k \in Handlers : txid[k] # 0 /\ txid'[k] = txid[k] => (infoOf(txid[k]))' = infoOf(txid[k])
  <2> SUFFICES ASSUME NEW k \in Handlers, txid[k] # 0, txid'[k] = txid[k]
               PROVE  (infoOf(txid[k]))' = infoOf(txid[k])
    OBVIOUS
  <2>1. PICK i \in TransactionIDs : i = txid[k]
    BY <1>7, OwnRecords
  <2>2. infoOf(i)' = infoOf(i)
    BY <1>6 DEF InfosKept
  <2> QED
    BY <2>1, <2>2 DEF infoOf
<1>11. StillReviewing(h)' /\ ~Selling(h)'
  <2>1. (infoOf(txid[h]))' = infoOf(txid[h])
    BY <1>3, <1>10
  <2> QED
    BY <1>9, <2>1 DEF StillReviewing, Selling, InProgress, Reviewing,
       LedgerOf!transactionStatusReviewing, LedgerOf!transactionStatusInProgress
<1>12. (legalStatus(request[h].asset))' = s
  BY <1>3, <1>4, <1>6 DEF legalStatus
<1>13. Place(h)'
  <2>1. CASE pc'[h] = "dead"
    BY <1>11, <2>1 DEF Place
  <2>2. CASE f.by = h /\ pc'[h] = AfterSuccess[step]
    <3>1. pc'[h] = IF step = "SetPending" THEN "Review"
                   ELSE IF step = "ApproveStatus" THEN "StartTransaction"
                   ELSE "RejectTransaction"
      BY <2>2, NextSteps
    <3>2. pc'[h] = "StartTransaction" => OnMarket(request[h])'
      BY <1>3, <1>5, <1>12, <3>1 DEF OnMarket
    <3> QED
      BY <1>5, <1>11, <1>12, <3>1, <3>2 DEF Place
  <2> QED
    BY <1>3, <1>5, <2>1, <2>2
<1>14. ASSUME NEW b \in Assets, legalStatus(b)' = LedgerOf!legalStatusPending
       PROVE  \/ Reviews(h, b)'
              \/ legalStatus(b) = LedgerOf!legalStatusPending /\ ~Reviews(h, b)
  <2>1. CASE b # a
    BY <1>3, <1>4, <1>6, <1>14, <2>1 DEF Reviews
  <2>2. CASE b = a
    <3>1. step = "SetPending"
      BY <1>5, <1>6, <1>14, <2>2
    <3>2. pc'[h] \in {"Review", "dead"}
      BY <1>3, <1>5, <3>1, NextSteps
    <3>3. Unsettled(flight', txid'[h])
      BY <1>3 DEF Unsettled
    <3> QED
      BY <1>3, <1>4, <1>11, <2>2, <3>2, <3>3 DEF Reviews
  <2> QED
    BY <2>1, <2>2
<1>15. Holds(h)' => txid'[h] # 0 /\ request[h].asset = a
  BY <1>3, <1>4
<1>16. \A k \in Handlers \ {h} : txid[k] # 0 => (infoOf(txid[k]))' = infoOf(txid[k])
  BY <1>2, <1>10
<1>17. txid[h] # 0 => request[h].asset = a /\ txid'[h] = txid[h]
  BY <1>3, <1>4
<1> QED
  BY <1>2, <1>3, <1>6, <1>8, <1>13, <1>14, <1>15, <1>16, <1>17, ActorClaims

\* What a commit that settles a transaction leaves alone, whichever way it
\* settles it.
LEMMA SettledFacts ==
  ASSUME IInv, IInv', Claims, NEW f \in flight, Commit(f), NEW h \in Handlers,
         NEW step \in {"StartTransaction", "RejectTransaction"},
         NEW start \in Times, NEW r \in Requests, NEW id \in 0..MaxUint,
         From(f, h, step, start, r, id), f.reply, NEW x, InfoReplaced(id, x)
  PROVE  /\ (infoOf(txid[h]))' = x /\ StatusesKept
         /\ \A k \in Handlers \ {h} : txid[k] # 0 => (infoOf(txid[k]))' = infoOf(txid[k])
         /\ \A b \in Assets :
              legalStatus(b)' = LedgerOf!legalStatusPending =>
                legalStatus(b) = LedgerOf!legalStatusPending /\ ~Reviews(h, b)
<1>1. step \in OfTransaction
  BY Steps DEF OfTransaction
<1>2. /\ id = txid[h] /\ id # 0 /\ id \in TransactionIDs /\ txid'[h] = id /\ Own(f, id)
      /\ Says(f, step, r, id, start) /\ \A k \in Handlers \ {h} : txid[k] # id
  BY <1>1, OwnCommit
<1>3. infoOf(id)' = x /\ \A j \in TransactionIDs \ {id} : infoOf(j)' = infoOf(j)
  BY DEF InfoReplaced
<1>4. (infoOf(txid[h]))' = x
  BY <1>2, <1>3 DEF infoOf
<1>5. StatusesKept
  BY DEF InfoReplaced
<1>6. ASSUME NEW k \in Handlers \ {h}, txid[k] # 0
      PROVE  (infoOf(txid[k]))' = infoOf(txid[k])
  <2>1. PICK i \in TransactionIDs : i = txid[k] /\ i # id
    BY <1>2, <1>6, OwnRecords DEF IInv
  <2>2. infoOf(i)' = infoOf(i) /\ txid'[k] = txid[k]
    BY <1>1, <1>3, <2>1, CommitFacts DEF OfTransaction
  <2> QED
    BY <2>1, <2>2 DEF infoOf
<1>7. transactionInfoKey(id) \in f.reads
  <2>1. CASE step = "StartTransaction"
    BY <1>2, <2>1 DEF Says, TransactionStarted
  <2>2. CASE step = "RejectTransaction"
    BY <1>2, <2>2 DEF Says, TransactionRejected
  <2> QED
    BY <2>1, <2>2
<1>8. \A b \in Assets : ~Reviews(h, b)
  BY <1>2, <1>7 DEF Reviews, Unsettled
<1>9. \A b \in Assets :
        legalStatus(b)' = LedgerOf!legalStatusPending =>
          legalStatus(b) = LedgerOf!legalStatusPending /\ ~Reviews(h, b)
  BY <1>5, <1>8 DEF StatusesKept
<1> QED
  BY <1>4, <1>5, <1>6, <1>9

LEMMA StartedClaims ==
  ASSUME IInv, IInv', Claims, NEW f \in flight, Commit(f), NEW h \in Handlers,
         NEW start \in Times, NEW r \in Requests, NEW id \in 0..MaxUint,
         From(f, h, "StartTransaction", start, r, id), f.reply
  PROVE  Claims'
<1> DEFINE step == "StartTransaction"
           x == LedgerOf!StartedInfo(infoOf(id), r.price, r.mode, start, r.final)
<1>1. step \in Submits /\ step \in OfTransaction /\ step # "AddNewTransaction"
      /\ step \in {"StartTransaction", "RejectTransaction"}
  BY Steps DEF OfTransaction
<1>2. /\ Shrinks(flight, flight')
      /\ \A k \in Handlers :
           /\ Single(flight', txid[k])
           /\ \A g \in flight' : Own(g, txid[k]) /\ g.by = Nobody => pc[k] = "dead"
      /\ \A k \in Handlers \ {h} :
           pc'[k] = pc[k] /\ txid'[k] = txid[k] /\ answer'[k] = answer[k]
  BY <1>1, CommitFacts
<1>3. /\ id = txid[h] /\ id # 0 /\ id \in TransactionIDs /\ txid'[h] = id
      /\ r = request[h] /\ UNCHANGED request /\ infoOf(id) \in Info
      /\ Own(f, id) /\ \A g \in flight' : ~Own(g, txid'[h])
      /\ Says(f, step, r, id, start) /\ ~f.stale /\ Effect(f, step, r, id, start)
      /\ \/ f.by = Nobody /\ pc[h] = "dead" /\ pc'[h] = "dead"
         \/ /\ f.by = h /\ pc[h] = step
            /\ pc'[h] = IF f.reply THEN AfterSuccess[step] ELSE AfterFailure(step)
      /\ \A i \in TransactionIDs : InProgress(i)' => InProgress(i) \/ i = txid'[h]
  BY <1>1, OwnCommit
<1>4. PICK a \in Assets : a = r.asset
  BY RequestFields
<1>5. InfoReplaced(id, x) /\ OnMarket(r)
  BY <1>3 DEF Effect
<1>6. /\ (infoOf(txid[h]))' = x /\ StatusesKept
      /\ \A k \in Handlers \ {h} : txid[k] # 0 => (infoOf(txid[k]))' = infoOf(txid[k])
      /\ \A b \in Assets :
           legalStatus(b)' = LedgerOf!legalStatusPending =>
             legalStatus(b) = LedgerOf!legalStatusPending /\ ~Reviews(h, b)
  <2> HIDE DEF x, step
  <2> QED
    BY <1>1, <1>5, SettledFacts DEF step
<1>7. x = StartedOn(a, infoOf(id).seller, r, start)
  <2>1. infoOf(id).asset = a
    BY <1>3, <1>4, OwnRecords DEF IInv
  <2> QED
    BY <1>3, <2>1, StartedInfoIs
<1>8. Grips(f, a)
  <2>1. assetCertificateKey(a) \in f.reads /\ f.writes = write(transactionInfoKey(id), x)
    BY <1>3, <1>4 DEF Says, TransactionStarted
  <2>2. DOMAIN f.writes = {transactionInfoKey(id)}
    BY <2>1 DEF write
  <2>3. f.writes # write(assetCertificateKey(a), LedgerOf!legalStatusPending)
    BY <2>2, KeysDiffer DEF write
  <2> QED
    BY <1>3, <2>1, <2>3 DEF Grips
<1>9. \A k \in Handlers \ {h} : Holds(k) => request[k].asset # a
  <2>1. Holds(h) /\ request[h].asset = a
    BY <1>3, <1>4, <1>8 DEF Holds, Gripped
  <2> QED
    BY <2>1 DEF Claims, OneHolder
<1>10. Place(h)'
  <2>1. (infoOf(txid[h]).asset)' = a /\ (infoOf(txid[h]).mode)' = r.mode
    BY <1>6, <1>7 DEF StartedOn
  <2>2. legalStatus(a)' = LedgerOf!expectedLegalStatus(r.mode)
    BY <1>4, <1>5, <1>6 DEF StatusesKept, OnMarket
  <2>3. pc'[h] \in {"LoadAndCache", "dead"}
    BY <1>3, NextSteps
  <2>4. (legalStatus(infoOf(txid[h]).asset))'
          = (LedgerOf!expectedLegalStatus(infoOf(txid[h]).mode))'
    BY <2>1, <2>2 DEF legalStatus, LedgerOf!expectedLegalStatus
  <2> QED
    BY <2>3, <2>4 DEF Place
<1>11. Holds(h)' => txid'[h] # 0 /\ request[h].asset = a
  BY <1>3, <1>4
<1>12. \A b \in Assets \ {a} : legalStatus(b)' = legalStatus(b)
  BY <1>6 DEF StatusesKept
<1>13. txid[h] # 0 => request[h].asset = a /\ txid'[h] = txid[h]
  BY <1>3, <1>4
<1> HIDE DEF x, step
<1> QED
  BY <1>2, <1>3, <1>6, <1>9, <1>10, <1>11, <1>12, <1>13, ActorClaims

LEMMA RejectedClaims ==
  ASSUME IInv, IInv', Claims, NEW f \in flight, Commit(f), NEW h \in Handlers,
         NEW start \in Times, NEW r \in Requests, NEW id \in 0..MaxUint,
         From(f, h, "RejectTransaction", start, r, id), f.reply
  PROVE  Claims'
<1> DEFINE step == "RejectTransaction"
           x == [infoOf(id) EXCEPT !.status = Rejected]
<1>1. step \in Submits /\ step \in OfTransaction /\ step # "AddNewTransaction"
      /\ step \in {"StartTransaction", "RejectTransaction"}
  BY Steps DEF OfTransaction
<1>2. /\ Shrinks(flight, flight')
      /\ \A k \in Handlers :
           /\ Single(flight', txid[k])
           /\ \A g \in flight' : Own(g, txid[k]) /\ g.by = Nobody => pc[k] = "dead"
      /\ \A k \in Handlers \ {h} :
           pc'[k] = pc[k] /\ txid'[k] = txid[k] /\ answer'[k] = answer[k]
  BY <1>1, CommitFacts
<1>3. /\ id = txid[h] /\ id # 0 /\ id \in TransactionIDs /\ txid'[h] = id
      /\ r = request[h] /\ UNCHANGED request /\ infoOf(id) \in Info
      /\ \A g \in flight' : ~Own(g, txid'[h])
      /\ Effect(f, step, r, id, start)
      /\ \/ f.by = Nobody /\ pc[h] = "dead" /\ pc'[h] = "dead"
         \/ /\ f.by = h /\ pc[h] = step
            /\ pc'[h] = IF f.reply THEN AfterSuccess[step] ELSE AfterFailure(step)
      /\ \A i \in TransactionIDs : InProgress(i)' => InProgress(i) \/ i = txid'[h]
  BY <1>1, OwnCommit
<1>4. InfoReplaced(id, x)
  BY <1>3 DEF Effect
<1>5. /\ (infoOf(txid[h]))' = x /\ StatusesKept
      /\ \A k \in Handlers \ {h} : txid[k] # 0 => (infoOf(txid[k]))' = infoOf(txid[k])
      /\ \A b \in Assets :
           legalStatus(b)' = LedgerOf!legalStatusPending =>
             legalStatus(b) = LedgerOf!legalStatusPending /\ ~Reviews(h, b)
  <2> HIDE DEF x, step
  <2> QED
    BY <1>1, <1>4, SettledFacts DEF step
<1>6. ~Selling(h)'
  <2>1. x.status = Rejected
    BY <1>3 DEF Info, LedgerOf!TransactionInfo
  <2> QED
    BY <1>5, <2>1 DEF Selling, InProgress, Rejected, LedgerOf!transactionStatusRejected,
       LedgerOf!transactionStatusInProgress
<1>7. pc'[h] \in {"ListInactive", "dead"}
  BY <1>3, NextSteps
<1>8. ~Holds(h)' /\ Place(h)'
  BY <1>3, <1>6, <1>7 DEF Holds, Gripped, Place
<1>9. PICK a \in Assets : a = r.asset
  BY RequestFields
<1>10. \A b \in Assets \ {a} : legalStatus(b)' = legalStatus(b)
  BY <1>5 DEF StatusesKept
<1>11. txid[h] # 0 => request[h].asset = a /\ txid'[h] = txid[h]
  BY <1>3, <1>9
<1> HIDE DEF x, step
<1> QED
  BY <1>2, <1>3, <1>5, <1>8, <1>10, <1>11, ActorClaims

LEMMA CommitClaims == ASSUME IInv, IInv', Claims, NEW f \in flight, Commit(f) PROVE Claims'
<1>1. PICK h \in Handlers, step \in Submits, start \in Times, r \in Requests, id \in 0..MaxUint :
        From(f, h, step, start, r, id)
  BY DEF IInv, FlightInv, FromHandler, IsFrom
<1>2. CASE \/ step \in {"ListActive", "ListInactive"}
           \/ step \in {"StartTransaction", "RejectTransaction"} /\ ~f.reply
  BY <1>1, <1>2, QuietCommitClaims
<1>3. CASE step = "AddNewTransaction"
  BY <1>1, <1>3, AddedClaims
<1>4. CASE step \in {"SetPending", "ApproveStatus", "RestoreStatus"}
  BY <1>1, <1>4, StatusClaims
<1>5. CASE step = "StartTransaction" /\ f.reply
  BY <1>1, <1>5, StartedClaims
<1>6. CASE step = "RejectTransaction" /\ f.reply
  BY <1>1, <1>6, RejectedClaims
<1> QED
  BY <1>2, <1>3, <1>4, <1>5, <1>6, Steps

-----------------------------------------------------------------------------
(* The other steps, and the theorems.                                      *)

LEMMA InvalidateClaims == ASSUME IInv, IInv', Claims, NEW f \in flight, Invalidate(f) PROVE Claims'
<1>1. flight' \subseteq flight /\ UNCHANGED <<world, request>>
  BY DEF Invalidate
<1>2. CASE f.by = Nobody
  <2>1. UNCHANGED <<pc, txid, answer>>
    BY <1>2 DEF Invalidate
  <2> QED
    BY <1>1, <2>1, KeptClaims DEF Moves
<1>3. CASE f.by # Nobody
  <2>1. PICK h \in Handlers : f.by = h /\ pc[h] \in Submits
    BY <1>3 DEF IInv, FlightInv, FromHandler, IsFrom, From
  <2>2. Fails(h, "error") /\ pc[h] \in Active \ {"LoadAndCache"}
    BY <1>3, <2>1, Steps DEF Invalidate
  <2> QED
    BY <1>1, <2>1, <2>2, FailsClaims
<1> QED
  BY <1>2, <1>3

LEMMA DiscardClaims == ASSUME IInv, IInv', Claims, NEW f \in flight, Discard(f) PROVE Claims'
<1>1. flight' \subseteq flight /\ UNCHANGED <<world, pc, request, txid, answer>>
  BY DEF Discard
<1> QED
  BY <1>1, KeptClaims DEF Moves

LEMMA StaysClaims == ASSUME IInv, IInv', Claims, UNCHANGED vars PROVE Claims'
<1>1. UNCHANGED <<world, flight, pc, request, txid, answer>>
  BY DEF vars
<1> QED
  BY <1>1, KeptClaims DEF Moves

LEMMA FailingClaims ==
  ASSUME IInv, IInv', Claims, NEW h \in Handlers, Refuse(h) \/ CallFails(h)
  PROVE  Claims'
<1>1. /\ pc[h] \in Active \ {"LoadAndCache"} /\ Fails(h, "error")
      /\ UNCHANGED <<world, request>> /\ flight' \subseteq flight
  BY Steps DEF Refuse, CallFails
<1> QED
  BY <1>1, FailsClaims

LEMMA InitClaimInv == Init => ClaimInv
<1> SUFFICES ASSUME Init PROVE ClaimInv
  OBVIOUS
<1>1. /\ \A h \in Handlers : pc[h] = "idle" /\ txid[h] = 0
      /\ flight = {} /\ Budgets
  BY DEF Init, Budgets
<1>2. \A a \in Assets : legalStatus(a) = LedgerOf!legalStatusNormal
  <2> TAKE a \in Assets
  <2>1. assetCertificateKey(a) \in WorldKeys /\ assetCertificateKey(a)[1] = "ASSET_CERT"
    BY KeysExist DEF assetCertificateKey
  <2> QED
    BY <2>1 DEF Init, legalStatus
<1>3. \A id \in TransactionIDs : ~InProgress(id)
  <2> TAKE id \in TransactionIDs
  <2>1. transactionInfoKey(id) \in WorldKeys /\ transactionInfoKey(id)[1] = "TRANSACTION_INFO"
    BY KeysExist DEF transactionInfoKey
  <2> QED
    BY <2>1 DEF Init, InProgress, infoOf
<1>4. \A h \in Handlers : Place(h) /\ Flights(h) /\ ~Holds(h)
  BY <1>1 DEF Place, Flights, Single, Holds, Selling, Gripped
<1>5. PendingHasLaunch
  BY <1>2 DEF PendingHasLaunch, LedgerOf!legalStatusNormal, LedgerOf!legalStatusPending
<1> QED
  BY <1>1, <1>3, <1>4, <1>5 DEF ClaimInv, Claims, OneHolder, SalesHaveLaunch

\* No budget is ever given back.
LEMMA LostAnswersCount ==
  ASSUME Budgets, [Next]_vars
  PROVE  /\ Budgets'
         /\ spent'.lostAnswers = 0 =>
              spent.lostAnswers = 0 /\ ~(\E f \in flight : LoseAnswer(f))
<1>1. CASE UNCHANGED spent
  BY <1>1 DEF Budgets, LoseAnswer
<1>2. CASE \/ spent' = [spent EXCEPT !.failures = @ + 1]
           \/ spent' = [spent EXCEPT !.crashes = @ + 1]
           \/ spent' = [spent EXCEPT !.scoreMoves = @ + 1]
  BY <1>2 DEF Budgets, LoseAnswer
<1>3. CASE spent' = [spent EXCEPT !.lostAnswers = @ + 1]
  BY <1>3 DEF Budgets
<1> QED
  BY <1>1, <1>2, <1>3
     DEF Next, vars, Receive, Handler, Endorse, Refuse, CheckStatus, Review, LoadAndCache,
         Channel, Commit, Invalidate, Environment, CallFails, LoseAnswer, Discard, Crash, MoveScore

LEMMA NextClaimInv == IInv /\ IInv' /\ ClaimInv /\ [Next]_vars => ClaimInv'
<1> SUFFICES ASSUME IInv, IInv', ClaimInv, [Next]_vars, spent'.lostAnswers = 0
             PROVE  Claims'
  BY LostAnswersCount DEF ClaimInv
<1>1. Claims /\ ~(\E f \in flight : LoseAnswer(f))
  BY LostAnswersCount DEF ClaimInv
<1>2. ASSUME NEW h \in Handlers, Receive(h) PROVE Claims'
  BY <1>1, <1>2, ReceiveClaims
<1>3. ASSUME NEW h \in Handlers, Handler(h) PROVE Claims'
  BY <1>1, <1>3, EndorseClaims, FailingClaims, EvaluatesClaims DEF Handler
<1>4. ASSUME Channel PROVE Claims'
  BY <1>1, <1>4, CommitClaims, InvalidateClaims DEF Channel
<1>5. ASSUME Environment PROVE Claims'
  BY <1>1, <1>5, FailingClaims, DiscardClaims, CrashClaims, MoveScoreClaims DEF Environment
<1>6. CASE UNCHANGED vars
  BY <1>1, <1>6, StaysClaims
<1> QED
  BY <1>2, <1>3, <1>4, <1>5, <1>6 DEF Next

\* As long as no answer is lost, an asset is in the hands of one launch, which
\* knows its legal status.
THEOREM ClaimInvariance == Spec => []ClaimInv
BY Invariance, InitClaimInv, NextClaimInv, PTL DEF Spec

\* As long as no answer is lost, no asset is for sale in two transactions,
\* however stale the CheckStatus of its launches were.
THEOREM OneSale == Spec => [](spent.lostAnswers = 0 => OneSalePerAsset)
<1>1. IInv /\ ClaimInv => (spent.lostAnswers = 0 => OneSalePerAsset)
  <2> SUFFICES ASSUME IInv, Claims, NEW i \in TransactionIDs, NEW j \in TransactionIDs,
                      InProgress(i), InProgress(j), infoOf(i).asset = infoOf(j).asset
               PROVE  i = j
    BY DEF ClaimInv, OneSalePerAsset
  <2>1. PICK h \in Handlers, g \in Handlers : txid[h] = i /\ txid[g] = j
    BY DEF Claims, SalesHaveLaunch
  <2>2. i # 0 /\ j # 0
    BY DEF TransactionIDs
  <2>3. Holds(h) /\ Holds(g)
    BY <2>1, <2>2 DEF Holds, Selling
  <2>4. request[h].asset = request[g].asset
    BY <2>1, <2>2, OwnRecords DEF IInv
  <2> QED
    BY <2>1, <2>3, <2>4 DEF Claims, OneHolder
<1> QED
  BY <1>1, Invariance, ClaimInvariance, PTL

\* As long as no answer is lost, an asset in a transaction in progress has the
\* legal status of that transaction's mode: no other launch has put it back.
THEOREM SalesAreOnMarket == Spec => [](spent.lostAnswers = 0 => SaleOnMarket)
<1>1. ClaimInv => (spent.lostAnswers = 0 => SaleOnMarket)
  <2> SUFFICES ASSUME Claims, NEW id \in TransactionIDs, InProgress(id)
               PROVE  legalStatus(infoOf(id).asset)
                        = LedgerOf!expectedLegalStatus(infoOf(id).mode)
    BY DEF ClaimInv, SaleOnMarket
  <2>1. PICK h \in Handlers : txid[h] = id
    BY DEF Claims, SalesHaveLaunch
  <2>2. Selling(h) /\ Place(h)
    BY <2>1 DEF Claims, Selling, TransactionIDs
  <2> QED
    BY <2>1, <2>2 DEF Place
<1> QED
  BY <1>1, ClaimInvariance, PTL

\* As long as no answer is lost, an asset that is Pending is under review in
\* some transaction, or was when its server died.
THEOREM PendingIsReviewed == Spec => [](spent.lostAnswers = 0 => PendingHasReview)
<1>1. IInv /\ ClaimInv => (spent.lostAnswers = 0 => PendingHasReview)
  <2> SUFFICES ASSUME IInv, Claims, NEW a \in Assets,
                      legalStatus(a) = LedgerOf!legalStatusPending
               PROVE  \E id \in TransactionIDs :
                        /\ infoOf(id) # NoInfo /\ infoOf(id).asset = a
                        /\ infoOf(id).status = LedgerOf!transactionStatusReviewing
    BY DEF ClaimInv, PendingHasReview
  <2>1. PICK h \in Handlers : Reviews(h, a)
    BY DEF Claims, PendingHasLaunch
  <2>2. txid[h] \in TransactionIDs /\ infoOf(txid[h]) \in Info /\ infoOf(txid[h]).asset = a
    BY <2>1, OwnRecords DEF Reviews, IInv
  <2> QED
    BY <2>1, <2>2, RecordsArePresent DEF Reviews, StillReviewing, Reviewing
<1> QED
  BY <1>1, Invariance, ClaimInvariance, PTL

\* As long as no answer is lost, a client who was told that her launch failed
\* has nothing for sale.
THEOREM FailedAreNotStarted == Spec => [](spent.lostAnswers = 0 => FailedMeansNotStarted)
<1>1. ClaimInv => (spent.lostAnswers = 0 => FailedMeansNotStarted)
  <2> SUFFICES ASSUME Claims, NEW h \in Handlers, Answered(h, "error"), txid[h] # 0
               PROVE  ~InProgress(txid[h])
    BY DEF ClaimInv, FailedMeansNotStarted
  <2> QED
    BY DEF Claims, Place, Selling, Answered
<1> QED
  BY <1>1, ClaimInvariance, PTL

=============================================================================
