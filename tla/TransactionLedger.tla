------------------------- MODULE TransactionLedger -------------------------
(***************************************************************************)
(* The transaction chaincode as a serial state machine: every invocation   *)
(* that writes the world state is one step.  An invocation that returns an *)
(* error, or false, writes nothing and is a stuttering step.               *)
(*                                                                         *)
(* This is the abstract specification of the channel: LaunchService shows  *)
(* that concurrent, optimistically validated invocations only ever take    *)
(* these steps.                                                            *)
(*                                                                         *)
(* A user stands for her user DID and for the buyer and seller DIDs that   *)
(* deriveTradingDID computes from it; the reverse indexes exist exactly    *)
(* when her identity does.  An asset stands for its ID, its certificate    *)
(* address and its property index.  Record timestamps, asset data and the  *)
(* buyer score are left out: no function of the contract reads them.       *)
(*                                                                         *)
(* A definition X_Bug is a mutated form of X: no specification uses it; it *)
(* shows that a property would notice that bug.                            *)
(***************************************************************************)
EXTENDS Integers, SellerEligibility

CONSTANTS
  Users,          \* user DIDs
  Assets,         \* asset IDs the channel may ever derive
  Keys,           \* public keys
  MaxUint,        \* the largest value of Go's uint, the last transaction ID
  Times,          \* the instants a transaction may start or finalize at
  PriceInputs,    \* prices a caller may pass
  ModeInputs,     \* transaction modes a caller may pass
  LegalInputs,    \* target legal statuses a caller may pass
  StatusInputs,   \* transaction statuses a caller may pass
  RoleInputs,     \* transaction roles a caller may pass
  ScoreInputs,    \* seller credit scores an external update may store
  NoIdentity, NoKey, NoCert, NoOwner, NoInfo, NoEntry  \* absent values

ASSUME MaxUintAssumption == MaxUint \in Nat

\* Zero is the zero TimeInfo of a transaction that has not started.
ASSUME TimesAssumption == Times \subseteq Nat \ {0}

ASSUME InputsAssumption ==
  /\ PriceInputs \subseteq Nat /\ ModeInputs \subseteq Nat
  /\ LegalInputs \subseteq Int /\ StatusInputs \subseteq Nat
  /\ RoleInputs \subseteq Nat /\ ScoreInputs \subseteq Nat

ASSUME AbsentAssumption ==
  /\ NoIdentity \notin [key : Keys \cup {NoKey}, sellerScore : Nat]
  /\ NoCert \notin 0..6
  /\ NoOwner \notin Users
  /\ NoInfo \notin [asset : Assets, seller : Users, status : 0..10, mode : 0..2,
                    startTime : Nat, fixedPrice : Nat, basicPrice : Nat,
                    finalizingTime : Nat]
  /\ NoEntry \notin [asset : Assets, role : 0..2, active : BOOLEAN]

-----------------------------------------------------------------------------
(* The enumerations of models.go.                                          *)

legalStatusNormal == 0
legalStatusPending == 1
legalStatusSelling == 2
legalStatusBidding == 3
LegalStatuses == 0..6

transactionStatusReviewing == 0
transactionStatusInProgress == 1
transactionStatusRejected == 10
TransactionStatuses == 0..10

transactionModeFixedPrice == 0
transactionModeSealedBid == 2
TransactionModes == 0..transactionModeSealedBid

transactionRoleSeller == 2
TransactionRoles == 0..transactionRoleSeller

defaultSellerCreditScore == 60

-----------------------------------------------------------------------------
(* The records of the world state.                                         *)

TransactionIDs == 1..MaxUint

TradingIdentity == [key : Keys \cup {NoKey}, sellerScore : Nat]

TransactionInfo ==
  [asset : Assets, seller : Users, status : TransactionStatuses,
   mode : TransactionModes, startTime : Nat, fixedPrice : Nat,
   basicPrice : Nat, finalizingTime : Nat]

TradeEntry == [asset : Assets, role : TransactionRoles, active : BOOLEAN]

VARIABLES
  identity,    \* TRADING_IDENTITY and its two indexes, per user
  cert,        \* the legal status in ASSET_CERT, per asset
  owner,       \* PROPERTY_INDEX, per asset
  assetList,   \* USER_ASSET_LIST: the assets listed under a user
  counter,     \* TRANSACTION_COUNTER
  info,        \* TRANSACTION_INFO, per transaction ID
  tradeList    \* USER_TRANSACTION_LIST: per user, the entry of each ID

vars == <<identity, cert, owner, assetList, counter, info, tradeList>>

Init ==
  /\ identity = [u \in Users |-> NoIdentity]
  /\ cert = [a \in Assets |-> NoCert]
  /\ owner = [a \in Assets |-> NoOwner]
  /\ assetList = [u \in Users |-> {}]
  /\ counter = 0
  /\ info = [id \in TransactionIDs |-> NoInfo]
  /\ tradeList = [u \in Users |-> [id \in TransactionIDs |-> NoEntry]]

-----------------------------------------------------------------------------
(* Identities.                                                             *)

RegisterTradingIdentity(u) ==
  /\ identity[u] = NoIdentity
  /\ identity' = [identity EXCEPT
       ![u] = [key |-> NoKey, sellerScore |-> defaultSellerCreditScore]]
  /\ UNCHANGED <<cert, owner, assetList, counter, info, tradeList>>

SetPublicKey(u, key) ==
  /\ identity[u] # NoIdentity
  /\ identity' = [identity EXCEPT ![u].key = key]
  /\ UNCHANGED <<cert, owner, assetList, counter, info, tradeList>>

\* No function of the contract moves a score.  The launch code is written
\* for scores that move between its review and StartTransaction, so another
\* chaincode is allowed to.
MoveSellerScore(u, score) ==
  /\ identity[u] # NoIdentity
  /\ identity' = [identity EXCEPT ![u].sellerScore = score]
  /\ UNCHANGED <<cert, owner, assetList, counter, info, tradeList>>

-----------------------------------------------------------------------------
(* Assets.                                                                 *)

\* Mutated form: a registered asset is not refused.
RegisterAsset_NoExistenceCheck(u, a) ==
  /\ identity[u] # NoIdentity
  /\ cert' = [cert EXCEPT ![a] = legalStatusNormal]
  /\ owner' = [owner EXCEPT ![a] = u]
  /\ assetList' = [assetList EXCEPT ![u] = @ \cup {a}]
  /\ UNCHANGED <<identity, counter, info, tradeList>>

\* The asset ID comes from the ID of the invocation: it is a fresh one, or
\* the invocation is refused.
RegisterAsset(u, a) ==
  /\ identity[u] # NoIdentity
  /\ cert[a] = NoCert
  /\ cert' = [cert EXCEPT ![a] = legalStatusNormal]
  /\ owner' = [owner EXCEPT ![a] = u]
  /\ assetList' = [assetList EXCEPT ![u] = @ \cup {a}]
  /\ UNCHANGED <<identity, counter, info, tradeList>>

legalStatusTransitionAllowed(originalStatus, targetStatus) ==
  /\ originalStatus # targetStatus
  /\ targetStatus = legalStatusPending => originalStatus = legalStatusNormal
  /\ targetStatus \in {legalStatusSelling, legalStatusBidding}
       => originalStatus = legalStatusPending

\* Mutated form: no range check of the target.
UpdateStatusAllowed_NoRangeCheck(a, targetStatus) ==
  /\ cert[a] # NoCert
  /\ legalStatusTransitionAllowed(cert[a], targetStatus)

UpdateStatusAllowed(a, targetStatus) ==
  /\ targetStatus \in LegalStatuses
  /\ cert[a] # NoCert
  /\ legalStatusTransitionAllowed(cert[a], targetStatus)

UpdateStatus(a, targetStatus) ==
  /\ UpdateStatusAllowed(a, targetStatus)
  /\ cert' = [cert EXCEPT ![a] = targetStatus]
  /\ UNCHANGED <<identity, owner, assetList, counter, info, tradeList>>

-----------------------------------------------------------------------------
(* Transactions.                                                           *)

nextTransactionID == counter + 1

\* The next ID still fits in a uint.
AddNewTransactionAllowed(a) ==
  /\ cert[a] # NoCert
  /\ nextTransactionID <= MaxUint

ReviewingInfo(a, seller) ==
  [asset |-> a, seller |-> seller, status |-> transactionStatusReviewing,
   mode |-> 0, startTime |-> 0, fixedPrice |-> 0, basicPrice |-> 0,
   finalizingTime |-> 0]

\* Mutated form: the transaction takes the current number, the counter the
\* next one.
AddNewTransaction_CurrentID(a, seller) ==
  /\ AddNewTransactionAllowed(a)
  /\ counter' = counter + 1
  /\ info' = [id \in TransactionIDs |->
                IF id = counter THEN ReviewingInfo(a, seller) ELSE info[id]]
  /\ UNCHANGED <<identity, cert, owner, assetList, tradeList>>

\* The seller DID is not looked up: a transaction of an unregistered seller
\* is added too.
AddNewTransaction(a, seller) ==
  /\ AddNewTransactionAllowed(a)
  /\ counter' = nextTransactionID
  /\ info' = [info EXCEPT ![nextTransactionID] = ReviewingInfo(a, seller)]
  /\ UNCHANGED <<identity, cert, owner, assetList, tradeList>>

\* Mutated form: StartTransaction is not the only way into In Progress.
ChangeTransactionStatusAllowed_AnyTarget(id, originalStatus, newStatus) ==
  /\ originalStatus \in TransactionStatuses
  /\ newStatus \in TransactionStatuses
  /\ info[id] # NoInfo
  /\ info[id].status = originalStatus

ChangeTransactionStatusAllowed(id, originalStatus, newStatus) ==
  /\ originalStatus \in TransactionStatuses
  /\ newStatus \in TransactionStatuses
       \ {transactionStatusReviewing, transactionStatusInProgress}
  /\ info[id] # NoInfo
  /\ info[id].status = originalStatus

ChangeTransactionStatus(id, originalStatus, newStatus) ==
  /\ ChangeTransactionStatusAllowed(id, originalStatus, newStatus)
  /\ info' = [info EXCEPT ![id].status = newStatus]
  /\ UNCHANGED <<identity, cert, owner, assetList, counter, tradeList>>

\* What StartTransaction requires before it asks whether the seller is
\* eligible: failing it is an error, not a refusal.
StartTransactionReady(id, basicPrice, transactionMode) ==
  /\ basicPrice > 0
  /\ transactionMode \in TransactionModes
  /\ info[id] # NoInfo
  /\ info[id].status = transactionStatusReviewing
  /\ identity[info[id].seller] # NoIdentity

SellerEligible(seller, price) ==
  /\ identity[seller] # NoIdentity
  /\ CheckSellerEligibility(identity[seller].sellerScore, price)

\* The legal status of an asset that is on the market in a mode.
expectedLegalStatus(transactionMode) ==
  IF transactionMode = transactionModeFixedPrice
  THEN legalStatusSelling ELSE legalStatusBidding

\* A fixed-price sale ignores the finalizing time it is given.
FinalizingTimeAccepted(transactionMode, startTime, finalizingTime) ==
  \/ transactionMode = transactionModeFixedPrice
  \/ finalizingTime \in Times /\ finalizingTime > startTime

\* Mutated form: the asset may be in any legal status.
StartTransactionAllowed_AnyMarket(id, basicPrice, transactionMode, startTime, finalizingTime) ==
  /\ StartTransactionReady(id, basicPrice, transactionMode)
  /\ SellerEligible(info[id].seller, basicPrice)
  /\ FinalizingTimeAccepted(transactionMode, startTime, finalizingTime)

StartTransactionAllowed(id, basicPrice, transactionMode, startTime, finalizingTime) ==
  /\ StartTransactionReady(id, basicPrice, transactionMode)
  /\ SellerEligible(info[id].seller, basicPrice)
  /\ cert[info[id].asset] = expectedLegalStatus(transactionMode)
  /\ FinalizingTimeAccepted(transactionMode, startTime, finalizingTime)

\* Mutated form: the price lands in both price fields.
StartedInfo_BothPrices(reviewed, basicPrice, transactionMode, startTime, finalizingTime) ==
  [reviewed EXCEPT
     !.status = transactionStatusInProgress,
     !.mode = transactionMode,
     !.startTime = startTime,
     !.fixedPrice = basicPrice,
     !.basicPrice = basicPrice,
     !.finalizingTime = finalizingTime]

StartedInfo(reviewed, basicPrice, transactionMode, startTime, finalizingTime) ==
  LET fixed == transactionMode = transactionModeFixedPrice
  IN  [reviewed EXCEPT
         !.status = transactionStatusInProgress,
         !.mode = transactionMode,
         !.startTime = startTime,
         !.fixedPrice = IF fixed THEN basicPrice ELSE 0,
         !.basicPrice = IF fixed THEN 0 ELSE basicPrice,
         !.finalizingTime = IF fixed THEN 0 ELSE finalizingTime]

StartTransaction(id, basicPrice, transactionMode, startTime, finalizingTime) ==
  /\ StartTransactionAllowed(id, basicPrice, transactionMode, startTime, finalizingTime)
  /\ info' = [info EXCEPT
       ![id] = StartedInfo(@, basicPrice, transactionMode, startTime, finalizingTime)]
  /\ UNCHANGED <<identity, cert, owner, assetList, counter, tradeList>>

-----------------------------------------------------------------------------
(* The transaction lists.                                                  *)

\* Mutated form: an update of a listed transaction stores the whole entry.
UpdatedList_Overwrite(list, id, a, role, active) ==
  [list EXCEPT ![id] = [asset |-> a, role |-> role, active |-> active]]

\* A listed transaction only has its active flag replaced.
UpdatedList(list, id, a, role, active) ==
  [list EXCEPT ![id] =
     IF @ # NoEntry THEN [@ EXCEPT !.active = active]
                    ELSE [asset |-> a, role |-> role, active |-> active]]

\* Neither the user nor the transaction is looked up; the role is checked
\* for a new entry only.
UpdateTransactionListAllowed(u, id, role) ==
  tradeList[u][id] = NoEntry => role \in TransactionRoles

UpdateTransactionList(u, id, a, role, active) ==
  /\ UpdateTransactionListAllowed(u, id, role)
  /\ tradeList' = [tradeList EXCEPT ![u] = UpdatedList(@, id, a, role, active)]
  /\ UNCHANGED <<identity, cert, owner, assetList, counter, info>>

-----------------------------------------------------------------------------

Next ==
  \/ \E u \in Users : RegisterTradingIdentity(u)
  \/ \E u \in Users, key \in Keys : SetPublicKey(u, key)
  \/ \E u \in Users, score \in ScoreInputs : MoveSellerScore(u, score)
  \/ \E u \in Users, a \in Assets : RegisterAsset(u, a)
  \/ \E a \in Assets, s \in LegalInputs : UpdateStatus(a, s)
  \/ \E a \in Assets, seller \in Users : AddNewTransaction(a, seller)
  \/ \E id \in TransactionIDs, o, n \in StatusInputs : ChangeTransactionStatus(id, o, n)
  \/ \E id \in TransactionIDs, price \in PriceInputs, mode \in ModeInputs,
        start \in Times, final \in Times \cup {0} :
       StartTransaction(id, price, mode, start, final)
  \/ \E u \in Users, id \in TransactionIDs, a \in Assets, role \in RoleInputs,
        active \in BOOLEAN :
       UpdateTransactionList(u, id, a, role, active)

Spec == Init /\ [][Next]_vars

-----------------------------------------------------------------------------
(* Properties.                                                             *)

\* Every key of the world state holds a record of its type, whatever numbers
\* the callers pass: the range checks of the contract are what keeps it so.
TypeOK ==
  /\ identity \in [Users -> TradingIdentity \cup {NoIdentity}]
  /\ cert \in [Assets -> LegalStatuses \cup {NoCert}]
  /\ owner \in [Assets -> Users \cup {NoOwner}]
  /\ assetList \in [Users -> SUBSET Assets]
  /\ counter \in 0..MaxUint
  /\ info \in [TransactionIDs -> TransactionInfo \cup {NoInfo}]
  /\ tradeList \in [Users -> [TransactionIDs -> TradeEntry \cup {NoEntry}]]

\* The certificate, the property index and the users' lists written by
\* RegisterAsset tell the same story: an asset has a certificate exactly when
\* it has an owner, its owner is registered, and it is listed under its owner
\* and nobody else.
RegistryConsistent ==
  \A a \in Assets :
    /\ cert[a] # NoCert <=> owner[a] # NoOwner
    /\ owner[a] # NoOwner => identity[owner[a]] # NoIdentity
    /\ \A u \in Users : a \in assetList[u] <=> owner[a] = u

\* The counter has handed out exactly the IDs that have a record, and every
\* record is about a registered asset: no ID is skipped, reused or dangling
\* (nextTransactionID, AddNewTransaction).
CounterCoversTransactions ==
  \A id \in TransactionIDs :
    /\ info[id] # NoInfo <=> id <= counter
    /\ info[id] # NoInfo => cert[info[id].asset] # NoCert

HasStarted(i) == i.startTime # 0

\* The commercial terms of a transaction are those of its mode: one price,
\* in the field of the mode, and for an auction an end after the start; a
\* transaction that never started has none (StartTransaction).
TermsMatch(i) ==
  IF ~HasStarted(i)
  THEN /\ i.fixedPrice = 0 /\ i.basicPrice = 0 /\ i.finalizingTime = 0
       /\ i.status # transactionStatusInProgress
  ELSE /\ i.status # transactionStatusReviewing
       /\ IF i.mode = transactionModeFixedPrice
          THEN i.fixedPrice > 0 /\ i.basicPrice = 0 /\ i.finalizingTime = 0
          ELSE i.fixedPrice = 0 /\ i.basicPrice > 0 /\ i.finalizingTime > i.startTime

\* The terms of every transaction match its mode (StartTransaction,
\* ChangeTransactionStatus).
TermsMatchMode ==
  \A id \in TransactionIDs : info[id] # NoInfo => TermsMatch(info[id])

\* How a transaction may change once it exists: it never changes its asset
\* or its seller, never disappears, never returns to Reviewing, and its
\* terms change only at the one step that starts it.
HistoryKept ==
  \A id \in TransactionIDs :
    info[id] # NoInfo =>
      /\ info'[id] # NoInfo
      /\ info'[id].asset = info[id].asset
      /\ info'[id].seller = info[id].seller
      /\ info'[id].status = transactionStatusReviewing
           => info[id].status = transactionStatusReviewing
      /\ (HasStarted(info[id]) \/ info'[id].status # transactionStatusInProgress)
           => info'[id] = [info[id] EXCEPT !.status = info'[id].status]

\* Every invocation keeps the history of the transactions
\* (AddNewTransaction, ChangeTransactionStatus, StartTransaction).
TransactionHistory == [][HistoryKept]_vars

\* A transaction that enters In Progress was in Reviewing, its asset is on
\* the market in its mode at that very step, and its seller has at that very
\* step the score its price requires.
Starts(id) ==
  /\ info[id] # NoInfo /\ info[id].status # transactionStatusInProgress
  /\ info'[id].status = transactionStatusInProgress

StartJustified ==
  \A id \in TransactionIDs :
    Starts(id) =>
      /\ info[id].status = transactionStatusReviewing
      /\ cert[info[id].asset] = expectedLegalStatus(info'[id].mode)
      /\ SellerEligible(info[id].seller, info'[id].fixedPrice + info'[id].basicPrice)

\* No transaction starts any other way than StartTransaction allows.
StartsOnlyOnMarket == [][StartJustified]_vars

EntriesKept ==
  \A u \in Users, id \in TransactionIDs :
    tradeList[u][id] # NoEntry =>
      /\ tradeList'[u][id] # NoEntry
      /\ tradeList'[u][id] = [tradeList[u][id] EXCEPT !.active = tradeList'[u][id].active]

\* The list of a user only grows, and of an entry only the active flag ever
\* changes, whatever asset and role a later update names
\* (UpdateTransactionList).
TradeEntriesPersist == [][EntriesKept]_vars

=============================================================================
