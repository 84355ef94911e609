---------------------- MODULE TransactionLedgerProofs ----------------------
(***************************************************************************)
(* The invariants of the transaction ledger hold for any users, assets,    *)
(* inputs and size of the transaction ID, and so do its action properties. *)
(*                                                                         *)
(* TypeOK is inductive by itself.  RegistryConsistent needs it; the        *)
(* dangling-record half of CounterCoversTransactions needs that no action  *)
(* removes a certificate; TermsMatchMode needs TypeOK only, because a      *)
(* transaction that is Reviewing has not started.                          *)
(***************************************************************************)
EXTENDS TransactionLedger, TLAPS

\* A record written for a new or a started transaction is a record of its
\* type, never the absent value.
LEMMA RecordsArePresent ==
  /\ NoInfo \notin TransactionInfo
  /\ NoEntry \notin TradeEntry
  /\ NoIdentity \notin TradingIdentity
  /\ NoCert \notin LegalStatuses
BY AbsentAssumption
   DEF TransactionInfo, TradeEntry, TradingIdentity, TransactionStatuses,
       TransactionModes, TransactionRoles, LegalStatuses,
       transactionModeSealedBid, transactionRoleSeller

\* The record AddNewTransaction writes.
LEMMA ReviewingInfoType ==
  ASSUME NEW a \in Assets, NEW seller \in Users
  PROVE  ReviewingInfo(a, seller) \in TransactionInfo
BY DEF ReviewingInfo, TransactionInfo, TransactionStatuses, TransactionModes,
       transactionStatusReviewing, transactionModeSealedBid

\* A record s that starts the reviewed transaction i on the given terms.
IsStartOf(s, i, price, mode, start, final) ==
  /\ s \in TransactionInfo
  /\ s.status = transactionStatusInProgress
  /\ s.mode = mode /\ s.startTime = start
  /\ s.asset = i.asset /\ s.seller = i.seller
  /\ s.fixedPrice = (IF mode = transactionModeFixedPrice THEN price ELSE 0)
  /\ s.basicPrice = (IF mode = transactionModeFixedPrice THEN 0 ELSE price)
  /\ s.finalizingTime = (IF mode = transactionModeFixedPrice THEN 0 ELSE final)

\* The record StartTransaction writes is one.
LEMMA StartedInfoType ==
  ASSUME NEW i \in TransactionInfo, NEW price \in Nat, NEW mode \in TransactionModes,
         NEW start \in Nat, NEW final \in Nat
  PROVE  IsStartOf(StartedInfo(i, price, mode, start, final), i, price, mode, start, final)
<1> SUFFICES ASSUME NEW s, s = StartedInfo(i, price, mode, start, final)
             PROVE  IsStartOf(s, i, price, mode, start, final)
  OBVIOUS
<1> DEFINE fixed == mode = transactionModeFixedPrice
<1>1. s = [asset |-> i.asset, seller |-> i.seller,
           status |-> transactionStatusInProgress, mode |-> mode,
           startTime |-> start,
           fixedPrice |-> IF fixed THEN price ELSE 0,
           basicPrice |-> IF fixed THEN 0 ELSE price,
           finalizingTime |-> IF fixed THEN 0 ELSE final]
  BY DEF StartedInfo, TransactionInfo
<1>2. transactionStatusInProgress \in TransactionStatuses
  BY DEF TransactionStatuses, transactionStatusInProgress
<1>3. i.asset \in Assets /\ i.seller \in Users
  BY DEF TransactionInfo
<1>4. s \in TransactionInfo
  BY <1>1, <1>2, <1>3 DEF TransactionInfo
<1> QED
  BY <1>1, <1>4 DEF IsStartOf

-----------------------------------------------------------------------------
(* Type correctness.                                                       *)

LEMMA InitTypeOK == Init => TypeOK
BY MaxUintAssumption DEF Init, TypeOK

\* Every invocation keeps the records of the world state well formed.
LEMMA NextTypeOK == TypeOK /\ [Next]_vars => TypeOK'
<1> SUFFICES ASSUME TypeOK, [Next]_vars
             PROVE  TypeOK'
  OBVIOUS
<1> USE DEF TypeOK
<1>1. ASSUME NEW u \in Users, RegisterTradingIdentity(u)
      PROVE  TypeOK'
  BY <1>1 DEF RegisterTradingIdentity, TradingIdentity, defaultSellerCreditScore
<1>2. ASSUME NEW u \in Users, NEW key \in Keys, SetPublicKey(u, key)
      PROVE  TypeOK'
  <2>1. identity[u] \in TradingIdentity
    BY <1>2 DEF SetPublicKey
  <2>2. [identity[u] EXCEPT !.key = key] \in TradingIdentity
    BY <2>1 DEF TradingIdentity
  <2> QED
    BY <1>2, <2>2 DEF SetPublicKey
<1>3. ASSUME NEW u \in Users, NEW s \in ScoreInputs, MoveSellerScore(u, s)
      PROVE  TypeOK'
  <2>1. identity[u] \in TradingIdentity
    BY <1>3 DEF MoveSellerScore
  <2>2. [identity[u] EXCEPT !.sellerScore = s] \in TradingIdentity
    BY <2>1, InputsAssumption DEF TradingIdentity
  <2> QED
    BY <1>3, <2>2 DEF MoveSellerScore
<1>4. ASSUME NEW u \in Users, NEW a \in Assets, RegisterAsset(u, a)
      PROVE  TypeOK'
  BY <1>4 DEF RegisterAsset, LegalStatuses, legalStatusNormal
<1>5. ASSUME NEW a \in Assets, NEW s \in LegalInputs, UpdateStatus(a, s)
      PROVE  TypeOK'
  BY <1>5 DEF UpdateStatus, UpdateStatusAllowed
<1>6. ASSUME NEW a \in Assets, NEW seller \in Users, AddNewTransaction(a, seller)
      PROVE  TypeOK'
  <2>1. counter' \in 0..MaxUint
    BY <1>6, MaxUintAssumption
       DEF AddNewTransaction, AddNewTransactionAllowed, nextTransactionID
  <2>2. info' \in [TransactionIDs -> TransactionInfo \cup {NoInfo}]
    BY <1>6, ReviewingInfoType DEF AddNewTransaction
  <2> QED
    BY <1>6, <2>1, <2>2 DEF AddNewTransaction
<1>7. ASSUME NEW id \in TransactionIDs, NEW o \in StatusInputs, NEW n \in StatusInputs,
             ChangeTransactionStatus(id, o, n)
      PROVE  TypeOK'
  <2>1. info[id] \in TransactionInfo /\ n \in TransactionStatuses
    BY <1>7 DEF ChangeTransactionStatus, ChangeTransactionStatusAllowed
  <2>2. [info[id] EXCEPT !.status = n] \in TransactionInfo
    BY <2>1 DEF TransactionInfo
  <2> QED
    BY <1>7, <2>2 DEF ChangeTransactionStatus
<1>8. ASSUME NEW id \in TransactionIDs, NEW price \in PriceInputs, NEW mode \in ModeInputs,
             NEW start \in Times, NEW final \in Times \cup {0},
             StartTransaction(id, price, mode, start, final)
      PROVE  TypeOK'
  <2>1. info[id] \in TransactionInfo /\ mode \in TransactionModes
    BY <1>8 DEF StartTransaction, StartTransactionAllowed, StartTransactionReady
  <2>2. price \in Nat /\ start \in Nat /\ final \in Nat
    BY InputsAssumption, TimesAssumption
  <2>3. StartedInfo(info[id], price, mode, start, final) \in TransactionInfo
    <3>1. IsStartOf(StartedInfo(info[id], price, mode, start, final),
                    info[id], price, mode, start, final)
      BY <2>1, <2>2, StartedInfoType
    <3> QED
      BY <3>1 DEF IsStartOf
  <2> QED
    BY <1>8, <2>3 DEF StartTransaction
<1>9. ASSUME NEW u \in Users, NEW id \in TransactionIDs, NEW a \in Assets,
             NEW role \in RoleInputs, NEW active \in BOOLEAN,
             UpdateTransactionList(u, id, a, role, active)
      PROVE  TypeOK'
  <2>1. UpdatedList(tradeList[u], id, a, role, active)
          \in [TransactionIDs -> TradeEntry \cup {NoEntry}]
    <3>1. CASE tradeList[u][id] = NoEntry
      BY <1>9, <3>1
         DEF UpdateTransactionList, UpdateTransactionListAllowed, UpdatedList, TradeEntry
    <3>2. CASE tradeList[u][id] # NoEntry
      <4>1. [tradeList[u][id] EXCEPT !.active = active] \in TradeEntry
        BY <3>2 DEF TradeEntry
      <4> QED
        BY <3>2, <4>1 DEF UpdatedList
    <3> QED
      BY <3>1, <3>2
  <2> QED
    BY <1>9, <2>1 DEF UpdateTransactionList
<1>10. CASE UNCHANGED vars
  BY <1>10 DEF vars
<1> QED
  BY <1>1, <1>2, <1>3, <1>4, <1>5, <1>6, <1>7, <1>8, <1>9, <1>10 DEF Next

\* The world state is well formed in every reachable state.
THEOREM TypeCorrect == Spec => []TypeOK
BY InitTypeOK, NextTypeOK, PTL DEF Spec

-----------------------------------------------------------------------------
(* The registry.                                                           *)

\* No invocation forgets a registered user: SetPublicKey and a score update
\* replace a field of her record.
LEMMA IdentitiesPersist ==
  ASSUME TypeOK, [Next]_vars, NEW u \in Users, identity[u] # NoIdentity
  PROVE  identity'[u] # NoIdentity
<1>1. ASSUME NEW v \in Users, RegisterTradingIdentity(v)
      PROVE  identity'[u] # NoIdentity
  BY <1>1 DEF RegisterTradingIdentity, TypeOK
<1>2. ASSUME NEW v \in Users, NEW key \in Keys, SetPublicKey(v, key)
      PROVE  identity'[u] # NoIdentity
  <2>1. [identity[v] EXCEPT !.key = key] \in TradingIdentity
    BY <1>2 DEF SetPublicKey, TypeOK, TradingIdentity
  <2> QED
    BY <1>2, <2>1, RecordsArePresent DEF SetPublicKey, TypeOK
<1>3. ASSUME NEW v \in Users, NEW s \in ScoreInputs, MoveSellerScore(v, s)
      PROVE  identity'[u] # NoIdentity
  <2>1. identity[v] \in TradingIdentity
    BY <1>3 DEF MoveSellerScore, TypeOK
  <2>2. [identity[v] EXCEPT !.sellerScore = s] \in TradingIdentity
    BY <2>1, InputsAssumption DEF TradingIdentity
  <2> QED
    BY <1>3, <2>2, RecordsArePresent DEF MoveSellerScore, TypeOK
<1>4. CASE UNCHANGED identity
  BY <1>4
<1> QED
  BY <1>1, <1>2, <1>3, <1>4
     DEF Next, RegisterAsset, UpdateStatus, AddNewTransaction,
         ChangeTransactionStatus, StartTransaction, UpdateTransactionList, vars

\* No invocation removes a certificate: a status is only ever replaced by
\* another one.
LEMMA CertificatesPersist ==
  ASSUME TypeOK, [Next]_vars, NEW a \in Assets, cert[a] # NoCert
  PROVE  cert'[a] # NoCert
<1>1. ASSUME NEW u \in Users, NEW b \in Assets, RegisterAsset(u, b)
      PROVE  cert'[a] # NoCert
  BY <1>1 DEF RegisterAsset, TypeOK
<1>2. ASSUME NEW b \in Assets, NEW s \in LegalInputs, UpdateStatus(b, s)
      PROVE  cert'[a] # NoCert
  BY <1>2, RecordsArePresent DEF UpdateStatus, UpdateStatusAllowed, TypeOK
<1>3. CASE UNCHANGED cert
  BY <1>3
<1> QED
  BY <1>1, <1>2, <1>3
     DEF Next, RegisterTradingIdentity, SetPublicKey, MoveSellerScore,
         AddNewTransaction, ChangeTransactionStatus, StartTransaction,
         UpdateTransactionList, vars

\* The certificate, the owner and the users' lists of an asset agree in every
\* reachable state, however many users register assets.
THEOREM RegistryIsConsistent == Spec => []RegistryConsistent
<1>1. Init => RegistryConsistent
  BY AbsentAssumption DEF Init, RegistryConsistent
<1>2. TypeOK /\ RegistryConsistent /\ [Next]_vars => RegistryConsistent'
  <2> SUFFICES ASSUME TypeOK, RegistryConsistent, [Next]_vars
               PROVE  RegistryConsistent'
    OBVIOUS
  <2>1. ASSUME NEW u \in Users, NEW a \in Assets, RegisterAsset(u, a)
        PROVE  RegistryConsistent'
    <3>1. legalStatusNormal # NoCert /\ u # NoOwner
      BY RecordsArePresent, AbsentAssumption DEF LegalStatuses, legalStatusNormal
    <3>2. owner[a] = NoOwner
      BY <2>1 DEF RegisterAsset, RegistryConsistent
    <3> QED
      BY <2>1, <3>1, <3>2, AbsentAssumption DEF RegisterAsset, RegistryConsistent, TypeOK
  <2>2. ASSUME NEW a \in Assets, NEW s \in LegalInputs, UpdateStatus(a, s)
        PROVE  RegistryConsistent'
    <3>1. s # NoCert
      BY <2>2, RecordsArePresent DEF UpdateStatus, UpdateStatusAllowed
    <3> QED
      BY <2>2, <3>1 DEF UpdateStatus, UpdateStatusAllowed, RegistryConsistent, TypeOK
  <2>3. CASE UNCHANGED <<cert, owner, assetList>>
    <3>1. \A a \in Assets : owner[a] # NoOwner => owner[a] \in Users
      BY DEF TypeOK
    <3> QED
      BY <2>3, <3>1, IdentitiesPersist DEF RegistryConsistent
  <2> QED
    BY <2>1, <2>2, <2>3
       DEF Next, RegisterTradingIdentity, SetPublicKey, MoveSellerScore,
           AddNewTransaction, ChangeTransactionStatus, StartTransaction,
           UpdateTransactionList, vars
<1> QED
  BY <1>1, <1>2, TypeCorrect, PTL DEF Spec

-----------------------------------------------------------------------------
(* The transactions.                                                       *)

\* The counter and the records agree, and no record is about an asset that
\* was never registered.
THEOREM CounterCovers == Spec => []CounterCoversTransactions
<1>1. Init => CounterCoversTransactions
  BY MaxUintAssumption DEF Init, CounterCoversTransactions, TransactionIDs
<1>2. TypeOK /\ CounterCoversTransactions /\ [Next]_vars => CounterCoversTransactions'
  <2> SUFFICES ASSUME TypeOK, CounterCoversTransactions, [Next]_vars
               PROVE  CounterCoversTransactions'
    OBVIOUS
  <2>0. ASSUME NEW i \in TransactionInfo
        PROVE  i # NoInfo /\ i.asset \in Assets
    BY RecordsArePresent DEF TransactionInfo
  <2>1. ASSUME NEW a \in Assets, NEW seller \in Users, AddNewTransaction(a, seller)
        PROVE  CounterCoversTransactions'
    <3>1. ReviewingInfo(a, seller) # NoInfo /\ ReviewingInfo(a, seller).asset = a
      BY <2>0, ReviewingInfoType DEF ReviewingInfo
    <3>2. /\ counter' = counter + 1 /\ counter \in Nat
          /\ info' = [info EXCEPT ![counter + 1] = ReviewingInfo(a, seller)]
          /\ cert' = cert /\ cert[a] # NoCert
      BY <2>1, MaxUintAssumption
         DEF AddNewTransaction, AddNewTransactionAllowed, nextTransactionID, TypeOK
    <3> QED
      BY <3>1, <3>2, MaxUintAssumption DEF CounterCoversTransactions, TypeOK, TransactionIDs
  <2>2. ASSUME NEW id \in TransactionIDs, NEW o \in StatusInputs, NEW n \in StatusInputs,
               ChangeTransactionStatus(id, o, n)
        PROVE  CounterCoversTransactions'
    <3>1. info[id] \in TransactionInfo /\ n \in TransactionStatuses
      BY <2>2 DEF ChangeTransactionStatus, ChangeTransactionStatusAllowed, TypeOK
    <3>2. /\ [info[id] EXCEPT !.status = n] \in TransactionInfo
          /\ [info[id] EXCEPT !.status = n].asset = info[id].asset
      BY <3>1 DEF TransactionInfo
    <3> QED
      BY <2>2, <3>1, <3>2, <2>0
         DEF ChangeTransactionStatus, CounterCoversTransactions, TypeOK
  <2>3. ASSUME NEW id \in TransactionIDs, NEW price \in PriceInputs, NEW mode \in ModeInputs,
               NEW start \in Times, NEW final \in Times \cup {0},
               StartTransaction(id, price, mode, start, final)
        PROVE  CounterCoversTransactions'
    <3>1. info[id] \in TransactionInfo /\ mode \in TransactionModes
      BY <2>3 DEF StartTransaction, StartTransactionAllowed, StartTransactionReady, TypeOK
    <3>2. price \in Nat /\ start \in Nat /\ final \in Nat
      BY InputsAssumption, TimesAssumption
    <3>3. /\ StartedInfo(info[id], price, mode, start, final) \in TransactionInfo
          /\ StartedInfo(info[id], price, mode, start, final).asset = info[id].asset
      <4>1. IsStartOf(StartedInfo(info[id], price, mode, start, final),
                      info[id], price, mode, start, final)
        BY <3>1, <3>2, StartedInfoType
      <4> QED
        BY <4>1 DEF IsStartOf
    <3> QED
      BY <2>3, <3>1, <3>3, <2>0 DEF StartTransaction, CounterCoversTransactions, TypeOK
  <2>4. CASE UNCHANGED <<info, counter>>
    <3>1. \A id \in TransactionIDs : info[id] # NoInfo => info[id].asset \in Assets
      BY <2>0 DEF TypeOK
    <3> QED
      BY <2>4, <3>1, CertificatesPersist DEF CounterCoversTransactions
  <2> QED
    BY <2>1, <2>2, <2>3, <2>4
       DEF Next, RegisterTradingIdentity, SetPublicKey, MoveSellerScore,
           RegisterAsset, UpdateStatus, UpdateTransactionList, vars
<1> QED
  BY <1>1, <1>2, TypeCorrect, PTL DEF Spec

\* What a change of status does to a record: nothing else.
LEMMA StatusChange ==
  ASSUME NEW i \in TransactionInfo, NEW n \in TransactionStatuses, NEW s,
         s = [i EXCEPT !.status = n]
  PROVE  /\ s \in TransactionInfo
         /\ s.status = n
         /\ s.asset = i.asset /\ s.seller = i.seller
         /\ s.mode = i.mode /\ s.startTime = i.startTime
         /\ s.fixedPrice = i.fixedPrice /\ s.basicPrice = i.basicPrice
         /\ s.finalizingTime = i.finalizingTime
BY DEF TransactionInfo

\* The terms of every transaction match its mode in every reachable state.
THEOREM TermsAlwaysMatch == Spec => []TermsMatchMode
<1>1. Init => TermsMatchMode
  BY DEF Init, TermsMatchMode
<1>2. TypeOK /\ TermsMatchMode /\ [Next]_vars => TermsMatchMode'
  <2> SUFFICES ASSUME TypeOK, TermsMatchMode, [Next]_vars
               PROVE  TermsMatchMode'
    OBVIOUS
  <2>1. ASSUME NEW a \in Assets, NEW seller \in Users, AddNewTransaction(a, seller)
        PROVE  TermsMatchMode'
    <3>1. TermsMatch(ReviewingInfo(a, seller))
      BY DEF ReviewingInfo, TermsMatch, HasStarted,
             transactionStatusReviewing, transactionStatusInProgress
    <3> QED
      BY <2>1, <3>1 DEF AddNewTransaction, TermsMatchMode, TypeOK
  <2>2. ASSUME NEW id \in TransactionIDs, NEW o \in StatusInputs, NEW n \in StatusInputs,
               ChangeTransactionStatus(id, o, n)
        PROVE  TermsMatchMode'
    <3>1. /\ info[id] \in TransactionInfo /\ info[id] # NoInfo
          /\ n \in TransactionStatuses
          /\ n # transactionStatusReviewing /\ n # transactionStatusInProgress
          /\ info' = [info EXCEPT ![id].status = n]
      BY <2>2 DEF ChangeTransactionStatus, ChangeTransactionStatusAllowed, TypeOK
    <3>2. info'[id] = [info[id] EXCEPT !.status = n]
      BY <3>1 DEF TypeOK
    <3>3. TermsMatch(info[id])
      BY <3>1 DEF TermsMatchMode
    <3>4. TermsMatch(info'[id])
      BY <3>1, <3>2, <3>3, StatusChange DEF TermsMatch, HasStarted
    <3>5. \A j \in TransactionIDs : j # id => info'[j] = info[j]
      BY <3>1 DEF TypeOK
    <3> QED
      BY <3>4, <3>5 DEF TermsMatchMode
  <2>3. ASSUME NEW id \in TransactionIDs, NEW price \in PriceInputs, NEW mode \in ModeInputs,
               NEW start \in Times, NEW final \in Times \cup {0},
               StartTransaction(id, price, mode, start, final)
        PROVE  TermsMatchMode'
    <3>1. /\ info[id] \in TransactionInfo /\ mode \in TransactionModes
          /\ price > 0
          /\ mode # transactionModeFixedPrice => final > start
      BY <2>3 DEF StartTransaction, StartTransactionAllowed, StartTransactionReady,
                  FinalizingTimeAccepted, TypeOK
    <3>2. price \in Nat /\ start \in Nat \ {0} /\ final \in Nat
      BY InputsAssumption, TimesAssumption
    <3>3. info'[id] = StartedInfo(info[id], price, mode, start, final)
      BY <2>3 DEF StartTransaction, TypeOK
    <3>4. IsStartOf(info'[id], info[id], price, mode, start, final)
      BY <3>1, <3>2, <3>3, StartedInfoType
    <3>5. TermsMatch(info'[id])
      BY <3>1, <3>2, <3>4
         DEF IsStartOf, TermsMatch, HasStarted, transactionStatusReviewing,
             transactionStatusInProgress, transactionModeFixedPrice
    <3>6. \A j \in TransactionIDs : j # id => info'[j] = info[j]
      BY <2>3 DEF StartTransaction, TypeOK
    <3> QED
      BY <3>5, <3>6 DEF TermsMatchMode
  <2>4. CASE UNCHANGED info
    BY <2>4 DEF TermsMatchMode
  <2> QED
    BY <2>1, <2>2, <2>3, <2>4
       DEF Next, RegisterTradingIdentity, SetPublicKey, MoveSellerScore,
           RegisterAsset, UpdateStatus, UpdateTransactionList, vars
<1> QED
  BY <1>1, <1>2, TypeCorrect, PTL DEF Spec

-----------------------------------------------------------------------------
(* The history of a transaction.                                           *)

\* No invocation rewrites a transaction: AddNewTransaction takes a number
\* without a record because the counter covers them all, and a transaction
\* that is Reviewing has not started because its terms match.
THEOREM HistoryIsKept == Spec => TransactionHistory
<1>1. TypeOK /\ CounterCoversTransactions /\ TermsMatchMode /\ [Next]_vars
        => [HistoryKept]_vars
  <2> SUFFICES ASSUME TypeOK, CounterCoversTransactions, TermsMatchMode, Next,
                      NEW id \in TransactionIDs, info[id] # NoInfo
               PROVE  /\ info'[id] # NoInfo
                      /\ info'[id].asset = info[id].asset
                      /\ info'[id].seller = info[id].seller
                      /\ info'[id].status = transactionStatusReviewing
                           => info[id].status = transactionStatusReviewing
                      /\ (\/ HasStarted(info[id])
                          \/ info'[id].status # transactionStatusInProgress)
                           => info'[id] = [info[id] EXCEPT !.status = info'[id].status]
    BY DEF HistoryKept
  <2>0. info[id] \in TransactionInfo
    BY DEF TypeOK
  <2>1. CASE info'[id] = info[id]
    BY <2>0, <2>1 DEF TransactionInfo
  <2>2. ASSUME NEW a \in Assets, NEW seller \in Users, AddNewTransaction(a, seller)
        PROVE  info'[id] = info[id]
    BY <2>2, MaxUintAssumption
       DEF AddNewTransaction, nextTransactionID, CounterCoversTransactions, TypeOK,
           TransactionIDs
  <2>3. ASSUME NEW j \in TransactionIDs, NEW o \in StatusInputs, NEW n \in StatusInputs,
               ChangeTransactionStatus(j, o, n), info'[id] # info[id]
        PROVE  /\ n \in TransactionStatuses
               /\ n # transactionStatusReviewing
               /\ info'[id] = [info[id] EXCEPT !.status = n]
    BY <2>3 DEF ChangeTransactionStatus, ChangeTransactionStatusAllowed, TypeOK
  <2>4. ASSUME NEW n \in TransactionStatuses, n # transactionStatusReviewing,
               info'[id] = [info[id] EXCEPT !.status = n]
        PROVE  /\ info'[id] # NoInfo
               /\ info'[id].asset = info[id].asset
               /\ info'[id].seller = info[id].seller
               /\ info'[id].status # transactionStatusReviewing
               /\ info'[id] = [info[id] EXCEPT !.status = info'[id].status]
    BY <2>0, <2>4, StatusChange, RecordsArePresent
  <2>5. ASSUME NEW j \in TransactionIDs, NEW price \in PriceInputs, NEW mode \in ModeInputs,
               NEW start \in Times, NEW final \in Times \cup {0},
               StartTransaction(j, price, mode, start, final), info'[id] # info[id]
        PROVE  /\ IsStartOf(info'[id], info[id], price, mode, start, final)
               /\ ~HasStarted(info[id])
    <3>1. /\ j = id /\ mode \in TransactionModes
          /\ info[id].status = transactionStatusReviewing
          /\ info'[id] = StartedInfo(info[id], price, mode, start, final)
      BY <2>5 DEF StartTransaction, StartTransactionAllowed, StartTransactionReady, TypeOK
    <3>2. price \in Nat /\ start \in Nat /\ final \in Nat
      BY InputsAssumption, TimesAssumption
    <3>3. ~HasStarted(info[id])
      BY <3>1 DEF TermsMatchMode, TermsMatch
    <3> QED
      BY <2>0, <3>1, <3>2, <3>3, StartedInfoType
  <2>6. ASSUME NEW price, NEW mode, NEW start, NEW final,
               IsStartOf(info'[id], info[id], price, mode, start, final)
        PROVE  /\ info'[id] # NoInfo
               /\ info'[id].asset = info[id].asset
               /\ info'[id].seller = info[id].seller
               /\ info'[id].status = transactionStatusInProgress
    BY <2>6, RecordsArePresent DEF IsStartOf
  <2>7. transactionStatusInProgress # transactionStatusReviewing
    BY DEF transactionStatusInProgress, transactionStatusReviewing
  <2>8. \/ info'[id] = info[id]
        \/ \E n \in TransactionStatuses :
             n # transactionStatusReviewing /\ info'[id] = [info[id] EXCEPT !.status = n]
        \/ /\ \E price, mode, start, final :
                 IsStartOf(info'[id], info[id], price, mode, start, final)
           /\ ~HasStarted(info[id])
    BY <2>2, <2>3, <2>5
       DEF Next, RegisterTradingIdentity, SetPublicKey, MoveSellerScore,
           RegisterAsset, UpdateStatus, UpdateTransactionList
  <2> QED
    BY <2>1, <2>4, <2>6, <2>7, <2>8
<1> QED
  BY <1>1, TypeCorrect, CounterCovers, TermsAlwaysMatch, PTL DEF Spec, TransactionHistory

\* A transaction only starts with its asset on the market in its mode and
\* its seller eligible for its price, both at that very step.
THEOREM StartsAreJustified == Spec => StartsOnlyOnMarket
<1>1. TypeOK /\ [Next]_vars => [StartJustified]_vars
  <2> SUFFICES ASSUME TypeOK, Next, NEW id \in TransactionIDs, Starts(id)
               PROVE  /\ info[id].status = transactionStatusReviewing
                      /\ cert[info[id].asset] = expectedLegalStatus(info'[id].mode)
                      /\ SellerEligible(info[id].seller,
                                        info'[id].fixedPrice + info'[id].basicPrice)
    BY DEF StartJustified
  <2>0. info[id] \in TransactionInfo /\ info'[id] # info[id]
    BY DEF TypeOK, Starts
  <2>1. ASSUME NEW a \in Assets, NEW seller \in Users, AddNewTransaction(a, seller)
        PROVE  FALSE
    BY <2>0, <2>1
       DEF AddNewTransaction, ReviewingInfo, TypeOK, Starts, transactionStatusReviewing,
           transactionStatusInProgress
  <2>2. ASSUME NEW j \in TransactionIDs, NEW o \in StatusInputs, NEW n \in StatusInputs,
               ChangeTransactionStatus(j, o, n)
        PROVE  FALSE
    <3>1. /\ n \in TransactionStatuses /\ n # transactionStatusInProgress
          /\ info'[id] = [info[id] EXCEPT !.status = n]
      BY <2>0, <2>2 DEF ChangeTransactionStatus, ChangeTransactionStatusAllowed, TypeOK
    <3> QED
      BY <2>0, <3>1, StatusChange DEF Starts
  <2>3. ASSUME NEW j \in TransactionIDs, NEW price \in PriceInputs, NEW mode \in ModeInputs,
               NEW start \in Times, NEW final \in Times \cup {0},
               StartTransaction(j, price, mode, start, final)
        PROVE  /\ info[id].status = transactionStatusReviewing
               /\ cert[info[id].asset] = expectedLegalStatus(info'[id].mode)
               /\ SellerEligible(info[id].seller,
                                 info'[id].fixedPrice + info'[id].basicPrice)
    <3>0. j = id
      BY <2>0, <2>3 DEF StartTransaction, TypeOK
    <3>1. /\ mode \in TransactionModes
          /\ info[id].status = transactionStatusReviewing
          /\ SellerEligible(info[id].seller, price)
          /\ cert[info[id].asset] = expectedLegalStatus(mode)
          /\ info'[id] = StartedInfo(info[id], price, mode, start, final)
      BY <2>3, <3>0 DEF StartTransaction, StartTransactionAllowed, StartTransactionReady, TypeOK
    <3>2. price \in Nat /\ start \in Nat /\ final \in Nat
      BY InputsAssumption, TimesAssumption
    <3>3. /\ info'[id].mode = mode
          /\ info'[id].fixedPrice + info'[id].basicPrice = price
      <4>1. IsStartOf(StartedInfo(info[id], price, mode, start, final),
                      info[id], price, mode, start, final)
        BY <2>0, <3>1, <3>2, StartedInfoType
      <4> QED
        BY <3>1, <3>2, <4>1 DEF IsStartOf
    <3> QED
      BY <3>1, <3>3
  <2> QED
    BY <2>0, <2>1, <2>2, <2>3
       DEF Next, RegisterTradingIdentity, SetPublicKey, MoveSellerScore,
           RegisterAsset, UpdateStatus, UpdateTransactionList
<1> QED
  BY <1>1, TypeCorrect, PTL DEF Spec, StartsOnlyOnMarket

-----------------------------------------------------------------------------
(* The transaction lists.                                                  *)

\* An update of a listed transaction changes its active flag only.
THEOREM EntriesAreKept == Spec => TradeEntriesPersist
<1>1. TypeOK /\ [Next]_vars => [EntriesKept]_vars
  <2> SUFFICES ASSUME TypeOK, Next, NEW u \in Users, NEW id \in TransactionIDs,
                      tradeList[u][id] # NoEntry
               PROVE  /\ tradeList'[u][id] # NoEntry
                      /\ tradeList'[u][id] =
                           [tradeList[u][id] EXCEPT !.active = tradeList'[u][id].active]
    BY DEF EntriesKept
  <2>0. tradeList[u][id] \in TradeEntry
    BY DEF TypeOK
  <2>1. ASSUME NEW v \in Users, NEW j \in TransactionIDs, NEW a \in Assets,
               NEW role \in RoleInputs, NEW active \in BOOLEAN,
               UpdateTransactionList(v, j, a, role, active)
        PROVE  \/ tradeList'[u][id] = tradeList[u][id]
               \/ \E b \in BOOLEAN :
                    tradeList'[u][id] = [tradeList[u][id] EXCEPT !.active = b]
    <3>1. CASE u = v /\ id = j
      BY <2>1, <3>1 DEF UpdateTransactionList, UpdatedList, TypeOK
    <3>2. CASE u # v \/ id # j
      BY <2>1, <3>2 DEF UpdateTransactionList, UpdatedList, TypeOK
    <3> QED
      BY <3>1, <3>2
  <2>2. CASE tradeList'[u][id] = tradeList[u][id]
    BY <2>0, <2>2 DEF TradeEntry
  <2>3. ASSUME NEW b \in BOOLEAN, tradeList'[u][id] = [tradeList[u][id] EXCEPT !.active = b]
        PROVE  /\ tradeList'[u][id] \in TradeEntry
               /\ tradeList'[u][id].active = b
    BY <2>0, <2>3 DEF TradeEntry
  <2>4. \/ tradeList'[u][id] = tradeList[u][id]
        \/ \E b \in BOOLEAN : tradeList'[u][id] = [tradeList[u][id] EXCEPT !.active = b]
    BY <2>1 DEF Next, RegisterTradingIdentity, SetPublicKey, MoveSellerScore,
                RegisterAsset, UpdateStatus, AddNewTransaction, ChangeTransactionStatus,
                StartTransaction
  <2> QED
    BY <2>2, <2>3, <2>4, RecordsArePresent
<1> QED
  BY <1>1, TypeCorrect, PTL DEF Spec, TradeEntriesPersist

=============================================================================
