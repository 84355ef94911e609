------------------------- MODULE LoginServiceProofs -------------------------
(***************************************************************************)
(* Launches and logins together keep the lists of transactions in order,   *)
(* for any users, assets, requests, handlers, logins and budgets of        *)
(* faults, lost answers included.                                          *)
(*                                                                         *)
(* The launches keep their invariant beside the corrections of the logins  *)
(* (LaunchServiceProofs).  To it ChannelInv adds what a list means: an     *)
(* entry is closed only if its transaction is rejected, and an invocation  *)
(* that would open an entry finds none, as long as it is not stale.  So    *)
(* the lists and the settled transactions only ever grow (Grows), and what *)
(* a login has read stays true enough (Reading): a transaction it has read *)
(* as Rejected is closed in the list, or the login is about to close it.   *)
(***************************************************************************)
EXTENDS LoginService, LaunchServiceProofs

-----------------------------------------------------------------------------
(* What the lists mean.                                                    *)

Closed(u, id) == ListOf(u)[id] # NoEntry /\ ~ListOf(u)[id].active

Statuses == {Reviewing, LedgerOf!transactionStatusInProgress, Rejected}

StatusesInv ==
  \A id \in TransactionIDs : infoOf(id) # NoInfo => infoOf(id).status \in Statuses

IsRejected(id) == id <= Counter /\ infoOf(id).status = Rejected

EntriesInv ==
  \A u \in Users, id \in TransactionIDs :
    /\ ListOf(u)[id] # NoEntry => id <= Counter
    /\ Closed(u, id) => IsRejected(id)

\* A launch that is still on its way to a sale.
Undecided == {"ListActive", "CheckStatus", "SetPending", "Review", "ApproveStatus",
              "StartTransaction"}

UndecidedInv(h) ==
  /\ pc[h] \in Undecided => infoOf(txid[h]).status = Reviewing
  /\ pc[h] = "ListActive" => \A u \in Users : ListOf(u)[txid[h]] = NoEntry

\* What the writer of a list knows of the entry it writes.
ListClaim(f) ==
  ~f.stale =>
    \A u \in Users :
      userTransactionListKey(u) \in f.reads =>
        IF f.writes[userTransactionListKey(u)][f.id].active
        THEN ListOf(u)[f.id] = NoEntry
        ELSE IsRejected(f.id)

\* An invocation that closes an entry, made by a login.
Corrects(f, u, a, role) ==
  /\ f.reply /\ f.reads = {userTransactionListKey(u)} /\ IsRejected(f.id)
  /\ ~f.stale => ListSet(f, u, f.id, a, role, FALSE) /\ ListOf(u)[f.id] # NoEntry

Correction(f) ==
  Stranger(f) /\ \E u \in Users, a \in Assets, role \in 0..2 : Corrects(f, u, a, role)

ListsInv ==
  /\ StatusesInv /\ EntriesInv
  /\ \A h \in Handlers : UndecidedInv(h)
  /\ \A f \in flight : ListClaim(f) /\ (FromHandler(f) \/ Correction(f))

ChannelInv == StateInv /\ OneAwaited /\ ListsInv

\* The lists and the settled transactions only ever grow.
Grows ==
  /\ Counter' \in Nat /\ Counter <= Counter'
  /\ \A id \in TransactionIDs :
       id <= Counter /\ infoOf(id).status # Reviewing => infoOf(id)' = infoOf(id)
  /\ \A u \in Users, id \in TransactionIDs :
       /\ ListOf(u)[id] # NoEntry => ListOf(u)'[id] # NoEntry
       /\ Closed(u, id) => ListOf(u)'[id] # NoEntry /\ ~ListOf(u)'[id].active

-----------------------------------------------------------------------------
(* What a login knows.                                                     *)

\* The list has been read.
ListRead(l) == lpc[l] \in {"GetTransactionInfo", "UpdateTransactionList", "ok"}

Repairs(l, id) == lpc[l] = "UpdateTransactionList" /\ repairing[l] = id

\* The launches its user was told of are for sale and listed.
PromisesKept(l) ==
  \A id \in promised[l] :
    id \in TransactionIDs /\ InProgress(id) /\ ListOf(userDID[l])[id] # NoEntry

\* What it has read of one entry, and of the status of one transaction.
EntryRead(l, id) ==
  tradeList[l][id] # NoEntry =>
    /\ ListOf(userDID[l])[id] # NoEntry
    /\ ~tradeList[l][id].active => Closed(userDID[l], id)
    /\ id \in todo[l] \/ trades[l][id] # NoInfo

TradeRead(l, id) ==
  trades[l][id] # NoInfo =>
    /\ id \notin todo[l] /\ tradeList[l][id] # NoEntry
    /\ trades[l][id].status \in Statuses
    /\ trades[l][id].status = Rejected =>
         IsRejected(id) /\ (Closed(userDID[l], id) \/ Repairs(l, id))

PromiseRead(l, id) ==
  tradeList[l][id] # NoEntry /\ (trades[l][id] # NoInfo => trades[l][id].status # Rejected)

Reading(l) ==
  /\ lpc[l] \in {"idle", "GetTransactionList"} => trades[l] = Nothing
  /\ lpc[l] # "idle" => userDID[l] \in Users /\ PromisesKept(l)
  /\ ListRead(l) => /\ \A id \in TransactionIDs : EntryRead(l, id) /\ TradeRead(l, id)
                    /\ \A id \in promised[l] : PromiseRead(l, id)
  /\ lpc[l] = "UpdateTransactionList" =>
       /\ repairing[l] \in TransactionIDs /\ trades[l][repairing[l]] # NoInfo
       /\ trades[l][repairing[l]].status = Rejected
  /\ lpc[l] = "ok" => todo[l] = {}

\* The invocations a login waits for are of its correction.
Awaited(f) ==
  f.by \in Logins =>
    Repairs(f.by, f.id) /\ f.reads = {userTransactionListKey(userDID[f.by])}

LoginsInv ==
  LoginTypeOK /\ (\A l \in Logins : Reading(l)) /\ (\A f \in flight : Awaited(f))

LoginInv == ChannelInv /\ LoginsInv

-----------------------------------------------------------------------------
(* Facts about a state of the channel.                                     *)

LEMMA StatusesDiffer ==
  /\ Reviewing # Rejected /\ Reviewing # LedgerOf!transactionStatusInProgress
  /\ Rejected # LedgerOf!transactionStatusInProgress
  /\ ~isTradeStatusActive(Rejected) /\ isTradeStatusActive(Reviewing)
  /\ isTradeStatusActive(LedgerOf!transactionStatusInProgress)
BY DEF Reviewing, Rejected, isTradeStatusActive, LedgerOf!transactionStatusReviewing,
   LedgerOf!transactionStatusRejected, LedgerOf!transactionStatusInProgress

LEMMA ChannelFacts ==
  ASSUME ChannelInv
  PROVE  /\ SharedInv /\ StateInv /\ WorldInv /\ HandlersInv /\ HandlerTypes
         /\ \A h \in Handlers : Progress(h) /\ Records(h)
         /\ \A f \in flight : Invocation(f)
         /\ Counter \in Nat /\ MaxUint \in Nat
         /\ \A id \in TransactionIDs : id \in Nat /\ id # 0 /\ id \in 0..MaxUint
         /\ \A id \in TransactionIDs : id <= Counter => infoOf(id) \in Info /\ infoOf(id) # NoInfo
         /\ \A id \in TransactionIDs : infoOf(id) # NoInfo => id <= Counter
         /\ \A id \in 0..MaxUint : id # 0 => id \in TransactionIDs
<1>1. SharedInv /\ \A f \in flight : Invocation(f)
  BY DEF ChannelInv, ListsInv, SharedInv, Correction, Stranger, FromHandler, IsFrom, From
<1>2. WorldInv /\ HandlersInv /\ HandlerTypes /\ \A h \in Handlers : Progress(h) /\ Records(h)
  BY DEF ChannelInv, StateInv, HandlersInv
<1>3. /\ Counter \in Nat /\ MaxUint \in Nat
      /\ \A id \in TransactionIDs : id \in Nat /\ id # 0 /\ id \in 0..MaxUint
      /\ \A id \in 0..MaxUint : id # 0 => id \in TransactionIDs
  BY <1>2, ChannelAssumption DEF WorldInv, TransactionIDs
<1> QED
  BY <1>1, <1>2, <1>3, RecordsArePresent DEF WorldInv, ChannelInv

\* A transaction in progress has settled, and was not rejected.
LEMMA ProgressIsSettled ==
  ASSUME ChannelInv, NEW id \in TransactionIDs, InProgress(id)
  PROVE  id <= Counter /\ infoOf(id).status # Reviewing /\ infoOf(id).status # Rejected
BY ChannelFacts, StatusesDiffer DEF InProgress

\* A launch on its way to a sale, or with one, has a transaction that is not
\* rejected.
LEMMA LaunchesAreOpen ==
  ASSUME ChannelInv, NEW h \in Handlers,
         pc[h] \in Undecided \cup {"LoadAndCache"} \/ Answered(h, "approved")
  PROVE  /\ txid[h] \in TransactionIDs /\ txid[h] <= Counter
         /\ infoOf(txid[h]).status # Rejected
<1>1. Progress(h) /\ Records(h) /\ txid[h] \in 0..MaxUint
  BY ChannelFacts DEF HandlerTypes
<1>2. txid[h] # 0
  BY <1>1, Steps DEF Progress, Undecided, Answered
<1>3. txid[h] \in TransactionIDs /\ txid[h] <= Counter
  BY <1>1, <1>2, ChannelFacts DEF Records
<1>4. CASE pc[h] \in Undecided
  BY <1>3, <1>4, StatusesDiffer DEF ChannelInv, ListsInv, UndecidedInv
<1>5. CASE pc[h] = "LoadAndCache" \/ Answered(h, "approved")
  BY <1>1, <1>3, <1>5, StatusesDiffer DEF Records, HasSale, InProgress
<1> QED
  BY <1>3, <1>4, <1>5

-----------------------------------------------------------------------------
(* What a step makes of the invocations.                                   *)

\* Every invocation was there before.
FlightMoves == \A g \in flight' : \E f \in flight : Keeps(g, f)

LEMMA RejectedStays ==
  ASSUME ChannelInv, Grows, NEW id \in TransactionIDs, IsRejected(id)
  PROVE  IsRejected(id)'
<1>1. infoOf(id)' = infoOf(id)
  BY StatusesDiffer DEF Grows, IsRejected
<1>2. id <= Counter'
  BY ChannelFacts DEF Grows, IsRejected
<1> QED
  BY <1>1, <1>2 DEF IsRejected, Rejected

LEMMA ClaimStays ==
  ASSUME ChannelInv, Grows, NEW f, Invocation(f), NEW g, Keeps(g, f)
  PROVE  /\ ListClaim(f) => ListClaim(g)'
         /\ Correction(f) => Correction(g)'
<1>1. /\ g.id = f.id /\ g.reply = f.reply /\ g.reads = f.reads /\ g.writes = f.writes
      /\ (f.stale => g.stale) /\ Invocation(g) /\ g.by \in {f.by, Nobody}
      /\ (~g.stale => \A k \in f.reads : world'[k] = world[k])
      /\ f.id \in TransactionIDs
  BY DEF Keeps, Remains, Invocation
<1>2. IsRejected(f.id) => IsRejected(f.id)'
  BY <1>1, RejectedStays
<1>3. ASSUME ~g.stale, NEW u \in Users, userTransactionListKey(u) \in g.reads
      PROVE  ListOf(u)' = ListOf(u)
  BY <1>1, <1>3 DEF ListOf
<1>4. ListClaim(f) => ListClaim(g)'
  BY <1>1, <1>2, <1>3 DEF ListClaim, IsRejected
<1>5. ASSUME Correction(f) PROVE Correction(g)'
  <2>1. PICK u \in Users, a \in Assets, role \in 0..2 : Corrects(f, u, a, role)
    BY <1>5 DEF Correction
  <2>2. userTransactionListKey(u) \in g.reads
    BY <1>1, <2>1 DEF Corrects
  <2>3. ~g.stale => ListOf(u)' = ListOf(u)
    BY <1>3, <2>2
  <2>4. Corrects(g, u, a, role)'
    BY <1>1, <1>2, <2>1, <2>3 DEF Corrects, ListSet, IsRejected
  <2>5. Stranger(g)
    BY <1>1, <1>5, HandlersAssumption DEF Correction, Stranger
  <2> QED
    BY <2>4, <2>5 DEF Correction, Stranger, Invocation
<1> QED
  BY <1>4, <1>5

LEMMA InvocationsStay ==
  ASSUME ChannelInv, Grows, FlightKept, FlightMoves
  PROVE  \A g \in flight' : ListClaim(g)' /\ (FromHandler(g)' \/ Correction(g)')
<1> SUFFICES ASSUME NEW g \in flight'
             PROVE  ListClaim(g)' /\ (FromHandler(g)' \/ Correction(g)')
  OBVIOUS
<1>1. ListClaim(g)'
  BY ChannelFacts, ClaimStays DEF FlightMoves, ChannelInv, ListsInv
<1>2. ASSUME NEW f \in flight, ~FromHandler(f), Keeps(g, f) PROVE Correction(g)'
  BY <1>2, ChannelFacts, ClaimStays DEF ChannelInv, ListsInv
<1> QED
  BY <1>1, <1>2 DEF FlightKept

LEMMA OvertakenMoves ==
  ASSUME ChannelInv, NEW S \in SUBSET flight, NEW keys,
         flight' = Overtaken(S, keys), IsFunction,
         \A k \in WorldKeys \ keys : world'[k] = world[k]
  PROVE  FlightMoves
<1> SUFFICES ASSUME NEW g \in flight' PROVE \E f \in flight : Keeps(g, f)
  BY DEF FlightMoves
<1>1. PICK f \in S : Remains(g, f) /\ (g.stale <=> f.stale \/ f.reads \cap keys # {})
  BY ChannelFacts, OvertakenInvocations
<1>2. f.reads \subseteq WorldKeys
  BY ChannelFacts DEF Invocation
<1> QED
  BY <1>1, <1>2 DEF Keeps

LEMMA KeptMoves ==
  ASSUME ChannelInv, UNCHANGED world,
         \A g \in flight' : g \in flight \/ \E f \in flight : g = [f EXCEPT !.by = Nobody]
  PROVE  FlightMoves
<1> SUFFICES ASSUME NEW g \in flight' PROVE \E f \in flight : Keeps(g, f)
  BY DEF FlightMoves
<1>1. CASE g \in flight
  BY <1>1, ChannelFacts, RemainsItself DEF Keeps
<1>2. ASSUME NEW f \in flight, g = [f EXCEPT !.by = Nobody] PROVE Keeps(g, f)
  BY <1>2, ChannelFacts, AbandonedInvocation DEF Keeps
<1> QED
  BY <1>1, <1>2

-----------------------------------------------------------------------------
(* The steps that write nothing.                                           *)

\* No launch comes to a call before its sale that it had not come to.
PlacesKept ==
  \A h \in Handlers :
    pc'[h] \in Undecided =>
      pc[h] \in Undecided /\ txid'[h] = txid[h] /\ (pc'[h] = "ListActive" => pc[h] = "ListActive")

LEMMA NothingWrittenLists ==
  ASSUME ChannelInv, UNCHANGED world
  PROVE  Grows /\ StatusesInv' /\ EntriesInv' /\ (PlacesKept => \A h \in Handlers : UndecidedInv(h)')
<1>1. /\ Counter' = Counter /\ \A id \in TransactionIDs : infoOf(id)' = infoOf(id)
      /\ \A u \in Users : ListOf(u)' = ListOf(u)
  BY DEF Counter, infoOf, ListOf
<1>2. Grows
  BY <1>1, ChannelFacts DEF Grows, Closed
<1>3. StatusesInv' /\ EntriesInv'
  BY <1>1 DEF ChannelInv, ListsInv, StatusesInv, EntriesInv, Closed, IsRejected, Statuses,
     Reviewing, Rejected
<1>4. ASSUME PlacesKept, NEW h \in Handlers PROVE UndecidedInv(h)'
  <2> SUFFICES ASSUME pc'[h] \in Undecided PROVE UndecidedInv(h)'
    BY DEF UndecidedInv, Undecided
  <2>1. pc[h] \in Undecided /\ txid'[h] = txid[h] /\ (pc'[h] = "ListActive" => pc[h] = "ListActive")
    BY <1>4 DEF PlacesKept
  <2>2. PICK i \in TransactionIDs : i = txid[h]
    BY <2>1, LaunchesAreOpen
  <2>3. /\ infoOf(i).status = Reviewing
        /\ pc[h] = "ListActive" => \A u \in Users : ListOf(u)[i] = NoEntry
    BY <2>1, <2>2 DEF ChannelInv, ListsInv, UndecidedInv
  <2>4. /\ (infoOf(i).status)' = Reviewing
        /\ pc[h] = "ListActive" => \A u \in Users : (ListOf(u)[i])' = NoEntry
    BY <1>1, <2>3
  <2> QED
    BY <2>1, <2>2, <2>4 DEF UndecidedInv, infoOf, ListOf, Reviewing
<1> QED
  BY <1>2, <1>3, <1>4

\* A step that writes nothing and begins no invocation.
LEMMA QuietLists ==
  ASSUME ChannelInv, InvKept, UNCHANGED world, PlacesKept, FlightMoves
  PROVE  ChannelInv' /\ Grows
<1>1. Grows /\ StatusesInv' /\ EntriesInv' /\ \A h \in Handlers : UndecidedInv(h)'
  BY NothingWrittenLists
<1>2. \A g \in flight' : ListClaim(g)' /\ (FromHandler(g)' \/ Correction(g)')
  BY <1>1, InvocationsStay DEF InvKept
<1> QED
  BY <1>1, <1>2 DEF ChannelInv, ListsInv, InvKept

\* A launch that fails or goes on by itself.
LEMMA FailsPlaces ==
  ASSUME ChannelInv, NEW h \in Handlers, NEW v, Fails(h, v)
  PROVE  PlacesKept
<1>1. /\ \A k \in Handlers : txid'[k] = txid[k]
      /\ \A k \in Handlers \ {h} : pc'[k] = pc[k] /\ pc'[h] = AfterFailure(pc[h])
  BY ChannelFacts DEF Fails, HandlerTypes
<1>2. pc'[h] \notin Undecided
  BY ChannelFacts DEF Fails, HandlerTypes, AfterFailure, Undecided
<1> QED
  BY <1>1, <1>2 DEF PlacesKept

LEMMA HandlerLists ==
  ASSUME ChannelInv, NEW h \in Handlers, Receive(h) \/ Handler(h) \/ CallFails(h), ~Endorse(h)
  PROVE  ChannelInv' /\ Grows
<1>1. InvKept
  BY ChannelFacts, LaunchSteps
<1>2. UNCHANGED world /\ UNCHANGED flight
  BY DEF Receive, Handler, Refuse, CheckStatus, Review, LoadAndCache, CallFails
<1>3. FlightMoves
  BY <1>2, KeptMoves
<1>4. PlacesKept
  <2>1. CASE \E v : Fails(h, v)
    BY <2>1, FailsPlaces
  <2>2. CASE Receive(h)
    BY <2>2, ChannelFacts DEF Receive, HandlerTypes, PlacesKept, Undecided
  <2>3. CASE \/ pc[h] = "CheckStatus" /\ pc' = [pc EXCEPT ![h] = "SetPending"] /\ UNCHANGED txid
             \/ pc[h] = "Review" /\ pc' = [pc EXCEPT ![h] = "ApproveStatus"] /\ UNCHANGED txid
             \/ pc' = [pc EXCEPT ![h] = "done"] /\ UNCHANGED txid
    BY <2>3, ChannelFacts DEF HandlerTypes, PlacesKept, Undecided
  <2> QED
    BY <2>1, <2>2, <2>3 DEF Handler, Refuse, CheckStatus, Review, LoadAndCache, CallFails
<1> QED
  BY <1>1, <1>2, <1>3, <1>4, QuietLists

LEMMA InvalidatedLists ==
  ASSUME ChannelInv, NEW f \in flight, f.by \in Handlers \cup {Nobody},
         Invalidate(f) \/ LoseAnswer(f) \/ Discard(f)
  PROVE  ChannelInv' /\ Grows
<1>1. InvKept /\ UNCHANGED world
  BY ChannelFacts, LaunchSteps DEF Invalidate, LoseAnswer, Discard
<1>2. FlightMoves
  BY <1>1, KeptMoves DEF Invalidate, LoseAnswer, Discard
<1>3. PlacesKept
  <2>1. CASE UNCHANGED <<pc, txid>>
    BY <2>1 DEF PlacesKept
  <2>2. CASE f.by # Nobody /\ Fails(f.by, "error")
    BY <2>2, FailsPlaces
  <2> QED
    BY <2>1, <2>2 DEF Invalidate, LoseAnswer, Discard
<1> QED
  BY <1>1, <1>2, <1>3, QuietLists

LEMMA CrashLists == ASSUME ChannelInv, Crash PROVE ChannelInv' /\ Grows
<1>1. InvKept /\ UNCHANGED world
  BY ChannelFacts, LaunchSteps DEF Crash
<1>2. FlightMoves
  BY <1>1, KeptMoves DEF Crash
<1>3. PlacesKept
  BY Steps DEF Crash, PlacesKept, Undecided
<1> QED
  BY <1>1, <1>2, <1>3, QuietLists

-----------------------------------------------------------------------------
(* The steps that begin an invocation.                                     *)

\* What an update of a list claims when it is made.
LEMMA ListSetMeans ==
  ASSUME WorldInv, NEW u \in Users, NEW id \in TransactionIDs, NEW a \in Assets,
         NEW role \in 0..2, NEW active \in BOOLEAN, NEW f, ListSet(f, u, id, a, role, active),
         ~f.stale
  PROVE  ListClaim(f) <=> IF active THEN ListOf(u)[id] = NoEntry ELSE IsRejected(id)
<1> DEFINE new == LedgerOf!UpdatedList(ListOf(u), id, a, role, active)
<1>1. f.id = id /\ f.reads = {userTransactionListKey(u)}
      /\ f.writes = write(userTransactionListKey(u), new)
  BY DEF ListSet
<1>2. new[id].active = active
  BY UpdatedListEntries DEF WorldInv
<1> HIDE DEF new
<1>3. f.writes[userTransactionListKey(u)][f.id].active = active
  BY <1>1, <1>2 DEF write
<1>4. \A v : userTransactionListKey(v) \in f.reads <=> v = u
  BY <1>1, KeysDiffer
<1> QED
  BY <1>1, <1>3, <1>4 DEF ListClaim

LEMMA EndorsedClaim ==
  ASSUME ChannelInv, NEW h \in Handlers, NEW step \in Submits, step = pc[h], NEW start \in Times,
         NEW r \in Requests, NEW id \in 0..MaxUint, NEW f, From(f, h, step, start, r, id)
  PROVE  ListClaim(f)
<1> USE RequestFields
<1> SUFFICES ASSUME ~f.stale PROVE ListClaim(f)
  BY DEF ListClaim
<1>1. Says(f, step, r, id, start) /\ id = txid[h] /\ (id = 0 <=> step = "AddNewTransaction")
      /\ f.reply \in BOOLEAN
  BY DEF From, Invocation
<1>2. CASE step \in {"ListActive", "ListInactive"}
  <2>1. id \in TransactionIDs /\ LedgerOf!transactionRoleSeller \in 0..2
    BY <1>1, <1>2, ChannelFacts DEF LedgerOf!transactionRoleSeller
  <2>2. UndecidedInv(h) /\ Records(h) /\ WorldInv
    BY ChannelFacts DEF ChannelInv, ListsInv
  <2>3. CASE step = "ListActive"
    <3>1. ListSet(f, r.user, id, r.asset, LedgerOf!transactionRoleSeller, TRUE)
      BY <1>1, <2>3 DEF Says
    <3>2. ListOf(r.user)[id] = NoEntry
      BY <1>1, <2>2, <2>3 DEF UndecidedInv
    <3> QED
      BY <2>1, <2>2, <3>1, <3>2, ListSetMeans
  <2>4. CASE step = "ListInactive"
    <3>1. ListSet(f, r.user, id, r.asset, LedgerOf!transactionRoleSeller, FALSE)
      BY <1>1, <2>4 DEF Says
    <3>2. IsRejected(id)
      BY <1>1, <2>2, <2>4 DEF Records, IsRejected
    <3> QED
      BY <2>1, <2>2, <3>1, <3>2, ListSetMeans
  <2> QED
    BY <1>2, <2>3, <2>4
<1>3. CASE step \notin {"ListActive", "ListInactive"}
  <2>1. \A u : userTransactionListKey(u) \notin f.reads
    BY <1>1, <1>3, KeysDiffer, Steps
       DEF Says, Added, StatusSet, TransactionRejected, TransactionStarted
  <2> QED
    BY <2>1 DEF ListClaim
<1> QED
  BY <1>2, <1>3

LEMMA BegunLists ==
  ASSUME ChannelInv, UNCHANGED <<world, pc, request, txid, answer, cache>>,
         NEW f, flight' = flight \cup {f}, \A g \in flight : g.by # f.by,
         Invocation(f), ListClaim(f), FromHandler(f) \/ Correction(f)
  PROVE  ChannelInv' /\ Grows
<1>1. StateInv' /\ OneAwaited'
  BY StateUnchanged DEF ChannelInv, OneAwaited, OneEach
<1>2. Grows /\ StatusesInv' /\ EntriesInv' /\ \A h \in Handlers : UndecidedInv(h)'
  BY NothingWrittenLists DEF PlacesKept
<1>3. Keeps(f, f)
  BY RemainsItself DEF Keeps
<1>4. ListClaim(f)' /\ (Correction(f) => Correction(f)')
  BY <1>2, <1>3, ClaimStays
<1>5. ASSUME FromHandler(f) PROVE FromHandler(f)'
  <2>1. PICK h \in Handlers, step \in Submits, start \in Times, r \in Requests,
             id \in 0..MaxUint : From(f, h, step, start, r, id)
    BY <1>5 DEF FromHandler, IsFrom
  <2>2. From(f, h, step, start, r, id)'
    BY <2>1, FromUnchanged
  <2> QED
    BY <2>2 DEF FromHandler, IsFrom
<1>6. ASSUME NEW g \in flight PROVE ListClaim(g)' /\ (FromHandler(g)' \/ Correction(g)')
  <2>1. Keeps(g, g) /\ Invocation(g)
    BY ChannelFacts, RemainsItself DEF Keeps
  <2>2. ListClaim(g)' /\ (Correction(g) => Correction(g)')
    BY <1>2, <2>1, ClaimStays DEF ChannelInv, ListsInv
  <2>3. FromHandler(g)' \/ ~FromHandler(g)
    BY ChannelFacts, FlightUnchanged
  <2> QED
    BY <2>2, <2>3 DEF ChannelInv, ListsInv
<1> QED
  BY <1>1, <1>2, <1>4, <1>5, <1>6 DEF ChannelInv, ListsInv

LEMMA EndorseLists == ASSUME ChannelInv, NEW h \in Handlers, Endorse(h) PROVE ChannelInv' /\ Grows
<1>1. PICK start \in Times :
        /\ ~Call(h, start).refused
        /\ flight' = flight \cup
             {[by |-> h, id |-> Call(h, start).id, reply |-> Call(h, start).reply,
               reads |-> Call(h, start).reads, writes |-> Call(h, start).writes, stale |-> FALSE]}
  BY DEF Endorse
<1>2. PICK f : /\ f = [by |-> h, id |-> Call(h, start).id, reply |-> Call(h, start).reply,
                       reads |-> Call(h, start).reads, writes |-> Call(h, start).writes,
                       stale |-> FALSE]
  OBVIOUS
<1>3. /\ pc[h] \in Submits /\ UNCHANGED <<world, pc, request, txid, answer, cache, spent>>
      /\ \A g \in flight : g.by # h
  BY DEF Endorse, Waiting
<1>4. PICK r \in Requests, id \in 0..MaxUint, step \in Submits :
        step = pc[h] /\ From(f, h, step, start, r, id)
  BY <1>1, <1>2, <1>3, EndorsedFrom, ChannelFacts
<1>5. f.by = h /\ flight' = flight \cup {f}
  BY <1>1, <1>2
<1>6. ListClaim(f) /\ Invocation(f) /\ FromHandler(f)
  BY <1>4, EndorsedClaim DEF FromHandler, IsFrom, From
<1> QED
  BY <1>3, <1>5, <1>6, BegunLists

-----------------------------------------------------------------------------
(* The steps that write.                                                   *)

\* An update of a list that is right about its transaction.
LEMMA ReplacedLists ==
  ASSUME ChannelInv, NEW u \in Users, NEW id \in TransactionIDs, id <= Counter,
         NEW a \in Assets, NEW role \in 0..2, NEW active \in BOOLEAN,
         EntryReplaced(u, id, a, role, active),
         IF active THEN ListOf(u)[id] = NoEntry ELSE IsRejected(id)
  PROVE  /\ Grows /\ StatusesInv' /\ EntriesInv'
         /\ \A v \in Users, j \in TransactionIDs \ {id} : ListOf(v)'[j] = ListOf(v)[j]
         /\ \A v \in Users : v # u => ListOf(v)' = ListOf(v)
         /\ ListOf(u)'[id] # NoEntry /\ ListOf(u)'[id].active = active
<1>1. /\ \A j \in TransactionIDs \ {id} : ListOf(u)'[j] = ListOf(u)[j]
      /\ ListOf(u)'[id] # NoEntry /\ ListOf(u)'[id].active = active
  BY ChannelFacts, UpdatedListEntries DEF EntryReplaced, WorldInv
<1>2. \A v \in Users : v # u => ListOf(v)' = ListOf(v)
  BY DEF EntryReplaced
<1>3. Counter' = Counter /\ \A j \in TransactionIDs : infoOf(j)' = infoOf(j)
  BY DEF EntryReplaced, InfosKept
<1>4. \A v \in Users, j \in TransactionIDs :
        \/ ListOf(v)'[j] = ListOf(v)[j]
        \/ v = u /\ j = id
  BY <1>1, <1>2
<1>5. Grows
  BY <1>1, <1>3, <1>4, ChannelFacts DEF Grows, Closed
<1>6. StatusesInv'
  BY <1>3 DEF ChannelInv, ListsInv, StatusesInv, Statuses, Reviewing, Rejected
<1>7. EntriesInv'
  <2> SUFFICES ASSUME NEW v \in Users, NEW j \in TransactionIDs
               PROVE  /\ ListOf(v)'[j] # NoEntry => j <= Counter'
                      /\ ListOf(v)'[j] # NoEntry /\ ~ListOf(v)'[j].active =>
                           j <= Counter' /\ infoOf(j)'.status = Rejected
    BY DEF EntriesInv, Closed, IsRejected, Rejected
  <2>1. CASE ListOf(v)'[j] = ListOf(v)[j]
    BY <1>3, <2>1 DEF ChannelInv, ListsInv, EntriesInv, Closed, IsRejected
  <2>2. CASE v = u /\ j = id
    BY <1>1, <1>3, <2>2 DEF IsRejected
  <2> QED
    BY <1>4, <2>1, <2>2
<1> QED
  BY <1>1, <1>2, <1>4, <1>5, <1>6, <1>7

\* A launch whose place, transaction and records stay.
LEMMA UndecidedStays ==
  ASSUME ChannelInv, NEW h \in Handlers, pc'[h] = pc[h], txid'[h] = txid[h],
         \A i \in TransactionIDs :
           i = txid[h] /\ pc[h] \in Undecided =>
             /\ infoOf(i)' = infoOf(i)
             /\ pc[h] = "ListActive" => \A u \in Users : ListOf(u)'[i] = ListOf(u)[i]
  PROVE  UndecidedInv(h)'
<1> SUFFICES ASSUME pc[h] \in Undecided PROVE UndecidedInv(h)'
  BY DEF UndecidedInv, Undecided
<1>1. PICK i \in TransactionIDs : i = txid[h]
  BY LaunchesAreOpen
<1>2. /\ infoOf(i).status = Reviewing
      /\ pc[h] = "ListActive" => \A u \in Users : ListOf(u)[i] = NoEntry
  BY <1>1 DEF ChannelInv, ListsInv, UndecidedInv
<1>3. /\ infoOf(i)'.status = Reviewing
      /\ pc[h] = "ListActive" => \A u \in Users : ListOf(u)'[i] = NoEntry
  BY <1>1, <1>2
<1> QED
  BY <1>1, <1>3 DEF UndecidedInv, infoOf, ListOf, Reviewing

LEMMA MovedScoreLists ==
  ASSUME ChannelInv, NEW u \in Users, NEW score \in ScoreInputs, MoveScore(u, score)
  PROVE  ChannelInv' /\ Grows
<1> DEFINE key == tradingIdentityKey(u)
           x == [Identity(u) EXCEPT !.sellerScore = score]
<1>1. /\ InvKept /\ WorldInv /\ UNCHANGED <<pc, txid>>
      /\ flight' = Overtaken(flight, {key})
  BY ChannelFacts, LaunchSteps DEF MoveScore
<1>2. Stored(key, x)
  BY <1>1 DEF MoveScore, WorldInv, IsFunction, Identity, Stored
<1> HIDE DEF x
<1>3. /\ Counter' = Counter /\ \A id \in TransactionIDs : infoOf(id)' = infoOf(id)
      /\ \A v \in Users : ListOf(v)' = ListOf(v)
  BY <1>2, StoredIdentity DEF InfosKept, ListsKept
<1>4. FlightMoves
  <2>1. \A k \in WorldKeys \ {key} : world'[k] = world[k]
    BY <1>2 DEF Stored
  <2>2. flight \in SUBSET flight /\ IsFunction
    BY <1>1 DEF WorldInv
  <2> QED
    BY <1>1, <2>1, <2>2, OvertakenMoves
<1>5. Grows
  BY <1>3, ChannelFacts DEF Grows, Closed
<1>6. StatusesInv' /\ EntriesInv'
  BY <1>3 DEF ChannelInv, ListsInv, StatusesInv, EntriesInv, Closed, IsRejected, Statuses,
     Reviewing, Rejected
<1>7. \A h \in Handlers : UndecidedInv(h)'
  BY <1>1, <1>3, UndecidedStays
<1> QED
  BY <1>1, <1>4, <1>5, <1>6, <1>7, InvocationsStay DEF ChannelInv, ListsInv, InvKept

\* A commit of a launch.
LEMMA EffectStatuses ==
  ASSUME ChannelInv, NEW f, NEW step \in Submits, NEW r \in Requests, NEW id \in 0..Counter,
         id # 0 => id \in TransactionIDs, (id = 0) <=> (step = "AddNewTransaction"),
         NEW start \in Times, Effect(f, step, r, id, start)
  PROVE  StatusesInv'
<1> SUFFICES ASSUME NEW j \in TransactionIDs, infoOf(j)' # NoInfo
             PROVE  infoOf(j)'.status \in Statuses
  BY DEF StatusesInv, Statuses, Reviewing, Rejected
<1>1. CASE infoOf(j)' = infoOf(j)
  BY <1>1 DEF ChannelInv, ListsInv, StatusesInv
<1>2. CASE step = "AddNewTransaction"
  <2>1. TransactionAdded(f.id, r)
    BY <1>2 DEF Effect
  <2>2. j = f.id => infoOf(j)'.status = Reviewing
    BY <2>1 DEF TransactionAdded, LedgerOf!ReviewingInfo, Reviewing
  <2> QED
    BY <1>1, <2>1, <2>2 DEF TransactionAdded, Statuses
<1>3. CASE step \in {"StartTransaction", "RejectTransaction"}
  <2>1. infoOf(id) \in Info
    <3>1. id \in TransactionIDs /\ id <= Counter
      BY <1>3, ChannelFacts
    <3> QED
      BY <3>1, ChannelFacts
  <2>2. CASE step = "StartTransaction" /\ f.reply
    <3> DEFINE x == LedgerOf!StartedInfo(infoOf(id), r.price, r.mode, start, r.final)
    <3>1. x.status = LedgerOf!transactionStatusInProgress
      BY <2>1, StartedInfoType
    <3>2. InfoReplaced(id, x)
      BY <2>2 DEF Effect
    <3> HIDE DEF x
    <3> QED
      BY <1>1, <3>1, <3>2 DEF InfoReplaced, Statuses
  <2>3. CASE step = "RejectTransaction" /\ f.reply
    <3> DEFINE x == [infoOf(id) EXCEPT !.status = Rejected]
    <3>1. x.status = Rejected
      BY <2>1, RejectedInfoType
    <3>2. InfoReplaced(id, x)
      BY <2>3 DEF Effect
    <3> HIDE DEF x
    <3> QED
      BY <1>1, <3>1, <3>2 DEF InfoReplaced, Statuses
  <2>4. CASE ~f.reply
    BY <1>1, <1>3, <2>4 DEF Effect, NothingReplaced, InfosKept
  <2> QED
    BY <1>3, <2>2, <2>3, <2>4
<1>4. CASE step \in {"ListActive", "ListInactive", "SetPending", "ApproveStatus", "RestoreStatus"}
  BY <1>1, <1>4 DEF Effect, EntryReplaced, StatusReplaced, InfosKept
<1> QED
  BY <1>2, <1>3, <1>4, Steps

LEMMA CommittedLists ==
  ASSUME ChannelInv, NEW f \in flight, FromHandler(f), Commit(f)
  PROVE  ChannelInv' /\ Grows
<1> USE RequestFields
<1>1. PICK h \in Handlers, step \in Submits, start \in Times, r \in Requests, id \in 0..MaxUint :
        From(f, h, step, start, r, id)
  BY DEF FromHandler, IsFrom
<1>2. /\ r = request[h] /\ id = txid[h] /\ id \in 0..Counter
      /\ ((id = 0) <=> (step = "AddNewTransaction"))
      /\ Effect(f, step, r, id, start) /\ HistoryKept(id)
      /\ f.id \in TransactionIDs /\ f.reply \in BOOLEAN /\ (id # 0 => f.id = id)
  BY <1>1, CommittedFrom, ChannelFacts
<1>3. /\ InvKept /\ WorldInv /\ HandlerTypes /\ ListClaim(f) /\ ~f.stale
      /\ flight' = Overtaken(flight \ {f}, DOMAIN f.writes)
      /\ \A k \in WorldKeys \ DOMAIN f.writes : world'[k] = world[k]
      /\ (id # 0 => id \in TransactionIDs /\ id <= Counter)
      /\ Counter \in Nat /\ Says(f, step, r, id, start)
  BY <1>1, <1>2, ChannelFacts, LaunchSteps DEF Commit, Apply, ChannelInv, ListsInv, From
<1>4. FlightMoves
  BY <1>3, OvertakenMoves DEF WorldInv
<1>5. StatusesInv'
  BY <1>2, <1>3, EffectStatuses
<1>6. Grows /\ EntriesInv'
  <2>1. CASE step \in {"ListActive", "ListInactive"}
    <3> DEFINE role == LedgerOf!transactionRoleSeller
    <3>1. id \in TransactionIDs /\ id <= Counter /\ role \in 0..2
      BY <1>2, <1>3, <2>1 DEF LedgerOf!transactionRoleSeller
    <3>2. CASE step = "ListActive"
      <4>1. /\ EntryReplaced(r.user, id, r.asset, role, TRUE)
            /\ ListSet(f, r.user, id, r.asset, role, TRUE)
        BY <1>2, <1>3, <3>2 DEF Effect, Says
      <4> HIDE DEF role
      <4>2. ListOf(r.user)[id] = NoEntry
        BY <1>3, <3>1, <4>1, ListSetMeans
      <4> QED
        BY <3>1, <4>1, <4>2, ReplacedLists
    <3>3. CASE step = "ListInactive"
      <4>1. /\ EntryReplaced(r.user, id, r.asset, role, FALSE)
            /\ ListSet(f, r.user, id, r.asset, role, FALSE)
        BY <1>2, <1>3, <3>3 DEF Effect, Says
      <4> HIDE DEF role
      <4>2. IsRejected(id)
        BY <1>3, <3>1, <4>1, ListSetMeans
      <4> QED
        BY <3>1, <4>1, <4>2, ReplacedLists
    <3> QED
      BY <2>1, <3>2, <3>3
  <2>2. CASE step \notin {"ListActive", "ListInactive"}
    <3>1. \A u \in Users : ListOf(u)' = ListOf(u)
      BY <1>2, <2>2, Steps DEF Effect, TransactionAdded, StatusReplaced, InfoReplaced,
         NothingReplaced, ListsKept
    <3>2. Grows
      <4>1. \A j \in TransactionIDs : j <= Counter => j \in 1..Counter
        BY <1>3 DEF TransactionIDs
      <4> QED
        BY <1>2, <3>1, <4>1 DEF Grows, Closed, HistoryKept
    <3>3. EntriesInv'
      <4> SUFFICES ASSUME NEW v \in Users, NEW j \in TransactionIDs
                   PROVE  /\ ListOf(v)[j] # NoEntry => j <= Counter'
                          /\ Closed(v, j) => IsRejected(j)'
        BY <3>1 DEF EntriesInv, Closed
      <4>1. /\ ListOf(v)[j] # NoEntry => j <= Counter
            /\ Closed(v, j) => IsRejected(j)
        BY DEF ChannelInv, ListsInv, EntriesInv
      <4>2. j \in Nat /\ Counter \in Nat /\ Counter' \in Nat /\ Counter <= Counter'
        BY <3>2, ChannelFacts DEF Grows
      <4> QED
        BY <3>2, <4>1, <4>2, RejectedStays
    <3> QED
      BY <3>2, <3>3
  <2> QED
    BY <2>1, <2>2
<1>7. ASSUME NEW k \in Handlers \ {h} PROVE UndecidedInv(k)'
  <2>1. pc'[k] = pc[k] /\ txid'[k] = txid[k]
    BY <1>1, <1>3 DEF Commit, Succeeds, Fails, HandlerTypes, From
  <2>2. ASSUME NEW i \in TransactionIDs, i = txid[k], pc[k] \in Undecided
        PROVE  infoOf(i)' = infoOf(i) /\ \A u \in Users : ListOf(u)'[i] = ListOf(u)[i]
    <3>1. i \in 1..Counter
      BY <1>3, <2>2, LaunchesAreOpen DEF TransactionIDs
    <3>2. i # id
      BY <1>2, <2>2, ChannelFacts DEF HandlersInv
    <3> QED
      BY <1>2, <3>1, <3>2 DEF HistoryKept
  <2> QED
    BY <2>1, <2>2, UndecidedStays
<1>8. UndecidedInv(h)'
  <2>1. CASE f.by = Nobody
    <3>1. pc'[h] = pc[h] /\ GaveUp(h)
      BY <1>1, <2>1, HandlersAssumption DEF Commit, From
    <3>2. pc[h] \notin Undecided
      BY <3>1, ChannelFacts DEF GaveUp, Progress, Undecided, Going
    <3> QED
      BY <3>1, <3>2 DEF UndecidedInv, Undecided
  <2>2. CASE f.by = h
    <3>1. /\ pc[h] = step
          /\ IF f.reply THEN Moved(h, AfterSuccess[step], f.id, answer[h])
             ELSE pc' = [pc EXCEPT ![h] = AfterFailure(step)]
      BY <1>1, <1>2, <1>3, <2>2, CommitMoves, HandlersAssumption DEF From, Moved
    <3>2. pc'[h] = IF f.reply THEN AfterSuccess[step] ELSE AfterFailure(step)
      BY <1>3, <3>1 DEF Moved, HandlerTypes
    <3> SUFFICES ASSUME pc'[h] \in Undecided PROVE UndecidedInv(h)'
      BY DEF UndecidedInv, Undecided
    <3>3. f.reply /\ step \in {"AddNewTransaction", "ListActive", "SetPending", "ApproveStatus"}
      BY <3>2, NextSteps, Steps DEF Undecided
    <3>4. txid'[h] = f.id
      BY <1>3, <3>1, <3>3 DEF Moved, HandlerTypes
    <3>5. PICK i \in TransactionIDs : i = f.id
      BY <1>2
    <3>6. CASE step = "AddNewTransaction"
      <4>1. TransactionAdded(i, r)
        BY <1>2, <3>5, <3>6 DEF Effect
      <4>2. infoOf(i)'.status = Reviewing
        BY <4>1 DEF TransactionAdded, LedgerOf!ReviewingInfo, Reviewing
      <4>3. \A u \in Users : ListOf(u)[i] = NoEntry
        <5>1. ~(i <= Counter)
          BY <1>3, <4>1 DEF TransactionAdded
        <5> QED
          BY <5>1 DEF ChannelInv, ListsInv, EntriesInv
      <4>4. \A u \in Users : ListOf(u)'[i] = NoEntry
        BY <4>1, <4>3 DEF TransactionAdded, ListsKept
      <4> QED
        BY <3>4, <3>5, <4>2, <4>4 DEF UndecidedInv, infoOf, ListOf, Reviewing
    <3>7. CASE step \in {"ListActive", "SetPending", "ApproveStatus"}
      <4>1. infoOf(i)' = infoOf(i) /\ i = txid[h]
        BY <1>2, <3>5, <3>7 DEF Effect, EntryReplaced, StatusReplaced, InfosKept
      <4>2. infoOf(i).status = Reviewing
        BY <3>1, <3>7, <4>1 DEF ChannelInv, ListsInv, UndecidedInv, Undecided
      <4>3. infoOf(i)'.status = Reviewing /\ pc'[h] # "ListActive"
        BY <3>2, <3>3, <3>7, <4>1, <4>2, NextSteps
      <4> QED
        BY <3>4, <3>5, <4>3 DEF UndecidedInv, infoOf, Reviewing
    <3> QED
      BY <3>3, <3>6, <3>7
  <2> QED
    BY <1>1, <2>1, <2>2 DEF From
<1> QED
  BY <1>3, <1>4, <1>5, <1>6, <1>7, <1>8, InvocationsStay DEF ChannelInv, ListsInv, InvKept

\* A correction that commits, awaited or given up for lost.
LEMMA CorrectedLists ==
  ASSUME ChannelInv, NEW f \in flight, Correction(f), ~FromHandler(f), Apply(f),
         UNCHANGED <<pc, request, txid, answer, cache>>
  PROVE  /\ ChannelInv' /\ Grows
         /\ \E u \in Users, a \in Assets, role \in 0..2 :
              /\ f.reads = {userTransactionListKey(u)} /\ f.id \in TransactionIDs
              /\ EntryReplaced(u, f.id, a, role, FALSE)
              /\ ListOf(u)'[f.id] # NoEntry /\ ~ListOf(u)'[f.id].active
<1>1. PICK u \in Users, a \in Assets, role \in 0..2 : Corrects(f, u, a, role)
  BY DEF Correction
<1>2. /\ WorldInv /\ StateInv /\ HandlersInv /\ HandlerTypes /\ SharedInv /\ Counter \in Nat
      /\ \A g \in flight : Invocation(g)
      /\ f.id \in TransactionIDs /\ ~f.stale
      /\ flight' = Overtaken(flight \ {f}, DOMAIN f.writes)
      /\ \A k \in WorldKeys \ DOMAIN f.writes : world'[k] = world[k]
  BY ChannelFacts DEF Apply, Invocation
<1>3. PICK id \in TransactionIDs : id = f.id
  BY <1>2
<1>4. /\ ListSet(f, u, id, a, role, FALSE) /\ ListOf(u)[id] # NoEntry
      /\ IsRejected(id) /\ id <= Counter
  BY <1>1, <1>2, <1>3 DEF Corrects, IsRejected
<1>5. EntryReplaced(u, id, a, role, FALSE) /\ WorldInv'
  BY <1>2, <1>4, ListWritten
<1>6. /\ Grows /\ StatusesInv' /\ EntriesInv'
      /\ \A v \in Users, j \in TransactionIDs \ {id} : ListOf(v)'[j] = ListOf(v)[j]
      /\ \A v \in Users : v # u => ListOf(v)' = ListOf(v)
      /\ ListOf(u)'[id] # NoEntry /\ ListOf(u)'[id].active = FALSE
  BY <1>4, <1>5, ReplacedLists
<1>7. Counter' = Counter /\ \A j \in TransactionIDs : infoOf(j)' = infoOf(j)
  BY <1>5 DEF EntryReplaced, InfosKept
<1>8. FlightMoves
  BY <1>2, OvertakenMoves DEF WorldInv
<1>9. \A h \in Handlers : UndecidedInv(h)'
  <2> SUFFICES ASSUME NEW h \in Handlers PROVE UndecidedInv(h)'
    OBVIOUS
  <2>1. ASSUME pc[h] = "ListActive" PROVE txid[h] # id
    <3>1. ListOf(u)[txid[h]] = NoEntry
      BY <2>1 DEF ChannelInv, ListsInv, UndecidedInv
    <3> QED
      BY <1>4, <3>1
  <2> QED
    BY <1>6, <1>7, <2>1, UndecidedStays
<1>10. \A h \in Handlers : Progress(h)' /\ Records(h)'
  <2> SUFFICES ASSUME NEW h \in Handlers PROVE Progress(h)' /\ Records(h)'
    OBVIOUS
  <2>1. Progress(h) /\ Records(h) /\ txid[h] \in 0..MaxUint /\ MaxUint \in Nat
    BY ChannelFacts DEF HandlerTypes
  <2>2. Progress(h)'
    BY <2>1 DEF Progress
  <2>3. CASE txid[h] # id
    <3>1. HistoryKept(id)
      <4>1. \A j \in 1..Counter : j \in TransactionIDs
        BY ChannelFacts, <1>2 DEF TransactionIDs, WorldInv
      <4> QED
        BY <1>2, <1>6, <1>7, <4>1 DEF HistoryKept
    <3> QED
      BY <1>2, <2>3, <3>1, OthersStay
  <2>4. CASE txid[h] = id
    <3>1. ~Answered(h, "approved") /\ pc[h] \notin Listed \cup {"LoadAndCache"}
      <4>1. ASSUME pc[h] \in Undecided \cup {"LoadAndCache"} \/ Answered(h, "approved") PROVE FALSE
        BY <1>4, <2>4, <4>1, LaunchesAreOpen DEF IsRejected
      <4> QED
        BY <4>1 DEF Listed, Undecided
    <3>2. infoOf(txid[h])' = infoOf(txid[h]) /\ (infoOf(txid[h]))' = infoOf(txid[h])
      BY <1>7, <2>4 DEF infoOf
    <3>3. request[h].user = u \/ Entry(h)' = Entry(h) \/ txid[h] = 0 \/ request[h] \notin Requests
      BY <1>6, RequestFields DEF Entry, ListOf
    <3>4. Answered(h, "rejected") =>
            ListOf(request[h].user)'[id] # NoEntry /\ ~ListOf(request[h].user)'[id].active
      <4>1. Answered(h, "rejected") => request[h] \in Requests /\ request[h].user \in Users
        BY <2>1, RequestFields DEF Progress, Answered
      <4>2. Answered(h, "rejected") => Closed(request[h].user, id)
        BY <2>1, <2>4 DEF Records, Entry, Closed
      <4> QED
        BY <1>6, <4>1, <4>2 DEF Grows
    <3>5. Entry(h)' = ListOf(request[h].user)'[id]
      BY <2>4 DEF Entry, ListOf
    <3>6. Records(h)'
      BY <1>7, <2>1, <3>1, <3>2, <3>4, <3>5 DEF Records, Answered, Listed, Rejected
    <3> QED
      BY <2>2, <3>6
  <2> QED
    BY <2>3, <2>4
<1>11. StateInv'
  <2>1. HandlersInv'
    BY <1>2, <1>10 DEF HandlersInv, HandlerTypes
  <2>2. CacheTypes' /\ CacheShowsLedger' /\ OnlyOwnerSells'
    BY <1>2, <1>7 DEF StateInv, CacheTypes, CacheShowsLedger, OnlyOwnerSells, InProgress
  <2> QED
    BY <1>5, <2>1, <2>2 DEF StateInv
<1>12. OneAwaited'
  <2>1. OneEach(flight \ {f})
    BY <1>2 DEF SharedInv, OneAwaited, OneEach
  <2>2. OneEach(Overtaken(flight \ {f}, DOMAIN f.writes))
    BY <1>2, <2>1, OvertakenOneEach
  <2> QED
    BY <1>2, <2>2 DEF OneAwaited
<1>13. ASSUME NEW g2 \in flight'
       PROVE  ListClaim(g2)' /\ (FromHandler(g2)' \/ Correction(g2)')
  <2>1. PICK g \in flight \ {f} :
          Remains(g2, g) /\ g2.by = g.by /\ (g2.stale <=> g.stale \/ g.reads \cap DOMAIN f.writes # {})
    BY <1>2, OvertakenInvocations
  <2>2. Keeps(g2, g) /\ Invocation(g) /\ ListClaim(g) /\ (FromHandler(g) \/ Correction(g))
    <3>1. ~g2.stale => \A k \in g.reads : world'[k] = world[k]
      BY <1>2, <2>1 DEF Invocation
    <3> QED
      BY <1>2, <2>1, <3>1 DEF Keeps, ChannelInv, ListsInv
  <2>3. ListClaim(g2)' /\ (Correction(g) => Correction(g2)')
    BY <1>6, <2>2, ClaimStays
  <2>4. ASSUME FromHandler(g) PROVE FromHandler(g2)'
    <3>1. PICK k \in Handlers, step \in Submits, start \in Times, r \in Requests,
               i \in 0..MaxUint : From(g, k, step, start, r, i)
      BY <2>4 DEF FromHandler, IsFrom
    <3>2. (g2.by = Nobody => GaveUp(k)') /\ pc'[k] = pc[k] /\ request'[k] = request[k]
            /\ txid'[k] = txid[k]
      BY <2>1, <3>1, HandlersAssumption DEF From, GaveUp
    <3>3. From(g2, k, step, start, r, i)'
      BY <2>1, <2>2, <3>1, <3>2, FromStays DEF Keeps
    <3> QED
      BY <3>3 DEF FromHandler, IsFrom
  <2> QED
    BY <2>2, <2>3, <2>4
<1> QED
  BY <1>1, <1>3, <1>5, <1>6, <1>9, <1>11, <1>12, <1>13 DEF ChannelInv, ListsInv, Corrects

-----------------------------------------------------------------------------
(* The steps of the logins, seen from the channel.                         *)

\* A step that leaves the launches alone, and takes invocations of logins from
\* the channel or from their logins.
LEMMA SilentLists ==
  ASSUME ChannelInv, UNCHANGED <<world, pc, request, txid, answer, cache>>, OneEach(flight'),
         \A g \in flight' :
           g \in flight \/ \E f \in flight : f.by \in Logins /\ g = [f EXCEPT !.by = Nobody]
  PROVE  ChannelInv' /\ Grows /\ FlightKept
<1>1. StateInv' /\ OneAwaited'
  BY StateUnchanged DEF ChannelInv, OneAwaited
<1>2. FlightKept
  <2> SUFFICES ASSUME NEW g \in flight'
               PROVE  FromHandler(g)' \/ \E f \in flight : ~FromHandler(f) /\ Keeps(g, f)
    BY DEF FlightKept
  <2>1. CASE g \in flight
    BY <2>1, ChannelFacts, FlightUnchanged
  <2>2. ASSUME NEW f \in flight, f.by \in Logins, g = [f EXCEPT !.by = Nobody]
        PROVE  ~FromHandler(f) /\ Keeps(g, f)
    <3>1. Keeps(g, f)
      BY <2>2, ChannelFacts, AbandonedInvocation DEF Keeps
    <3>2. ~FromHandler(f)
      BY <2>2, LoginsAssumption DEF FromHandler, IsFrom, From
    <3> QED
      BY <3>1, <3>2
  <2> QED
    BY <2>1, <2>2
<1>3. FlightMoves
  BY KeptMoves
<1>4. PlacesKept
  BY DEF PlacesKept
<1> QED
  BY <1>1, <1>2, <1>3, <1>4, QuietLists DEF InvKept

LEMMA InvalidatedRepairLists ==
  ASSUME ChannelInv, NEW f \in flight, InvalidateRepair(f) \/ LoseRepair(f)
  PROVE  ChannelInv' /\ Grows /\ FlightKept
<1>1. UNCHANGED <<world, pc, request, txid, answer, cache>> /\ f.by \in Logins
  BY DEF InvalidateRepair, LoseRepair
<1>2. PICK f2 : f2 = [f EXCEPT !.by = Nobody]
  OBVIOUS
<1>3. f2.by = Nobody
  BY <1>2, ChannelFacts, AbandonedInvocation
<1>4. flight' = flight \ {f} \/ flight' = (flight \ {f}) \cup {f2}
  BY <1>2 DEF InvalidateRepair, LoseRepair
<1>5. OneEach(flight')
  BY <1>3, <1>4 DEF ChannelInv, OneAwaited, OneEach
<1> QED
  BY <1>1, <1>2, <1>4, <1>5, SilentLists

\* What a login asks for when it corrects its list.
LEMMA EndorsedCorrection ==
  ASSUME LoginInv, NEW l \in Logins, EndorseRepair(l)
  PROVE  \E f : /\ flight' = flight \cup {f} /\ f.by = l /\ f.id = repairing[l]
                /\ f.reads = {userTransactionListKey(userDID[l])}
                /\ Invocation(f) /\ ListClaim(f) /\ Correction(f)
<1>1. PICK id \in TransactionIDs, u \in Users : id = repairing[l] /\ u = userDID[l]
  BY DEF EndorseRepair, LoginInv, LoginsInv, Reading
<1>2. /\ trades[l][id] # NoInfo /\ trades[l][id].status = Rejected /\ tradeList[l][id] # NoEntry
      /\ IsRejected(id) /\ ListOf(u)[id] # NoEntry
  <2>1. ListRead(l)
    BY DEF EndorseRepair, ListRead
  <2>2. EntryRead(l, id) /\ TradeRead(l, id)
    BY <2>1 DEF LoginInv, LoginsInv, Reading
  <2>3. trades[l][id] # NoInfo /\ trades[l][id].status = Rejected
    BY <1>1 DEF EndorseRepair, LoginInv, LoginsInv, Reading
  <2> QED
    BY <1>1, <2>2, <2>3 DEF EntryRead, TradeRead
<1>3. PICK a \in Assets, role \in 0..2 : a = tradeList[l][id].asset /\ role = tradeList[l][id].role
  <2>1. tradeList[l][id] \in LedgerOf!TradeEntry
    BY <1>2 DEF LoginInv, LoginsInv, LoginTypeOK
  <2> QED
    BY <2>1 DEF LedgerOf!TradeEntry, LedgerOf!TransactionRoles, LedgerOf!transactionRoleSeller
<1>4. isTradeStatusActive(trades[l][id].status) = FALSE
  BY <1>2, StatusesDiffer DEF isTradeStatusActive
<1>5. RepairCall(l) = UpdateTransactionListCall(u, id, a, role, FALSE)
  BY <1>1, <1>3, <1>4 DEF RepairCall
<1>6. PICK c : c = UpdateTransactionListCall(u, id, a, role, FALSE)
  OBVIOUS
<1>7. ~c.refused /\ flight' = flight \cup
            {[by |-> l, id |-> c.id, reply |-> c.reply, reads |-> c.reads,
              writes |-> c.writes, stale |-> FALSE]}
  BY <1>5, <1>6 DEF EndorseRepair
<1>8. PICK f : f = [by |-> l, id |-> c.id, reply |-> c.reply, reads |-> c.reads,
                    writes |-> c.writes, stale |-> FALSE]
  OBVIOUS
<1>9. f.by = l /\ ~f.stale /\ f.stale \in BOOLEAN /\ Tells(f, c)
  BY <1>7, <1>8 DEF Tells
<1>10. ListSet(f, u, id, a, role, FALSE)
  BY <1>6, <1>9, UpdateTransactionListSays
<1>11. f.reads = {userTransactionListKey(u)} /\ f.id = id /\ f.reply
  BY <1>10 DEF ListSet
<1>12. f.reply \in BOOLEAN
  BY <1>6, <1>7, <1>8 DEF UpdateTransactionListCall, endorsed, refused
<1>13. Invocation(f)
  <2>1. DOMAIN f.writes = f.reads
    BY <1>10 DEF ListSet, write
  <2>2. f.reads \subseteq WorldKeys
    BY <1>11, KeysExist
  <2>3. f = [by |-> f.by, id |-> f.id, reply |-> f.reply, reads |-> f.reads,
             writes |-> f.writes, stale |-> f.stale]
    BY <1>8
  <2> QED
    BY <1>9, <1>11, <1>12, <2>1, <2>2, <2>3 DEF Invocation
<1>14. ListClaim(f)
  <2>1. WorldInv
    BY ChannelFacts DEF LoginInv
  <2> QED
    BY <1>2, <1>9, <1>10, <2>1, ListSetMeans
<1>15. Correction(f)
  <2>1. Corrects(f, u, a, role)
    BY <1>2, <1>10, <1>11 DEF Corrects
  <2> QED
    BY <1>9, <1>13, <2>1, LoginsAssumption DEF Correction, Stranger
<1> QED
  BY <1>1, <1>7, <1>8, <1>9, <1>11, <1>13, <1>14, <1>15

LEMMA EndorsedRepairLists ==
  ASSUME LoginInv, NEW l \in Logins, EndorseRepair(l)
  PROVE  ChannelInv' /\ Grows
<1>1. PICK f : flight' = flight \cup {f} /\ f.by = l /\ Invocation(f) /\ ListClaim(f) /\ Correction(f)
  BY EndorsedCorrection
<1>2. UNCHANGED <<world, pc, request, txid, answer, cache>> /\ \A g \in flight : g.by # f.by
  BY <1>1 DEF EndorseRepair, Waiting
<1> QED
  BY <1>1, <1>2, BegunLists DEF LoginInv

\* No step of the launches and the logins breaks what the lists mean.
LEMMA ChannelStep == LoginInv /\ [LoginNext]_allVars => ChannelInv' /\ Grows
<1> SUFFICES ASSUME LoginInv, [LoginNext]_allVars PROVE ChannelInv' /\ Grows
  OBVIOUS
<1>1. ChannelInv /\ \A f \in flight : f.by \in Handlers \cup Logins \cup {Nobody}
  BY DEF LoginInv, LoginsInv, LoginTypeOK
<1>2. ASSUME NEW f \in flight, ~FromHandler(f) PROVE Correction(f) /\ f.by \notin Handlers
  BY <1>1, <1>2 DEF ChannelInv, ListsInv, Correction, Stranger
<1>3. CASE LaunchStep
  <2>1. ASSUME NEW f \in flight, f.by \notin Logins, Commit(f) PROVE ChannelInv' /\ Grows
    <3>1. CASE FromHandler(f)
      BY <1>1, <2>1, <3>1, CommittedLists
    <3>2. CASE ~FromHandler(f)
      <4>1. Correction(f) /\ f.by = Nobody
        BY <1>1, <1>2, <2>1, <3>2
      <4>2. Apply(f) /\ UNCHANGED <<pc, request, txid, answer, cache>>
        BY <2>1, <4>1 DEF Commit
      <4> QED
        BY <1>1, <3>2, <4>1, <4>2, CorrectedLists
    <3> QED
      BY <3>1, <3>2
  <2>2. ASSUME NEW f \in flight, f.by \notin Logins, Invalidate(f) \/ LoseAnswer(f) \/ Discard(f)
        PROVE  ChannelInv' /\ Grows
    BY <1>1, <2>2, InvalidatedLists
  <2>3. ASSUME NEW h \in Handlers, Receive(h) \/ Handler(h) \/ CallFails(h)
        PROVE  ChannelInv' /\ Grows
    BY <1>1, <2>3, HandlerLists, EndorseLists
  <2> QED
    BY <1>1, <1>3, <2>1, <2>2, <2>3, MovedScoreLists DEF LaunchStep
<1>4. CASE LoginStep
  <2>1. ASSUME NEW f \in flight, CommitRepair(f) PROVE ChannelInv' /\ Grows
    <3>1. ~FromHandler(f)
      BY <2>1, LoginsAssumption DEF CommitRepair, FromHandler, IsFrom, From
    <3>2. Apply(f) /\ UNCHANGED <<pc, request, txid, answer, cache>>
      BY <2>1 DEF CommitRepair
    <3> QED
      BY <1>1, <1>2, <3>1, <3>2, CorrectedLists
  <2>2. ASSUME NEW l \in Logins, BeginLogin(l) \/ GetTransactionList(l) \/ GetTransactionInfo(l)
                                   \/ AnswerLogin(l) \/ LoginCallFails(l)
        PROVE  ChannelInv' /\ Grows
    <3>1. UNCHANGED <<world, flight, pc, request, txid, answer, cache>>
      BY <2>2 DEF BeginLogin, GetTransactionList, GetTransactionInfo, AnswerLogin, LoginCallFails,
         vars
    <3>2. OneEach(flight') /\ \A g \in flight' : g \in flight
      BY <1>1, <3>1 DEF ChannelInv, OneAwaited, OneEach
    <3> QED
      BY <1>1, <3>1, <3>2, SilentLists
  <2> QED
    BY <1>1, <1>4, <2>1, <2>2, InvalidatedRepairLists, EndorsedRepairLists DEF LoginStep, Login
<1>5. CASE CrashBoth
  BY <1>1, <1>5, CrashLists DEF CrashBoth
<1>6. CASE UNCHANGED allVars
  <2>1. UNCHANGED <<world, flight, pc, request, txid, answer, cache>>
    BY <1>6 DEF allVars, vars
  <2>2. OneEach(flight') /\ \A g \in flight' : g \in flight
    BY <1>1, <2>1 DEF ChannelInv, OneAwaited, OneEach
  <2> QED
    BY <1>1, <2>1, <2>2, SilentLists
<1> QED
  BY <1>3, <1>4, <1>5, <1>6 DEF LoginNext

-----------------------------------------------------------------------------
(* What a login knows stays true.                                          *)

\* The settled and listed transactions of a user stay so.
LEMMA PromisesStay ==
  ASSUME LoginInv, Grows, NEW l \in Logins, lpc[l] # "idle",
         userDID'[l] = userDID[l], promised'[l] = promised[l]
  PROVE  userDID'[l] \in Users /\ PromisesKept(l)'
<1>1. PICK u \in Users : u = userDID[l]
  BY DEF LoginInv, LoginsInv, Reading
<1>2. ASSUME NEW id \in promised[l]
      PROVE  id \in TransactionIDs /\ infoOf(id)' = infoOf(id) /\ InProgress(id)
               /\ ListOf(u)'[id] # NoEntry
  <2>1. id \in TransactionIDs /\ InProgress(id) /\ ListOf(u)[id] # NoEntry
    BY <1>1 DEF LoginInv, LoginsInv, Reading, PromisesKept
  <2>2. id <= Counter /\ infoOf(id).status # Reviewing
    BY <2>1, ProgressIsSettled DEF LoginInv
  <2> QED
    BY <2>1, <2>2 DEF Grows
<1>3. ASSUME NEW id \in promised[l] PROVE InProgress(id)'
  BY <1>2 DEF InProgress
<1>4. \A id : (ListOf(userDID[l])[id])' = ListOf(u)'[id]
  BY <1>1 DEF ListOf
<1> QED
  BY <1>1, <1>2, <1>3, <1>4 DEF PromisesKept

\* A login that the step leaves alone.
LEMMA ReadingStays ==
  ASSUME LoginInv, Grows, NEW l \in Logins,
         lpc'[l] = lpc[l], userDID'[l] = userDID[l], tradeList'[l] = tradeList[l],
         todo'[l] = todo[l], trades'[l] = trades[l], repairing'[l] = repairing[l],
         promised'[l] = promised[l]
  PROVE  Reading(l)'
<1>1. Reading(l) /\ ChannelInv
  BY DEF LoginInv, LoginsInv
<1>2. lpc[l] # "idle" => userDID'[l] \in Users /\ PromisesKept(l)'
  BY PromisesStay
<1>3. ASSUME ListRead(l)
      PROVE  /\ \A id \in TransactionIDs : EntryRead(l, id)' /\ TradeRead(l, id)'
             /\ \A id \in promised[l] : PromiseRead(l, id)'
  <2>1. PICK u \in Users : u = userDID[l]
    BY <1>1, <1>3 DEF Reading, ListRead
  <2> SUFFICES ASSUME NEW id \in TransactionIDs PROVE EntryRead(l, id)' /\ TradeRead(l, id)'
    BY <1>1, <1>3 DEF Reading, PromiseRead, Rejected
  <2>2. EntryRead(l, id) /\ TradeRead(l, id)
    BY <1>1, <1>3 DEF Reading
  <2>3. /\ ListOf(u)[id] # NoEntry => (ListOf(userDID[l])[id] # NoEntry)'
        /\ Closed(u, id) => Closed(userDID[l], id)'
    BY <2>1 DEF Grows, Closed, ListOf
  <2>4. IsRejected(id) => IsRejected(id)'
    BY <1>1, RejectedStays
  <2>5. Repairs(l, id) => Repairs(l, id)'
    BY DEF Repairs
  <2>6. EntryRead(l, id)'
    BY <2>1, <2>2, <2>3 DEF EntryRead
  <2>7. TradeRead(l, id)'
    BY <2>1, <2>2, <2>3, <2>4, <2>5 DEF TradeRead, Rejected, Statuses, Reviewing
  <2> QED
    BY <2>6, <2>7
<1> QED
  BY <1>1, <1>2, <1>3 DEF Reading, ListRead, Nothing, Rejected

\* A login that has stopped has nothing left but its user.
LEMMA ReadingStops ==
  ASSUME LoginInv, Grows, NEW l \in Logins, lpc[l] # "idle", lpc'[l] \in {"error", "dead"},
         userDID'[l] = userDID[l], promised'[l] = promised[l]
  PROVE  Reading(l)'
<1>1. userDID'[l] \in Users /\ PromisesKept(l)'
  BY PromisesStay
<1> QED
  BY <1>1 DEF Reading, ListRead

\* The other logins when one moves on, or changes what it has read.
Proceeds(l) ==
  \A m \in Logins \ {l} :
    /\ lpc'[m] = lpc[m] /\ userDID'[m] = userDID[m] /\ tradeList'[m] = tradeList[m]
    /\ todo'[m] = todo[m] /\ trades'[m] = trades[m] /\ repairing'[m] = repairing[m]
    /\ promised'[m] = promised[m]

\* What an invocation of a login is, after a step that begins none.
LEMMA AwaitedStay ==
  ASSUME LoginInv, NEW g \in flight', g.by \in Logins,
         FromHandler(g)' \/ \E f \in flight : Remains(g, f),
         lpc'[g.by] = lpc[g.by], userDID'[g.by] = userDID[g.by], repairing'[g.by] = repairing[g.by]
  PROVE  Awaited(g)'
<1>1. PICK f \in flight : Remains(g, f)
  BY LoginsAssumption DEF FromHandler, IsFrom, From
<1>2. f.by = g.by /\ f.id = g.id /\ f.reads = g.reads
  BY <1>1, LoginsAssumption DEF Remains
<1>3. Awaited(f)
  BY DEF LoginInv, LoginsInv
<1> QED
  BY <1>2, <1>3 DEF Awaited, Repairs

LEMMA CallersStay ==
  ASSUME LoginInv, NEW g \in flight', FromHandler(g)' \/ \E f \in flight : Remains(g, f)
  PROVE  g.by \in Handlers \cup Logins \cup {Nobody}
BY DEF LoginInv, LoginsInv, LoginTypeOK, FromHandler, IsFrom, From, Remains

\* The types of what the logins keep.
LoginTypes ==
  /\ lpc \in [Logins -> LoginSteps \cup {"idle", "ok", "error", "dead"}]
  /\ userDID \in [Logins -> Users \cup {Nobody}]
  /\ tradeList \in [Logins -> [TransactionIDs -> LedgerOf!TradeEntry \cup {NoEntry}]]
  /\ todo \in [Logins -> SUBSET TransactionIDs]
  /\ \A l \in Logins : todo[l] \subseteq {id \in TransactionIDs : tradeList[l][id] # NoEntry}
  /\ trades \in [Logins -> [TransactionIDs -> LedgerOf!TransactionInfo \cup {NoInfo}]]
  /\ repairing \in [Logins -> 0..MaxUint]
  /\ market \in [Logins -> [TransactionIDs -> LedgerOf!TransactionInfo \cup {NoInfo}]]
  /\ promised \in [Logins -> SUBSET (0..MaxUint)]

\* Every invocation is of a handler or was there before.
Follows(g) == FromHandler(g)' \/ \E f \in flight : Remains(g, f)

LEMMA OneLogin ==
  ASSUME LoginInv, Grows, NEW l \in Logins, Proceeds(l), Reading(l)', LoginTypes',
         \A g \in flight' : IF g.by = l THEN Awaited(g)' ELSE Follows(g)
  PROVE  LoginsInv'
<1>1. \A m \in Logins : Reading(m)'
  BY ReadingStays DEF Proceeds
<1>2. \A g \in flight' : Awaited(g)'
  <2> SUFFICES ASSUME NEW g \in flight', g.by \in Logins, g.by # l PROVE Awaited(g)'
    BY DEF Awaited
  <2> QED
    BY AwaitedStay DEF Proceeds, Follows
<1>3. \A g \in flight' : g.by \in Handlers \cup Logins \cup {Nobody}
  BY CallersStay DEF Follows
<1> QED
  BY <1>1, <1>2, <1>3 DEF LoginsInv, LoginTypes, LoginTypeOK

LEMMA QuietLogins ==
  ASSUME LoginInv, Grows, UNCHANGED loginVars, \A g \in flight' : Follows(g)
  PROVE  LoginsInv'
<1>1. \A m \in Logins : Reading(m)'
  BY ReadingStays DEF loginVars
<1>2. \A g \in flight' : Awaited(g)'
  <2> SUFFICES ASSUME NEW g \in flight', g.by \in Logins PROVE Awaited(g)'
    BY DEF Awaited
  <2> QED
    BY AwaitedStay DEF loginVars, Follows
<1>3. \A g \in flight' : g.by \in Handlers \cup Logins \cup {Nobody}
  BY CallersStay DEF Follows
<1> QED
  BY <1>1, <1>2, <1>3 DEF LoginInv, LoginsInv, LoginTypeOK, loginVars

LEMMA LaunchesFollow ==
  ASSUME LoginInv, LaunchStep, NEW g \in flight'
  PROVE  Follows(g)
<1>1. /\ ChannelInv /\ SharedInv
      /\ \A e \in flight : Invocation(e) /\ e.by \in Handlers \cup Logins \cup {Nobody}
  BY ChannelFacts DEF LoginInv, LoginsInv, LoginTypeOK
<1>2. ASSUME InvKept PROVE Follows(g)
  BY <1>2 DEF InvKept, FlightKept, Follows, Keeps
<1>3. ASSUME NEW f \in flight, Commit(f), ~FromHandler(f) PROVE Follows(g)
  <2>1. g \in Overtaken(flight \ {f}, DOMAIN f.writes)
    BY <1>3 DEF Commit, Apply
  <2> QED
    BY <1>1, <2>1, OvertakenInvocations DEF Follows
<1> QED
  BY <1>1, <1>2, <1>3, LaunchSteps DEF LaunchStep

\* A login that waits for nothing.
LEMMA NotWaiting ==
  ASSUME LoginInv, NEW l \in Logins, lpc[l] # "UpdateTransactionList" \/ ~Waiting(l)
  PROVE  \A f \in flight : f.by # l
BY DEF LoginInv, LoginsInv, Awaited, Repairs, Waiting

LEMMA FlightFollows ==
  ASSUME LoginInv, flight' \subseteq flight
  PROVE  \A g \in flight' : Follows(g)
BY ChannelFacts, RemainsItself DEF LoginInv, Follows

LEMMA BeginLogins ==
  ASSUME LoginInv, Grows, NEW l \in Logins, BeginLogin(l)
  PROVE  LoginsInv'
<1>1. PICK u \in Users : userDID' = [userDID EXCEPT ![l] = u]
                         /\ promised' = [promised EXCEPT ![l] = ApprovedFor(u)]
  BY DEF BeginLogin
<1>2. /\ LoginTypeOK /\ ChannelInv /\ lpc[l] = "idle" /\ trades[l] = Nothing
      /\ lpc' = [lpc EXCEPT ![l] = "GetTransactionList"]
      /\ UNCHANGED <<vars, tradeList, todo, trades, repairing, market>>
  BY DEF LoginInv, LoginsInv, Reading, BeginLogin, continue
<1>3. /\ userDID'[l] = u /\ promised'[l] = ApprovedFor(u) /\ lpc'[l] = "GetTransactionList"
      /\ Proceeds(l)
  BY <1>1, <1>2 DEF LoginTypeOK, Proceeds
<1>4. \A id \in ApprovedFor(u) :
        id \in TransactionIDs /\ InProgress(id) /\ ListOf(u)[id] # NoEntry
  <2> SUFFICES ASSUME NEW h \in Handlers, Answered(h, "approved"), request[h].user = u
               PROVE  txid[h] \in TransactionIDs /\ InProgress(txid[h]) /\ ListOf(u)[txid[h]] # NoEntry
    BY DEF ApprovedFor
  <2>1. Records(h) /\ txid[h] \in TransactionIDs
    BY <1>2, ChannelFacts, LaunchesAreOpen
  <2> QED
    BY <2>1 DEF Records, HasSale, Entry
<1>5. PromisesKept(l)'
  BY <1>2, <1>3, <1>4 DEF PromisesKept, InProgress, infoOf, ListOf, vars
<1>6. Reading(l)'
  BY <1>2, <1>3, <1>5 DEF Reading, ListRead, Nothing
<1>7. LoginTypes'
  <2>1. ApprovedFor(u) \subseteq 0..MaxUint
    BY <1>2, ChannelFacts DEF ApprovedFor, HandlerTypes
  <2> QED
    BY <1>1, <1>2, <2>1 DEF LoginTypeOK, LoginTypes, LoginSteps
<1>8. UNCHANGED flight /\ \A g \in flight' : g.by # l
  BY <1>2, NotWaiting DEF vars
<1> QED
  BY <1>3, <1>6, <1>7, <1>8, FlightFollows, OneLogin

LEMMA GetTransactionLists ==
  ASSUME LoginInv, Grows, NEW l \in Logins, GetTransactionList(l)
  PROVE  LoginsInv'
<1> DEFINE list == world[userTransactionListKey(userDID[l])]
<1>1. /\ LoginTypeOK /\ ChannelInv /\ lpc[l] = "GetTransactionList" /\ trades[l] = Nothing
      /\ tradeList' = [tradeList EXCEPT ![l] = list]
      /\ todo' = [todo EXCEPT ![l] = {id \in TransactionIDs : list[id] # NoEntry}]
      /\ lpc' = [lpc EXCEPT ![l] = "GetTransactionInfo"]
      /\ UNCHANGED <<vars, userDID, trades, repairing, market, promised>>
  BY DEF LoginInv, LoginsInv, Reading, GetTransactionList, continue
<1>2. userDID[l] \in Users /\ PromisesKept(l)
  BY <1>1 DEF LoginInv, LoginsInv, Reading
<1>3. list = ListOf(userDID[l]) /\ list \in Lists
  BY <1>1, <1>2, ChannelFacts DEF ListOf, WorldInv
<1> HIDE DEF list
<1>4. /\ tradeList'[l] = list /\ todo'[l] = {id \in TransactionIDs : list[id] # NoEntry}
      /\ lpc'[l] = "GetTransactionInfo" /\ Proceeds(l)
  BY <1>1 DEF LoginTypeOK, Proceeds
<1>5. userDID'[l] \in Users /\ PromisesKept(l)'
  BY <1>1, PromisesStay
<1>6. \A id \in TransactionIDs : (ListOf(userDID[l])[id])' = list[id]
  BY <1>1, <1>3 DEF vars, ListOf
<1>7. \A id \in TransactionIDs : EntryRead(l, id)' /\ TradeRead(l, id)'
  BY <1>1, <1>4, <1>6 DEF EntryRead, TradeRead, Closed, Nothing
<1>8. \A id \in promised[l] : PromiseRead(l, id)'
  BY <1>1, <1>2, <1>3, <1>4 DEF PromisesKept, PromiseRead, Nothing
<1>9. Reading(l)'
  BY <1>1, <1>4, <1>5, <1>7, <1>8 DEF Reading, ListRead
<1>10. LoginTypes'
  BY <1>1, <1>3 DEF LoginTypeOK, LoginTypes, LoginSteps, Lists
<1>11. UNCHANGED flight /\ \A g \in flight' : g.by # l
  BY <1>1, NotWaiting DEF vars
<1> QED
  BY <1>4, <1>9, <1>10, <1>11, FlightFollows, OneLogin

\* The flag was read before the status: an entry it saw closed is rejected, so
\* that the only corrections are of open entries of rejected transactions.
LEMMA GetTransactionInfos ==
  ASSUME LoginInv, Grows, NEW l \in Logins, GetTransactionInfo(l)
  PROVE  LoginsInv'
<1>1. PICK id \in todo[l] :
        /\ infoOf(id) # NoInfo
        /\ trades' = [trades EXCEPT ![l][id] = infoOf(id)]
        /\ todo' = [todo EXCEPT ![l] = @ \ {id}]
        /\ IF NeedsRepair(tradeList[l][id], infoOf(id))
           THEN /\ repairing' = [repairing EXCEPT ![l] = id]
                /\ lpc' = [lpc EXCEPT ![l] = "UpdateTransactionList"]
           ELSE UNCHANGED <<lpc, repairing>>
  BY DEF GetTransactionInfo, continue
<1>2. /\ LoginTypeOK /\ ChannelInv /\ Reading(l) /\ lpc[l] = "GetTransactionInfo"
      /\ UNCHANGED <<vars, userDID, tradeList, market, promised>>
      /\ id \in TransactionIDs /\ tradeList[l][id] # NoEntry
      /\ tradeList[l][id] \in LedgerOf!TradeEntry
  BY DEF LoginInv, LoginsInv, LoginTypeOK, GetTransactionInfo
<1>3. PICK u \in Users : u = userDID[l]
  BY <1>2 DEF Reading
<1>4. infoOf(id) \in Info /\ infoOf(id).status \in Statuses /\ id <= Counter /\ id \in 0..MaxUint
  BY <1>1, <1>2, ChannelFacts DEF ChannelInv, ListsInv, StatusesInv
<1>5. \A j \in TransactionIDs : EntryRead(l, j) /\ TradeRead(l, j)
  BY <1>2 DEF Reading, ListRead
<1>6. /\ trades'[l] = [trades[l] EXCEPT ![id] = infoOf(id)] /\ todo'[l] = todo[l] \ {id}
      /\ trades[l] \in [TransactionIDs -> LedgerOf!TransactionInfo \cup {NoInfo}]
      /\ Proceeds(l)
  BY <1>1, <1>2 DEF LoginTypeOK, Proceeds
<1>7. /\ trades'[l][id] = infoOf(id)
      /\ \A j \in TransactionIDs \ {id} : trades'[l][j] = trades[l][j]
  BY <1>2, <1>6
<1>8. /\ \A j : infoOf(j)' = infoOf(j)
      /\ \A j \in TransactionIDs : (ListOf(userDID[l])[j])' = ListOf(u)[j]
      /\ \A j \in TransactionIDs : Closed(userDID[l], j)' <=> Closed(u, j)
      /\ \A j \in TransactionIDs : IsRejected(j)' <=> IsRejected(j)
  BY <1>2, <1>3 DEF vars, infoOf, ListOf, Closed, IsRejected, Counter, Rejected
<1>9. userDID'[l] \in Users /\ PromisesKept(l)'
  BY <1>2, PromisesStay
<1>10. ~tradeList[l][id].active => IsRejected(id)
  <2>1. EntryRead(l, id)
    BY <1>2, <1>5
  <2> QED
    BY <1>2, <1>3, <2>1 DEF EntryRead, ChannelInv, ListsInv, EntriesInv
<1>11. NeedsRepair(tradeList[l][id], infoOf(id)) <=>
         tradeList[l][id].active /\ infoOf(id).status = Rejected
  <2>1. tradeList[l][id].active \in BOOLEAN
    BY <1>2 DEF LedgerOf!TradeEntry
  <2>2. isTradeStatusActive(infoOf(id).status) <=> infoOf(id).status # Rejected
    BY <1>4, StatusesDiffer DEF Statuses
  <2>3. isTradeStatusActive(infoOf(id).status) \in BOOLEAN
    BY DEF isTradeStatusActive
  <2>4. ~tradeList[l][id].active => infoOf(id).status = Rejected
    BY <1>10 DEF IsRejected
  <2>5. NeedsRepair(tradeList[l][id], infoOf(id)) <=>
          tradeList[l][id].active # isTradeStatusActive(infoOf(id).status)
    BY DEF NeedsRepair
  <2> QED
    BY <2>1, <2>2, <2>3, <2>4, <2>5
<1>12. \/ /\ lpc'[l] = "UpdateTransactionList" /\ repairing'[l] = id
          /\ infoOf(id).status = Rejected
       \/ /\ lpc'[l] = "GetTransactionInfo" /\ repairing'[l] = repairing[l]
          /\ infoOf(id).status = Rejected => ~tradeList[l][id].active
  BY <1>1, <1>2, <1>11 DEF LoginTypeOK
<1>13. ASSUME NEW j \in TransactionIDs PROVE EntryRead(l, j)' /\ TradeRead(l, j)'
  <2>1. EntryRead(l, j) /\ TradeRead(l, j)
    BY <1>5
  <2>2. EntryRead(l, j)'
    BY <1>1, <1>2, <1>3, <1>6, <1>7, <1>8, <2>1 DEF EntryRead
  <2>3. ASSUME trades'[l][j] # NoInfo
        PROVE  /\ j \notin todo'[l] /\ tradeList'[l][j] # NoEntry
               /\ trades'[l][j].status \in Statuses
               /\ trades'[l][j].status = Rejected =>
                    IsRejected(j)' /\ (Closed(userDID[l], j)' \/ Repairs(l, j)')
    <3>1. CASE j # id
      <4>1. trades'[l][j] = trades[l][j] /\ trades[l][j] # NoInfo /\ ~Repairs(l, j)
        BY <1>2, <1>7, <2>3, <3>1 DEF Repairs
      <4>2. /\ j \notin todo[l] /\ tradeList[l][j] # NoEntry /\ trades[l][j].status \in Statuses
            /\ trades[l][j].status = Rejected => IsRejected(j) /\ Closed(u, j)
        BY <1>3, <2>1, <4>1 DEF TradeRead
      <4>3. trades[l][j].status = Rejected => IsRejected(j)' /\ Closed(userDID[l], j)'
        BY <1>8, <4>2
      <4> QED
        BY <1>2, <1>6, <4>1, <4>2, <4>3
    <3>2. CASE j = id
      <4>1. infoOf(id).status = Rejected => IsRejected(id)'
        BY <1>2, <1>4, <1>8 DEF IsRejected
      <4>2. infoOf(id).status = Rejected => Closed(userDID[l], id)' \/ Repairs(l, id)'
        <5>1. ~tradeList[l][id].active => Closed(u, id)
          BY <1>2, <1>3, <2>1, <3>2 DEF EntryRead
        <5>2. ~tradeList[l][id].active => Closed(userDID[l], id)'
          BY <1>2, <1>8, <5>1
        <5> QED
          BY <1>12, <5>2 DEF Repairs
      <4>3. tradeList'[l][id] # NoEntry /\ id \notin todo'[l]
        BY <1>2, <1>6
      <4> QED
        BY <1>4, <1>7, <3>2, <4>1, <4>2, <4>3
    <3> QED
      BY <3>1, <3>2
  <2>4. TradeRead(l, j)'
    BY <2>3 DEF TradeRead, Rejected, Statuses, Reviewing
  <2> QED
    BY <2>2, <2>4
<1>14. ASSUME NEW j \in promised[l] PROVE PromiseRead(l, j)'
  <2>1. PromiseRead(l, j) /\ j \in TransactionIDs /\ InProgress(j)
    BY <1>2 DEF Reading, ListRead, PromisesKept
  <2>2. infoOf(j).status # Rejected
    BY <1>2, <2>1, ProgressIsSettled
  <2> QED
    BY <1>2, <1>7, <2>1, <2>2 DEF PromiseRead, Rejected
<1>15. Reading(l)'
  BY <1>1, <1>2, <1>7, <1>9, <1>12, <1>13, <1>14 DEF Reading, ListRead, Rejected
<1>16. LoginTypes'
  <2>1. trades' \in [Logins -> [TransactionIDs -> LedgerOf!TransactionInfo \cup {NoInfo}]]
    BY <1>1, <1>2, <1>4 DEF LoginTypeOK, Info
  <2>2. lpc' \in [Logins -> LoginSteps \cup {"idle", "ok", "error", "dead"}]
          /\ repairing' \in [Logins -> 0..MaxUint]
    BY <1>1, <1>2, <1>4 DEF LoginTypeOK, LoginSteps
  <2>3. todo' \in [Logins -> SUBSET TransactionIDs]
          /\ \A m \in Logins : todo'[m] \subseteq {i \in TransactionIDs : tradeList'[m][i] # NoEntry}
    BY <1>1, <1>2 DEF LoginTypeOK
  <2> QED
    BY <1>2, <2>1, <2>2, <2>3 DEF LoginTypeOK, LoginTypes
<1>17. UNCHANGED flight /\ \A g \in flight' : g.by # l
  BY <1>2, NotWaiting DEF vars
<1> QED
  BY <1>6, <1>15, <1>16, <1>17, FlightFollows, OneLogin

LEMMA AnswerLogins ==
  ASSUME LoginInv, Grows, NEW l \in Logins, AnswerLogin(l)
  PROVE  LoginsInv'
<1>1. /\ LoginTypeOK /\ ChannelInv /\ Reading(l) /\ lpc[l] = "GetTransactionInfo" /\ todo[l] = {}
      /\ lpc' = [lpc EXCEPT ![l] = "ok"] /\ market' = [market EXCEPT ![l] = cache]
      /\ UNCHANGED <<vars, userDID, tradeList, todo, trades, repairing, promised>>
  BY DEF LoginInv, LoginsInv, AnswerLogin, continue
<1>2. lpc'[l] = "ok" /\ Proceeds(l)
  BY <1>1 DEF LoginTypeOK, Proceeds
<1>3. userDID'[l] \in Users /\ PromisesKept(l)'
  BY <1>1, PromisesStay
<1>4. ASSUME NEW id \in TransactionIDs PROVE EntryRead(l, id)' /\ TradeRead(l, id)'
  <2>1. EntryRead(l, id) /\ TradeRead(l, id) /\ ~Repairs(l, id)
    BY <1>1 DEF Reading, ListRead, Repairs
  <2>2. /\ (ListOf(userDID[l])[id])' = ListOf(userDID[l])[id]
        /\ Closed(userDID[l], id)' <=> Closed(userDID[l], id)
        /\ IsRejected(id)' <=> IsRejected(id)
    BY <1>1 DEF vars, infoOf, ListOf, Closed, IsRejected, Counter, Rejected
  <2> QED
    BY <1>1, <2>1, <2>2 DEF EntryRead, TradeRead, Rejected, Statuses, Reviewing
<1>5. \A id \in promised[l] : PromiseRead(l, id)'
  BY <1>1 DEF Reading, ListRead, PromiseRead, Rejected
<1>6. Reading(l)'
  BY <1>1, <1>2, <1>3, <1>4, <1>5 DEF Reading, ListRead
<1>7. LoginTypes'
  <2>1. cache \in [TransactionIDs -> LedgerOf!TransactionInfo \cup {NoInfo}]
    BY <1>1 DEF ChannelInv, StateInv, CacheTypes, Info
  <2> QED
    BY <1>1, <2>1 DEF LoginTypeOK, LoginTypes, LoginSteps
<1>8. UNCHANGED flight /\ \A g \in flight' : g.by # l
  BY <1>1, NotWaiting DEF vars
<1> QED
  BY <1>2, <1>6, <1>7, <1>8, FlightFollows, OneLogin

\* A login that ends with an error, whatever becomes of its invocation.
LEMMA FailedLogins ==
  ASSUME LoginInv, Grows, NEW l \in Logins, lpc[l] # "idle", lpc' = [lpc EXCEPT ![l] = "error"],
         UNCHANGED <<userDID, tradeList, todo, trades, repairing, market, promised>>,
         \A g \in flight' : g.by # l /\ Follows(g)
  PROVE  LoginsInv'
<1>1. LoginTypeOK
  BY DEF LoginInv, LoginsInv
<1>2. lpc'[l] = "error" /\ Proceeds(l)
  BY <1>1 DEF LoginTypeOK, Proceeds
<1>3. Reading(l)'
  BY <1>2, ReadingStops
<1>4. LoginTypes'
  BY <1>1 DEF LoginTypeOK, LoginTypes
<1> QED
  BY <1>2, <1>3, <1>4, OneLogin

LEMMA EndorsedRepairLogins ==
  ASSUME LoginInv, Grows, NEW l \in Logins, EndorseRepair(l)
  PROVE  LoginsInv'
<1>1. PICK f : /\ flight' = flight \cup {f} /\ f.by = l /\ f.id = repairing[l]
               /\ f.reads = {userTransactionListKey(userDID[l])}
  BY EndorsedCorrection
<1>2. UNCHANGED loginVars /\ lpc[l] = "UpdateTransactionList" /\ LoginTypeOK
  BY DEF EndorseRepair, LoginInv, LoginsInv
<1>3. Reading(l)' /\ Proceeds(l)
  BY <1>2, ReadingStays DEF loginVars, Proceeds
<1>4. LoginTypes'
  BY <1>2 DEF LoginTypeOK, LoginTypes, loginVars
<1>5. Awaited(f)'
  BY <1>1, <1>2 DEF Awaited, Repairs, loginVars
<1>6. \A g \in flight : g.by # l
  BY NotWaiting DEF EndorseRepair
<1>7. \A g \in flight : Follows(g)
  BY ChannelFacts, RemainsItself DEF LoginInv, Follows
<1> QED
  BY <1>1, <1>3, <1>4, <1>5, <1>6, <1>7, OneLogin

LEMMA CommittedRepairLogins ==
  ASSUME LoginInv, Grows, NEW f \in flight, CommitRepair(f)
  PROVE  LoginsInv'
<1>1. PICK l \in Logins : l = f.by
  BY DEF CommitRepair
<1>2. /\ LoginTypeOK /\ ChannelInv /\ Reading(l) /\ Awaited(f)
      /\ lpc' = [lpc EXCEPT ![l] = "GetTransactionInfo"]
      /\ UNCHANGED <<userDID, tradeList, todo, trades, repairing, market, promised>>
      /\ flight' = Overtaken(flight \ {f}, DOMAIN f.writes)
      /\ Apply(f) /\ UNCHANGED <<pc, request, txid, answer, cache>>
  BY <1>1 DEF LoginInv, LoginsInv, CommitRepair, Apply, continue
<1>3. PICK u \in Users : u = userDID[l]
  BY <1>1, <1>2 DEF Awaited, Repairs, Reading
<1>4. /\ lpc[l] = "UpdateTransactionList" /\ repairing[l] = f.id
      /\ f.reads = {userTransactionListKey(u)} /\ f.id \in TransactionIDs
  BY <1>1, <1>2, <1>3 DEF Awaited, Repairs, Reading
<1>5. ~FromHandler(f) /\ Correction(f)
  BY <1>1, <1>2, LoginsAssumption DEF FromHandler, IsFrom, From, ChannelInv, ListsInv
<1>6. ListOf(u)'[f.id] # NoEntry /\ ~ListOf(u)'[f.id].active
  <2>1. PICK v \in Users : /\ f.reads = {userTransactionListKey(v)}
                           /\ ListOf(v)'[f.id] # NoEntry /\ ~ListOf(v)'[f.id].active
    BY <1>2, <1>5, CorrectedLists
  <2>2. v = u
    BY <1>4, <2>1, KeysDiffer
  <2> QED
    BY <2>1, <2>2
<1>7. lpc'[l] = "GetTransactionInfo" /\ Proceeds(l)
  BY <1>2 DEF LoginTypeOK, Proceeds
<1>8. userDID'[l] \in Users /\ PromisesKept(l)'
  BY <1>2, <1>4, PromisesStay
<1>9. ASSUME NEW id \in TransactionIDs PROVE EntryRead(l, id)' /\ TradeRead(l, id)'
  <2>1. EntryRead(l, id) /\ TradeRead(l, id)
    BY <1>2, <1>4 DEF Reading, ListRead
  <2>2. /\ ListOf(u)[id] # NoEntry => (ListOf(userDID[l])[id] # NoEntry)'
        /\ Closed(u, id) => Closed(userDID[l], id)'
        /\ id = f.id => Closed(userDID[l], id)'
    BY <1>2, <1>3, <1>6 DEF Grows, Closed, ListOf
  <2>3. IsRejected(id) => IsRejected(id)'
    BY <1>2, RejectedStays
  <2>4. Repairs(l, id) => id = f.id
    BY <1>4 DEF Repairs
  <2>5. EntryRead(l, id)'
    BY <1>2, <1>3, <2>1, <2>2 DEF EntryRead
  <2>6. TradeRead(l, id)'
    BY <1>2, <1>3, <2>1, <2>2, <2>3, <2>4 DEF TradeRead, Rejected, Statuses, Reviewing
  <2> QED
    BY <2>5, <2>6
<1>10. \A id \in promised[l] : PromiseRead(l, id)'
  BY <1>2, <1>4 DEF Reading, ListRead, PromiseRead, Rejected
<1>11. Reading(l)'
  BY <1>2, <1>7, <1>8, <1>9, <1>10 DEF Reading, ListRead
<1>12. LoginTypes'
  BY <1>2 DEF LoginTypeOK, LoginTypes, LoginSteps
<1>13. ASSUME NEW g \in flight' PROVE g.by # l /\ Follows(g)
  <2>1. PICK g0 \in flight \ {f} : Remains(g, g0) /\ g.by = g0.by
    BY <1>2, ChannelFacts, OvertakenInvocations
  <2>2. g0.by # l
    BY <1>1, <2>1, <1>2, LoginsAssumption DEF ChannelInv, OneAwaited, OneEach
  <2> QED
    BY <2>1, <2>2 DEF Follows
<1> QED
  BY <1>7, <1>11, <1>12, <1>13, OneLogin

LEMMA LostRepairLogins ==
  ASSUME LoginInv, Grows, NEW f \in flight, InvalidateRepair(f) \/ LoseRepair(f)
  PROVE  LoginsInv'
<1>1. PICK l \in Logins : l = f.by
  BY DEF InvalidateRepair, LoseRepair
<1>2. /\ ChannelInv /\ Awaited(f) /\ lpc' = [lpc EXCEPT ![l] = "error"]
      /\ UNCHANGED <<userDID, tradeList, todo, trades, repairing, market, promised>>
  BY <1>1 DEF LoginInv, LoginsInv, InvalidateRepair, LoseRepair, continue
<1>3. lpc[l] # "idle"
  BY <1>1, <1>2 DEF Awaited, Repairs
<1>4. \A g \in flight \ {f} : g.by # l
  BY <1>1, <1>2, LoginsAssumption DEF ChannelInv, OneAwaited, OneEach
<1>5. PICK f2 : f2 = [f EXCEPT !.by = Nobody]
  OBVIOUS
<1>6. f2.by = Nobody /\ Remains(f2, f)
  BY <1>2, <1>5, ChannelFacts, AbandonedInvocation
<1>7. flight' \subseteq (flight \ {f}) \cup {f2}
  BY <1>5 DEF InvalidateRepair, LoseRepair
<1>8. \A g \in flight : Remains(g, g)
  BY <1>2, ChannelFacts, RemainsItself
<1>9. \A g \in flight' : g.by # l /\ Follows(g)
  BY <1>4, <1>6, <1>7, <1>8, LoginsAssumption DEF Follows
<1> QED
  BY <1>2, <1>3, <1>9, FailedLogins

LEMMA CrashedLogins == ASSUME LoginInv, Grows, CrashBoth PROVE LoginsInv'
<1>1. /\ LoginTypeOK /\ ChannelInv /\ flight' = {[f EXCEPT !.by = Nobody] : f \in flight}
      /\ lpc' = [l \in Logins |-> IF Running(l) THEN "dead" ELSE lpc[l]]
      /\ UNCHANGED <<userDID, tradeList, todo, trades, repairing, market, promised>>
  BY DEF LoginInv, LoginsInv, CrashBoth, Crash
<1>2. \A l \in Logins : Reading(l)'
  <2> SUFFICES ASSUME NEW l \in Logins PROVE Reading(l)'
    OBVIOUS
  <2>1. CASE Running(l)
    <3>1. lpc[l] # "idle" /\ lpc'[l] = "dead"
      BY <1>1, <2>1 DEF Running, LoginSteps
    <3> QED
      BY <1>1, <3>1, ReadingStops
  <2>2. CASE ~Running(l)
    BY <1>1, <2>2, ReadingStays
  <2> QED
    BY <2>1, <2>2
<1>3. \A g \in flight' : g.by = Nobody
  BY <1>1, ChannelFacts, AbandonedInvocation
<1>4. LoginTypeOK'
  BY <1>1, <1>3 DEF LoginTypeOK
<1> QED
  BY <1>2, <1>3, <1>4, LoginsAssumption DEF LoginsInv, Awaited

-----------------------------------------------------------------------------
(* The invariant.                                                          *)

LEMMA LoginsStep == LoginInv /\ Grows /\ [LoginNext]_allVars => LoginsInv'
<1> SUFFICES ASSUME LoginInv, Grows, [LoginNext]_allVars PROVE LoginsInv'
  OBVIOUS
<1>1. CASE LaunchStep /\ UNCHANGED loginVars
  BY <1>1, LaunchesFollow, QuietLogins
<1>2. CASE LoginStep
  <2>1. ASSUME NEW l \in Logins, LoginCallFails(l) PROVE LoginsInv'
    <3>1. /\ lpc[l] # "idle" /\ lpc' = [lpc EXCEPT ![l] = "error"] /\ ~Waiting(l)
          /\ UNCHANGED <<userDID, tradeList, todo, trades, repairing, market, promised>>
          /\ flight' \subseteq flight
      BY <2>1 DEF LoginCallFails, Running, LoginSteps, continue
    <3>2. \A g \in flight' : g.by # l /\ Follows(g)
      BY <3>1, NotWaiting, FlightFollows
    <3> QED
      BY <3>1, <3>2, FailedLogins
  <2>2. ASSUME NEW l \in Logins, BeginLogin(l) \/ Login(l) PROVE LoginsInv'
    BY <2>2, BeginLogins, GetTransactionLists, GetTransactionInfos, EndorsedRepairLogins,
       AnswerLogins DEF Login
  <2>3. ASSUME NEW f \in flight, CommitRepair(f) \/ InvalidateRepair(f) \/ LoseRepair(f)
        PROVE  LoginsInv'
    BY <2>3, CommittedRepairLogins, LostRepairLogins
  <2> QED
    BY <1>2, <2>1, <2>2, <2>3 DEF LoginStep
<1>3. CASE CrashBoth
  BY <1>3, CrashedLogins
<1>4. CASE UNCHANGED allVars
  <2>1. UNCHANGED loginVars /\ flight' \subseteq flight
    BY <1>4 DEF allVars, vars
  <2> QED
    BY <2>1, FlightFollows, QuietLogins
<1> QED
  BY <1>1, <1>2, <1>3, <1>4 DEF LoginNext

LEMMA InitLoginInv == LoginInit => LoginInv
<1> SUFFICES ASSUME LoginInit PROVE LoginInv
  OBVIOUS
<1>1. IInv /\ Init /\ flight = {}
  BY InitIInv DEF LoginInit, Init
<1>2. /\ \A id \in TransactionIDs : infoOf(id) = NoInfo
      /\ \A u \in Users, id \in TransactionIDs : ListOf(u)[id] = NoEntry
      /\ \A h \in Handlers : pc[h] = "idle"
  BY <1>1, KeysExist DEF Init, infoOf, transactionInfoKey, ListOf, userTransactionListKey
<1>3. ListsInv
  BY <1>1, <1>2
     DEF ListsInv, StatusesInv, EntriesInv, Closed, UndecidedInv, Undecided
<1>4. LoginTypeOK
  <2>1. 0 \in 0..MaxUint
    BY ChannelAssumption
  <2> QED
    BY <1>1, <2>1 DEF LoginInit, LoginTypeOK, Nothing
<1>5. \A l \in Logins : Reading(l)
  BY DEF LoginInit, Reading, ListRead
<1> QED
  BY <1>1, <1>3, <1>4, <1>5 DEF LoginInv, ChannelInv, IInv, LoginsInv

LEMMA NextLoginInv == LoginInv /\ [LoginNext]_allVars => LoginInv' /\ Grows
BY ChannelStep, LoginsStep DEF LoginInv

\* The invariant holds however the launches and the logins overtake each other
\* and whatever is lost on the way.
THEOREM LoginInvariance == LoginSpec => []LoginInv
<1>1. LoginInv /\ [LoginNext]_allVars => LoginInv'
  BY NextLoginInv
<1> QED
  BY <1>1, InitLoginInv, PTL DEF LoginSpec

\* Every invocation belongs to a handler, a login or nobody, and a login only
\* looks up and corrects entries it has read (LoginTypeOK).
THEOREM LoginTypeCorrect == LoginSpec => []LoginTypeOK
<1>1. LoginInv => LoginTypeOK
  BY DEF LoginInv, LoginsInv
<1> QED
  BY <1>1, LoginInvariance, PTL

-----------------------------------------------------------------------------
(* What the invariant is for.                                              *)

\* A closed entry of a list is never opened again, by a launch, a correction
\* of any login or an invocation whose caller gave it up long ago.
THEOREM ClosedNeverOpens == LoginSpec => ClosedStaysClosed
<1>1. LoginInv /\ [LoginNext]_allVars =>
        [\A u \in Users, id \in TransactionIDs :
           entryOf(u, id) # NoEntry /\ ~entryOf(u, id).active =>
             entryOf(u, id)' # NoEntry /\ ~entryOf(u, id)'.active]_allVars
  <2> SUFFICES ASSUME LoginInv, [LoginNext]_allVars, NEW u \in Users, NEW id \in TransactionIDs,
                      entryOf(u, id) # NoEntry, ~entryOf(u, id).active
               PROVE  entryOf(u, id)' # NoEntry /\ ~entryOf(u, id)'.active
    OBVIOUS
  <2>1. Grows
    BY NextLoginInv
  <2> QED
    BY <2>1 DEF Grows, Closed, entryOf, ListOf
<1> QED
  BY <1>1, LoginInvariance, PTL DEF LoginSpec, ClosedStaysClosed

\* A trade that a successful login shows as history is over and closed in the
\* list on the ledger, whoever left its entry open.
THEOREM HistoriesAreClosed == LoginSpec => []HistoryIsClosed
<1>1. LoginInv => HistoryIsClosed
  <2> SUFFICES ASSUME LoginInv, NEW l \in Logins, lpc[l] = "ok",
                      NEW id \in TransactionIDs, trades[l][id] # NoInfo,
                      ~isTradeStatusActive(trades[l][id].status)
               PROVE  ~isTradeStatusActive(infoOf(id).status) /\ ~entryOf(userDID[l], id).active
    BY DEF HistoryIsClosed, HistoricalTrades, ActiveTrades
  <2>1. TradeRead(l, id) /\ ~Repairs(l, id)
    BY DEF LoginInv, LoginsInv, Reading, ListRead, Repairs
  <2>2. trades[l][id].status = Rejected
    BY <2>1, StatusesDiffer DEF TradeRead, Statuses
  <2>3. IsRejected(id) /\ Closed(userDID[l], id)
    BY <2>1, <2>2 DEF TradeRead
  <2> QED
    BY <2>3, StatusesDiffer DEF IsRejected, Closed, entryOf, ListOf
<1> QED
  BY <1>1, LoginInvariance, PTL

\* A user who was told of an approved launch and then logs in finds it among
\* her active trades.
THEOREM ApprovedAreShown == LoginSpec => []ApprovedIsShown
<1>1. LoginInv => ApprovedIsShown
  <2> SUFFICES ASSUME LoginInv, NEW l \in Logins, lpc[l] = "ok", NEW id \in promised[l]
               PROVE  id \in ActiveTrades(l)
    BY DEF ApprovedIsShown
  <2>1. /\ id \in TransactionIDs /\ todo[l] = {} /\ PromiseRead(l, id)
        /\ EntryRead(l, id) /\ TradeRead(l, id)
    BY DEF LoginInv, LoginsInv, Reading, ListRead, PromisesKept
  <2>2. trades[l][id] # NoInfo /\ trades[l][id].status \in Statuses
          /\ trades[l][id].status # Rejected
    BY <2>1 DEF PromiseRead, EntryRead, TradeRead
  <2> QED
    BY <2>1, <2>2, StatusesDiffer DEF ActiveTrades, Statuses
<1> QED
  BY <1>1, LoginInvariance, PTL

\* What clients were told of their launches stays true beside the logins: an
\* approved one is for sale and listed, a rejected one is rejected and closed.
THEOREM AnswersHoldBesideLogins == LoginSpec => [](ApprovedMeansStarted /\ RejectedMeansClosed)
<1>1. LoginInv => ApprovedMeansStarted /\ RejectedMeansClosed
  BY StateMeans DEF LoginInv, ChannelInv
<1> QED
  BY <1>1, LoginInvariance, PTL

\* A correction changes the flag of an entry that is there, in any role.
LEMMA CorrectionStep ==
  ASSUME WorldInv, NEW u \in Users, NEW id \in TransactionIDs, NEW a \in Assets, NEW role,
         ListOf(u)[id] # NoEntry, EntryReplaced(u, id, a, role, FALSE)
  PROVE  LedgerOf!Next
<1>1. LedgerOf!UpdatedList(ListOf(u), id, a, role, FALSE)
        = LedgerOf!UpdatedList(ListOf(u), id, a, LedgerOf!transactionRoleSeller, FALSE)
  BY DEF LedgerOf!UpdatedList
<1>2. EntryReplaced(u, id, a, LedgerOf!transactionRoleSeller, FALSE)
  BY <1>1 DEF EntryReplaced
<1> QED
  BY <1>2, UpdateListStep

\* Launches and logins together change the channel only the way the contract
\* does one invocation at a time: their composition implements TransactionLedger.
THEOREM LoginsImplementLedger == LoginSpec => ImplementsLedger
<1>1. LoginInv /\ [LoginNext]_allVars => [LedgerOf!Next]_(LedgerOf!vars)
  <2> SUFFICES ASSUME LoginInv, [LoginNext]_allVars PROVE LedgerOf!Next \/ UNCHANGED LedgerOf!vars
    OBVIOUS
  <2>1. ChannelInv /\ WorldInv /\ StateInv /\ \A f \in flight : FromHandler(f) \/ Correction(f)
    BY ChannelFacts DEF LoginInv, ChannelInv, ListsInv
  <2>2. CASE UNCHANGED world
    BY <2>1, <2>2, StoredNothing, UnchangedLedger DEF WorldInv, NothingReplaced
  <2>3. ASSUME NEW f \in flight, Correction(f), Apply(f)
        PROVE  LedgerOf!Next
    <3>1. PICK u \in Users, a \in Assets, role \in 0..2 : Corrects(f, u, a, role)
      BY <2>3 DEF Correction
    <3>2. f.id \in TransactionIDs
      BY <2>1, ChannelFacts DEF Invocation
    <3>3. ListSet(f, u, f.id, a, role, FALSE) /\ ListOf(u)[f.id] # NoEntry
      BY <2>3, <3>1 DEF Corrects, Apply
    <3>4. EntryReplaced(u, f.id, a, role, FALSE)
      BY <2>1, <2>3, <3>2, <3>3, ListWritten
    <3> QED
      BY <2>1, <3>2, <3>3, <3>4, CorrectionStep
  <2>4. ASSUME NEW f \in flight, Commit(f) PROVE LedgerOf!Next \/ UNCHANGED LedgerOf!vars
    <3>1. CASE FromHandler(f)
      BY <2>1, <2>4, <3>1, CommitStep
    <3>2. CASE Correction(f)
      BY <2>3, <2>4, <3>2 DEF Commit
    <3> QED
      BY <2>1, <3>1, <3>2
  <2>5. ASSUME NEW f \in flight, CommitRepair(f) PROVE LedgerOf!Next
    <3>1. Apply(f) /\ ~FromHandler(f)
      BY <2>5, LoginsAssumption DEF CommitRepair, FromHandler, IsFrom, From
    <3> QED
      BY <2>1, <2>3, <3>1
  <2>6. ASSUME NEW u \in Users, NEW score \in ScoreInputs, MoveScore(u, score)
        PROVE  LedgerOf!Next
    BY <2>1, <2>6, MoveScoreStep
  <2>7. UNCHANGED world \/ (\E f \in flight : Commit(f) \/ CommitRepair(f))
          \/ (\E u \in Users, score \in ScoreInputs : MoveScore(u, score))
    BY DEF LoginNext, LaunchStep, LoginStep, CrashBoth, allVars, vars, Receive, Handler, Endorse,
       Refuse, CheckStatus, Review, LoadAndCache, Invalidate, CallFails, LoseAnswer,
       Discard, Crash, BeginLogin, Login, GetTransactionList, GetTransactionInfo, EndorseRepair,
       AnswerLogin, LoginCallFails, InvalidateRepair, LoseRepair
  <2> QED
    BY <2>2, <2>4, <2>5, <2>6, <2>7
<1> QED
  BY <1>1, LoginInvariance, PTL DEF LoginSpec, ImplementsLedger

=============================================================================
