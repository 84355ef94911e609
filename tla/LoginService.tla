---------------------------- MODULE LoginService ----------------------------
(***************************************************************************)
(* The logins of the transaction server (login_flow.go) beside its         *)
(* launches: LaunchService with a second kind of handler on the same       *)
(* channel, the same process and the same cache of active transactions.    *)
(*                                                                         *)
(* A login reads the transaction list of its user once, then the status of *)
(* one listed transaction after the other, and where the active flag it    *)
(* read disagrees with the status it submits UpdateTransactionList.  Both  *)
(* may have changed in between: launches of the same user, other logins    *)
(* and lost invocations write the same list.                               *)
(*                                                                         *)
(* What a login reads and no property here is about (scores, assets, the   *)
(* property data on IPFS) is left out; AssetRegistration has the sessions. *)
(*                                                                         *)
(* A definition X_Bug is a mutated form of X: no specification uses it; it *)
(* shows that a property would notice that bug.                            *)
(***************************************************************************)
EXTENDS LaunchService

CONSTANTS Logins    \* one per login request the server receives

ASSUME LoginsAssumption == Logins \cap (Handlers \cup {Nobody}) = {}

VARIABLES
  lpc,        \* the next call of each login, or its answer
  userDID,    \* the user each login is for
  tradeList,  \* the transaction list it has read
  todo,       \* the listed transactions it has not finished with
  trades,     \* the transaction records it has read, to be shown
  repairing,  \* the transaction whose flag it is correcting
  market,     \* CurrentActiveTransactions of its answer
  promised    \* history: its user's launches approved before it began

loginVars == <<lpc, userDID, tradeList, todo, trades, repairing, market, promised>>
allVars == <<vars, loginVars>>

LoginSteps == {"GetTransactionList", "GetTransactionInfo", "UpdateTransactionList"}
Running(l) == lpc[l] \in LoginSteps

Nothing == [id \in TransactionIDs |-> NoInfo]

LoginInit ==
  /\ Init
  /\ lpc = [l \in Logins |-> "idle"]
  /\ userDID = [l \in Logins |-> Nobody]
  /\ tradeList = [l \in Logins |-> [id \in TransactionIDs |-> NoEntry]]
  /\ todo = [l \in Logins |-> {}]
  /\ trades = [l \in Logins |-> Nothing]
  /\ repairing = [l \in Logins |-> 0]
  /\ market = [l \in Logins |-> Nothing]
  /\ promised = [l \in Logins |-> {}]

continue(l, step) == lpc' = [lpc EXCEPT ![l] = step]

\* Completed, cancelled, returned and rejected transactions are closed.
isTradeStatusActive(status) == status \notin {5, 6, 9, LedgerOf!transactionStatusRejected}

\* Mutated form: a flag that disagrees is shown right and left as it is.
NeedsRepair_Never(entry, i) == FALSE

NeedsRepair(entry, i) == entry.active # isTradeStatusActive(i.status)

-----------------------------------------------------------------------------
(* The steps of a login.                                                   *)

ApprovedFor(u) ==
  {txid[h] : h \in {g \in Handlers : Answered(g, "approved") /\ request[g].user = u}}

\* The request has its fields and a recent timestamp, and its signature
\* verifies with the key of the transaction chain; the trading identity is
\* available and the assets of the user are read.
BeginLogin(l) ==
  /\ lpc[l] = "idle"
  /\ \E u \in Users :
       /\ world[tradingIdentityKey(u)] # NoIdentity
       /\ world[tradingIdentityKey(u)].key # NoKey
       /\ userDID' = [userDID EXCEPT ![l] = u]
       /\ promised' = [promised EXCEPT ![l] = ApprovedFor(u)]
  /\ continue(l, "GetTransactionList")
  /\ UNCHANGED <<vars, tradeList, todo, trades, repairing, market>>

\* GetTransactionList: every entry with its active flag, at one time.
GetTransactionList(l) ==
  LET list == world[userTransactionListKey(userDID[l])] IN
  /\ lpc[l] = "GetTransactionList"
  /\ tradeList' = [tradeList EXCEPT ![l] = list]
  /\ todo' = [todo EXCEPT ![l] = {id \in TransactionIDs : list[id] # NoEntry}]
  /\ continue(l, "GetTransactionInfo")
  /\ UNCHANGED <<vars, userDID, trades, repairing, market, promised>>

\* Mutated form: the flag is read again after the status.
GetTransactionInfo_FlagLast(l) ==
  /\ lpc[l] = "GetTransactionInfo"
  /\ \E id \in todo[l] :
       IF trades[l][id] = NoInfo
       THEN /\ trades' = [trades EXCEPT ![l][id] = infoOf(id)]
            /\ UNCHANGED <<lpc, todo, repairing>>
       ELSE /\ IF NeedsRepair(entryOf(userDID[l], id), trades[l][id])
               THEN /\ repairing' = [repairing EXCEPT ![l] = id]
                    /\ continue(l, "UpdateTransactionList")
               ELSE UNCHANGED <<lpc, repairing>>
            /\ todo' = [todo EXCEPT ![l] = @ \ {id}]
            /\ UNCHANGED trades
  /\ UNCHANGED <<vars, userDID, tradeList, market, promised>>

\* GetTransactionInfo: the status of one listed transaction, compared with
\* the flag read before.  The list is in the order its entries were made,
\* which may be any order of the IDs.
GetTransactionInfo(l) ==
  /\ lpc[l] = "GetTransactionInfo"
  /\ \E id \in todo[l] :
       /\ infoOf(id) # NoInfo
       /\ trades' = [trades EXCEPT ![l][id] = infoOf(id)]
       /\ todo' = [todo EXCEPT ![l] = @ \ {id}]
       /\ IF NeedsRepair(tradeList[l][id], infoOf(id))
          THEN /\ repairing' = [repairing EXCEPT ![l] = id]
               /\ continue(l, "UpdateTransactionList")
          ELSE UNCHANGED <<lpc, repairing>>
  /\ UNCHANGED <<vars, userDID, tradeList, market, promised>>

\* updateTradeActiveStatus: the flag the status calls for, with the asset and
\* the role of the entry.
RepairCall(l) ==
  LET id == repairing[l]
      entry == tradeList[l][id]
  IN UpdateTransactionListCall(userDID[l], id, entry.asset, entry.role,
                               isTradeStatusActive(trades[l][id].status))

\* A peer simulates the correction.
EndorseRepair(l) ==
  /\ lpc[l] = "UpdateTransactionList" /\ ~Waiting(l)
  /\ LET c == RepairCall(l) IN
       /\ ~c.refused
       /\ flight' = flight \cup
            {[by |-> l, id |-> c.id, reply |-> c.reply, reads |-> c.reads,
              writes |-> c.writes, stale |-> FALSE]}
  /\ UNCHANGED <<world, pc, request, txid, answer, cache, spent, loginVars>>

\* The correction commits and the loop goes on.
CommitRepair(f) ==
  /\ f.by \in Logins
  /\ Apply(f)
  /\ continue(f.by, "GetTransactionInfo")
  /\ UNCHANGED <<pc, request, txid, answer, cache, spent>>
  /\ UNCHANGED <<userDID, tradeList, todo, trades, repairing, market, promised>>

\* The list was written since it was read for the correction: the login fails.
InvalidateRepair(f) ==
  /\ f.by \in Logins /\ f.stale
  /\ flight' = flight \ {f}
  /\ continue(f.by, "error")
  /\ UNCHANGED <<world, pc, request, txid, answer, cache, spent>>
  /\ UNCHANGED <<userDID, tradeList, todo, trades, repairing, market, promised>>

\* Snapshot of the cache, the session and the answer.
AnswerLogin(l) ==
  /\ lpc[l] = "GetTransactionInfo" /\ todo[l] = {}
  /\ market' = [market EXCEPT ![l] = cache]
  /\ continue(l, "ok")
  /\ UNCHANGED <<vars, userDID, tradeList, todo, trades, repairing, promised>>

-----------------------------------------------------------------------------
(* The environment.                                                        *)

\* A call of the login fails and has no effect: no login data.
LoginCallFails(l) ==
  /\ spent.failures < MaxFailures
  /\ Running(l) /\ ~Waiting(l)
  /\ continue(l, "error")
  /\ spent' = [spent EXCEPT !.failures = @ + 1]
  /\ UNCHANGED <<world, flight, pc, request, txid, answer, cache>>
  /\ UNCHANGED <<userDID, tradeList, todo, trades, repairing, market, promised>>

\* The correction is given up for lost while it is still on its way.
LoseRepair(f) ==
  /\ spent.lostAnswers < MaxLostAnswers
  /\ f.by \in Logins
  /\ flight' = (flight \ {f}) \cup {[f EXCEPT !.by = Nobody]}
  /\ continue(f.by, "error")
  /\ spent' = [spent EXCEPT !.lostAnswers = @ + 1]
  /\ UNCHANGED <<world, pc, request, txid, answer, cache>>
  /\ UNCHANGED <<userDID, tradeList, todo, trades, repairing, market, promised>>

\* The one process of the launches and the logins dies.
CrashBoth ==
  /\ Crash
  /\ lpc' = [l \in Logins |-> IF Running(l) THEN "dead" ELSE lpc[l]]
  /\ UNCHANGED <<userDID, tradeList, todo, trades, repairing, market, promised>>

Login(l) ==
  \/ GetTransactionList(l) \/ GetTransactionInfo(l) \/ EndorseRepair(l) \/ AnswerLogin(l)

LaunchStep ==
  \/ \E h \in Handlers : Receive(h) \/ Handler(h) \/ CallFails(h)
  \/ \E f \in {g \in flight : g.by \notin Logins} :
       Commit(f) \/ Invalidate(f) \/ LoseAnswer(f) \/ Discard(f)
  \/ \E u \in Users, score \in ScoreInputs : MoveScore(u, score)

LoginStep ==
  \/ \E l \in Logins : BeginLogin(l) \/ Login(l) \/ LoginCallFails(l)
  \/ \E f \in flight : CommitRepair(f) \/ InvalidateRepair(f) \/ LoseRepair(f)

LoginNext ==
  \/ LaunchStep /\ UNCHANGED loginVars
  \/ LoginStep
  \/ CrashBoth

LoginSpec == LoginInit /\ [][LoginNext]_allVars

-----------------------------------------------------------------------------
(* Properties.                                                             *)

\* Invocations belong to a handler, a login or nobody, and a login corrects
\* only entries it has read.
LoginTypeOK ==
  /\ \A f \in flight : f.by \in Handlers \cup Logins \cup {Nobody}
  /\ lpc \in [Logins -> LoginSteps \cup {"idle", "ok", "error", "dead"}]
  /\ userDID \in [Logins -> Users \cup {Nobody}]
  /\ tradeList \in [Logins -> [TransactionIDs -> LedgerOf!TradeEntry \cup {NoEntry}]]
  /\ todo \in [Logins -> SUBSET TransactionIDs]
  /\ \A l \in Logins : todo[l] \subseteq {id \in TransactionIDs : tradeList[l][id] # NoEntry}
  /\ trades \in [Logins -> [TransactionIDs -> LedgerOf!TransactionInfo \cup {NoInfo}]]
  /\ repairing \in [Logins -> 0..MaxUint]
  /\ market \in [Logins -> [TransactionIDs -> LedgerOf!TransactionInfo \cup {NoInfo}]]
  /\ promised \in [Logins -> SUBSET (0..MaxUint)]

ActiveTrades(l) ==
  {id \in TransactionIDs : trades[l][id] # NoInfo /\ isTradeStatusActive(trades[l][id].status)}

HistoricalTrades(l) == {id \in TransactionIDs : trades[l][id] # NoInfo} \ ActiveTrades(l)

\* A closed entry of a transaction list is never opened again: a login
\* corrects flags from a status it read earlier, and because it read the flag
\* before the status it can only ever close an entry (login_flow.go:446).
ClosedStaysClosed ==
  [][\A u \in Users, id \in TransactionIDs :
       entryOf(u, id) # NoEntry /\ ~entryOf(u, id).active =>
         entryOf(u, id)' # NoEntry /\ ~entryOf(u, id)'.active]_allVars

\* A trade that a successful login shows as history is closed in the list on
\* the ledger too, whoever left it open: a launch that failed half-way, a
\* server that died, an answer that was lost (evaluateUserTrades).
HistoryIsClosed ==
  \A l \in Logins :
    lpc[l] = "ok" =>
      \A id \in HistoricalTrades(l) :
        /\ ~isTradeStatusActive(infoOf(id).status)
        /\ ~entryOf(userDID[l], id).active

\* A user who was told that her launch was approved and then logs in finds it
\* among her active trades, whatever else was written to her list meanwhile.
ApprovedIsShown ==
  \A l \in Logins : lpc[l] = "ok" => promised[l] \subseteq ActiveTrades(l)

\* A page that shows "No available active transactions" (web/app.js:835) is
\* right: no launch its user was told of before is in progress.
EmptyMarketIsEmpty ==
  \A l \in Logins :
    lpc[l] = "ok" /\ market[l] = Nothing => \A id \in promised[l] : ~InProgress(id)

=============================================================================
