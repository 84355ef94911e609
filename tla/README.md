# A TLA+ verification of NYCU-G39-CS-Project

The system lets a user register an identity, register property as an asset, and
put an asset up for sale or auction. It runs on two Hyperledger Fabric channels
and is written in Go, with a small web page.

Two words are used throughout. A *handler* is the Go function that serves one
HTTP request, in a goroutine of its own. An *invocation* is one call of a
chaincode function; only an invocation that is submitted can write.

## 1. Inventory

| Component | Code | State it keeps | Operations that change it |
|---|---|---|---|
| Transaction chaincode | `chaincode/transaction/` | trading identities and indexes, asset certificates, property indexes, asset lists, a transaction counter, transactions, transaction lists | `RegisterTradingIdentity`, `SetPublicKey`, `RegisterAsset`, `UpdateStatus`, `AddNewTransaction`, `ChangeTransactionStatus`, `StartTransaction`, `UpdateTransactionList` |
| Identity chaincode | `chaincode/identity/` | one PIMgr record per DID | `RegisterIdentity`, `SetProfile`, `SetPublicKey` |
| Launch handler | `transaction-server/transaction_launch.go`, `active_transaction_cache.go` | the cache of active transactions, and the progress of each handler | the sequence of calls of a launch, and its clean-up |
| Credit policy | `seller_eligibility.go`, `seller_credit_policy.go`, `web/app.js` | the standing a page has loaded | none: pure functions, written three times |
| Registration | `client/helper_server.go`, `authority-server/main.go`, `transaction-server/main.go` | the progress of each handler | five invocations on two channels, through three servers |
| Client key store | `client/keys.go` | two key files | `ensureIdentityKeyPair` |
| Client identity cache | `client/identity_store.go` | one JSON file | `saveLocalIdentityCache` |
| Login | `transaction-server/login_flow.go` | none of its own | repairs the transaction list of the user, makes a session, fills the cache of asset data |
| Sessions | `transaction-server/session.go` | tokens and their expiry | `Create`, `Validate` and their clean-up (`RevokeUser` is never called) |
| Asset registration | `transaction-server/asset_registration.go`, `ipfs.go`, `asset_info_cache.go` | a cache of asset data | two IPFS uploads, then `RegisterAsset`, then a look-up |

How they interact: the page calls the helper on the user's device, which holds
the private key and signs; the helper calls the authority server (registration)
or the transaction server (login, assets, launches); the authority server calls
the identity channel and the transaction server; only the transaction server
calls the transaction channel. Every call is synchronous, with a timeout of its
own, and nothing is rolled back by a framework: undoing is done by further
invocations, if at all.

What is hard about it:

* **Concurrency.** Handlers run at the same time and hold no lock. The channel is
  optimistic: an invocation is simulated first and discarded later if a key it
  read has been written.
* **Lost answers.** A gateway or HTTP timeout does not stop what was asked for.
* **Partial failure.** A launch is up to eight invocations, a rejection three, a
  registration five. Any of them can fail alone.
* **Staleness.** A launch checks a status, an owner and a score, and acts later. A
  login repairs a list from a flag and a status it read before.
* **Order.** Requests read the clock before they get the mutex of the sessions.
* **Boundaries.** Credit grades, the transaction counter, times, legal statuses.
* **Crashes.** A dead server loses its handlers and its cache; a dead helper
  may leave a half-written key file.

The full list, with the line where each bites and the properties aimed at it, is
`hazards` in `PROJECT.json`.

## 2. Modules

| Module | Models | Proofs |
|---|---|---|
| `SellerEligibility` | the credit policy of the chaincode and of the server, as operators | `CreditPolicyProofs` |
| `CreditPolicy` | a page that loads a standing, edits a price and meets a score that moves | `CreditPolicyProofs` |
| `TransactionLedger` | the transaction chaincode: one action for every function that writes. It is the abstract specification of the channel | `TransactionLedgerProofs` |
| `LaunchService` | concurrent launch handlers on an optimistic channel. It implements `TransactionLedger` | `LaunchServiceProofs` |
| `LoginService` | the logins beside the launches: it extends `LaunchService` with a second kind of handler on the same channel, process and cache | `LoginServiceProofs` |
| `SessionStore` | what `Create`, `Validate` and the clean-up do to the sessions, as operators | `AssetRegistrationProofs` |
| `AssetRegistration` | sessions, logins and asset registrations with IPFS, the channel, the cache and a clock | `AssetRegistrationProofs` |
| `KeyStore` | the key files while registrations race, fail and crash | `KeyStoreProofs` |
| `IdentityStore` | the identity file and the logins of the helper: it extends `KeyStore` | `IdentityStoreProofs` |
| `Registration` | a registration through three servers and two channels | `RegistrationProofs` |
| `MC*` | the values the runs use | |

`TransactionLedger` extends `SellerEligibility`; `LaunchService` instantiates
`TransactionLedger` with a refinement mapping and takes every guard and every
written record from it, so that the two cannot drift apart. `LoginService`
extends `LaunchService` and inherits that mapping: launches and logins together
are checked to implement the ledger. `AssetRegistration` instantiates
`SessionStore` with its logins for tokens. `IdentityStore` extends `KeyStore`, so
that registrations, saves and logins of one device run side by side. The proof
modules follow the same lines: `IdentityStoreProofs` extends `KeyStoreProofs`,
and `LoginServiceProofs` extends `LaunchServiceProofs`.

### TransactionLedger

Each variable is one family of world-state keys: `identity`
(`TRADING_IDENTITY` and the two reverse indexes), `cert` (`ASSET_CERT`), `owner`
(`PROPERTY_INDEX`), `assetList`, `counter`, `info` (`TRANSACTION_INFO`) and
`tradeList`. A user stands for her three DIDs, which are hashes of one another;
an asset for its ID, its certificate address and its index. An invocation that
returns an error or `false` writes nothing and is a stuttering step. The guards
are named (`UpdateStatusAllowed`, `StartTransactionReady`, ...), because
`LaunchService` needs them as the answer of a simulation.

`UpdateTransactionList` and `AddNewTransaction` look up fewer things than one
would expect (no user, no transaction, no seller), and so do the actions.

### LaunchService

A handler's `pc` is the name of the call it makes next. `AfterSuccess` and
`AfterFailure` are its control flow: where each call leads when it succeeds and
when it fails. `restoreLegalStatus` is the argument each call site passes to
`rejectTransaction`.

A submitted call is two steps. `Endorse` simulates it on the committed state and
puts it, with its read set and its writes, in `flight`. `Commit` applies it, or
`Invalidate` discards it because a key it read was written in between. A
chaincode error ends the call at once (`Refuse`). Keys that no invocation of a
launch writes are left out of the read sets: they can never be the reason for an
invalidation.

`AddNewTransaction` reads and writes the counter, so two launches of *different*
assets also invalidate each other; the handler does not retry.

Around the handlers: `CallFails` (no effect), `LoseAnswer` (the handler gets an
error and the invocation stays in flight), `Discard` (an abandoned invocation
never arrives), `Crash`, and `MoveScore`.

### LoginService

A login is one more handler. It reads the list of its user once
(`GetTransactionList`), then one transaction record after the other
(`GetTransactionInfo`), and where the flag of the list disagrees with the status
it submits a repair (`EndorseRepair`, then `CommitRepair`, `InvalidateRepair` or
`LoseRepair`), which is endorsed and validated on the same channel as the calls of
the launches. At the end it takes the snapshot of the cache (`AnswerLogin`).
`promised` is a history variable: the launches of the user whose approval was
answered before the login began. The order of the IDs in a list is the order in
which entries were made, so the model lets a login read them in any order.
`CrashBoth` kills the handlers of both kinds, as they run in one process.

Two facts of the code carry the safety of the repair. The flag is read *before*
the status, and a status never leaves the closed ones; so a repair computed from
old reads can only close an entry. And `UpdateTransactionList` reads the list
record it rewrites, so that two writers cannot undo one another.

### SessionStore and AssetRegistration

The methods of the store hold one mutex, so each is one step; but their caller
reads the clock first, so `now` holds, for each login and request, a time that
may be older than the one another request has already cleaned up with. `clock` is
the real time. An asset is named after the request that registers it, because its
ID is derived from the ID of that request's invocation; a CID stands for the
content it was given for (name and registration time), so two registrations
may share one.

The login is seen from the other side than in `LoginService`: the assets, the
cache of their data and the session. `HelperGivesUp` is the 75 s of the helper,
`UploadCancelled` the request context that ends the uploads with it (the
invocation is not tied to it), `LoseAnswer` the gateway's timeout. `lost` and
`refused` are history variables.

### IdentityStore

`saveLocalIdentityCache` is three steps on a temporary file of its own (created,
written, renamed), each of which may fail or meet a crash. A DID is named after
the registration that it was given to, so that its key is known.

### KeyStore

`os.WriteFile` truncates and then writes, which are two steps. A crash, a failed
write, or another request can come between them. `WriteFails` leaves the file as
it was before the write: unopened, or truncated. `load` is how many requests are
served at once; it is chosen at the start, so that one run covers a device that
serves one request at a time and one that does not.

### Registration

`helper`, `authority` and `service` are the progress of the three handlers of one
request, `pimgr` and `trading` the records on the two channels. The user DID is
made from the ID of the `RegisterIdentity` transaction, so a record belongs to
one request and a retry is a new request. `late` holds the invocations whose
caller gave up.

## 3. Runs

| Run | Question | Bounds |
|---|---|---|
| `MCCreditPolicy` | Do the three copies of the policy agree? | every grade boundary of score and price, both sides |
| `MCTransactionLedger` | Is the ledger consistent after any sequence of invocations? What can a list update change? | 2 users, 1 asset, 1 transaction ID; arguments inside and outside their ranges |
| `MCLaunchService` | Can one asset be sold twice, by another than its owner, or be taken off the market under a sale? | 3 launches for a sale, 1 failed call, 1 crash, no lost answer |
| `MCLaunchOutcomes` | Is every launch answered, and with the truth, also when the score drops before the start? Is a Pending asset resolved? Do launches implement the ledger? | 2 launches for a sale or an auction, 1 failed call, 1 moved score |
| `MCLoginService` | What do logins repair and show, while launches go on? Do both together implement the ledger? | 2 launches and 1 login of the owner, 1 failed call, 1 lost answer, 1 crash |
| `MCAssetRegistration` | Do sessions end when they should and not before? Is every registered asset its owner's, listed and shown? | 2 users, 2 logins, 2 requests, times 0 to 2 with sessions of 2, 1 failed call, 1 timeout, 1 crash |
| `MCKeyStore` | What can races, crashes and failed writes do to the keys and the identity of a device? | 3 registrations, one at a time or all at once, 2 saves, 1 login, 1 crash, 1 failed write |
| `MCRegistration` | Do the two channels stay in step, and is every user answered? | 2 users, 3 timeouts, 1 failed call |
| `MCLaunchFailedButStarted`, `MCLaunchStrandedPending`, `MCKeyStoreRace`, `MCLoginEmptyMarket` | the four findings below | the smallest instance that shows each |

Why the bounds are enough. Launches interact only through the records of one
asset, the counter and the list of one user; two launches reach every pairwise
conflict, and three are used where a third one could profit from what two have
done to each other. One or two faults suffice to interrupt every call of a
launch, at every step, including the calls of the clean-up that follows a first
fault. `MaxUint` is exactly the number of launches, or below what
the ledger run asks for, so that the counter is met at its limit. Assets never
meet except in the counter, so one asset is enough for a launch.

A login writes only the list of its own user, so one user is enough for the
repairs; with two launches it meets a list that grows, an entry that is closed
and one that is not, and a version conflict with either. Two logins would meet
only in repairs that write the same flags.

Two sessions are enough for one clean-up to remove the other's session, two users
for a token to be used with the wrong DID, and two requests for a list to be
written twice. With sessions of two ticks and a clock of three values, a session
is live, at its last tick and expired, and a request can bring a time from
before an expiry that another request has already seen. One asset name makes
two registrations at the same time share a CID; names that differ would only
separate them.

`MCSymmetry` and `MCLoginSymmetry` permute handlers, users, logins or requests
that nothing distinguishes; the run with liveness properties uses none.

Runs with `CHECK_DEADLOCK FALSE` are those where the system may stop: all
requests are answered. The credit and ledger runs keep deadlock detection on.

Fairness. `LaunchService!FairSpec` assumes weak fairness of every handler, which
is a goroutine the Go scheduler runs while it is ready, and of the channel, which
orders and validates what it is given. `Registration!FairSpec` assumes weak
fairness of the three handlers of every request. Nothing is assumed of faults:
a lost invocation need not ever commit, and a request need not be made.

### What holds, and under which faults

* At most one launch of an asset becomes a sale, and an asset in a sale stays on
  the market in its mode (`OneSalePerAsset`, `SaleOnMarket`), as long as no answer
  is lost. With lost answers both can fail (first finding).
* Only owners sell (`OnlyOwnerSells`). A launch that is answered as rejected is
  closed, even with a lost answer, a crash and a login that repairs the same list,
  and when the score of the seller drops between the review and the start
  (`RejectedMeansClosed`, in two runs).
* A login never opens a closed entry (`ClosedStaysClosed`). What a successful
  login shows as history is closed on the ledger, whoever left it open
  (`HistoryIsClosed`); what its user was told is approved is among her active
  trades (`ApprovedIsShown`).
* A session that was found expired opens nothing later (`RefusedStaysRefused`) and
  a live one is not taken away by anybody (`LiveSessionKept`), although the mutex
  is not taken in the order of the times. An asset is always that of the user who
  had logged in (`OwnerWasLoggedIn`).
* No two registrations take an asset from each other's list
  (`RegisteredIsListed`), the cache only holds what is on IPFS
  (`CacheShowsContent`), and a confirmed asset is shown at every later login
  (`RegisteredIsShown`), with its information or, when IPFS does not answer,
  without.
* The identity file is never lost or half-written (`IdentityKept`); a device that
  serves one registration at a time signs its logins with the key of the user it
  has saved (`CachedIdentityLogsIn`).
* Concurrent invocations only ever take steps of the serial chaincode
  (`ImplementsLedger`). The launch model starts with users and assets already
  registered, so the property is about steps; the initial states are those that
  a run of the ledger can reach.
* `PendingHasReview` holds through a failed call or a crash, but not through a
  lost answer (second finding). After a crash or a failed restore the asset
  stays Pending *together with* a transaction under review, and nothing resumes
  or closes it. `PendingResolved` therefore speaks of behaviours without faults.
* Races never let a helper post a signature that does not fit its public key,
  but they can replace a key (third finding).
* A user exists on the transaction channel only with a complete identity, and a
  user told that she is registered can log in, through timeouts and late commits.

### Findings

1. **`MCLaunchFailedButStarted`.** The handler answers "failed to start
   transaction" (`transaction_launch.go:270`) also when the gateway merely gave
   up waiting for an invocation that still commits. In the run the transaction
   starts after the handler has given up and before its clean-up begins. The
   clean-up sets the asset back to Normal, then fails to reject the transaction,
   which is In Progress by now, and only then the client is told that the start
   failed. The asset of the running sale can be launched again. (Once the restore
   to Normal has committed, the start cannot: it has read the same record.)
2. **`MCLaunchStrandedPending`.** When the answer to the Pending update is lost,
   the launch is rejected without restoring the asset (`transaction_launch.go:180`).
   If the update commits all the same, as it does in the run while the rejection
   is on its way, the asset stays Pending with nothing under review, and
   every later launch of it is refused.
3. **`MCKeyStoreRace`.** Two registrations at once can both find no private key
   and both write one (`client/keys.go:43`, `:97`). The run ends with the second
   one truncating the key of the first. If the first has been posted by then,
   the key its user is registered with is gone; if not, it fails when it signs.
4. **`MCLoginEmptyMarket`.** The page says "No available active transactions"
   (`web/app.js:835`) from a cache that is empty after every restart of the server
   (`active_transaction_cache.go:53`), while launches approved before are in
   progress on the ledger.

## 4. Proofs

All theorems hold for every value of the constants that satisfies the named
assumptions of the modules: any users, assets, requests, handlers and logins, and
any budgets of failed calls, lost answers, timeouts and crashes. The assumptions
are these, and TLC evaluates them on every run of their module:

* scores, prices, times and budgets are natural numbers, and a session lives for
  at least one tick (`ScoresAssumption`, `TimesAssumption`, `MaxUintAssumption`,
  `TTLAssumption`, `BudgetsAssumption`, `KeyStoreAssumption`, ...);
* a value that stands for an absent record is not a record, and processes of
  different kinds have different names (`AbsentAssumption`, `HandlersAssumption`,
  `LoginsAssumption`, `RegistrationAssumption`);
* a launch request has passed the checks that the server makes before its first
  call (`RequestsAssumption`), the name of an asset is not empty, which the form
  refuses (`NamesAssumption`), and the channel starts with users who are
  registered and assets that are owned (`ChannelAssumption`);
* the requests that a device serves are finitely many (`KeyStoreAssumption`), as
  the number that is being served is counted;
* the inputs the ledger is offered include those of the launches
  (`InputsAssumption` of `LaunchService`), which the refinement needs.

Every safety property of a passing run is stated by a theorem. Almost none of
them is inductive; what follows says for each module what has to be known
besides.

`CreditPolicyProofs`. `PoliciesAgree` is the heart: for every score and price in
the naturals, the server's explanation equals the chaincode's decision. It
follows by cases on the grade. The theorems about the session
(`ServerAgrees`, `BrowserAgrees`, `MonotoneEligibility`) use it with the type
invariant `TypeOK`, which adds that the standing a page has loaded is the
standing *of its own score* (`StandingIsOfItsScore`).

`TransactionLedgerProofs`. `TypeOK` is inductive by itself; its proof has one
step per action, with lemmas for the records a launch creates
(`ReviewingInfoType`, `StartedInfoType`). `RegistryConsistent`,
`CounterCoversTransactions` and `TermsMatchMode` are each inductive together with
`TypeOK`: typing is needed because a new ID must differ from every ID in use, and
because a `TermsMatch` of a record is only meaningful for a record. The registry
also needs two small facts: identities never disappear (`IdentitiesPersist`) and
certificates neither (`CertificatesPersist`). The action properties
(`TransactionHistory`, `StartsOnlyOnMarket`, `TradeEntriesPersist`) follow from
the same invariants, step by step. `StatusChange` isolates what
`ChangeTransactionStatus` can do, which is used three times.

`TableAgrees` adds that the table of grades shown on the page
(`sellerCreditRules`) has exactly one row for every valid score, and that the row
promises what the standing grants; `MonotoneEligibility` that a better score or a
lower price never takes eligibility away. These two, and the type invariant of the
session, are proved and no longer part of a run.

`RegistrationProofs`. `IInv` says what the records of a request are before each
call of its handlers (`Before`), which answers have been given when
(`AnswersAgree`), and that a call which was given up for lost is the only one
that can still change its records (the clauses about `late`). That last clause is why a
commit after a timeout cannot overtake anything. `TradingUsersHaveIdentity`,
`RegisteredUsersCanLogin` and `NothingIsEverLost` follow; the last says that no
step takes a key or a profile away again. It is proved and no longer part of a
run: the clauses about `late` leave it nothing to race with.

`KeyStoreProofs`. That a public key is never alone depends on where each writer
stands (`WriterHasKey`). `SignedByItsKey` holds for any number of requests at
once; that a key is kept holds only when one is served at a time, and needs what
the file looks like to the one that is being served (`ServedAlone`). The run
`MCKeyStoreRace` shows that the condition cannot be dropped.

`IdentityStoreProofs`. A temporary file that is about to be renamed is complete
and names a user who was posted (`SaveKnowsUser`), so the rename can never put
anything less in place (`IdentityIsKept`). `IdentityLogsIn` joins this to
`ServedAlone`: a login that takes its user from the file signs with her key. The
invariant of the key store is reused as it stands, as the saves and logins write
no key file (`VarsUnchanged`, `DeviceKeys`, `DeviceKeepsKey`).

`AssetRegistrationProofs`. Three facts carry it.
No time that a request brings is later than the clock (`TimesPast`), so a clean-up
that is late to the mutex removes nothing that is still live
(`LiveSessionIsKept`), and a session that has been removed is made by no other
login (`SessionInv`; `RefusedStayRefused`). A request that was let through has
presented the session of its own user, although the session may be gone by now
(`RequestInv`; `OwnersWereLoggedIn`). An invocation in flight that is not stale
has read the list its user still has (`FlightInv`; `RegisteredAreListed`). What a
login has read of the assets its user was told of (`LoginInv`) gives
`RegisteredAreShown`.

`LaunchServiceProofs` has two layers. The first, `IInv`, says which call of which
handler every invocation in flight came from and, as long as it is not stale,
that every key it read holds what the simulation saw. A commit then happens under
the guard it was endorsed with, which makes it a step of the serial chaincode:
`LaunchesImplementLedger`, step by step of the handlers and of the channel. (The
launch model starts with users and assets registered, so the theorem is about
steps.) `OnlyOwnersSell`, `CacheIsRight`, `ApprovedAreStarted` and
`RejectedAreClosed` follow, with lost answers and crashes, because no effect
reopens a transaction or an entry, or changes an owner (`EffectKeepsHistory`).

The second layer, `ClaimInv`, says that an asset is in the hands of one launch,
from the moment its Pending update commits until the asset is put back or sold;
that the holder can rely on the legal status of its asset; and that whoever else
endorsed a change of that status is made stale by the first to commit. It gives
`OneSale`, `SalesAreOnMarket`, `PendingIsReviewed` and `FailedAreNotStarted`, each
stated for behaviours in which no answer has been lost so far
(`spent.lostAnswers = 0`), with any number of failed calls and crashes. The
condition is not a convenience: the runs `MCLaunchFailedButStarted` and
`MCLaunchStrandedPending` are counterexamples to the last two without it, and
in the first of them the asset that went on sale is set back to Normal.

`LoginServiceProofs` takes the first layer over for a channel that also carries
the invocations of logins (`SharedInv`, `Stranger`). To it `ChannelInv` adds what
a list means: an entry is closed only if its transaction is rejected, and an
invocation that would open an entry finds none there as long as it is not stale
(`ListClaim`). So lists and settled transactions only grow (`Grows`), which is what
makes the sequential reads of a login sound: what it has read is old, but stays
true enough (`Reading`). `ClosedNeverOpens`, `HistoriesAreClosed`,
`ApprovedAreShown`, `AnswersHoldBesideLogins` and `LoginsImplementLedger` follow,
with lost answers included. `AnswersHoldBesideLogins` states `ApprovedMeansStarted`
too, which the login run does not list.

Only model-checked, and why:

* `EveryRequestAnswered` of the launches and of the registrations, and
  `PendingResolved`: liveness under fairness, which this prover does not reach.
* The findings: a counterexample is a run and needs no proof.
* The initial states of the refinement. They are not those of the ledger, but states
  that a run of the ledger reaches by registering the users and the assets.
* `OneSalePerAsset` and its three companions *beside logins*. The theorems about them are
  of `LaunchService` alone. A login writes only lists, which none of them reads.

## 5. Not modelled, and why

* Roles, signatures, hashes and DID derivation: taken to work. A signature is
  "made with this key", a derived DID is the user.
* `RevokeUser` and `saveIdentityCacheFromLoginResponse`, which nothing calls, and
  `LastActiveAt`, which nothing reads.
* The photo of an asset: its upload and that of the asset information are one
  step, as a failure between them leaves only an unreferenced photo.
* The session check of a launch: the same as in an asset registration, at its
  start. `LaunchService` starts after it.
* That a failed asset registration has registered nothing. The code answers with a
  failure when only the look-up of the certificate address has failed
  (`asset_registration.go:376`), which needs no run to see; no property is listed
  for that hazard.
* The calendar validation of a `TimeInfo` and the parsing of times: an instant is
  a number.
* The checks of a registration request (`registration_verification.go`): the
  guard of the first call.
* Liveness of logins and asset registrations: each is a loop over a list that was
  read once, with timeouts on every call; the launch and the registration, where a
  clean-up could go round, have it.
* HTTP, layout of the page, and logging.
* No function of the chaincode changes a credit score. The launch code is
  written for scores that change (`errSellerEligibilityChanged`), so a score
  moves by an external action. Wrong only if the score is fixed for ever, in
  which case the model has more behaviours than the system.
* An evaluated call is answered from the committed state. A peer that lags
  behind could answer from an older one; the submitted calls check again what
  they rely on.

## 6. Plan

Done: every component of the inventory that keeps state is modelled, every safety
property of a passing run is a theorem, and so are the two refinements of the
ledger.

Next, in this order:

1. The claims beside logins: `ClaimInv` carried through `SharedInv` as `IInv` is
   in `LoginServiceProofs`, so that `OneSalePerAsset` and its companions, and
   `CacheShowsLedger`, are theorems of `LoginSpec`.
2. What the claims become when an answer *is* lost: which launch may hold the
   asset then, and which of the four properties survives in a weaker form.
3. The fairness-free part of `PendingResolved`: the launch that a Pending asset
   waits for gets closer to its answer with every step of its handler.
4. The calendar of a `TimeInfo` as operators, against a reference calendar.
