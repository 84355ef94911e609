------------------------- MODULE AssetRegistration -------------------------
(***************************************************************************)
(* The registration of assets: the helper of the client                    *)
(* (apiAssetRegistrationHandler), the handler of the transaction server    *)
(* (assetRegistrationHandler), IPFS and RegisterAsset on the channel, with *)
(* the part of the login that makes the sessions it needs and shows the    *)
(* assets it makes (evaluateUserAssets, loginSessions.Create).             *)
(*                                                                         *)
(* Handlers are goroutines of one process and share its sessions and its   *)
(* cache of asset information; a crash loses both.  A submitted call is    *)
(* endorsed on the committed state and later committed, or invalidated     *)
(* when a key it read was written in between, as in LaunchService.         *)
(*                                                                         *)
(* A login stands for its session token, a request for the asset it makes  *)
(* (assetID is derived from the ID of the invocation).  IPFS names content *)
(* by its hash: a CID stands for the content it was given for.             *)
(*                                                                         *)
(* A definition X_Bug is a mutated form of X: no specification uses it; it *)
(* shows that a property would notice that bug.                            *)
(***************************************************************************)
EXTENDS Naturals, FiniteSets

CONSTANTS
  Users,           \* registered users
  Logins,          \* the logins they make
  Requests,        \* the asset registrations they ask for
  Names,           \* the asset data they give
  TTL,             \* how long a session lives
  NoSession, NoInfo, NoCert, Nobody,
  MaxTime,         \* the last value of the clock
  MaxFailures, MaxTimeouts, MaxCrashes   \* the budgets

ASSUME TTLAssumption == TTL \in Nat \ {0}

ASSUME BudgetsAssumption ==
  /\ MaxTime \in Nat /\ MaxFailures \in Nat
  /\ MaxTimeouts \in Nat /\ MaxCrashes \in Nat

Store == INSTANCE SessionStore WITH Tokens <- Logins

\* What a CID stands for: the asset data and RegistrationTime.
AssetInfos == [name : Names, time : 0..MaxTime]

\* readAssetInfoFromIPFS could not read the content.
Unreadable == [name |-> "", time |-> 0]

ASSUME AbsentAssumption ==
  /\ NoSession \notin [userDID : Users, expiresAt : Nat]
  /\ NoInfo \notin AssetInfos \cup {Unreadable}
  /\ NoCert \notin AssetInfos
  /\ Nobody \notin Users \cup Logins \cup Requests
  /\ Logins \cap Requests = {}

ASSUME NamesAssumption == "" \notin Names

VARIABLES
  clock,       \* the time of the server
  sessions,    \* loginSessions
  infoCache,   \* assetInfoNameCache: the information kept for each CID
  ipfs,        \* the asset information added to IPFS
  cert,        \* ASSET_CERT: the AssetInfoCID of each asset
  owner,       \* PROPERTY_INDEX: the owner of each asset
  assetList,   \* USER_ASSET_LIST of each user
  flight,      \* the endorsed RegisterAsset invocations on their way
  now,         \* the time each login or request read before the mutex
  lpc,         \* the next step of each login
  lstate,      \* its user, the assets it has to read and those it shows
  helper,      \* what the user of each request is told
  pc,          \* the next step of each request on the server
  form,        \* its session token, user and asset data
  cid,         \* its assetInfoCID
  refused,     \* history: tokens that Validate did not find
  lost,        \* history: tokens that a crash took away
  spent

history == <<refused, lost>>
memory == <<sessions, infoCache>>             \* of the server process
channel == <<cert, owner, assetList, flight>>
login == <<lpc, lstate>>
server == <<pc, form, cid>>
vars == <<clock, memory, ipfs, channel, now, login, helper, server, history, spent>>

\* No data yet.
NoForm == [token |-> Nobody, userDID |-> Nobody, name |-> ""]
NoLogin == [userDID |-> Nobody, todo |-> {}, shown |-> [a \in Requests |-> NoInfo],
            promised |-> {}]

LoginSteps == {"GetAssetList", "GetAssetCertificate", "CreateSession"}
RequestSteps == {"Validate", "AddAssetInfo", "RegisterAsset", "GetCertAddr"}

Init ==
  /\ clock = 0
  /\ sessions = Store!Empty
  /\ infoCache = [c \in AssetInfos |-> NoInfo]
  /\ ipfs = {}
  /\ cert = [a \in Requests |-> NoCert]
  /\ owner = [a \in Requests |-> Nobody]
  /\ assetList = [u \in Users |-> {}]
  /\ flight = {}
  /\ now = [x \in Logins \cup Requests |-> 0]
  /\ lpc = [l \in Logins |-> "idle"]
  /\ lstate = [l \in Logins |-> NoLogin]
  /\ helper = [r \in Requests |-> "idle"]
  /\ pc = [r \in Requests |-> "idle"]
  /\ form = [r \in Requests |-> NoForm]
  /\ cid = [r \in Requests |-> NoInfo]
  /\ refused = {}
  /\ lost = {}
  /\ spent = [failures |-> 0, timeouts |-> 0, crashes |-> 0]

loginGoto(l, step) == lpc' = [lpc EXCEPT ![l] = step]
goto(r, step) == pc' = [pc EXCEPT ![r] = step]

\* The cache of asset information, and IPFS.
getCachedAssetInfo(c) == infoCache[c]
cacheAssetInfo(c, i) == infoCache' = [infoCache EXCEPT ![c] = i]
Add(c) == ipfs' = ipfs \cup {c}
Cat(c) == c \in ipfs

-----------------------------------------------------------------------------
(* The login.                                                              *)

\* The credential of a user verifies and her trading identity is read.
BeginLogin(l) ==
  /\ lpc[l] = "idle"
  /\ \E u \in Users :
       lstate' = [lstate EXCEPT ![l].userDID = u,
         ![l].promised = {r \in Requests : helper[r] = "registered" /\ form[r].userDID = u}]
  /\ loginGoto(l, "GetAssetList")
  /\ UNCHANGED <<clock, memory, ipfs, channel, now, helper, server, history, spent>>

\* Mutated form: an asset whose registration is not committed yet is listed.
GetAssetList_Uncommitted(l) ==
  LET u == lstate[l].userDID IN
  /\ lpc[l] = "GetAssetList"
  /\ lstate' = [lstate EXCEPT ![l].todo =
                  assetList[u] \cup {f.asset : f \in {g \in flight : g.userDID = u}}]
  /\ loginGoto(l, "GetAssetCertificate")
  /\ UNCHANGED <<clock, memory, ipfs, channel, now, helper, server, history, spent>>

\* GetAssetList: the assets of the user.
GetAssetList(l) ==
  /\ lpc[l] = "GetAssetList"
  /\ lstate' = [lstate EXCEPT ![l].todo = assetList[lstate[l].userDID]]
  /\ loginGoto(l, "GetAssetCertificate")
  /\ UNCHANGED <<clock, memory, ipfs, channel, now, helper, server, history, spent>>

Shows(l, a, i) == lstate' = [lstate EXCEPT ![l].todo = @ \ {a}, ![l].shown[a] = i]

\* Mutated form: what could not be read is kept in the cache as well.
ReadAssetInfo_CachesFailure(l, a) ==
  LET c == cert[a]
      known == getCachedAssetInfo(c)
  IN
  \/ /\ known # NoInfo
     /\ Shows(l, a, known)
     /\ UNCHANGED <<infoCache, spent>>
  \/ /\ known = NoInfo /\ Cat(c)
     /\ Shows(l, a, c)
     /\ cacheAssetInfo(c, c)
     /\ UNCHANGED spent
  \/ /\ known = NoInfo /\ spent.failures < MaxFailures
     /\ Shows(l, a, Unreadable)
     /\ cacheAssetInfo(c, Unreadable)
     /\ spent' = [spent EXCEPT !.failures = @ + 1]

\* readAssetInfoFromIPFS: from the cache, from IPFS, or not at all.
ReadAssetInfo(l, a) ==
  LET c == cert[a]
      known == getCachedAssetInfo(c)
  IN
  \/ /\ known # NoInfo
     /\ Shows(l, a, known)
     /\ UNCHANGED <<infoCache, spent>>
  \/ /\ known = NoInfo /\ Cat(c)
     /\ Shows(l, a, c)
     /\ cacheAssetInfo(c, c)
     /\ UNCHANGED spent
  \/ /\ known = NoInfo /\ spent.failures < MaxFailures
     /\ Shows(l, a, Unreadable)
     /\ spent' = [spent EXCEPT !.failures = @ + 1]
     /\ UNCHANGED infoCache

\* GetAssetCertificate, CheckStatus and the information of a listed asset.
GetAssetCertificate(l) ==
  /\ lpc[l] = "GetAssetCertificate"
  /\ \E a \in lstate[l].todo : cert[a] # NoCert /\ ReadAssetInfo(l, a)
  /\ UNCHANGED <<clock, sessions, ipfs, channel, now, lpc, helper, server, history>>

\* The trades are read too; the clock is read for the session.
FinishReading(l) ==
  /\ lpc[l] = "GetAssetCertificate" /\ lstate[l].todo = {}
  /\ now' = [now EXCEPT ![l] = clock]
  /\ loginGoto(l, "CreateSession")
  /\ UNCHANGED <<clock, memory, ipfs, channel, lstate, helper, server, history, spent>>

CreateSession(l) ==
  /\ lpc[l] = "CreateSession"
  /\ sessions' = Store!Created(sessions, l, lstate[l].userDID, now[l])
  /\ loginGoto(l, "ok")
  /\ UNCHANGED <<clock, infoCache, ipfs, channel, now, lstate, helper, server, history, spent>>

Login(l) ==
  GetAssetList(l) \/ GetAssetCertificate(l) \/ FinishReading(l) \/ CreateSession(l)

-----------------------------------------------------------------------------
(* The registration request.                                               *)

\* The helper signs and posts a request with the token of a login and a user
\* the form names; the server reads the clock.
Send(r) ==
  /\ helper[r] = "idle"
  /\ \E l \in Logins, u \in Users, n \in Names :
       /\ lpc[l] = "ok"
       /\ form' = [form EXCEPT ![r] = [token |-> l, userDID |-> u, name |-> n]]
  /\ helper' = [helper EXCEPT ![r] = "waiting"]
  /\ now' = [now EXCEPT ![r] = clock]
  /\ goto(r, "Validate")
  /\ UNCHANGED <<clock, memory, ipfs, channel, login, cid, history, spent>>

Validation(r) ==
  Store!Validated(sessions, form[r].token, form[r].userDID, now[r])

\* errSessionMismatch, the one refusal that says nothing of the token: its
\* session is another user's, and outlived the clean-up.
Mismatch(r) ==
  LET session == Validation(r).sessions[form[r].token] IN
  session # NoSession /\ session.userDID # form[r].userDID

\* Validate, and after it the checks of the photo, the signature and the
\* timestamp, of which any may refuse the request.
Validate(r) ==
  LET v == Validation(r) IN
  /\ pc[r] = "Validate"
  /\ sessions' = v.sessions
  /\ \/ v.accepted /\ goto(r, "AddAssetInfo")
     \/ goto(r, "error")
  /\ refused' = IF v.accepted \/ Mismatch(r) THEN refused ELSE refused \cup {form[r].token}
  /\ UNCHANGED <<clock, infoCache, ipfs, channel, now, login, helper, form, cid, lost, spent>>

\* The photo is added to IPFS, then the asset information, which gets its
\* registration time and is cached.
AddAssetInfo(r) ==
  LET c == [name |-> form[r].name, time |-> clock] IN
  /\ pc[r] = "AddAssetInfo"
  /\ Add(c)
  /\ cacheAssetInfo(c, c)
  /\ cid' = [cid EXCEPT ![r] = c]
  /\ goto(r, "RegisterAsset")
  /\ UNCHANGED <<clock, sessions, channel, now, login, helper, form, history, spent>>

Waiting(r) == \E f \in flight : f.by = r

\* A peer simulates RegisterAsset: it reads the list of the user.  The user
\* is registered and the asset ID a fresh one, so it is never refused.
Endorse(r) ==
  /\ pc[r] = "RegisterAsset" /\ ~Waiting(r)
  /\ flight' = flight \cup
       {[by |-> r, asset |-> r, userDID |-> form[r].userDID, cid |-> cid[r],
         list |-> assetList[form[r].userDID], stale |-> FALSE]}
  /\ UNCHANGED <<clock, memory, ipfs, cert, owner, assetList, now, login, helper, server,
                 history, spent>>

\* Mutated form: another registration does not make this one stale.
Overtaken_Never(fs, u) == fs

\* Whoever has read the list of the user can no longer be valid.
Overtaken(fs, u) == {[f EXCEPT !.stale = @ \/ f.userDID = u] : f \in fs}

\* The certificate, the index and the list of the owner are written at once.
Commit(f) ==
  /\ ~f.stale
  /\ cert' = [cert EXCEPT ![f.asset] = f.cid]
  /\ owner' = [owner EXCEPT ![f.asset] = f.userDID]
  /\ assetList' = [assetList EXCEPT ![f.userDID] = f.list \cup {f.asset}]
  /\ flight' = Overtaken(flight \ {f}, f.userDID)
  /\ IF f.by = Nobody THEN UNCHANGED pc ELSE goto(f.by, "GetCertAddr")
  /\ UNCHANGED <<clock, memory, ipfs, now, login, helper, form, cid, history, spent>>

Invalidate(f) ==
  /\ f.stale
  /\ flight' = flight \ {f}
  /\ IF f.by = Nobody THEN UNCHANGED pc ELSE goto(f.by, "error")
  /\ UNCHANGED <<clock, memory, ipfs, cert, owner, assetList, now, login, helper, form, cid,
                 history, spent>>

\* GetCertAddr, and the answer.
GetCertAddr(r) ==
  /\ pc[r] = "GetCertAddr"
  /\ goto(r, "ok")
  /\ UNCHANGED <<clock, memory, ipfs, channel, now, login, helper, form, cid, history, spent>>

\* Mutated form: the status of the answer is not looked at.
HelperAnswers_AnyStatus(r) ==
  /\ helper[r] = "waiting" /\ pc[r] \in {"ok", "error", "dead"}
  /\ helper' = [helper EXCEPT ![r] = IF pc[r] = "dead" THEN "failed" ELSE "registered"]
  /\ UNCHANGED <<clock, memory, ipfs, channel, now, login, server, history, spent>>

\* The helper passes the answer on; a broken connection is a failure.
HelperAnswers(r) ==
  /\ helper[r] = "waiting" /\ pc[r] \in {"ok", "error", "dead"}
  /\ helper' = [helper EXCEPT ![r] = IF pc[r] = "ok" THEN "registered" ELSE "failed"]
  /\ UNCHANGED <<clock, memory, ipfs, channel, now, login, server, history, spent>>

Request(r) ==
  \/ Validate(r) \/ AddAssetInfo(r) \/ Endorse(r) \/ GetCertAddr(r)
  \/ HelperAnswers(r)

Channel == \E f \in flight : Commit(f) \/ Invalidate(f)

-----------------------------------------------------------------------------
(* The environment.                                                        *)

Tick ==
  /\ clock < MaxTime
  /\ clock' = clock + 1
  /\ UNCHANGED <<memory, ipfs, channel, now, login, helper, server, history, spent>>

\* A call fails and has no effect, except that of GetCertAddr, whose failure
\* comes after the asset is registered.
CallFails(r) ==
  /\ spent.failures < MaxFailures
  /\ pc[r] \in RequestSteps \ {"Validate"} /\ ~Waiting(r)
  /\ goto(r, "error")
  /\ spent' = [spent EXCEPT !.failures = @ + 1]
  /\ UNCHANGED <<clock, memory, ipfs, channel, now, login, helper, form, cid, history>>

\* A call of the login fails: no login data.
LoginCallFails(l) ==
  /\ spent.failures < MaxFailures
  /\ lpc[l] \in {"GetAssetList", "GetAssetCertificate"}
  /\ loginGoto(l, "error")
  /\ spent' = [spent EXCEPT !.failures = @ + 1]
  /\ UNCHANGED <<clock, memory, ipfs, channel, now, lstate, helper, server, history>>

\* The helper's 75 seconds are over; the server goes on.
HelperGivesUp(r) ==
  /\ spent.timeouts < MaxTimeouts
  /\ helper[r] = "waiting"
  /\ helper' = [helper EXCEPT ![r] = "failed"]
  /\ spent' = [spent EXCEPT !.timeouts = @ + 1]
  /\ UNCHANGED <<clock, memory, ipfs, channel, now, login, server, history>>

\* The uploads, unlike the calls of the gateway, are given up with the request
\* they are made for (r.Context()).
UploadCancelled(r) ==
  /\ helper[r] = "failed" /\ pc[r] = "AddAssetInfo"
  /\ goto(r, "error")
  /\ UNCHANGED <<clock, memory, ipfs, channel, now, login, helper, form, cid, history, spent>>

\* The gateway gives up; the invocation is still on its way.
LoseAnswer(f) ==
  /\ spent.timeouts < MaxTimeouts
  /\ f.by # Nobody
  /\ flight' = (flight \ {f}) \cup {[f EXCEPT !.by = Nobody]}
  /\ goto(f.by, "error")
  /\ spent' = [spent EXCEPT !.timeouts = @ + 1]
  /\ UNCHANGED <<clock, memory, ipfs, cert, owner, assetList, now, login, helper, form, cid,
                 history>>

Discard(f) ==
  /\ f.by = Nobody
  /\ flight' = flight \ {f}
  /\ UNCHANGED <<clock, memory, ipfs, cert, owner, assetList, now, login, helper, server,
                 history, spent>>

\* The server process dies and is started again.
Crash ==
  /\ spent.crashes < MaxCrashes
  /\ spent' = [spent EXCEPT !.crashes = @ + 1]
  /\ lost' = lost \cup {l \in Logins : lpc[l] = "ok"}
  /\ sessions' = Store!Empty
  /\ infoCache' = [c \in AssetInfos |-> NoInfo]
  /\ lpc' = [l \in Logins |-> IF lpc[l] \in LoginSteps THEN "dead" ELSE lpc[l]]
  /\ pc' = [r \in Requests |-> IF pc[r] \in RequestSteps THEN "dead" ELSE pc[r]]
  /\ flight' = {[f EXCEPT !.by = Nobody] : f \in flight}
  /\ UNCHANGED <<clock, ipfs, cert, owner, assetList, now, lstate, helper, form, cid, refused>>

Environment ==
  \/ Tick \/ Crash
  \/ \E r \in Requests : CallFails(r) \/ HelperGivesUp(r) \/ UploadCancelled(r)
  \/ \E l \in Logins : LoginCallFails(l)
  \/ \E f \in flight : LoseAnswer(f) \/ Discard(f)

Next ==
  \/ \E l \in Logins : BeginLogin(l) \/ Login(l)
  \/ \E r \in Requests : Send(r) \/ Request(r)
  \/ Channel
  \/ Environment

Spec == Init /\ [][Next]_vars

-----------------------------------------------------------------------------
(* Properties.                                                             *)

\* Sessions, cache and chain hold what their types say, and an invocation was
\* simulated on a list that held no asset of its own.
TypeOK ==
  /\ clock \in 0..MaxTime
  /\ sessions \in [Logins -> [userDID : Users, expiresAt : 0..(MaxTime + TTL)] \cup {NoSession}]
  /\ infoCache \in [AssetInfos -> AssetInfos \cup {Unreadable, NoInfo}]
  /\ ipfs \subseteq AssetInfos
  /\ cert \in [Requests -> AssetInfos \cup {NoCert}]
  /\ owner \in [Requests -> Users \cup {Nobody}]
  /\ assetList \in [Users -> SUBSET Requests]
  /\ \A f \in flight :
       /\ f.by \in {f.asset, Nobody} /\ f.userDID = form[f.asset].userDID
       /\ f.cid = cid[f.asset] /\ f.asset \notin f.list /\ cert[f.asset] = NoCert
  /\ now \in [Logins \cup Requests -> 0..MaxTime]
  /\ lpc \in [Logins -> LoginSteps \cup {"idle", "ok", "error", "dead"}]
  /\ \A l \in Logins : lstate[l].todo \subseteq {a \in Requests : cert[a] # NoCert}
  /\ helper \in [Requests -> {"idle", "waiting", "registered", "failed"}]
  /\ pc \in [Requests -> RequestSteps \cup {"idle", "ok", "error", "dead"}]
  /\ cid \in [Requests -> AssetInfos \cup {NoInfo}]
  /\ refused \cup lost \subseteq Logins

\* A session that a request has found missing or expired opens no later
\* request, although the later one may have read the clock before it: the
\* order of the mutex is not the order of the times (session.go:64).
RefusedStaysRefused ==
  [][\A r \in Requests :
       pc[r] = "Validate" /\ pc'[r] = "AddAssetInfo" => form[r].token \notin refused]_vars

\* A user who has logged in stays logged in until her session is over: no
\* request or login of anybody, with whatever time it brings, removes the
\* session before (cleanupExpiredLocked).
LiveSessionKept ==
  \A l \in Logins :
    lpc[l] = "ok" /\ l \notin lost /\ clock < now[l] + TTL => sessions[l] # NoSession

\* Every asset belongs to the user who had logged in to register it, even
\* when the user was asked for in one form and the session in another.
OwnerWasLoggedIn ==
  \A a \in Requests : owner[a] # Nobody => owner[a] = lstate[form[a].token].userDID

\* No two registrations of a user, at once or given up for lost, take an asset
\* from each other's list: what has a certificate is listed by its owner and
\* nobody else, with the information that was added to IPFS for it.
RegisteredIsListed ==
  \A a \in Requests :
    /\ cert[a] # NoCert => cert[a] \in ipfs /\ cert[a].name = form[a].name
    /\ \A u \in Users : a \in assetList[u] <=> cert[a] # NoCert /\ owner[a] = u

\* The cache shows for every CID the content on IPFS: a read that failed is
\* not remembered, and neither is anything a crash came before.
CacheShowsContent ==
  \A c \in AssetInfos : infoCache[c] # NoInfo => infoCache[c] = c /\ c \in ipfs

\* A user who was told that her asset is registered sees it at every later
\* login, its own information or none, and never that of another asset.
RegisteredIsShown ==
  \A l \in Logins :
    lpc[l] = "ok" =>
      \A a \in lstate[l].promised : lstate[l].shown[a] \in {cid[a], Unreadable}

=============================================================================
