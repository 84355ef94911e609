----------------------- MODULE AssetRegistrationProofs -----------------------
(***************************************************************************)
(* The registration of assets keeps what it promises for any number of     *)
(* users, logins and registrations, any lifetime of a session and any      *)
(* number of failed calls, timeouts, lost answers and crashes.             *)
(*                                                                         *)
(* None of the properties is inductive.  They hold because of what is      *)
(* known of a login and of a request at each of their steps and of an      *)
(* invocation while it is on its way: which session a token stands for,    *)
(* what a CID was made from, and that an invocation that is not stale has  *)
(* read the list the channel holds.                                        *)
(***************************************************************************)
EXTENDS AssetRegistration, TLAPS

\* The steps of a login whose user is known, and those that follow when it has
\* read every asset.
Begun == LoginSteps \cup {"ok"}
Shown == {"CreateSession", "ok"}

Forms == [token : Logins \cup {Nobody}, userDID : Users \cup {Nobody}, name : Names \cup {""}]

LoginStates ==
  [userDID : Users \cup {Nobody}, todo : SUBSET Requests,
   shown : [Requests -> AssetInfos \cup {Unreadable, NoInfo}], promised : SUBSET Requests]

Invocations ==
  [by : Requests \cup {Nobody}, asset : Requests, userDID : Users, cid : AssetInfos,
   list : SUBSET Requests, stale : BOOLEAN]

SessionRecords == [userDID : Users, expiresAt : 0..(MaxTime + TTL)]

Types ==
  /\ clock \in 0..MaxTime
  /\ sessions \in [Logins -> SessionRecords \cup {NoSession}]
  /\ infoCache \in [AssetInfos -> AssetInfos \cup {Unreadable, NoInfo}]
  /\ ipfs \subseteq AssetInfos
  /\ cert \in [Requests -> AssetInfos \cup {NoCert}]
  /\ owner \in [Requests -> Users \cup {Nobody}]
  /\ assetList \in [Users -> SUBSET Requests]
  /\ flight \subseteq Invocations
  /\ now \in [Logins \cup Requests -> 0..MaxTime]
  /\ lpc \in [Logins -> LoginSteps \cup {"idle", "ok", "error", "dead"}]
  /\ lstate \in [Logins -> LoginStates]
  /\ helper \in [Requests -> {"idle", "waiting", "registered", "failed"}]
  /\ pc \in [Requests -> RequestSteps \cup {"idle", "ok", "error", "dead"}]
  /\ form \in [Requests -> Forms]
  /\ cid \in [Requests -> AssetInfos \cup {NoInfo}]
  /\ refused \subseteq Logins /\ lost \subseteq Logins

\* The clock only advances, and whoever has read it has read it in the past.
TimesPast == \A x \in Logins \cup Requests : now[x] <= clock

\* A session is that of a login that was answered, of its user and for TTL from
\* the time it read; no time that has passed yet removes it before that, and
\* what was refused has none.
SessionInv ==
  \A l \in Logins :
    /\ sessions[l] # NoSession =>
         /\ lpc[l] = "ok"
         /\ sessions[l].userDID = lstate[l].userDID
         /\ sessions[l].expiresAt = now[l] + TTL
    /\ lpc[l] = "ok" /\ l \notin lost /\ clock < now[l] + TTL => sessions[l] # NoSession
    /\ l \in refused => lpc[l] = "ok" /\ sessions[l] = NoSession

\* A login reads the assets its user has, those she was told of among them, and
\* shows each of them with its information or with none.
LoginInv ==
  \A l \in Logins :
    /\ \A a \in lstate[l].todo : cert[a] # NoCert
    /\ lpc[l] \in Begun =>
         /\ lstate[l].userDID \in Users
         /\ \A a \in lstate[l].promised : cert[a] # NoCert /\ owner[a] = lstate[l].userDID
    /\ lpc[l] = "GetAssetCertificate" =>
         \A a \in lstate[l].promised \ lstate[l].todo : lstate[l].shown[a] \in {cid[a], Unreadable}
    /\ lpc[l] \in Shown =>
         \A a \in lstate[l].promised : lstate[l].shown[a] \in {cid[a], Unreadable}

\* A request that was sent has a session token of a login, one that has been
\* let through a user who had logged in with it.
RequestInv ==
  \A r \in Requests :
    /\ helper[r] = "idle" => pc[r] = "idle"
    /\ pc[r] # "idle" =>
         form[r].token \in Logins /\ form[r].userDID \in Users /\ form[r].name \in Names
    /\ pc[r] # "idle" => lpc[form[r].token] = "ok"
    /\ pc[r] = "AddAssetInfo" \/ cid[r] # NoInfo =>
         form[r].userDID = lstate[form[r].token].userDID
    /\ pc[r] \in {"idle", "Validate", "AddAssetInfo"} => cid[r] = NoInfo
    /\ pc[r] = "RegisterAsset" => cid[r] # NoInfo /\ cert[r] = NoCert
    /\ cid[r] # NoInfo => cid[r] \in ipfs /\ cid[r].name = form[r].name
    /\ pc[r] \in {"GetCertAddr", "ok"} \/ helper[r] = "registered" => cert[r] # NoCert

\* An asset on the channel is that of its request, and listed by its owner only.
ChannelInv ==
  \A r \in Requests :
    /\ cert[r] # NoCert => cid[r] # NoInfo /\ cert[r] = cid[r] /\ owner[r] = form[r].userDID
    /\ cert[r] = NoCert => owner[r] = Nobody
    /\ \A u \in Users : r \in assetList[u] <=> cert[r] # NoCert /\ owner[r] = u

\* An invocation is that of a request that waits for it or has given it up, and
\* one that is not stale has read the list as it still is.
InvocationOK(f) ==
  /\ f.by \in {f.asset, Nobody}
  /\ f.by = f.asset => pc[f.asset] = "RegisterAsset"
  /\ f.by = Nobody => pc[f.asset] \in {"error", "dead"}
  /\ f.userDID = form[f.asset].userDID
  /\ f.cid = cid[f.asset]
  /\ f.asset \notin f.list
  /\ cert[f.asset] = NoCert
  /\ f.stale \/ f.list = assetList[f.userDID]

FlightInv ==
  /\ \A f \in flight : InvocationOK(f)
  /\ \A f, g \in flight : f.asset = g.asset => f = g

IInv ==
  Types /\ TimesPast /\ SessionInv /\ LoginInv /\ CacheShowsContent /\ RequestInv /\ ChannelInv
  /\ FlightInv

-----------------------------------------------------------------------------

LEMMA InitIInv == Init => IInv
<1> SUFFICES ASSUME Init
             PROVE  IInv
  OBVIOUS
<1>1. Types
  <2>1. NoForm \in Forms /\ NoLogin \in LoginStates
    BY DEF NoForm, NoLogin, Forms, LoginStates
  <2>2. sessions \in [Logins -> SessionRecords \cup {NoSession}]
    BY DEF Init, Store!Empty
  <2>3. now \in [Logins \cup Requests -> 0..MaxTime] /\ clock \in 0..MaxTime
    BY BudgetsAssumption DEF Init
  <2> QED
    BY <2>1, <2>2, <2>3 DEF Init, Types
<1>2. TimesPast
  BY DEF Init, TimesPast
<1>3. SessionInv
  BY DEF Init, SessionInv, Store!Empty
<1>4. LoginInv
  BY DEF Init, LoginInv, NoLogin, Begun, Shown, LoginSteps
<1>5. RequestInv
  BY DEF Init, RequestInv
<1>6. ChannelInv
  BY AbsentAssumption DEF Init, ChannelInv
<1>7. CacheShowsContent /\ FlightInv
  BY DEF Init, CacheShowsContent, FlightInv
<1> QED
  BY <1>1, <1>2, <1>3, <1>4, <1>5, <1>6, <1>7 DEF IInv

-----------------------------------------------------------------------------
(* What a step keeps that leaves the variables of a part of the invariant  *)
(* alone, or changes them where that part says nothing.                    *)

LEMMA SessionsKept ==
  ASSUME SessionInv, UNCHANGED <<clock, sessions, refused, lost>>,
         \A l \in Logins : lpc'[l] = "ok" <=> lpc[l] = "ok",
         \A l \in Logins : lpc[l] = "ok" => lstate'[l] = lstate[l] /\ now'[l] = now[l]
  PROVE  SessionInv'
BY DEF SessionInv

\* Nothing a login has read of a registered asset changes.
LEMMA LoginsKept ==
  ASSUME Types, LoginInv, UNCHANGED lstate,
         \A l \in Logins : lpc'[l] = lpc[l] \/ lpc'[l] \notin Begun,
         \A a \in Requests : cert[a] # NoCert =>
            cert'[a] = cert[a] /\ owner'[a] = owner[a] /\ cid'[a] = cid[a]
  PROVE  LoginInv'
<1>1. \A l \in Logins : lstate[l].todo \subseteq Requests /\ lstate[l].promised \subseteq Requests
  BY DEF Types, LoginStates
<1>2. "GetAssetCertificate" \in Begun /\ Shown \subseteq Begun
  BY DEF Begun, Shown, LoginSteps
<1> QED
  BY <1>1, <1>2 DEF LoginInv

LEMMA CacheKept ==
  ASSUME CacheShowsContent, UNCHANGED infoCache, ipfs \subseteq ipfs'
  PROVE  CacheShowsContent'
BY DEF CacheShowsContent

\* Nothing that is registered changes.
LEMMA ChannelKept ==
  ASSUME ChannelInv, UNCHANGED <<cert, owner, assetList>>,
         \A a \in Requests : cert[a] # NoCert => form'[a] = form[a] /\ cid'[a] = cid[a]
  PROVE  ChannelInv'
BY DEF ChannelInv

\* A request that moves on with its invocation answered, or before it.
LEMMA FlightKept ==
  ASSUME Types, FlightInv, UNCHANGED <<flight, cert, assetList>>,
         \A f \in flight : form'[f.asset] = form[f.asset] /\ cid'[f.asset] = cid[f.asset],
         \A f \in flight : \/ pc'[f.asset] = pc[f.asset]
                           \/ pc'[f.asset] \in {"error", "dead"} /\ f.by = Nobody
  PROVE  FlightInv'
<1>1. \A f \in flight : f.asset \in Requests
  BY DEF Types, Invocations
<1> QED
  BY <1>1, AbsentAssumption DEF FlightInv, InvocationOK

\* The requests, when logins that were answered stay so.
LEMMA RequestsKept ==
  ASSUME RequestInv, UNCHANGED <<helper, pc, form, cid, cert, ipfs>>,
         \A l \in Logins : lpc[l] = "ok" => lpc'[l] = "ok" /\ lstate'[l] = lstate[l]
  PROVE  RequestInv'
<1>1. \A r \in Requests : cid[r] # NoInfo => pc[r] # "idle"
  BY DEF RequestInv
<1> QED
  BY <1>1 DEF RequestInv

-----------------------------------------------------------------------------
(* The login.                                                              *)

\* A step of a login that is not answered yet, or with this step.
LEMMA LoginFrame ==
  ASSUME IInv, UNCHANGED <<clock, ipfs, channel, helper, server, refused, lost>>,
         NEW l \in Logins, lpc[l] # "ok",
         \A k \in Logins : k # l => lpc'[k] = lpc[k] /\ lstate'[k] = lstate[k]
  PROVE  RequestInv' /\ ChannelInv' /\ FlightInv'
<1> USE DEF IInv, channel, server
<1>1. RequestInv'
  BY RequestsKept
<1>2. ChannelInv'
  BY ChannelKept
<1>3. FlightInv'
  <2>1. UNCHANGED <<flight, cert, assetList, form, cid, pc>>
    OBVIOUS
  <2> QED
    BY <2>1, FlightKept
<1> QED
  BY <1>1, <1>2, <1>3

LEMMA LoginMoves ==
  ASSUME Types, NEW l \in Logins, NEW L \in LoginStates, lstate' = [lstate EXCEPT ![l] = L]
  PROVE  /\ lstate' \in [Logins -> LoginStates]
         /\ lstate'[l] = L
         /\ \A k \in Logins : k # l => lstate'[k] = lstate[k]
BY DEF Types

LEMMA BeginLoginInv == ASSUME IInv, NEW l \in Logins, BeginLogin(l) PROVE IInv'
<1> USE DEF IInv
<1>1. PICK u \in Users :
        lstate' = [lstate EXCEPT ![l].userDID = u,
          ![l].promised = {r \in Requests : helper[r] = "registered" /\ form[r].userDID = u}]
  BY DEF BeginLogin
<1>2. /\ lpc[l] = "idle" /\ lpc' = [lpc EXCEPT ![l] = "GetAssetList"]
      /\ UNCHANGED <<clock, memory, ipfs, channel, now, helper, server, history>>
  BY DEF BeginLogin, loginGoto
<1>3. /\ lstate'[l].userDID = u
      /\ lstate'[l].todo = lstate[l].todo
      /\ lstate'[l].promised = {r \in Requests : helper[r] = "registered" /\ form[r].userDID = u}
      /\ \A k \in Logins : k # l => lstate'[k] = lstate[k]
      /\ lstate' \in [Logins -> LoginStates]
  <2> DEFINE P == {r \in Requests : helper[r] = "registered" /\ form[r].userDID = u}
  <2>1. lstate' = [lstate EXCEPT ![l].userDID = u, ![l].promised = P]
    BY <1>1
  <2>2. P \in SUBSET Requests
    OBVIOUS
  <2> HIDE DEF P
  <2>3. lstate[l] \in LoginStates
    BY DEF Types
  <2> DEFINE L == [lstate[l] EXCEPT !.userDID = u, !.promised = P]
  <2>4. lstate' = [lstate EXCEPT ![l] = L]
    BY <2>1, <2>3 DEF Types
  <2>5. L \in LoginStates /\ L.userDID = u /\ L.todo = lstate[l].todo /\ L.promised = P
    BY <2>2, <2>3 DEF LoginStates
  <2> QED
    BY <2>4, <2>5, LoginMoves DEF P
<1>4. Types'
  BY <1>2, <1>3 DEF Types, memory, channel, server, history, LoginSteps
<1>5. TimesPast' /\ CacheShowsContent'
  BY <1>2, CacheKept DEF TimesPast, memory
<1>6. SessionInv'
  BY <1>2, <1>3, SessionsKept DEF Types, memory, history
<1>7. LoginInv'
  <2>1. \A a \in lstate'[l].promised : cert[a] # NoCert /\ owner[a] = u
    BY <1>3 DEF RequestInv, ChannelInv
  <2>2. lpc'[l] = "GetAssetList" /\ lpc'[l] \notin Shown
    BY <1>2 DEF Types, Shown
  <2>3. \A k \in Logins : k # l => lpc'[k] = lpc[k]
    BY <1>2 DEF Types
  <2> QED
    BY <1>2, <1>3, <2>1, <2>2, <2>3 DEF LoginInv, channel, server
<1>8. RequestInv' /\ ChannelInv' /\ FlightInv'
  BY <1>2, <1>3, LoginFrame DEF Types, history
<1> QED
  BY <1>4, <1>5, <1>6, <1>7, <1>8

\* The list of the user holds the assets she was told of.
LEMMA GetAssetListInv == ASSUME IInv, NEW l \in Logins, GetAssetList(l) PROVE IInv'
<1> USE DEF IInv
<1>1. /\ lpc[l] = "GetAssetList" /\ lpc' = [lpc EXCEPT ![l] = "GetAssetCertificate"]
      /\ UNCHANGED <<clock, memory, ipfs, channel, now, helper, server, history>>
  BY DEF GetAssetList, loginGoto
<1>2. lstate[l].userDID \in Users
  BY <1>1 DEF LoginInv, Begun, LoginSteps
<1>3. assetList[lstate[l].userDID] \subseteq Requests
  BY <1>2 DEF Types
<1>4. /\ lstate'[l].userDID = lstate[l].userDID
      /\ lstate'[l].todo = assetList[lstate[l].userDID]
      /\ lstate'[l].promised = lstate[l].promised
      /\ \A k \in Logins : k # l => lstate'[k] = lstate[k]
      /\ lstate' \in [Logins -> LoginStates]
  <2> DEFINE L == [lstate[l] EXCEPT !.todo = assetList[lstate[l].userDID]]
  <2>1. /\ L \in LoginStates
        /\ L.userDID = lstate[l].userDID /\ L.todo = assetList[lstate[l].userDID]
        /\ L.promised = lstate[l].promised
    BY <1>3 DEF Types, LoginStates
  <2>2. lstate' = [lstate EXCEPT ![l] = L]
    BY DEF GetAssetList
  <2> QED
    BY <2>1, <2>2, LoginMoves
<1>5. Types'
  BY <1>1, <1>4 DEF Types, memory, channel, server, history, LoginSteps
<1>6. TimesPast' /\ CacheShowsContent'
  BY <1>1, CacheKept DEF TimesPast, memory
<1>7. SessionInv'
  BY <1>1, <1>4, SessionsKept DEF Types, memory, history
<1>8. LoginInv'
  <2>1. /\ \A a \in lstate'[l].todo : cert[a] # NoCert
        /\ lstate'[l].promised \subseteq lstate'[l].todo
    BY <1>1, <1>2, <1>3, <1>4 DEF LoginInv, ChannelInv, Begun, LoginSteps, Types, LoginStates
  <2>2. lpc'[l] = "GetAssetCertificate" /\ lpc'[l] \notin Shown /\ lpc[l] \in Begun
    BY <1>1 DEF Types, Shown, Begun, LoginSteps
  <2>3. \A k \in Logins : k # l => lpc'[k] = lpc[k]
    BY <1>1 DEF Types
  <2> QED
    BY <1>1, <1>2, <1>4, <2>1, <2>2, <2>3 DEF LoginInv, channel, server
<1>9. RequestInv' /\ ChannelInv' /\ FlightInv'
  BY <1>1, <1>4, LoginFrame DEF Types, history
<1> QED
  BY <1>5, <1>6, <1>7, <1>8, <1>9

\* The asset is shown with what its CID stands for, or with nothing.
LEMMA GetAssetCertificateInv ==
  ASSUME IInv, NEW l \in Logins, GetAssetCertificate(l) PROVE IInv'
<1> USE DEF IInv
<1>1. PICK a \in lstate[l].todo : cert[a] # NoCert /\ ReadAssetInfo(l, a)
  BY DEF GetAssetCertificate
<1>2. /\ lpc[l] = "GetAssetCertificate"
      /\ UNCHANGED <<clock, sessions, ipfs, channel, now, lpc, helper, server, history>>
  BY DEF GetAssetCertificate
<1>3. a \in Requests /\ cert[a] \in AssetInfos /\ cert[a] = cid[a]
  BY <1>1 DEF Types, LoginStates, ChannelInv
<1>4. PICK i \in {cid[a], Unreadable} :
        /\ Shows(l, a, i)
        /\ \/ infoCache' = infoCache
           \/ cid[a] \in ipfs /\ infoCache' = [infoCache EXCEPT ![cid[a]] = cid[a]]
  <2>1. infoCache[cert[a]] # NoInfo => infoCache[cert[a]] = cid[a]
    BY <1>3 DEF CacheShowsContent
  <2> QED
    BY <1>1, <1>3, <2>1 DEF ReadAssetInfo, getCachedAssetInfo, cacheAssetInfo, Cat
<1>5. /\ lstate'[l].userDID = lstate[l].userDID
      /\ lstate'[l].todo = lstate[l].todo \ {a}
      /\ lstate'[l].promised = lstate[l].promised
      /\ lstate'[l].shown = [lstate[l].shown EXCEPT ![a] = i]
      /\ \A k \in Logins : k # l => lstate'[k] = lstate[k]
      /\ lstate' \in [Logins -> LoginStates]
  <2> DEFINE L == [lstate[l] EXCEPT !.todo = @ \ {a}, !.shown = [@ EXCEPT ![a] = i]]
  <2>1. i \in AssetInfos \cup {Unreadable, NoInfo}
    BY <1>3
  <2>2. lstate[l] \in LoginStates
    BY DEF Types
  <2>3. /\ lstate[l].todo \ {a} \in SUBSET Requests
        /\ [lstate[l].shown EXCEPT ![a] = i] \in
             [Requests -> AssetInfos \cup {Unreadable, NoInfo}]
    BY <2>1, <2>2 DEF LoginStates
  <2>4. /\ L \in LoginStates
        /\ L.userDID = lstate[l].userDID /\ L.todo = lstate[l].todo \ {a}
        /\ L.promised = lstate[l].promised
        /\ L.shown = [lstate[l].shown EXCEPT ![a] = i]
    BY <2>2, <2>3 DEF LoginStates
  <2>5. lstate' = [lstate EXCEPT ![l] = L]
    BY <1>4, <2>2 DEF Shows, Types, LoginStates
  <2> QED
    BY <2>4, <2>5, LoginMoves
<1>6. Types'
  <2>1. infoCache' \in [AssetInfos -> AssetInfos \cup {Unreadable, NoInfo}]
    BY <1>3, <1>4 DEF Types
  <2> QED
    BY <1>2, <1>5, <2>1 DEF Types, channel, server, history
<1>7. TimesPast' /\ CacheShowsContent'
  BY <1>2, <1>3, <1>4 DEF TimesPast, CacheShowsContent, Types
<1>8. SessionInv'
  BY <1>2, <1>5, SessionsKept DEF history
<1>9. LoginInv'
  <2>1. \A b \in lstate'[l].promised \ lstate'[l].todo : lstate'[l].shown[b] \in {cid[b], Unreadable}
    <3> SUFFICES ASSUME NEW b \in lstate[l].promised, b \notin lstate[l].todo \ {a}
                 PROVE  lstate'[l].shown[b] \in {cid[b], Unreadable}
      BY <1>5
    <3>1. lstate[l].shown \in [Requests -> AssetInfos \cup {Unreadable, NoInfo}]
          /\ b \in Requests
      BY DEF Types, LoginStates
    <3>2. CASE b = a
      BY <1>3, <1>4, <1>5, <3>1, <3>2
    <3>3. CASE b # a
      BY <1>2, <1>5, <3>1, <3>3 DEF LoginInv
    <3> QED
      BY <3>2, <3>3
  <2>2. lpc[l] \in Begun /\ lpc[l] \notin Shown
    BY <1>2 DEF Begun, Shown, LoginSteps
  <2> QED
    <3>1. UNCHANGED <<lpc, cert, owner, cid>>
      BY <1>2 DEF channel, server
    <3>2. \A k \in Logins : k # l => lstate'[k] = lstate[k]
      BY <1>5
    <3>3. /\ \A b \in lstate'[l].todo : cert'[b] # NoCert
          /\ lstate'[l].userDID \in Users
          /\ \A b \in lstate'[l].promised : cert'[b] # NoCert /\ owner'[b] = lstate'[l].userDID
      BY <1>5, <2>2, <3>1 DEF LoginInv
    <3> QED
      BY <1>2, <2>1, <2>2, <3>1, <3>2, <3>3 DEF LoginInv
<1>10. RequestInv' /\ ChannelInv' /\ FlightInv'
  BY <1>2, <1>5, LoginFrame DEF history
<1> QED
  BY <1>6, <1>7, <1>8, <1>9, <1>10

LEMMA FinishReadingInv == ASSUME IInv, NEW l \in Logins, FinishReading(l) PROVE IInv'
<1> USE DEF IInv
<1>1. /\ lpc[l] = "GetAssetCertificate" /\ lstate[l].todo = {}
      /\ lpc' = [lpc EXCEPT ![l] = "CreateSession"] /\ now' = [now EXCEPT ![l] = clock]
      /\ UNCHANGED <<clock, memory, ipfs, channel, lstate, helper, server, history>>
  BY DEF FinishReading, loginGoto
<1>2. Types'
  BY <1>1 DEF Types, memory, channel, server, history, LoginSteps
<1>3. TimesPast' /\ CacheShowsContent'
  BY <1>1, CacheKept DEF TimesPast, memory, Types
<1>4. SessionInv'
  BY <1>1, SessionsKept DEF memory, history, Types
<1>5. LoginInv'
  BY <1>1 DEF LoginInv, Types, Begun, Shown, LoginSteps, channel, server
<1>6. RequestInv' /\ ChannelInv' /\ FlightInv'
  BY <1>1, LoginFrame DEF history, Types
<1> QED
  BY <1>2, <1>3, <1>4, <1>5, <1>6

LEMMA LoginCallFailsInv == ASSUME IInv, NEW l \in Logins, LoginCallFails(l) PROVE IInv'
<1> USE DEF IInv
<1>1. /\ lpc[l] \in {"GetAssetList", "GetAssetCertificate"}
      /\ lpc' = [lpc EXCEPT ![l] = "error"]
      /\ UNCHANGED <<clock, memory, ipfs, channel, now, lstate, helper, server, history>>
  BY DEF LoginCallFails, loginGoto
<1>2. Types'
  BY <1>1 DEF Types, memory, channel, server, history
<1>3. TimesPast' /\ CacheShowsContent'
  BY <1>1, CacheKept DEF TimesPast, memory
<1>4. SessionInv'
  BY <1>1, SessionsKept DEF memory, history, Types
<1>5. LoginInv'
  BY <1>1 DEF LoginInv, Types, Begun, Shown, LoginSteps, channel, server
<1>6. RequestInv' /\ ChannelInv' /\ FlightInv'
  BY <1>1, LoginFrame DEF history, Types
<1> QED
  BY <1>2, <1>3, <1>4, <1>5, <1>6

-----------------------------------------------------------------------------
(* The sessions.                                                           *)

\* A clean-up at a time that has passed removes only what has expired by now.
LEMMA CleanedSessions ==
  ASSUME Types, TimesPast, NEW x \in Logins \cup Requests
  PROVE  LET cleaned == Store!Cleaned(sessions, now[x]) IN
         /\ cleaned \in [Logins -> SessionRecords \cup {NoSession}]
         /\ \A l \in Logins :
              /\ cleaned[l] \in {sessions[l], NoSession}
              /\ sessions[l] # NoSession /\ cleaned[l] = NoSession => clock >= sessions[l].expiresAt
<1>1. /\ now[x] \in Nat /\ clock \in Nat /\ now[x] <= clock
      /\ \A l \in Logins : sessions[l] # NoSession => sessions[l].expiresAt \in Nat
  BY BudgetsAssumption, TTLAssumption DEF Types, TimesPast, SessionRecords
<1> QED
  BY <1>1 DEF Store!Cleaned, Store!Expired, Types

LEMMA CreateSessionInv == ASSUME IInv, NEW l \in Logins, CreateSession(l) PROVE IInv'
<1> USE DEF IInv
<1>1. /\ lpc[l] = "CreateSession" /\ lpc' = [lpc EXCEPT ![l] = "ok"]
      /\ sessions' = Store!Created(sessions, l, lstate[l].userDID, now[l])
      /\ UNCHANGED <<clock, infoCache, ipfs, channel, now, lstate, helper, server, history>>
  BY DEF CreateSession, loginGoto
<1>2. lstate[l].userDID \in Users
  BY <1>1 DEF LoginInv, Begun, LoginSteps
<1> DEFINE new == [userDID |-> lstate[l].userDID, expiresAt |-> now[l] + TTL]
<1>3. /\ new \in SessionRecords /\ new # NoSession
      /\ new.userDID = lstate[l].userDID /\ new.expiresAt = now[l] + TTL
  <2>1. now[l] + TTL \in 0..(MaxTime + TTL)
    BY BudgetsAssumption, TTLAssumption DEF Types
  <2> QED
    <3>1. new.expiresAt \in Nat /\ new.userDID \in Users
      BY <1>2, <2>1, BudgetsAssumption, TTLAssumption
    <3>2. new \in [userDID : Users, expiresAt : Nat]
      BY <3>1
    <3> QED
      BY <1>2, <2>1, <3>2, AbsentAssumption DEF SessionRecords
<1> DEFINE cleaned == Store!Cleaned(sessions, now[l])
<1>4. /\ cleaned \in [Logins -> SessionRecords \cup {NoSession}]
      /\ \A k \in Logins :
           /\ cleaned[k] \in {sessions[k], NoSession}
           /\ sessions[k] # NoSession /\ cleaned[k] = NoSession => clock >= sessions[k].expiresAt
  BY CleanedSessions
<1>5. sessions' = [cleaned EXCEPT ![l] = new]
  BY <1>1 DEF Store!Created
<1> HIDE DEF new, cleaned
<1>6. Types'
  BY <1>1, <1>3, <1>4, <1>5 DEF Types, channel, server, history
<1>7. TimesPast' /\ CacheShowsContent'
  BY <1>1, CacheKept DEF TimesPast
<1>8. SessionInv'
  <2>1. \A k \in Logins : now[k] + TTL \in Nat /\ clock \in Nat
    BY BudgetsAssumption, TTLAssumption DEF Types
  <2>2. /\ sessions'[l] = new
        /\ \A k \in Logins : k # l => sessions'[k] = cleaned[k] /\ lpc'[k] = lpc[k]
        /\ lpc'[l] = "ok" /\ l \notin refused
    BY <1>1, <1>4, <1>5 DEF Types, SessionInv
  <2> QED
    BY <1>1, <1>3, <1>4, <2>1, <2>2 DEF SessionInv, history
<1>9. LoginInv'
  BY <1>1 DEF LoginInv, Types, Begun, Shown, LoginSteps, channel, server
<1>10. RequestInv' /\ ChannelInv' /\ FlightInv'
  BY <1>1, LoginFrame DEF history, Types
<1> QED
  BY <1>6, <1>7, <1>8, <1>9, <1>10

LEMMA TickInv == ASSUME IInv, Tick PROVE IInv'
<1> USE DEF IInv
<1>1. /\ clock' = clock + 1 /\ clock < MaxTime
      /\ UNCHANGED <<memory, ipfs, channel, now, login, helper, server, history>>
  BY DEF Tick
<1>2. /\ clock \in Nat /\ clock' \in 0..MaxTime
      /\ \A x \in Logins \cup Requests : now[x] \in Nat
      /\ \A l \in Logins : now[l] + TTL \in Nat
  BY <1>1, BudgetsAssumption, TTLAssumption DEF Types
<1>3. Types'
  BY <1>1, <1>2 DEF Types, memory, channel, login, server, history
<1>4. TimesPast' /\ CacheShowsContent'
  BY <1>1, <1>2, CacheKept DEF TimesPast, memory
<1>5. SessionInv'
  BY <1>1, <1>2 DEF SessionInv, memory, login, history
<1>6. LoginInv'
  BY <1>1, LoginsKept DEF login, channel, server
<1>7. RequestInv'
  BY <1>1, RequestsKept DEF login, channel, server
<1>8. ChannelInv' /\ FlightInv'
  BY <1>1, ChannelKept, FlightKept DEF channel, server
<1> QED
  BY <1>3, <1>4, <1>5, <1>6, <1>7, <1>8

-----------------------------------------------------------------------------
(* The registration request.                                               *)

\* A step of a request that has no invocation on its way.
LEMMA RequestFrame ==
  ASSUME IInv, UNCHANGED <<channel, cid>>, NEW r \in Requests,
         pc[r] \notin {"error", "dead"}, ~Waiting(r),
         \A q \in Requests : q # r => pc'[q] = pc[q] /\ form'[q] = form[q],
         cert[r] # NoCert => form'[r] = form[r]
  PROVE  ChannelInv' /\ FlightInv'
<1> USE DEF IInv, channel
<1>1. \A f \in flight : f.asset # r
  <2> SUFFICES ASSUME NEW f \in flight, f.asset = r
               PROVE  FALSE
    OBVIOUS
  <2> QED
    BY DEF FlightInv, InvocationOK, Waiting
<1>2. \A f \in flight : f.asset \in Requests
  BY DEF Types, Invocations
<1>3. ChannelInv'
  BY ChannelKept
<1>4. FlightInv'
  BY <1>1, <1>2, FlightKept
<1> QED
  BY <1>3, <1>4

LEMMA SendInv == ASSUME IInv, NEW r \in Requests, Send(r) PROVE IInv'
<1> USE DEF IInv
<1>1. PICK l \in Logins, u \in Users, n \in Names :
        /\ lpc[l] = "ok"
        /\ form' = [form EXCEPT ![r] = [token |-> l, userDID |-> u, name |-> n]]
  BY DEF Send
<1>2. /\ helper[r] = "idle" /\ helper' = [helper EXCEPT ![r] = "waiting"]
      /\ now' = [now EXCEPT ![r] = clock] /\ pc' = [pc EXCEPT ![r] = "Validate"]
      /\ UNCHANGED <<clock, memory, ipfs, channel, login, cid, history>>
  BY DEF Send, goto
<1>3. /\ pc[r] = "idle" /\ pc'[r] = "Validate" /\ helper'[r] = "waiting"
      /\ cid[r] = NoInfo /\ cert[r] = NoCert
      /\ \A q \in Requests : q # r => pc'[q] = pc[q] /\ helper'[q] = helper[q]
  BY <1>2 DEF RequestInv, ChannelInv, Types
<1>4. /\ form'[r].token = l /\ form'[r].userDID = u /\ form'[r].name = n
      /\ form' \in [Requests -> Forms]
      /\ \A q \in Requests : q # r => form'[q] = form[q]
  BY <1>1 DEF Types, Forms
<1>5. \A k \in Logins : now'[k] = now[k]
  BY <1>2, AbsentAssumption DEF Types
<1>6. Types'
  BY <1>2, <1>4 DEF Types, memory, channel, login, history, RequestSteps
<1>7. TimesPast' /\ CacheShowsContent'
  BY <1>2, CacheKept DEF TimesPast, memory, Types
<1>8. SessionInv'
  BY <1>2, <1>5, SessionsKept DEF memory, login, history
<1>9. LoginInv'
  BY <1>2, LoginsKept DEF login, channel
<1>10. RequestInv'
  BY <1>1, <1>2, <1>3, <1>4 DEF RequestInv, login, channel
<1>11. ChannelInv' /\ FlightInv'
  <2>1. ~Waiting(r)
    BY <1>3, AbsentAssumption DEF Waiting, FlightInv, InvocationOK
  <2> QED
    BY <1>2, <1>3, <1>4, <2>1, RequestFrame
<1> QED
  BY <1>6, <1>7, <1>8, <1>9, <1>10, <1>11

\* A request waits for an invocation at RegisterAsset only.
LEMMA WaitingWhere ==
  ASSUME FlightInv, NEW r \in Requests, Waiting(r)
  PROVE  pc[r] = "RegisterAsset"
BY AbsentAssumption DEF Waiting, FlightInv, InvocationOK

\* What the clean-up leaves decides; what it has refused has no session.
LEMMA ValidateInv == ASSUME IInv, NEW r \in Requests, Validate(r) PROVE IInv'
<1> USE DEF IInv
<1> DEFINE cleaned == Store!Cleaned(sessions, now[r])
<1>0. /\ cleaned \in [Logins -> SessionRecords \cup {NoSession}]
      /\ \A k \in Logins :
           /\ cleaned[k] \in {sessions[k], NoSession}
           /\ sessions[k] # NoSession /\ cleaned[k] = NoSession => clock >= sessions[k].expiresAt
  BY CleanedSessions
<1> DEFINE token == form[r].token
           accepted == cleaned[token] # NoSession /\ cleaned[token].userDID = form[r].userDID
<1>1. /\ pc[r] = "Validate"
      /\ sessions' = cleaned
      /\ \/ accepted /\ pc' = [pc EXCEPT ![r] = "AddAssetInfo"]
         \/ pc' = [pc EXCEPT ![r] = "error"]
      /\ refused' = IF accepted \/ Mismatch(r) THEN refused ELSE refused \cup {token}
      /\ UNCHANGED <<clock, infoCache, ipfs, channel, now, login, helper, form, cid, lost>>
  BY DEF Validate, Validation, Store!Validated, goto
<1>2. /\ token \in Logins /\ lpc[token] = "ok" /\ cid[r] = NoInfo
  BY <1>1 DEF RequestInv
<1>4. accepted => form[r].userDID = lstate[token].userDID
  BY <1>2, <1>0 DEF SessionInv
<1>5. ~accepted /\ ~Mismatch(r) => cleaned[token] = NoSession
  BY DEF Mismatch, Validation, Store!Validated
<1> HIDE DEF cleaned, token, accepted
<1>6. /\ pc' \in [Requests -> RequestSteps \cup {"idle", "ok", "error", "dead"}]
      /\ pc'[r] \in {"AddAssetInfo", "error"}
      /\ pc'[r] = "AddAssetInfo" => accepted
      /\ \A q \in Requests : q # r => pc'[q] = pc[q]
  BY <1>1 DEF Types, RequestSteps
<1>7. refused' \subseteq refused \cup {token}
  BY <1>1
<1>8. Types'
  BY <1>1, <1>2, <1>0, <1>6, <1>7 DEF Types, channel, login
<1>9. TimesPast' /\ CacheShowsContent'
  BY <1>1, CacheKept DEF TimesPast
<1>10. SessionInv'
  <2>1. \A k \in Logins : now[k] + TTL \in Nat /\ clock \in Nat
    BY BudgetsAssumption, TTLAssumption DEF Types
  <2>2. \A k \in Logins : k \in refused' => lpc[k] = "ok" /\ cleaned[k] = NoSession
    BY <1>1, <1>2, <1>0, <1>5 DEF SessionInv
  <2> QED
    BY <1>1, <1>0, <2>1, <2>2 DEF SessionInv, login
<1>11. LoginInv'
  BY <1>1, LoginsKept DEF login, channel
<1>12. RequestInv'
  BY <1>1, <1>2, <1>4, <1>6 DEF RequestInv, login, channel, token
<1>13. ChannelInv' /\ FlightInv'
  BY <1>1, <1>6, WaitingWhere, RequestFrame
<1> QED
  BY <1>8, <1>9, <1>10, <1>11, <1>12, <1>13

LEMMA AddAssetInfoInv == ASSUME IInv, NEW r \in Requests, AddAssetInfo(r) PROVE IInv'
<1> USE DEF IInv
<1> DEFINE c == [name |-> form[r].name, time |-> clock]
<1>1. /\ pc[r] = "AddAssetInfo" /\ pc' = [pc EXCEPT ![r] = "RegisterAsset"]
      /\ ipfs' = ipfs \cup {c} /\ infoCache' = [infoCache EXCEPT ![c] = c]
      /\ cid' = [cid EXCEPT ![r] = c]
      /\ UNCHANGED <<clock, sessions, channel, now, login, helper, form, history>>
  BY DEF AddAssetInfo, Add, cacheAssetInfo, goto
<1>2. c \in AssetInfos /\ c # NoInfo /\ c.name = form[r].name
  <2>1. form[r].name \in Names /\ clock \in 0..MaxTime
    BY <1>1 DEF RequestInv, Types
  <2>2. c \in AssetInfos /\ c.name = form[r].name
    BY <2>1 DEF AssetInfos
  <2> QED
    BY <2>2, AbsentAssumption
<1> HIDE DEF c
<1>3. cid[r] = NoInfo /\ cert[r] = NoCert
  BY <1>1 DEF RequestInv, ChannelInv
<1>4. /\ pc'[r] = "RegisterAsset" /\ cid'[r] = c
      /\ \A q \in Requests : q # r => pc'[q] = pc[q] /\ cid'[q] = cid[q]
  BY <1>1 DEF Types
<1>5. Types'
  BY <1>1, <1>2 DEF Types, channel, login, history, RequestSteps
<1>6. TimesPast'
  BY <1>1 DEF TimesPast
<1>7. CacheShowsContent'
  BY <1>1, <1>2 DEF CacheShowsContent, Types
<1>8. SessionInv'
  BY <1>1, SessionsKept DEF login, history
<1>9. LoginInv'
  BY <1>1, <1>3, <1>4, LoginsKept DEF login, channel
<1>10. RequestInv'
  BY <1>1, <1>2, <1>3, <1>4 DEF RequestInv, login, channel
<1>11. ChannelInv'
  BY <1>1, <1>3, <1>4, ChannelKept DEF channel
<1>12. FlightInv'
  <2>1. \A f \in flight : f.asset # r /\ f.asset \in Requests
    <3> SUFFICES ASSUME NEW f \in flight
                 PROVE  f.asset # r /\ f.asset \in Requests
      OBVIOUS
    <3>1. f.asset \in Requests /\ f.cid \in AssetInfos
      BY DEF Types, Invocations
    <3>2. f.cid = cid[f.asset]
      BY DEF FlightInv, InvocationOK
    <3> QED
      BY <1>3, <3>1, <3>2, AbsentAssumption
  <2> QED
    BY <1>1, <1>4, <2>1, FlightKept DEF channel
<1> QED
  BY <1>5, <1>6, <1>7, <1>8, <1>9, <1>10, <1>11, <1>12

\* A request that has been sent goes on, or ends.
LEMMA RequestsMove ==
  ASSUME RequestInv, UNCHANGED <<helper, form, cid, ipfs, lstate>>,
         \A l \in Logins : lpc[l] = "ok" => lpc'[l] = "ok",
         \A a \in Requests : cert[a] # NoCert => cert'[a] = cert[a],
         \A q \in Requests :
            \/ pc'[q] = pc[q] /\ (cert'[q] = cert[q] \/ pc[q] # "RegisterAsset")
            \/ pc[q] \in RequestSteps /\ pc'[q] \in {"error", "dead"}
            \/ pc[q] \in RequestSteps /\ pc'[q] \in {"GetCertAddr", "ok"} /\ cert'[q] # NoCert
  PROVE  RequestInv'
<1> SUFFICES ASSUME NEW r \in Requests
             PROVE  RequestInv!(r)'
  BY DEF RequestInv
<1>1. RequestInv!(r)
  BY DEF RequestInv
<1>2. CASE pc'[r] = pc[r]
  BY <1>1, <1>2 DEF RequestSteps
<1>3. CASE pc[r] \in RequestSteps /\ pc'[r] \in {"error", "dead"}
  BY <1>1, <1>3 DEF RequestSteps
<1>4. CASE pc[r] \in RequestSteps /\ pc'[r] \in {"GetCertAddr", "ok"} /\ cert'[r] # NoCert
  BY <1>1, <1>4 DEF RequestSteps
<1> QED
  BY <1>2, <1>3, <1>4

\* A step of a request that changes nothing else.
LEMMA RequestStepInv ==
  ASSUME IInv, NEW r \in Requests, NEW step \in {"ok", "error"},
         UNCHANGED <<clock, memory, ipfs, channel, now, login, helper, form, cid, history>>,
         pc' = [pc EXCEPT ![r] = step], pc[r] \in RequestSteps, ~Waiting(r),
         step = "ok" => cert[r] # NoCert
  PROVE  IInv'
<1> USE DEF IInv
<1>1. /\ pc'[r] = step /\ \A q \in Requests : q # r => pc'[q] = pc[q]
      /\ pc' \in [Requests -> RequestSteps \cup {"idle", "ok", "error", "dead"}]
  BY DEF Types
<1>2. Types'
  BY <1>1 DEF Types, memory, channel, login, history
<1>3. TimesPast' /\ CacheShowsContent'
  BY CacheKept DEF TimesPast, memory
<1>4. SessionInv' /\ LoginInv'
  BY SessionsKept, LoginsKept DEF memory, history, login, channel
<1>5. RequestInv'
  <2>1. UNCHANGED <<cert, helper, form, cid, ipfs, lstate, lpc>>
    BY DEF channel, login
  <2> QED
    BY <1>1, <2>1, RequestsMove
<1>6. ChannelInv' /\ FlightInv'
  BY <1>1, RequestFrame DEF RequestSteps
<1> QED
  BY <1>2, <1>3, <1>4, <1>5, <1>6

LEMMA GetCertAddrInv == ASSUME IInv, NEW r \in Requests, GetCertAddr(r) PROVE IInv'
<1>1. pc[r] = "GetCertAddr" /\ cert[r] # NoCert /\ ~Waiting(r)
  BY WaitingWhere DEF GetCertAddr, IInv, RequestInv
<1> QED
  BY <1>1, RequestStepInv DEF GetCertAddr, goto, RequestSteps

LEMMA CallFailsInv == ASSUME IInv, NEW r \in Requests, CallFails(r) PROVE IInv'
BY RequestStepInv DEF CallFails, goto

LEMMA UploadCancelledInv == ASSUME IInv, NEW r \in Requests, UploadCancelled(r) PROVE IInv'
<1>1. ~Waiting(r)
  BY WaitingWhere DEF UploadCancelled, IInv
<1> QED
  BY <1>1, RequestStepInv DEF UploadCancelled, goto, RequestSteps

\* What the helper tells the user.
LEMMA HelperStepInv ==
  ASSUME IInv, NEW r \in Requests, NEW answer \in {"registered", "failed"},
         UNCHANGED <<clock, memory, ipfs, channel, now, login, server, history>>,
         helper' = [helper EXCEPT ![r] = answer], helper[r] = "waiting",
         answer = "registered" => cert[r] # NoCert
  PROVE  IInv'
<1> USE DEF IInv
<1>1. /\ helper'[r] = answer /\ \A q \in Requests : q # r => helper'[q] = helper[q]
      /\ helper' \in [Requests -> {"idle", "waiting", "registered", "failed"}]
  BY DEF Types
<1>2. Types'
  BY <1>1 DEF Types, memory, channel, login, server, history
<1>3. TimesPast' /\ CacheShowsContent'
  BY CacheKept DEF TimesPast, memory
<1>4. SessionInv' /\ LoginInv'
  BY SessionsKept, LoginsKept DEF memory, history, login, channel, server
<1>5. RequestInv'
  <2>1. UNCHANGED <<cert, pc, form, cid, ipfs, lstate, lpc>>
    BY DEF channel, login, server
  <2> QED
    BY <1>1, <2>1 DEF RequestInv
<1>6. ChannelInv' /\ FlightInv'
  BY ChannelKept, FlightKept DEF channel, server
<1> QED
  BY <1>2, <1>3, <1>4, <1>5, <1>6

LEMMA HelperAnswersInv == ASSUME IInv, NEW r \in Requests, HelperAnswers(r) PROVE IInv'
<1>1. pc[r] = "ok" => cert[r] # NoCert
  BY DEF IInv, RequestInv
<1>2. CASE pc[r] = "ok"
  BY <1>1, <1>2, HelperStepInv DEF HelperAnswers
<1>3. CASE pc[r] # "ok"
  BY <1>3, HelperStepInv DEF HelperAnswers
<1> QED
  BY <1>2, <1>3

LEMMA HelperGivesUpInv == ASSUME IInv, NEW r \in Requests, HelperGivesUp(r) PROVE IInv'
BY HelperStepInv DEF HelperGivesUp

-----------------------------------------------------------------------------
(* The invocations on their way to the channel.                            *)

\* What the peer has simulated for a request.
LEMMA EndorsedInvocation ==
  ASSUME IInv, NEW r \in Requests, pc[r] = "RegisterAsset", NEW f,
         f = [by |-> r, asset |-> r, userDID |-> form[r].userDID, cid |-> cid[r],
              list |-> assetList[form[r].userDID], stale |-> FALSE]
  PROVE  /\ f \in Invocations /\ f.asset = r /\ InvocationOK(f)
<1>1. /\ form[r].userDID \in Users /\ cid[r] \in AssetInfos /\ cert[r] = NoCert
      /\ assetList[form[r].userDID] \in SUBSET Requests
      /\ r \notin assetList[form[r].userDID]
  BY DEF IInv, RequestInv, ChannelInv, Types
<1>2. f.by = r /\ f.asset = r /\ f.userDID = form[r].userDID /\ f.cid = cid[r]
      /\ f.list = assetList[form[r].userDID]
  OBVIOUS
<1>3. f \in Invocations
  BY <1>1 DEF Invocations
<1> QED
  BY <1>1, <1>2, <1>3, AbsentAssumption DEF InvocationOK

LEMMA EndorseInv == ASSUME IInv, NEW r \in Requests, Endorse(r) PROVE IInv'
<1> USE DEF IInv
<1>1. PICK f :
        /\ f = [by |-> r, asset |-> r, userDID |-> form[r].userDID, cid |-> cid[r],
                list |-> assetList[form[r].userDID], stale |-> FALSE]
        /\ flight' = flight \cup {f}
  BY DEF Endorse
<1>2. /\ pc[r] = "RegisterAsset" /\ ~Waiting(r)
      /\ UNCHANGED <<clock, memory, ipfs, cert, owner, assetList, now, login, helper, server,
                     history>>
  BY DEF Endorse
<1>3. f \in Invocations /\ f.asset = r /\ InvocationOK(f)
  BY <1>1, <1>2, EndorsedInvocation
<1>4. Types'
  BY <1>1, <1>2, <1>3 DEF Types, memory, login, server, history
<1>5. TimesPast' /\ CacheShowsContent'
  BY <1>2, CacheKept DEF TimesPast, memory
<1>6. SessionInv' /\ LoginInv'
  BY <1>2, SessionsKept, LoginsKept DEF memory, history, login, server
<1>7. RequestInv'
  BY <1>2, RequestsKept DEF login, server
<1>8. ChannelInv'
  BY <1>2, ChannelKept DEF server
<1>9. FlightInv'
  <2>1. \A g \in flight : g.asset # r
    BY <1>2 DEF FlightInv, InvocationOK, Waiting
  <2>2. \A g \in flight \cup {f} : InvocationOK(g)'
    BY <1>2, <1>3 DEF FlightInv, InvocationOK, server
  <2> QED
    BY <1>1, <1>3, <2>1, <2>2 DEF FlightInv
<1> QED
  BY <1>4, <1>5, <1>6, <1>7, <1>8, <1>9

\* A step of the channel leaves the server and its users as they are, and what
\* is registered stays so.
LEMMA ChannelFrame ==
  ASSUME IInv, UNCHANGED <<clock, memory, ipfs, now, login, helper, form, cid, history>>,
         \A a \in Requests : cert[a] # NoCert => cert'[a] = cert[a] /\ owner'[a] = owner[a]
  PROVE  TimesPast' /\ CacheShowsContent' /\ SessionInv' /\ LoginInv'
<1> USE DEF IInv, memory, login, history
<1>1. TimesPast' /\ CacheShowsContent'
  BY CacheKept DEF TimesPast
<1>2. SessionInv'
  BY SessionsKept
<1>3. LoginInv'
  BY LoginsKept
<1> QED
  BY <1>1, <1>2, <1>3

\* Where a request stands whose invocation is over.
LEMMA InvocationEnds ==
  ASSUME IInv, NEW f \in flight, NEW step \in {"error", "GetCertAddr"},
         IF f.by = Nobody THEN UNCHANGED pc ELSE pc' = [pc EXCEPT ![f.by] = step]
  PROVE  /\ f.asset \in Requests
         /\ pc' \in [Requests -> RequestSteps \cup {"idle", "ok", "error", "dead"}]
         /\ \A q \in Requests : q # f.asset => pc'[q] = pc[q]
         /\ f.by = Nobody => pc' = pc /\ pc[f.asset] \in {"error", "dead"}
         /\ f.by # Nobody => pc[f.asset] = "RegisterAsset" /\ pc'[f.asset] = step
<1>1. f.asset \in Requests /\ InvocationOK(f)
  BY DEF IInv, Types, Invocations, FlightInv
<1>2. /\ f.by = Nobody => pc[f.asset] \in {"error", "dead"}
      /\ f.by # Nobody => f.by = f.asset /\ pc[f.asset] = "RegisterAsset"
  BY <1>1 DEF InvocationOK
<1> QED
  BY <1>1, <1>2 DEF IInv, Types, RequestSteps

\* The invocations of the other requests.
LEMMA OthersInFlight ==
  ASSUME IInv, NEW f \in flight, UNCHANGED <<form, cid, cert, assetList>>,
         flight' \subseteq flight \ {f},
         \A q \in Requests : q # f.asset => pc'[q] = pc[q]
  PROVE  FlightInv'
<1>1. \A g \in flight : g.asset \in Requests
  BY DEF IInv, Types, Invocations
<1>2. \A g \in flight \ {f} : g.asset # f.asset
  BY DEF IInv, FlightInv
<1> QED
  BY <1>1, <1>2 DEF IInv, FlightInv, InvocationOK

LEMMA InvalidateInv == ASSUME IInv, NEW f \in flight, Invalidate(f) PROVE IInv'
<1> USE DEF IInv
<1>1. /\ flight' = flight \ {f}
      /\ UNCHANGED <<clock, memory, ipfs, cert, owner, assetList, now, login, helper, form, cid,
                     history>>
  BY DEF Invalidate
<1>2. /\ f.asset \in Requests
      /\ pc' \in [Requests -> RequestSteps \cup {"idle", "ok", "error", "dead"}]
      /\ \A q \in Requests : q # f.asset => pc'[q] = pc[q]
      /\ f.by = Nobody => pc' = pc
      /\ f.by # Nobody => pc[f.asset] = "RegisterAsset" /\ pc'[f.asset] = "error"
  BY InvocationEnds DEF Invalidate, goto
<1>3. Types'
  BY <1>1, <1>2 DEF Types, memory, login, history
<1>4. TimesPast' /\ CacheShowsContent' /\ SessionInv' /\ LoginInv'
  BY <1>1, ChannelFrame
<1>5. RequestInv'
  <2>1. UNCHANGED <<lpc, lstate>>
    BY <1>1 DEF login
  <2> QED
    BY <1>1, <1>2, <2>1, RequestsMove DEF RequestSteps
<1>6. ChannelInv'
  BY <1>1, ChannelKept
<1>7. FlightInv'
  BY <1>1, <1>2, OthersInFlight
<1> QED
  BY <1>3, <1>4, <1>5, <1>6, <1>7

LEMMA DiscardInv == ASSUME IInv, NEW f \in flight, Discard(f) PROVE IInv'
<1> USE DEF IInv
<1>1. /\ flight' = flight \ {f}
      /\ UNCHANGED <<clock, memory, ipfs, cert, owner, assetList, now, login, helper, server,
                     history>>
  BY DEF Discard
<1>2. Types'
  BY <1>1 DEF Types, memory, login, history, server
<1>3. TimesPast' /\ CacheShowsContent' /\ SessionInv' /\ LoginInv'
  BY <1>1, ChannelFrame DEF server
<1>4. RequestInv'
  BY <1>1, RequestsKept DEF login, server
<1>5. ChannelInv'
  BY <1>1, ChannelKept DEF server
<1>6. FlightInv'
  BY <1>1, OthersInFlight DEF server
<1> QED
  BY <1>2, <1>3, <1>4, <1>5, <1>6

\* An invocation nobody waits for any longer.
LEMMA GivenUp ==
  ASSUME NEW f \in Invocations, NEW g, g = [f EXCEPT !.by = Nobody]
  PROVE  /\ g \in Invocations /\ g.by = Nobody /\ g.asset = f.asset /\ g.userDID = f.userDID
         /\ g.cid = f.cid /\ g.list = f.list /\ g.stale = f.stale
BY DEF Invocations

LEMMA LoseAnswerInv == ASSUME IInv, NEW f \in flight, LoseAnswer(f) PROVE IInv'
<1> USE DEF IInv
<1> DEFINE g == [f EXCEPT !.by = Nobody]
<1>1. /\ flight' = (flight \ {f}) \cup {g} /\ f.by # Nobody
      /\ UNCHANGED <<clock, memory, ipfs, cert, owner, assetList, now, login, helper, form, cid,
                     history>>
  BY DEF LoseAnswer
<1>2. /\ f.asset \in Requests
      /\ pc' \in [Requests -> RequestSteps \cup {"idle", "ok", "error", "dead"}]
      /\ \A q \in Requests : q # f.asset => pc'[q] = pc[q]
      /\ pc[f.asset] = "RegisterAsset" /\ pc'[f.asset] = "error"
  BY <1>1, InvocationEnds DEF LoseAnswer, goto
<1>3. /\ g \in Invocations /\ g.by = Nobody /\ g.asset = f.asset /\ g.userDID = f.userDID
      /\ g.cid = f.cid /\ g.list = f.list /\ g.stale = f.stale
  <2>1. f \in Invocations
    BY DEF Types
  <2> QED
    BY <2>1, GivenUp
<1> HIDE DEF g
<1>4. Types'
  BY <1>1, <1>2, <1>3 DEF Types, memory, login, history
<1>5. TimesPast' /\ CacheShowsContent' /\ SessionInv' /\ LoginInv'
  BY <1>1, ChannelFrame
<1>6. RequestInv'
  <2>1. UNCHANGED <<lpc, lstate>>
    BY <1>1 DEF login
  <2> QED
    BY <1>1, <1>2, <2>1, RequestsMove DEF RequestSteps
<1>7. ChannelInv'
  BY <1>1, ChannelKept
<1>8. FlightInv'
  <2>1. \A h \in flight \ {f} : h.asset # f.asset /\ h.asset \in Requests
    BY DEF FlightInv, Types, Invocations
  <2>2. \A h \in flight \ {f} : InvocationOK(h)'
    BY <1>1, <1>2, <2>1 DEF FlightInv, InvocationOK
  <2>3. InvocationOK(g)'
    BY <1>1, <1>2, <1>3, AbsentAssumption DEF FlightInv, InvocationOK
  <2> QED
    BY <1>1, <1>3, <2>1, <2>2, <2>3 DEF FlightInv
<1> QED
  BY <1>4, <1>5, <1>6, <1>7, <1>8

\* Only the staleness of an overtaken invocation is new.
LEMMA OvertakenInvocations ==
  ASSUME NEW S \in SUBSET Invocations, NEW u, NEW h \in Overtaken(S, u)
  PROVE  \E g \in S :
           /\ h \in Invocations /\ h.by = g.by /\ h.asset = g.asset /\ h.userDID = g.userDID
           /\ h.cid = g.cid /\ h.list = g.list /\ (h.stale <=> g.stale \/ g.userDID = u)
           /\ h = [g EXCEPT !.stale = @ \/ g.userDID = u]
<1>1. PICK g \in S : h = [g EXCEPT !.stale = @ \/ g.userDID = u]
  BY DEF Overtaken
<1>2. g \in Invocations /\ g.stale \in BOOLEAN
  BY DEF Invocations
<1>3. (g.stale \/ g.userDID = u) \in BOOLEAN
  OBVIOUS
<1>4. /\ h \in Invocations /\ h.by = g.by /\ h.asset = g.asset /\ h.userDID = g.userDID
      /\ h.cid = g.cid /\ h.list = g.list /\ (h.stale <=> g.stale \/ g.userDID = u)
  BY <1>1, <1>2, <1>3 DEF Invocations
<1> QED
  BY <1>1, <1>4

\* The invocation that is committed has read the list as it is, so that no
\* other registration is taken from it.
LEMMA CommitInv == ASSUME IInv, NEW f \in flight, Commit(f) PROVE IInv'
<1> USE DEF IInv
<1> DEFINE a == f.asset
           u == f.userDID
<1>1. /\ cert' = [cert EXCEPT ![a] = f.cid] /\ owner' = [owner EXCEPT ![a] = u]
      /\ assetList' = [assetList EXCEPT ![u] = f.list \cup {a}]
      /\ flight' = Overtaken(flight \ {f}, u) /\ ~f.stale
      /\ UNCHANGED <<clock, memory, ipfs, now, login, helper, form, cid, history>>
  BY DEF Commit
<1>2. /\ a \in Requests
      /\ pc' \in [Requests -> RequestSteps \cup {"idle", "ok", "error", "dead"}]
      /\ \A q \in Requests : q # a => pc'[q] = pc[q]
      /\ f.by = Nobody => pc' = pc /\ pc[a] \in {"error", "dead"}
      /\ f.by # Nobody => pc[a] = "RegisterAsset" /\ pc'[a] = "GetCertAddr"
  BY InvocationEnds DEF Commit, goto
<1>3. /\ u \in Users /\ f.cid \in AssetInfos /\ f.list \in SUBSET Requests
      /\ u = form[a].userDID /\ f.cid = cid[a] /\ cert[a] = NoCert
      /\ f.list = assetList[u]
  BY <1>1 DEF Types, Invocations, FlightInv, InvocationOK
<1> HIDE DEF a, u
<1>4. /\ cert'[a] = f.cid /\ owner'[a] = u /\ assetList'[u] = assetList[u] \cup {a}
      /\ \A q \in Requests : q # a => cert'[q] = cert[q] /\ owner'[q] = owner[q]
      /\ \A v \in Users : v # u => assetList'[v] = assetList[v]
      /\ f.cid # NoCert /\ f.cid # NoInfo
  <2>1. f.cid # NoCert /\ f.cid # NoInfo
    BY <1>3, AbsentAssumption
  <2>2. /\ DOMAIN cert = Requests /\ cert = [q \in Requests |-> cert[q]]
        /\ DOMAIN owner = Requests /\ owner = [q \in Requests |-> owner[q]]
        /\ DOMAIN assetList = Users /\ assetList = [v \in Users |-> assetList[v]]
    BY DEF Types
  <2>3. assetList'[u] = f.list \cup {a} /\ \A v \in Users : v # u => assetList'[v] = assetList[v]
    BY <1>1, <1>3, <2>2
  <2>4. cert'[a] = f.cid /\ \A q \in Requests : q # a => cert'[q] = cert[q]
    BY <1>1, <1>2, <2>2
  <2>5. owner'[a] = u /\ \A q \in Requests : q # a => owner'[q] = owner[q]
    BY <1>1, <1>2, <2>2
  <2> QED
    BY <1>3, <2>1, <2>3, <2>4, <2>5
<1>5. \A h \in flight' : \E g \in flight \ {f} :
        /\ h \in Invocations /\ h.by = g.by /\ h.asset = g.asset /\ h.userDID = g.userDID
        /\ h.cid = g.cid /\ h.list = g.list /\ (h.stale <=> g.stale \/ g.userDID = u)
        /\ h = [g EXCEPT !.stale = @ \/ g.userDID = u]
  <2>1. flight \ {f} \in SUBSET Invocations
    BY DEF Types
  <2> QED
    BY <1>1, <2>1, OvertakenInvocations
<1>6. Types'
  <2>1. flight' \subseteq Invocations
    BY <1>5
  <2>2. /\ cert' \in [Requests -> AssetInfos \cup {NoCert}]
        /\ owner' \in [Requests -> Users \cup {Nobody}]
        /\ assetList' \in [Users -> SUBSET Requests]
    BY <1>1, <1>2, <1>3 DEF Types
  <2> QED
    BY <1>1, <1>2, <2>1, <2>2 DEF Types, memory, login, history
<1>7. TimesPast' /\ CacheShowsContent' /\ SessionInv' /\ LoginInv'
  BY <1>1, <1>3, <1>4, ChannelFrame
<1>8. RequestInv'
  <2>1. UNCHANGED <<lpc, lstate>>
    BY <1>1 DEF login
  <2> QED
    BY <1>1, <1>2, <1>3, <1>4, <2>1, RequestsMove DEF RequestSteps
<1>9. ChannelInv'
  BY <1>1, <1>2, <1>3, <1>4 DEF ChannelInv
<1>10. FlightInv'
  <2>1. \A g \in flight \ {f} : g.asset # a /\ g.asset \in Requests /\ InvocationOK(g)
    BY DEF FlightInv, Types, Invocations, a
  <2>2. \A h \in flight' : InvocationOK(h)'
    <3> SUFFICES ASSUME NEW h \in flight'
                 PROVE  InvocationOK(h)'
      OBVIOUS
    <3>1. PICK g \in flight \ {f} :
            /\ h \in Invocations /\ h.by = g.by /\ h.asset = g.asset /\ h.userDID = g.userDID
            /\ h.cid = g.cid /\ h.list = g.list /\ (h.stale <=> g.stale \/ g.userDID = u)
      BY <1>5
    <3>2. g.asset # a /\ g.asset \in Requests /\ InvocationOK(g) /\ g.userDID \in Users
      BY <2>1, <3>1 DEF Invocations
    <3>3. h.stale \/ h.list = assetList'[h.userDID]
      BY <1>4, <3>1, <3>2 DEF InvocationOK
    <3> QED
      BY <1>1, <1>2, <1>4, <3>1, <3>2, <3>3 DEF InvocationOK
  <2>3. ASSUME NEW h \in flight', NEW k \in flight', h.asset = k.asset
        PROVE  h = k
    BY <1>5, <2>3 DEF FlightInv
  <2> QED
    BY <2>2, <2>3 DEF FlightInv
<1> QED
  BY <1>6, <1>7, <1>8, <1>9, <1>10

LEMMA CrashInv == ASSUME IInv, Crash PROVE IInv'
<1> USE DEF IInv
<1>1. /\ lost' = lost \cup {l \in Logins : lpc[l] = "ok"} /\ sessions' = Store!Empty
      /\ infoCache' = [c \in AssetInfos |-> NoInfo]
      /\ lpc' = [l \in Logins |-> IF lpc[l] \in LoginSteps THEN "dead" ELSE lpc[l]]
      /\ pc' = [r \in Requests |-> IF pc[r] \in RequestSteps THEN "dead" ELSE pc[r]]
      /\ flight' = {[f EXCEPT !.by = Nobody] : f \in flight}
      /\ UNCHANGED <<clock, ipfs, cert, owner, assetList, now, lstate, helper, form, cid, refused>>
  BY DEF Crash
<1>2. \A h \in flight' : \E f \in flight :
        /\ h \in Invocations /\ h.by = Nobody /\ h.asset = f.asset /\ h.userDID = f.userDID
        /\ h.cid = f.cid /\ h.list = f.list /\ h.stale = f.stale
        /\ h = [f EXCEPT !.by = Nobody]
  <2> SUFFICES ASSUME NEW f \in flight, NEW h, h = [f EXCEPT !.by = Nobody]
               PROVE  /\ h \in Invocations /\ h.by = Nobody /\ h.asset = f.asset
                      /\ h.userDID = f.userDID /\ h.cid = f.cid /\ h.list = f.list
                      /\ h.stale = f.stale
    BY <1>1
  <2>1. f \in Invocations
    BY DEF Types
  <2> QED
    BY <2>1, GivenUp
<1>3. /\ \A l \in Logins : lpc'[l] = IF lpc[l] \in LoginSteps THEN "dead" ELSE lpc[l]
      /\ \A r \in Requests : pc'[r] = IF pc[r] \in RequestSteps THEN "dead" ELSE pc[r]
      /\ \A l \in Logins : sessions'[l] = NoSession
  BY <1>1 DEF Store!Empty
<1>4. Types'
  <2>1. sessions' \in [Logins -> SessionRecords \cup {NoSession}]
    BY <1>1 DEF Store!Empty
  <2>2. lost' \subseteq Logins /\ flight' \subseteq Invocations
    BY <1>1, <1>2 DEF Types
  <2> QED
    BY <1>1, <2>1, <2>2 DEF Types
<1>5. TimesPast' /\ CacheShowsContent'
  BY <1>1 DEF TimesPast, CacheShowsContent
<1>6. SessionInv'
  <2>1. \A l \in Logins : lpc'[l] = "ok" <=> lpc[l] = "ok"
    BY <1>3 DEF LoginSteps
  <2> QED
    BY <1>1, <1>3, <2>1 DEF SessionInv
<1>7. LoginInv'
  <2>1. \A l \in Logins : lpc'[l] = lpc[l] \/ lpc'[l] \notin Begun
    BY <1>3 DEF Begun, LoginSteps
  <2> QED
    BY <1>1, <2>1, LoginsKept
<1>8. RequestInv'
  <2>1. \A l \in Logins : lpc[l] = "ok" => lpc'[l] = "ok"
    BY <1>3 DEF LoginSteps
  <2> QED
    BY <1>1, <1>3, <2>1, RequestsMove
<1>9. ChannelInv'
  BY <1>1, ChannelKept
<1>10. FlightInv'
  <2>1. ASSUME NEW h \in flight'
        PROVE  InvocationOK(h)'
    <3>1. PICK f \in flight :
            /\ h.by = Nobody /\ h.asset = f.asset /\ h.userDID = f.userDID
            /\ h.cid = f.cid /\ h.list = f.list /\ h.stale = f.stale
      BY <1>2
    <3>2. f.asset \in Requests /\ InvocationOK(f)
      BY DEF Types, Invocations, FlightInv
    <3>3. pc'[f.asset] \in {"error", "dead"}
      BY <1>3, <3>2 DEF InvocationOK, RequestSteps
    <3> QED
      BY <1>1, <3>1, <3>2, <3>3 DEF InvocationOK
  <2>2. ASSUME NEW h \in flight', NEW k \in flight', h.asset = k.asset
        PROVE  h = k
    BY <1>2, <2>2 DEF FlightInv
  <2> QED
    BY <2>1, <2>2 DEF FlightInv
<1> QED
  BY <1>4, <1>5, <1>6, <1>7, <1>8, <1>9, <1>10

-----------------------------------------------------------------------------
(* The invariant is inductive.                                             *)

LEMMA UnchangedInv == ASSUME IInv, UNCHANGED vars PROVE IInv'
<1> USE DEF IInv, vars, memory, channel, login, server, history
<1>1. Types' /\ TimesPast' /\ CacheShowsContent'
  BY DEF Types, TimesPast, CacheShowsContent
<1>2. SessionInv' /\ LoginInv' /\ ChannelInv'
  BY SessionsKept, LoginsKept, ChannelKept
<1>3. RequestInv' /\ FlightInv'
  BY RequestsKept, FlightKept
<1> QED
  BY <1>1, <1>2, <1>3

LEMMA NextIInv == IInv /\ [Next]_vars => IInv'
<1> SUFFICES ASSUME IInv, [Next]_vars
             PROVE  IInv'
  OBVIOUS
<1>1. ASSUME NEW l \in Logins, BeginLogin(l) \/ Login(l)
      PROVE  IInv'
  BY <1>1, BeginLoginInv, GetAssetListInv, GetAssetCertificateInv, FinishReadingInv,
     CreateSessionInv DEF Login
<1>2. ASSUME NEW r \in Requests, Send(r) \/ Request(r)
      PROVE  IInv'
  BY <1>2, SendInv, ValidateInv, AddAssetInfoInv, EndorseInv, GetCertAddrInv, HelperAnswersInv
     DEF Request
<1>3. ASSUME Channel
      PROVE  IInv'
  BY <1>3, CommitInv, InvalidateInv DEF Channel
<1>4. ASSUME Environment
      PROVE  IInv'
  BY <1>4, TickInv, CrashInv, CallFailsInv, HelperGivesUpInv, UploadCancelledInv,
     LoginCallFailsInv, LoseAnswerInv, DiscardInv DEF Environment
<1> QED
  BY <1>1, <1>2, <1>3, <1>4, UnchangedInv DEF Next

LEMMA Invariance == Spec => []IInv
BY InitIInv, NextIInv, PTL DEF Spec

-----------------------------------------------------------------------------

\* Sessions, cache and channel hold what their types say, and an invocation
\* was simulated on a list that held no asset of its own.
THEOREM TypeCorrect == Spec => []TypeOK
<1>1. IInv => TypeOK
  <2> SUFFICES ASSUME IInv
               PROVE  TypeOK
    OBVIOUS
  <2>1. ASSUME NEW f \in flight
        PROVE  /\ f.by \in {f.asset, Nobody} /\ f.userDID = form[f.asset].userDID
               /\ f.cid = cid[f.asset] /\ f.asset \notin f.list /\ cert[f.asset] = NoCert
    BY DEF IInv, FlightInv, InvocationOK
  <2>2. \A l \in Logins : lstate[l].todo \subseteq {a \in Requests : cert[a] # NoCert}
    BY DEF IInv, Types, LoginStates, LoginInv
  <2> QED
    BY <2>1, <2>2 DEF IInv, Types, TypeOK, SessionRecords
<1> QED
  BY <1>1, Invariance, PTL

\* No request or login of anybody, with whatever time it brings, ends the
\* session of a user before it is over.
THEOREM LiveSessionIsKept == Spec => []LiveSessionKept
<1>1. IInv => LiveSessionKept
  BY DEF IInv, SessionInv, LiveSessionKept
<1> QED
  BY <1>1, Invariance, PTL

\* An asset belongs to the user who had logged in to register it.
THEOREM OwnersWereLoggedIn == Spec => []OwnerWasLoggedIn
<1>1. IInv => OwnerWasLoggedIn
  BY DEF IInv, ChannelInv, RequestInv, OwnerWasLoggedIn
<1> QED
  BY <1>1, Invariance, PTL

\* No two registrations take an asset from each other's list.
THEOREM RegisteredAreListed == Spec => []RegisteredIsListed
<1>1. IInv => RegisteredIsListed
  BY DEF IInv, ChannelInv, RequestInv, RegisteredIsListed
<1> QED
  BY <1>1, Invariance, PTL

\* What is kept of IPFS is what IPFS has.
THEOREM CacheIsRight == Spec => []CacheShowsContent
<1>1. IInv => CacheShowsContent
  BY DEF IInv
<1> QED
  BY <1>1, Invariance, PTL

\* A user who was told that her asset is registered sees it at every later
\* login, with its own information or none.
THEOREM RegisteredAreShown == Spec => []RegisteredIsShown
<1>1. IInv => RegisteredIsShown
  BY DEF IInv, LoginInv, Shown, RegisteredIsShown
<1> QED
  BY <1>1, Invariance, PTL

\* Only Validate lets a request through.
LEMMA LetThrough ==
  ASSUME Types, Next, NEW r \in Requests, pc[r] = "Validate", pc'[r] = "AddAssetInfo"
  PROVE  Validate(r)
<1>1. \A q \in Requests, step \in {"Validate", "error", "RegisterAsset", "ok", "GetCertAddr"} :
        ~goto(q, step)
  BY DEF goto, Types
<1>2. ~UNCHANGED pc
  OBVIOUS
<1>3. \A f \in flight : f.by \in Requests \cup {Nobody}
  BY DEF Types, Invocations
<1>4. ~Crash
  BY DEF Crash, RequestSteps
<1>5. \A q \in Requests : Validate(q) => q = r
  BY DEF Validate, goto, Types
<1> QED
  BY <1>1, <1>2, <1>3, <1>4, <1>5
     DEF Next, BeginLogin, Login, GetAssetList, GetAssetCertificate, FinishReading, CreateSession,
         Send, Request, AddAssetInfo, Endorse, GetCertAddr, HelperAnswers, Channel, Commit,
         Invalidate, Environment, Tick, CallFails, HelperGivesUp, UploadCancelled,
         LoginCallFails, LoseAnswer, Discard, server

\* A session that was found missing or expired opens no later request,
\* whatever time that brings.
THEOREM RefusedStayRefused == Spec => RefusedStaysRefused
<1>1. IInv /\ [Next]_vars
        => [\A r \in Requests :
              pc[r] = "Validate" /\ pc'[r] = "AddAssetInfo" => form[r].token \notin refused]_vars
  <2> SUFFICES ASSUME IInv, Next, NEW r \in Requests, pc[r] = "Validate",
                      pc'[r] = "AddAssetInfo"
               PROVE  form[r].token \notin refused
    BY DEF vars
  <2>1. Validate(r)
    BY LetThrough DEF IInv
  <2>2. Validation(r).accepted
    BY <2>1 DEF Validate, goto, IInv, Types
  <2>3. form[r].token \in Logins /\ sessions[form[r].token] # NoSession
    BY <2>2 DEF Validation, Store!Validated, Store!Cleaned, IInv, RequestInv
  <2> QED
    BY <2>3 DEF IInv, SessionInv
<1> QED
  BY <1>1, Invariance, PTL DEF Spec, RefusedStaysRefused

=============================================================================
