---------------------------- MODULE SessionStore ----------------------------
(***************************************************************************)
(* The login sessions of the transaction server (session.go): what each    *)
(* method of sessionStore does to the map of sessions while it holds the   *)
(* mutex.  The caller reads the clock before it asks for the mutex, so the *)
(* times the methods are given need not come in order.                     *)
(*                                                                         *)
(* Tokens are 32 random bytes: a token is the login it was made for.       *)
(* LastActiveAt is left out: it is stored and never read.  RevokeUser is   *)
(* called by no handler.                                                   *)
(*                                                                         *)
(* A definition X_Bug is a mutated form of X: no specification uses it; it *)
(* shows that a property would notice that bug.                            *)
(***************************************************************************)
EXTENDS Naturals

CONSTANTS
  Tokens,
  TTL,         \* defaultLoginSessionTTL
  NoSession    \* the token is not in the map

Empty == [token \in Tokens |-> NoSession]

Expired(session, now) == now >= session.expiresAt

\* cleanupExpiredLocked.
Cleaned(sessions, now) ==
  [token \in Tokens |->
     IF sessions[token] # NoSession /\ Expired(sessions[token], now)
     THEN NoSession ELSE sessions[token]]

\* Create: the session of a new token, after a clean-up.
Created(sessions, token, user, now) ==
  [Cleaned(sessions, now) EXCEPT
     ![token] = [userDID |-> user, expiresAt |-> now + TTL]]

\* Mutated form: an expired session is refused and left in the map.
Validated_KeepsExpired(sessions, token, user, now) ==
  LET session == sessions[token] IN
  [accepted |-> /\ session # NoSession
                /\ ~Expired(session, now)
                /\ session.userDID = user,
   sessions |-> sessions]

\* Mutated form: a session is ended by a request for another user.
Validated_EndsOnMismatch(sessions, token, user, now) ==
  LET cleaned == Cleaned(sessions, now) IN
  IF cleaned[token] # NoSession /\ cleaned[token].userDID = user
  THEN [accepted |-> TRUE, sessions |-> cleaned]
  ELSE [accepted |-> FALSE, sessions |-> [cleaned EXCEPT ![token] = NoSession]]

\* Mutated form: the user of the session is not compared.
Validated_AnyUser(sessions, token, user, now) ==
  LET cleaned == Cleaned(sessions, now) IN
  [accepted |-> cleaned[token] # NoSession, sessions |-> cleaned]

\* Validate: whether the token is that of a session of the user, after a
\* clean-up, which leaves no expired session for the check that follows it.
Validated(sessions, token, user, now) ==
  LET cleaned == Cleaned(sessions, now) IN
  [accepted |-> cleaned[token] # NoSession /\ cleaned[token].userDID = user,
   sessions |-> cleaned]

=============================================================================
