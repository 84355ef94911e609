------------------------------ MODULE KeyStore ------------------------------
(***************************************************************************)
(* The key pair of a client device (keys.go) while the helper server       *)
(* answers registration requests (apiRegisterHandler), each in a goroutine *)
(* of its own and none of them holding a lock.                             *)
(*                                                                         *)
(* A file is Missing, Empty (os.WriteFile has truncated it and not written *)
(* it yet) or holds the key of the request that generated it: all keys are *)
(* P-256 keys, encoded in the same number of bytes and written by one      *)
(* write, so that two writers leave one of the two keys and no mixture.    *)
(*                                                                         *)
(* A definition X_Bug is a mutated form of X: no specification uses it; it *)
(* shows that a property would notice that bug.                            *)
(***************************************************************************)
EXTENDS Naturals, FiniteSets

CONSTANTS
  Requests,        \* the registration requests the helper receives
  Missing, Empty,  \* the state of a file that holds no key
  Loads,           \* how many requests may be served at once: the cases
  MaxCrashes,      \* how often the helper process dies
  MaxFailures      \* how often a write fails

ASSUME KeyStoreAssumption ==
  /\ IsFiniteSet(Requests)
  /\ Missing \notin Requests /\ Empty \notin Requests /\ Missing # Empty
  /\ Loads \subseteq Nat /\ MaxCrashes \in Nat /\ MaxFailures \in Nat

\* A key is named after the request that generated it.
Keys == Requests

VARIABLES
  privateKeyFile,  \* identity_private.pem
  publicKeyFile,   \* identity_public.pem
  pc,              \* the next step of each request
  publicKey,       \* the key ensureIdentityKeyPair answers with
  sent,            \* the requests posted to the authority: key and signer
  load,            \* how many requests are served at once, for good
  crashes, failures

vars == <<privateKeyFile, publicKeyFile, pc, publicKey, sent, load, crashes, failures>>

Steps ==
  {"readPrivateKey", "checkPublicKey", "truncatePrivateKey", "writePrivateKey",
   "truncatePublicKey", "writePublicKey", "sign"}

Active(p) == pc[p] \in Steps

Init ==
  /\ privateKeyFile = Missing
  /\ publicKeyFile = Missing
  /\ pc = [p \in Requests |-> "idle"]
  /\ publicKey = [p \in Requests |-> Missing]
  /\ sent = {}
  /\ load \in Loads
  /\ crashes = 0
  /\ failures = 0

goto(p, step) == pc' = [pc EXCEPT ![p] = step]

Receive(p) ==
  /\ pc[p] = "idle"
  /\ Cardinality({q \in Requests : Active(q)}) < load
  /\ goto(p, "readPrivateKey")
  /\ UNCHANGED <<privateKeyFile, publicKeyFile, publicKey, sent, load, crashes, failures>>

\* Mutated form: a private key without its public key is replaced by a new pair.
ReadPrivateKey_NeedsPublic(p) ==
  /\ pc[p] = "readPrivateKey"
  /\ \/ /\ privateKeyFile \in Keys /\ publicKeyFile \in Keys
        /\ publicKey' = [publicKey EXCEPT ![p] = privateKeyFile]
        /\ goto(p, "truncatePublicKey")
     \/ /\ ~(privateKeyFile \in Keys /\ publicKeyFile \in Keys)
        /\ publicKey' = [publicKey EXCEPT ![p] = p]
        /\ goto(p, "truncatePrivateKey")
  /\ UNCHANGED <<privateKeyFile, publicKeyFile, sent, load, crashes, failures>>

\* A key that is there is reused, an unreadable one stops the request, and
\* only a missing one leads to a new pair.
ReadPrivateKey(p) ==
  /\ pc[p] = "readPrivateKey"
  /\ \/ /\ privateKeyFile \in Keys
        /\ publicKey' = [publicKey EXCEPT ![p] = privateKeyFile]
        /\ goto(p, "truncatePublicKey")
     \/ /\ privateKeyFile = Empty
        /\ goto(p, "error")
        /\ UNCHANGED publicKey
     \/ /\ privateKeyFile = Missing
        /\ goto(p, "checkPublicKey")
        /\ UNCHANGED publicKey
  /\ UNCHANGED <<privateKeyFile, publicKeyFile, sent, load, crashes, failures>>

\* Mutated form: the private key of a new pair is not written.
CheckPublicKey_PublicOnly(p) ==
  /\ pc[p] = "checkPublicKey"
  /\ IF publicKeyFile # Missing
     THEN goto(p, "error") /\ UNCHANGED publicKey
     ELSE /\ publicKey' = [publicKey EXCEPT ![p] = p]
          /\ goto(p, "truncatePublicKey")
  /\ UNCHANGED <<privateKeyFile, publicKeyFile, sent, load, crashes, failures>>

\* A public key without a private one stops the request; otherwise a new
\* pair is generated.
CheckPublicKey(p) ==
  /\ pc[p] = "checkPublicKey"
  /\ IF publicKeyFile # Missing
     THEN goto(p, "error") /\ UNCHANGED publicKey
     ELSE /\ publicKey' = [publicKey EXCEPT ![p] = p]
          /\ goto(p, "truncatePrivateKey")
  /\ UNCHANGED <<privateKeyFile, publicKeyFile, sent, load, crashes, failures>>

\* The two os.WriteFile calls, the private key first.
Following ==
  [truncatePrivateKey |-> "writePrivateKey", writePrivateKey |-> "truncatePublicKey",
   truncatePublicKey |-> "writePublicKey", writePublicKey |-> "sign"]

Write(p) ==
  /\ pc[p] \in DOMAIN Following
  /\ privateKeyFile' = CASE pc[p] = "truncatePrivateKey" -> Empty
                         [] pc[p] = "writePrivateKey" -> publicKey[p]
                         [] OTHER -> privateKeyFile
  /\ publicKeyFile' = CASE pc[p] = "truncatePublicKey" -> Empty
                        [] pc[p] = "writePublicKey" -> publicKey[p]
                        [] OTHER -> publicKeyFile
  /\ goto(p, Following[pc[p]])
  /\ UNCHANGED <<publicKey, sent, load, crashes, failures>>

\* A write fails after the file was truncated, or opening it fails.
WriteFails(p) ==
  /\ failures < MaxFailures
  /\ pc[p] \in DOMAIN Following
  /\ failures' = failures + 1
  /\ goto(p, "error")
  /\ UNCHANGED <<privateKeyFile, publicKeyFile, publicKey, sent, load, crashes>>

\* Mutated form: what is read back is neither decoded nor compared.
Sign_Unchecked(p) ==
  /\ pc[p] = "sign"
  /\ sent' = sent \cup {[publicKey |-> publicKey[p], signer |-> privateKeyFile]}
  /\ goto(p, "posted")
  /\ UNCHANGED <<privateKeyFile, publicKeyFile, publicKey, load, crashes, failures>>

\* The private key is read again and newSignedRegisterRequest compares it
\* with the public key it is given; the request is posted.
Sign(p) ==
  /\ pc[p] = "sign"
  /\ IF privateKeyFile = publicKey[p]
     THEN /\ sent' = sent \cup {[publicKey |-> publicKey[p], signer |-> privateKeyFile]}
          /\ goto(p, "posted")
     ELSE goto(p, "error") /\ UNCHANGED sent
  /\ UNCHANGED <<privateKeyFile, publicKeyFile, publicKey, load, crashes, failures>>

\* The helper process dies and is started again: the files stay.
Crash ==
  /\ crashes < MaxCrashes
  /\ pc' = [p \in Requests |-> IF Active(p) THEN "dead" ELSE pc[p]]
  /\ crashes' = crashes + 1
  /\ UNCHANGED <<privateKeyFile, publicKeyFile, publicKey, sent, load, failures>>

Serve(p) ==
  \/ Receive(p) \/ ReadPrivateKey(p) \/ CheckPublicKey(p) \/ Write(p) \/ WriteFails(p)
  \/ Sign(p)

Next == (\E p \in Requests : Serve(p)) \/ Crash

Spec == Init /\ [][Next]_vars

-----------------------------------------------------------------------------
(* Properties.                                                             *)

\* A request only ever works with a key that some request generated.
TypeOK ==
  /\ privateKeyFile \in Keys \cup {Missing, Empty}
  /\ publicKeyFile \in Keys \cup {Missing, Empty}
  /\ pc \in [Requests -> Steps \cup {"idle", "posted", "error", "dead"}]
  /\ publicKey \in [Requests -> Keys \cup {Missing}]
  /\ sent \subseteq [publicKey : Keys, signer : Keys]
  /\ load \in Loads
  /\ crashes \in 0..MaxCrashes
  /\ failures \in 0..MaxFailures

\* However requests race, a request is only posted with the signature of the
\* private key that belongs to the public key it registers
\* (newSignedRegisterRequest).
SignedByItsKey == \A r \in sent : r.signer = r.publicKey

\* No crash, failed write or race leaves a public key without a private one,
\* which would stop every later registration ("public key exists but private
\* key is missing", keys.go:70).
PublicNeedsPrivate == publicKeyFile # Missing => privateKeyFile # Missing

\* When requests are served one at a time, a private key that is there is
\* never replaced, whatever a crash or a failed write has left behind.
KeyKeptAlone ==
  [][(load = 1 /\ privateKeyFile \in Keys) => UNCHANGED privateKeyFile]_vars

\* A private key that is there is never replaced, at any load: "only a
\* missing private key should generate a new pair" (keys.go:64).
KeyNeverReplaced ==
  [][(privateKeyFile \in Keys) => UNCHANGED privateKeyFile]_vars

=============================================================================
