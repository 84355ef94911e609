--------------------------- MODULE KeyStoreProofs ---------------------------
(***************************************************************************)
(* The key files of a client device keep what they promise for any number  *)
(* of registrations, crashes and failed writes.                            *)
(*                                                                         *)
(* PublicNeedsPrivate is not inductive: that the public key is written     *)
(* after the private one is known only from where each request stands, and *)
(* so is, for requests served one at a time, that the private key they     *)
(* write was missing.                                                      *)
(***************************************************************************)
EXTENDS KeyStore, FiniteSetTheorems, TLAPS

\* The steps after which the private key of a request has been begun.
PrivateKeyBegun ==
  {"writePrivateKey", "truncatePublicKey", "writePublicKey", "sign", "posted"}

\* A request that writes has a key to write, and one that has begun its
\* private key left a private key file.
WriterHasKey ==
  \A p \in Requests :
    /\ pc[p] \in PrivateKeyBegun \cup {"truncatePrivateKey"} => publicKey[p] \in Keys
    /\ pc[p] \in PrivateKeyBegun => privateKeyFile # Missing

\* The steps after which the private key file holds the key of a request, as
\* long as nobody else writes it.
PrivateKeyWritten == {"truncatePublicKey", "writePublicKey", "sign", "posted"}

\* When requests are served one at a time, the file is what the one that is
\* being served takes it for, and holds the key of all that were posted.
ServedAlone ==
  load = 1 =>
    /\ \A p, q \in Requests : Active(p) /\ Active(q) => p = q
    /\ \A p \in Requests :
         /\ pc[p] \in {"checkPublicKey", "truncatePrivateKey"} => privateKeyFile = Missing
         /\ pc[p] = "writePrivateKey" => privateKeyFile = Empty
         /\ pc[p] \in PrivateKeyWritten => privateKeyFile = publicKey[p]

IInv == TypeOK /\ SignedByItsKey /\ PublicNeedsPrivate /\ WriterHasKey /\ ServedAlone

-----------------------------------------------------------------------------

LEMMA InitIInv == Init => IInv
BY KeyStoreAssumption
   DEF Init, IInv, TypeOK, SignedByItsKey, PublicNeedsPrivate, WriterHasKey, ServedAlone,
       PrivateKeyBegun, PrivateKeyWritten, Active, Steps

\* Where a request goes, and who is served after it has moved.
LEMMA Goto ==
  ASSUME TypeOK, NEW p \in Requests, NEW step, goto(p, step),
         step \in Steps \cup {"posted", "error"}
  PROVE  /\ pc' \in [Requests -> Steps \cup {"idle", "posted", "error", "dead"}]
         /\ pc'[p] = step
         /\ \A q \in Requests : q # p => pc'[q] = pc[q]
BY DEF goto, TypeOK

\* With one request at a time, a request is only received when none is served.
LEMMA ReceivedAlone ==
  ASSUME TypeOK, NEW p \in Requests, Receive(p), load = 1
  PROVE  \A q \in Requests : ~Active(q)
<1> DEFINE Served == {q \in Requests : Active(q)}
<1>1. IsFiniteSet(Served)
  BY KeyStoreAssumption, FS_Subset
<1>2. Cardinality(Served) = 0
  BY <1>1, FS_CardinalityType DEF Receive
<1> QED
  BY <1>1, <1>2, FS_EmptySet

LEMMA ReceiveInv == ASSUME IInv, NEW p \in Requests, Receive(p) PROVE IInv'
<1> USE DEF IInv
<1>1. /\ pc[p] = "idle" /\ pc'[p] = "readPrivateKey"
      /\ pc' \in [Requests -> Steps \cup {"idle", "posted", "error", "dead"}]
      /\ \A q \in Requests : q # p => pc'[q] = pc[q]
  BY Goto DEF Receive, Steps
<1>2. TypeOK' /\ SignedByItsKey' /\ PublicNeedsPrivate'
  BY <1>1 DEF Receive, TypeOK, SignedByItsKey, PublicNeedsPrivate
<1>3. WriterHasKey'
  BY <1>1 DEF Receive, WriterHasKey, PrivateKeyBegun
<1>4. ServedAlone'
  BY <1>1, ReceivedAlone DEF Receive, ServedAlone, PrivateKeyWritten, Active
<1> QED
  BY <1>2, <1>3, <1>4

LEMMA ReadPrivateKeyInv == ASSUME IInv, NEW p \in Requests, ReadPrivateKey(p) PROVE IInv'
<1> USE DEF IInv
<1>1. CASE privateKeyFile \in Keys
  <2>1. /\ pc'[p] = "truncatePublicKey" /\ publicKey' = [publicKey EXCEPT ![p] = privateKeyFile]
        /\ pc' \in [Requests -> Steps \cup {"idle", "posted", "error", "dead"}]
        /\ \A q \in Requests : q # p => pc'[q] = pc[q]
    BY <1>1, KeyStoreAssumption, Goto DEF ReadPrivateKey, Steps, Keys
  <2>2. TypeOK' /\ SignedByItsKey' /\ PublicNeedsPrivate'
    BY <1>1, <2>1 DEF ReadPrivateKey, TypeOK, SignedByItsKey, PublicNeedsPrivate
  <2>3. WriterHasKey'
    BY <1>1, <2>1, KeyStoreAssumption
       DEF ReadPrivateKey, TypeOK, WriterHasKey, PrivateKeyBegun, Keys
  <2>4. ServedAlone'
    BY <1>1, <2>1
       DEF ReadPrivateKey, TypeOK, ServedAlone, PrivateKeyWritten, Active, Steps
  <2> QED
    BY <2>2, <2>3, <2>4
<1>2. CASE privateKeyFile = Empty \/ privateKeyFile = Missing
  <2>1. /\ pc[p] = "readPrivateKey" /\ pc'[p] \in {"error", "checkPublicKey"}
        /\ pc'[p] = "checkPublicKey" => privateKeyFile = Missing
        /\ pc' \in [Requests -> Steps \cup {"idle", "posted", "error", "dead"}]
        /\ \A q \in Requests : q # p => pc'[q] = pc[q]
        /\ publicKey' = publicKey
    BY <1>2, KeyStoreAssumption, Goto DEF ReadPrivateKey, Steps, Keys
  <2>2. TypeOK' /\ SignedByItsKey' /\ PublicNeedsPrivate'
    BY <2>1 DEF ReadPrivateKey, TypeOK, SignedByItsKey, PublicNeedsPrivate
  <2>3. WriterHasKey'
    BY <2>1 DEF ReadPrivateKey, WriterHasKey, PrivateKeyBegun
  <2>4. ServedAlone'
    BY <2>1 DEF ReadPrivateKey, ServedAlone, PrivateKeyWritten, Active, Steps
  <2> QED
    BY <2>2, <2>3, <2>4
<1> QED
  BY <1>1, <1>2 DEF TypeOK

LEMMA CheckPublicKeyInv == ASSUME IInv, NEW p \in Requests, CheckPublicKey(p) PROVE IInv'
<1> USE DEF IInv
<1>1. CASE publicKeyFile # Missing
  <2>1. /\ pc'[p] = "error" /\ publicKey' = publicKey
        /\ pc' \in [Requests -> Steps \cup {"idle", "posted", "error", "dead"}]
        /\ \A q \in Requests : q # p => pc'[q] = pc[q]
    BY <1>1, Goto DEF CheckPublicKey
  <2>2. TypeOK' /\ SignedByItsKey' /\ PublicNeedsPrivate'
    BY <2>1 DEF CheckPublicKey, TypeOK, SignedByItsKey, PublicNeedsPrivate
  <2>3. WriterHasKey' /\ ServedAlone'
    BY <2>1 DEF CheckPublicKey, WriterHasKey, PrivateKeyBegun, ServedAlone,
                PrivateKeyWritten, Active, Steps
  <2> QED
    BY <2>2, <2>3
<1>2. CASE publicKeyFile = Missing
  <2>1. /\ pc[p] = "checkPublicKey" /\ pc'[p] = "truncatePrivateKey"
        /\ publicKey' = [publicKey EXCEPT ![p] = p]
        /\ pc' \in [Requests -> Steps \cup {"idle", "posted", "error", "dead"}]
        /\ \A q \in Requests : q # p => pc'[q] = pc[q]
    BY <1>2, Goto DEF CheckPublicKey, Steps
  <2>2. TypeOK' /\ SignedByItsKey' /\ PublicNeedsPrivate'
    BY <2>1 DEF CheckPublicKey, TypeOK, SignedByItsKey, PublicNeedsPrivate, Keys
  <2>3. WriterHasKey' /\ ServedAlone'
    BY <2>1 DEF CheckPublicKey, TypeOK, WriterHasKey, PrivateKeyBegun, ServedAlone,
                PrivateKeyWritten, Active, Steps, Keys
  <2> QED
    BY <2>2, <2>3
<1> QED
  BY <1>1, <1>2

LEMMA WriteInv == ASSUME IInv, NEW p \in Requests, Write(p) PROVE IInv'
<1> USE DEF IInv
<1>0. /\ Following["truncatePrivateKey"] = "writePrivateKey"
      /\ Following["writePrivateKey"] = "truncatePublicKey"
      /\ Following["truncatePublicKey"] = "writePublicKey"
      /\ Following["writePublicKey"] = "sign"
      /\ DOMAIN Following =
           {"truncatePrivateKey", "writePrivateKey", "truncatePublicKey", "writePublicKey"}
  BY DEF Following
<1>1. CASE pc[p] = "truncatePrivateKey"
  <2>1. /\ privateKeyFile' = Empty /\ publicKeyFile' = publicKeyFile
        /\ pc'[p] = "writePrivateKey"
        /\ pc' \in [Requests -> Steps \cup {"idle", "posted", "error", "dead"}]
        /\ \A q \in Requests : q # p => pc'[q] = pc[q]
    BY <1>1, Goto, <1>0 DEF Write, Steps
  <2>2. publicKey[p] \in Keys
    BY <1>1 DEF WriterHasKey, PrivateKeyBegun
  <2>3. TypeOK' /\ SignedByItsKey' /\ PublicNeedsPrivate'
    BY <2>1, <2>2, KeyStoreAssumption DEF Write, TypeOK, SignedByItsKey, PublicNeedsPrivate, Keys
  <2>4. WriterHasKey'
    BY <1>1, <2>1, <2>2, KeyStoreAssumption DEF Write, WriterHasKey, PrivateKeyBegun, Keys
  <2>5. ServedAlone'
    <3>1. load = 1 => \A q \in Requests : pc[q] \notin PrivateKeyWritten
      BY <1>1, KeyStoreAssumption
         DEF ServedAlone, WriterHasKey, PrivateKeyBegun, PrivateKeyWritten, Keys
    <3> QED
      BY <1>1, <2>1, <3>1 DEF Write, ServedAlone, PrivateKeyWritten, Active, Steps
  <2> QED
    BY <2>3, <2>4, <2>5
<1>2. CASE pc[p] = "writePrivateKey"
  <2>1. /\ privateKeyFile' = publicKey[p] /\ publicKeyFile' = publicKeyFile
        /\ pc'[p] = "truncatePublicKey"
        /\ pc' \in [Requests -> Steps \cup {"idle", "posted", "error", "dead"}]
        /\ \A q \in Requests : q # p => pc'[q] = pc[q]
    BY <1>2, Goto, <1>0 DEF Write, Steps
  <2>2. publicKey[p] \in Keys /\ privateKeyFile # Missing
    BY <1>2 DEF WriterHasKey, PrivateKeyBegun
  <2>3. TypeOK' /\ SignedByItsKey' /\ PublicNeedsPrivate'
    BY <2>1, <2>2, KeyStoreAssumption DEF Write, TypeOK, SignedByItsKey, PublicNeedsPrivate, Keys
  <2>4. WriterHasKey'
    BY <1>2, <2>1, <2>2, KeyStoreAssumption DEF Write, WriterHasKey, PrivateKeyBegun, Keys
  <2>5. ServedAlone'
    <3>1. load = 1 => \A q \in Requests : pc[q] \notin PrivateKeyWritten
      BY <1>2, KeyStoreAssumption
         DEF ServedAlone, WriterHasKey, PrivateKeyBegun, PrivateKeyWritten, Keys
    <3> QED
      BY <1>2, <2>1, <3>1 DEF Write, ServedAlone, PrivateKeyWritten, Active, Steps
  <2> QED
    BY <2>3, <2>4, <2>5
<1>3. CASE pc[p] = "truncatePublicKey"
  <2>1. /\ privateKeyFile' = privateKeyFile /\ publicKeyFile' = Empty
        /\ pc'[p] = "writePublicKey"
        /\ pc' \in [Requests -> Steps \cup {"idle", "posted", "error", "dead"}]
        /\ \A q \in Requests : q # p => pc'[q] = pc[q]
    BY <1>3, Goto, <1>0 DEF Write, Steps
  <2>2. publicKey[p] \in Keys /\ privateKeyFile # Missing
    BY <1>3 DEF WriterHasKey, PrivateKeyBegun
  <2>3. TypeOK' /\ SignedByItsKey' /\ PublicNeedsPrivate'
    BY <2>1, <2>2, KeyStoreAssumption DEF Write, TypeOK, SignedByItsKey, PublicNeedsPrivate, Keys
  <2>4. WriterHasKey'
    BY <1>3, <2>1, <2>2, KeyStoreAssumption DEF Write, WriterHasKey, PrivateKeyBegun, Keys
  <2>5. ServedAlone'
    BY <1>3, <2>1 DEF Write, ServedAlone, PrivateKeyWritten, Active, Steps
  <2> QED
    BY <2>3, <2>4, <2>5
<1>4. CASE pc[p] = "writePublicKey"
  <2>1. /\ privateKeyFile' = privateKeyFile /\ publicKeyFile' = publicKey[p]
        /\ pc'[p] = "sign"
        /\ pc' \in [Requests -> Steps \cup {"idle", "posted", "error", "dead"}]
        /\ \A q \in Requests : q # p => pc'[q] = pc[q]
    BY <1>4, Goto, <1>0 DEF Write, Steps
  <2>2. publicKey[p] \in Keys /\ privateKeyFile # Missing
    BY <1>4 DEF WriterHasKey, PrivateKeyBegun
  <2>3. TypeOK' /\ SignedByItsKey' /\ PublicNeedsPrivate'
    BY <2>1, <2>2, KeyStoreAssumption DEF Write, TypeOK, SignedByItsKey, PublicNeedsPrivate, Keys
  <2>4. WriterHasKey'
    BY <1>4, <2>1, <2>2, KeyStoreAssumption DEF Write, WriterHasKey, PrivateKeyBegun, Keys
  <2>5. ServedAlone'
    BY <1>4, <2>1 DEF Write, ServedAlone, PrivateKeyWritten, Active, Steps
  <2> QED
    BY <2>3, <2>4, <2>5
<1> QED
  BY <1>0, <1>1, <1>2, <1>3, <1>4 DEF Write

LEMMA WriteFailsInv == ASSUME IInv, NEW p \in Requests, WriteFails(p) PROVE IInv'
<1> USE DEF IInv
<1>1. /\ pc'[p] = "error"
      /\ pc' \in [Requests -> Steps \cup {"idle", "posted", "error", "dead"}]
      /\ \A q \in Requests : q # p => pc'[q] = pc[q]
  BY Goto DEF WriteFails
<1>2. TypeOK' /\ SignedByItsKey' /\ PublicNeedsPrivate'
  BY <1>1, KeyStoreAssumption DEF WriteFails, TypeOK, SignedByItsKey, PublicNeedsPrivate
<1>3. WriterHasKey' /\ ServedAlone'
  BY <1>1 DEF WriteFails, WriterHasKey, PrivateKeyBegun, ServedAlone, PrivateKeyWritten,
              Active, Steps
<1> QED
  BY <1>2, <1>3

LEMMA SignInv == ASSUME IInv, NEW p \in Requests, Sign(p) PROVE IInv'
<1> USE DEF IInv
<1>1. /\ pc[p] = "sign" /\ pc'[p] \in {"posted", "error"}
      /\ pc' \in [Requests -> Steps \cup {"idle", "posted", "error", "dead"}]
      /\ \A q \in Requests : q # p => pc'[q] = pc[q]
  BY Goto DEF Sign
<1>2. publicKey[p] \in Keys
  BY <1>1 DEF WriterHasKey, PrivateKeyBegun
<1>3. TypeOK' /\ SignedByItsKey' /\ PublicNeedsPrivate'
  BY <1>1, <1>2 DEF Sign, TypeOK, SignedByItsKey, PublicNeedsPrivate
<1>4. WriterHasKey' /\ ServedAlone'
  BY <1>1 DEF Sign, WriterHasKey, PrivateKeyBegun, ServedAlone, PrivateKeyWritten, Active, Steps
<1> QED
  BY <1>3, <1>4

LEMMA CrashInv == IInv /\ Crash => IInv'
<1> SUFFICES ASSUME IInv, Crash
             PROVE  IInv'
  OBVIOUS
<1> USE DEF IInv
<1>1. \A q \in Requests : pc'[q] = IF Active(q) THEN "dead" ELSE pc[q]
  BY DEF Crash
<1>2. TypeOK' /\ SignedByItsKey' /\ PublicNeedsPrivate'
  BY KeyStoreAssumption DEF Crash, TypeOK, SignedByItsKey, PublicNeedsPrivate
<1>3. WriterHasKey' /\ ServedAlone'
  BY <1>1 DEF Crash, WriterHasKey, PrivateKeyBegun, ServedAlone, PrivateKeyWritten, Active, Steps
<1> QED
  BY <1>2, <1>3

\* The invariant is inductive.
LEMMA NextIInv == IInv /\ [Next]_vars => IInv'
<1> SUFFICES ASSUME IInv, [Next]_vars
             PROVE  IInv'
  OBVIOUS
<1>1. CASE UNCHANGED vars
  BY <1>1 DEF vars, IInv, TypeOK, SignedByItsKey, PublicNeedsPrivate, WriterHasKey, ServedAlone,
              Active
<1> QED
  BY <1>1, ReceiveInv, ReadPrivateKeyInv, CheckPublicKeyInv, WriteInv, WriteFailsInv, SignInv,
     CrashInv DEF Next, Serve

LEMMA Invariance == Spec => []IInv
BY InitIInv, NextIInv, PTL DEF Spec

-----------------------------------------------------------------------------

\* A request only ever works with a key that some request generated.
THEOREM TypeCorrect == Spec => []TypeOK
<1>1. IInv => TypeOK
  BY DEF IInv
<1> QED
  BY <1>1, Invariance, PTL

\* However many requests race, none is posted with the signature of another
\* key than the one it registers.
THEOREM PostedIsSignedByItsKey == Spec => []SignedByItsKey
<1>1. IInv => SignedByItsKey
  BY DEF IInv
<1> QED
  BY <1>1, Invariance, PTL

\* No number of crashes, failed writes or races leaves a public key alone.
THEOREM PublicKeyIsNeverAlone == Spec => []PublicNeedsPrivate
<1>1. IInv => PublicNeedsPrivate
  BY DEF IInv
<1> QED
  BY <1>1, Invariance, PTL

\* What a step of the registrations does to a key that is there.
LEMMA NextKeepsKey ==
  ASSUME IInv, Next, load = 1, privateKeyFile \in Keys
  PROVE  UNCHANGED privateKeyFile
<1>1. ASSUME NEW p \in Requests, Write(p)
      PROVE  UNCHANGED privateKeyFile
  <2>1. pc[p] # "truncatePrivateKey" /\ pc[p] # "writePrivateKey"
    BY KeyStoreAssumption DEF IInv, ServedAlone, Keys
  <2> QED
    BY <1>1, <2>1 DEF Write
<1> QED
  BY <1>1 DEF Next, Serve, Receive, ReadPrivateKey, CheckPublicKey, WriteFails, Sign, Crash

\* When requests are served one at a time, a key that is there is kept: the one
\* that writes found the file missing, and nobody has written it since.
THEOREM KeyIsKeptAlone == Spec => KeyKeptAlone
<1>1. IInv /\ [Next]_vars
        => [(load = 1 /\ privateKeyFile \in Keys) => UNCHANGED privateKeyFile]_vars
  BY NextKeepsKey
<1> QED
  BY <1>1, Invariance, PTL DEF Spec, KeyKeptAlone

=============================================================================
