------------------------- MODULE IdentityStoreProofs -------------------------
(***************************************************************************)
(* The identity file of a client device is complete and kept, and a login  *)
(* that takes the user from it signs with the key she registered.          *)
(*                                                                         *)
(* Neither property is inductive: what the identity file holds is known    *)
(* from what the saves write, and that its user has the private key of the *)
(* device from what the registrations do (IInv, KeyStoreProofs): whoever   *)
(* is named in a file was posted, and at one registration at a time the    *)
(* key file holds the key of everybody who was posted.                     *)
(***************************************************************************)
EXTENDS IdentityStore, KeyStoreProofs

\* The users the authority has been asked to register.
PostedRequests == {p \in Requests : pc[p] = "posted"}

DeviceTypeOK ==
  /\ identityFile \in PostedRequests \cup {Missing}
  /\ tempFile \in [Saves -> Requests \cup {Missing, Empty}]
  /\ spc \in [Saves -> SaveSteps \cup {"idle", "saved", "error", "dead"}]
  /\ saved \in [Saves -> Requests \cup {Missing}]
  /\ lpc \in [Logins -> {"idle", "sign", "posted", "keyError", "error", "dead"}]
  /\ loginDID \in [Logins -> Requests \cup {Missing}]

\* A save writes the DID of a user who was posted.
SaveKnowsUser ==
  \A s \in Saves :
    /\ spc[s] \in SaveSteps => saved[s] \in PostedRequests
    /\ spc[s] = "rename" => tempFile[s] = saved[s]
    /\ spc[s] = "saved" => identityFile # Missing

\* A login signs for a user who was posted.
LoginKnowsUser ==
  /\ \A l \in Logins : lpc[l] = "sign" => loginDID[l] \in PostedRequests
  /\ load = 1 =>
       /\ \A x \in posted : x.userDID \in PostedRequests /\ x.signer = publicKey[x.userDID]
       /\ \A l \in Logins : lpc[l] # "keyError"

DInv == IInv /\ DeviceTypeOK /\ SaveKnowsUser /\ LoginKnowsUser

-----------------------------------------------------------------------------

LEMMA DeviceInitInv == DeviceInit => DInv
BY InitIInv, KeyStoreAssumption
   DEF DeviceInit, DInv, DeviceTypeOK, SaveKnowsUser, LoginKnowsUser, SaveSteps

\* Who was posted stays so and keeps her key; nobody changes the load.
PostedStays ==
  /\ load' = load
  /\ \A p \in PostedRequests : pc'[p] = "posted" /\ publicKey'[p] = publicKey[p]

LEMMA ServePostedStays ==
  ASSUME TypeOK, NEW p \in Requests, Serve(p)
  PROVE  PostedStays
<1>1. pc[p] # "posted"
  <2>1. DOMAIN Following = {"truncatePrivateKey", "writePrivateKey", "truncatePublicKey",
                            "writePublicKey"}
    BY DEF Following
  <2> QED
    BY <2>1 DEF Serve, Receive, ReadPrivateKey, CheckPublicKey, Write, WriteFails, Sign
<1>2. /\ load' = load
      /\ \A q \in Requests : q # p => pc'[q] = pc[q] /\ publicKey'[q] = publicKey[q]
  BY DEF Serve, Receive, ReadPrivateKey, CheckPublicKey, Write, WriteFails, Sign, goto, TypeOK
<1> QED
  BY <1>1, <1>2 DEF PostedStays, PostedRequests

LEMMA CrashPostedStays ==
  ASSUME TypeOK, Crash
  PROVE  PostedStays
BY DEF PostedStays, PostedRequests, Crash, Active, Steps

\* What the saves and logins know outlives every step of a registration.
LEMMA DeviceUnchanged ==
  ASSUME DInv, PostedStays, UNCHANGED <<identityFile, saveVars, loginVars>>
  PROVE  DeviceTypeOK' /\ SaveKnowsUser' /\ LoginKnowsUser'
<1>1. PostedRequests \subseteq PostedRequests'
  BY DEF PostedStays, PostedRequests
<1> QED
  BY <1>1 DEF DInv, PostedStays, DeviceTypeOK, SaveKnowsUser, LoginKnowsUser, saveVars,
              loginVars

LEMMA ServeDInv ==
  ASSUME DInv, NEW p \in Requests, Serve(p), UNCHANGED <<identityFile, saveVars, loginVars>>
  PROVE  DInv'
<1>1. IInv'
  BY NextIInv DEF DInv, Next
<1> QED
  BY <1>1, ServePostedStays, DeviceUnchanged DEF DInv, IInv

\* The steps of a save leave the registrations and the logins alone.
LEMMA VarsUnchanged ==
  ASSUME IInv, UNCHANGED vars
  PROVE  IInv' /\ UNCHANGED <<PostedRequests, load, publicKey, privateKeyFile>>
BY NextIInv DEF vars, PostedRequests

LEMMA ReceiveSaveDInv == ASSUME DInv, NEW s \in Saves, ReceiveSave(s) PROVE DInv'
<1>1. IInv' /\ UNCHANGED <<PostedRequests, load, publicKey>>
  BY VarsUnchanged DEF DInv, ReceiveSave
<1>2. PICK did \in PostedRequests : saved' = [saved EXCEPT ![s] = did]
  BY DEF ReceiveSave, PostedRequests
<1>3. spc' = [spc EXCEPT ![s] = "createTemp"] /\ UNCHANGED <<identityFile, tempFile, loginVars>>
  BY DEF ReceiveSave, saveGoto
<1>4. did \in Requests
  BY DEF PostedRequests
<1> QED
  BY <1>1, <1>2, <1>3, <1>4
     DEF DInv, DeviceTypeOK, SaveKnowsUser, LoginKnowsUser, SaveSteps, loginVars

LEMMA CreateTempDInv == ASSUME DInv, NEW s \in Saves, CreateTemp(s) PROVE DInv'
<1>1. IInv' /\ UNCHANGED <<PostedRequests, load, publicKey>>
  BY VarsUnchanged DEF DInv, CreateTemp
<1> QED
  BY <1>1 DEF CreateTemp, saveGoto, DInv, DeviceTypeOK, SaveKnowsUser, LoginKnowsUser, SaveSteps,
              loginVars

LEMMA WriteTempDInv == ASSUME DInv, NEW s \in Saves, WriteTemp(s) PROVE DInv'
<1>1. IInv' /\ UNCHANGED <<PostedRequests, load, publicKey>>
  BY VarsUnchanged DEF DInv, WriteTemp
<1> QED
  BY <1>1 DEF WriteTemp, saveGoto, DInv, DeviceTypeOK, SaveKnowsUser, LoginKnowsUser, SaveSteps,
              loginVars

\* What is renamed names a user who was posted, so that no save that has been
\* answered loses its identity to it.
LEMMA RenameDInv == ASSUME DInv, NEW s \in Saves, Rename(s) PROVE DInv'
<1>1. IInv' /\ UNCHANGED <<PostedRequests, load, publicKey>>
  BY VarsUnchanged DEF DInv, Rename
<1>2. identityFile' \in PostedRequests /\ identityFile' # Missing
  BY KeyStoreAssumption DEF Rename, DInv, SaveKnowsUser, SaveSteps, PostedRequests
<1> QED
  BY <1>1, <1>2 DEF Rename, saveGoto, DInv, DeviceTypeOK, SaveKnowsUser, LoginKnowsUser,
                    SaveSteps, loginVars

LEMMA SaveFailsDInv == ASSUME DInv, NEW s \in Saves, SaveFails(s) PROVE DInv'
<1>1. IInv' /\ UNCHANGED <<PostedRequests, load, publicKey>>
  BY KeyStoreAssumption
     DEF SaveFails, DInv, IInv, TypeOK, SignedByItsKey, PublicNeedsPrivate, WriterHasKey,
         ServedAlone, Active, PostedRequests
<1> QED
  BY <1>1 DEF SaveFails, saveGoto, DInv, DeviceTypeOK, SaveKnowsUser, LoginKnowsUser, SaveSteps,
              loginVars

LEMMA LoadIdentityDInv == ASSUME DInv, NEW l \in Logins, LoadIdentity(l) PROVE DInv'
<1>1. IInv' /\ UNCHANGED <<PostedRequests, load, publicKey>>
  BY VarsUnchanged DEF DInv, LoadIdentity
<1>2. identityFile \in Requests => identityFile \in PostedRequests
  BY KeyStoreAssumption DEF DInv, DeviceTypeOK
<1>3. identityFile \in Requests \cup {Missing}
  BY DEF DInv, DeviceTypeOK, PostedRequests
<1> QED
  BY <1>1, <1>2, <1>3
     DEF LoadIdentity, loginGoto, DInv, DeviceTypeOK, SaveKnowsUser, LoginKnowsUser, saveVars

\* At one registration at a time the key file holds the key of the user.
LEMMA SignLoginDInv == ASSUME DInv, NEW l \in Logins, SignLogin(l) PROVE DInv'
<1>1. IInv' /\ UNCHANGED <<PostedRequests, load, publicKey>>
  BY VarsUnchanged DEF DInv, SignLogin
<1>2. loginDID[l] \in PostedRequests
  BY DEF SignLogin, DInv, LoginKnowsUser
<1>3. load = 1 => privateKeyFile = publicKey[loginDID[l]] /\ privateKeyFile \in Keys
  BY <1>2 DEF DInv, IInv, ServedAlone, WriterHasKey, PrivateKeyBegun, PrivateKeyWritten,
              PostedRequests
<1>4. LoginKnowsUser'
  <2>1. CASE privateKeyFile \in Keys
    <3>1. /\ posted' = posted \cup {[userDID |-> loginDID[l], signer |-> privateKeyFile]}
          /\ lpc' = [lpc EXCEPT ![l] = "posted"]
      BY <2>1 DEF SignLogin, loginGoto
    <3> QED
      BY <1>1, <1>2, <1>3, <3>1 DEF SignLogin, DInv, DeviceTypeOK, LoginKnowsUser
  <2>2. CASE privateKeyFile \notin Keys
    BY <1>1, <1>3, <2>2 DEF SignLogin, loginGoto, DInv, DeviceTypeOK, LoginKnowsUser
  <2> QED
    BY <2>1, <2>2
<1> QED
  BY <1>1, <1>4 DEF SignLogin, loginGoto, DInv, DeviceTypeOK, SaveKnowsUser, saveVars

LEMMA DeviceCrashDInv == ASSUME DInv, DeviceCrash PROVE DInv'
<1>1. IInv'
  BY NextIInv DEF DInv, DeviceCrash, Next
<1>2. PostedStays /\ PostedRequests \subseteq PostedRequests'
  BY CrashPostedStays DEF DeviceCrash, DInv, IInv, PostedStays, PostedRequests
<1>3. /\ \A s \in Saves : spc'[s] = IF spc[s] \in SaveSteps THEN "dead" ELSE spc[s]
      /\ \A l \in Logins : lpc'[l] = IF lpc[l] = "sign" THEN "dead" ELSE lpc[l]
  BY DEF DeviceCrash
<1>4. DeviceTypeOK'
  BY <1>2 DEF DeviceCrash, DInv, DeviceTypeOK
<1>5. SaveKnowsUser'
  BY <1>3 DEF DeviceCrash, DInv, SaveKnowsUser, SaveSteps
<1>6. LoginKnowsUser'
  BY <1>2, <1>3 DEF DeviceCrash, DInv, LoginKnowsUser, PostedStays
<1> QED
  BY <1>1, <1>4, <1>5, <1>6 DEF DInv

\* The invariant is inductive.
LEMMA DeviceNextInv == DInv /\ [DeviceNext]_deviceVars => DInv'
<1> SUFFICES ASSUME DInv, [DeviceNext]_deviceVars
             PROVE  DInv'
  OBVIOUS
<1>1. CASE UNCHANGED deviceVars
  BY <1>1, VarsUnchanged
     DEF deviceVars, saveVars, loginVars, DInv, DeviceTypeOK, SaveKnowsUser, LoginKnowsUser
<1> QED
  BY <1>1, ServeDInv, ReceiveSaveDInv, CreateTempDInv, WriteTempDInv, RenameDInv, SaveFailsDInv,
     LoadIdentityDInv, SignLoginDInv, DeviceCrashDInv DEF DeviceNext

LEMMA DeviceInvariance == DeviceSpec => []DInv
BY DeviceInitInv, DeviceNextInv, PTL DEF DeviceSpec

-----------------------------------------------------------------------------

\* The identity file is never half written, and is there for good once any
\* save was answered.
THEOREM IdentityIsKept == DeviceSpec => []IdentityKept
<1>1. DInv => IdentityKept
  BY DEF DInv, DeviceTypeOK, SaveKnowsUser, IdentityKept, PostedRequests
<1> QED
  BY <1>1, DeviceInvariance, PTL

\* A login with the identity of the device is signed with the key its user
\* registered, as long as registrations are served one at a time.
THEOREM IdentityLogsIn == DeviceSpec => []CachedIdentityLogsIn
<1>1. DInv => CachedIdentityLogsIn
  BY DEF DInv, LoginKnowsUser, CachedIdentityLogsIn
<1> QED
  BY <1>1, DeviceInvariance, PTL

\* Saves and logins beside the registrations do not change what these promise:
\* no request is posted with another key, and no public key is left alone.
THEOREM DeviceKeys == DeviceSpec => [](SignedByItsKey /\ PublicNeedsPrivate)
<1>1. DInv => SignedByItsKey /\ PublicNeedsPrivate
  BY DEF DInv, IInv
<1> QED
  BY <1>1, DeviceInvariance, PTL

\* Neither do they touch the private key of the device.
THEOREM DeviceKeepsKey == DeviceSpec => KeyKeptAlone
<1>1. DInv /\ [DeviceNext]_deviceVars
        => [(load = 1 /\ privateKeyFile \in Keys) => UNCHANGED privateKeyFile]_vars
  <2> SUFFICES ASSUME DInv, DeviceNext, load = 1, privateKeyFile \in Keys
               PROVE  UNCHANGED privateKeyFile
    BY DEF deviceVars
  <2>1. CASE Next
    BY <2>1, NextKeepsKey DEF DInv
  <2>2. CASE ~Next
    BY <2>2 DEF DeviceNext, DeviceCrash, Next, ReceiveSave, CreateTemp, WriteTemp, Rename,
                SaveFails, LoadIdentity, SignLogin, vars
  <2> QED
    BY <2>1, <2>2
<1> QED
  BY <1>1, DeviceInvariance, PTL DEF DeviceSpec, KeyKeptAlone

=============================================================================
