--------------------------- MODULE IdentityStore ---------------------------
(***************************************************************************)
(* The identity file of a client device (identity_store.go) beside its key *)
(* pair: requests to save an identity (saveIdentityCacheHandler) and       *)
(* logins that take the user DID from the file (apiLoginHandler), served   *)
(* by the helper together with the registrations of KeyStore and, like     *)
(* those, without a lock.                                                  *)
(*                                                                         *)
(* A user DID is named after the registration it was given to, so its key  *)
(* is publicKey[DID].  A temporary file has a name of its own.             *)
(*                                                                         *)
(* A definition X_Bug is a mutated form of X: no specification uses it; it *)
(* shows that a property would notice that bug.                            *)
(***************************************************************************)
EXTENDS KeyStore

CONSTANTS
  Saves,    \* the requests to save an identity
  Logins    \* the logins of the helper

VARIABLES
  identityFile,  \* identity.json
  tempFile,      \* the temporary file of each save
  spc,           \* the next step of each save
  saved,         \* the user DID it was given
  lpc,           \* the next step of each login
  loginDID,      \* the user DID it found
  posted         \* the logins posted: user DID and signing key

saveVars == <<tempFile, spc, saved>>
loginVars == <<lpc, loginDID, posted>>
deviceVars == <<vars, identityFile, saveVars, loginVars>>

SaveSteps == {"createTemp", "write", "rename"}

DeviceInit ==
  /\ Init
  /\ identityFile = Missing
  /\ tempFile = [s \in Saves |-> Missing]
  /\ spc = [s \in Saves |-> "idle"]
  /\ saved = [s \in Saves |-> Missing]
  /\ lpc = [l \in Logins |-> "idle"]
  /\ loginDID = [l \in Logins |-> Missing]
  /\ posted = {}

saveGoto(s, step) == spc' = [spc EXCEPT ![s] = step]

\* The user saves the identity a registration has given her.
ReceiveSave(s) ==
  /\ spc[s] = "idle"
  /\ \E did \in Requests :
       /\ pc[did] = "posted"
       /\ saved' = [saved EXCEPT ![s] = did]
  /\ saveGoto(s, "createTemp")
  /\ UNCHANGED <<vars, identityFile, tempFile, loginVars>>

CreateTemp(s) ==
  /\ spc[s] = "createTemp"
  /\ tempFile' = [tempFile EXCEPT ![s] = Empty]
  /\ saveGoto(s, "write")
  /\ UNCHANGED <<vars, identityFile, saved, loginVars>>

\* Write, Chmod, Sync and Close, all of the temporary file.
WriteTemp(s) ==
  /\ spc[s] = "write"
  /\ tempFile' = [tempFile EXCEPT ![s] = saved[s]]
  /\ saveGoto(s, "rename")
  /\ UNCHANGED <<vars, identityFile, saved, loginVars>>

\* Mutated form: the identity file is removed before the new one takes its
\* place.
Rename_RemovesFirst(s) ==
  /\ spc[s] = "rename"
  /\ IF identityFile # Missing
     THEN identityFile' = Missing /\ UNCHANGED <<tempFile, spc>>
     ELSE /\ identityFile' = tempFile[s]
          /\ tempFile' = [tempFile EXCEPT ![s] = Missing]
          /\ saveGoto(s, "saved")
  /\ UNCHANGED <<vars, saved, loginVars>>

\* The temporary file becomes the identity file.
Rename(s) ==
  /\ spc[s] = "rename"
  /\ identityFile' = tempFile[s]
  /\ tempFile' = [tempFile EXCEPT ![s] = Missing]
  /\ saveGoto(s, "saved")
  /\ UNCHANGED <<vars, saved, loginVars>>

\* A step fails; the deferred clean-up removes the temporary file.
SaveFails(s) ==
  /\ failures < MaxFailures
  /\ spc[s] \in SaveSteps
  /\ failures' = failures + 1
  /\ tempFile' = [tempFile EXCEPT ![s] = Missing]
  /\ saveGoto(s, "error")
  /\ UNCHANGED <<privateKeyFile, publicKeyFile, pc, publicKey, sent, load, crashes>>
  /\ UNCHANGED <<identityFile, saved, loginVars>>

loginGoto(l, step) == lpc' = [lpc EXCEPT ![l] = step]

\* loadLocalIdentityCache, for a login that names no user; without an
\* identity newLoginRequest refuses it.
LoadIdentity(l) ==
  /\ lpc[l] = "idle"
  /\ loginDID' = [loginDID EXCEPT ![l] = identityFile]
  /\ loginGoto(l, IF identityFile \in Requests THEN "sign" ELSE "error")
  /\ UNCHANGED <<vars, identityFile, saveVars, posted>>

\* The private key is read, the login signed with it and posted.
SignLogin(l) ==
  /\ lpc[l] = "sign"
  /\ IF privateKeyFile \in Keys
     THEN /\ posted' = posted \cup {[userDID |-> loginDID[l], signer |-> privateKeyFile]}
          /\ loginGoto(l, "posted")
     ELSE loginGoto(l, "keyError") /\ UNCHANGED posted
  /\ UNCHANGED <<vars, identityFile, saveVars, loginDID>>

\* The helper dies: the files stay, the temporary ones among them.
DeviceCrash ==
  /\ Crash
  /\ spc' = [s \in Saves |-> IF spc[s] \in SaveSteps THEN "dead" ELSE spc[s]]
  /\ lpc' = [l \in Logins |-> IF lpc[l] = "sign" THEN "dead" ELSE lpc[l]]
  /\ UNCHANGED <<identityFile, tempFile, saved, loginDID, posted>>

DeviceNext ==
  \/ (\E p \in Requests : Serve(p)) /\ UNCHANGED <<identityFile, saveVars, loginVars>>
  \/ \E s \in Saves :
       ReceiveSave(s) \/ CreateTemp(s) \/ WriteTemp(s) \/ Rename(s) \/ SaveFails(s)
  \/ \E l \in Logins : LoadIdentity(l) \/ SignLogin(l)
  \/ DeviceCrash

DeviceSpec == DeviceInit /\ [][DeviceNext]_deviceVars

-----------------------------------------------------------------------------
(* Properties.                                                             *)

\* The identity file is complete whenever it is there, and once a save was
\* answered it is there for good: no later save, crash or failed write takes
\* the identity away or leaves half of it (saveLocalIdentityCache).
IdentityKept ==
  /\ identityFile \in Requests \cup {Missing}
  /\ (\E s \in Saves : spc[s] = "saved") => identityFile # Missing

\* When registrations are served one at a time, a login with the identity of
\* the device is signed with the key its user registered, although the two
\* files are written by different requests and read one after the other.
CachedIdentityLogsIn ==
  load = 1 =>
    /\ \A x \in posted : x.signer = publicKey[x.userDID]
    /\ \A l \in Logins : lpc[l] # "keyError"

=============================================================================
