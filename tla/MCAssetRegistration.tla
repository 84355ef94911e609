------------------------ MODULE MCAssetRegistration ------------------------
(* Values for the run of the asset registration: two users, two logins and *)
(* two requests, which any user may make with any login.                   *)
EXTENDS AssetRegistration, TLC

MCSymmetry == Permutations(Users) \cup Permutations(Logins) \cup Permutations(Requests)

=============================================================================
