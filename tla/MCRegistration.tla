--------------------------- MODULE MCRegistration ---------------------------
(* Values for the run of the registration: two users, each with a device.  *)
EXTENDS Registration

CONSTANTS r1, r2, k1, k2

MCKeyOf == [r \in Requests |-> IF r = r1 THEN k1 ELSE k2]

=============================================================================
