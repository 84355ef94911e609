-------------------------- MODULE MCLaunchService --------------------------
(* Values for the runs of the launch service: one asset, its owner and     *)
(* another user, and three requests that compete for it.                   *)
EXTENDS LaunchService, TLC

CONSTANTS u1, u2, a1

MCUsers == {u1, u2}
MCAssets == {a1}
MCOwnerOf == [a \in MCAssets |-> u1]
MCInitialScore == [u \in MCUsers |-> 60]

Ask(u, mode, final) == [user |-> u, asset |-> a1, price |-> 100000, mode |-> mode, final |-> final]

\* The owner asks for a sale and for an auction, the other user for a sale.
MCRequests == {Ask(u1, 0, 0), Ask(u1, 1, 2), Ask(u2, 0, 0)}

\* A sale asked for by the owner or by the other user.
MCSaleRequests == {Ask(u1, 0, 0), Ask(u2, 0, 0)}

MCSymmetry == Permutations(Handlers)

=============================================================================
