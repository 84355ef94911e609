--------------------------- MODULE MCLoginService ---------------------------
(* Values for the runs of the logins: the launches of MCLaunchService, of  *)
(* one user who owns the asset or of both.                                 *)
EXTENDS LoginService, TLC

CONSTANTS u1, u2, a1

MCOwnerOf == [a \in Assets |-> u1]
MCInitialScore == [u \in Users |-> 60]

Ask(u) == [user |-> u, asset |-> a1, price |-> 100000, mode |-> 0, final |-> 0]

MCRequests == {Ask(u) : u \in Users}

MCLoginSymmetry == Permutations(Handlers)

=============================================================================
