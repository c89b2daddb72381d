--------------------------- MODULE MCWorktreePool ---------------------------
(* Instances of WorktreePool for TLC. *)
EXTENDS WorktreePool, TLC

CONSTANTS c1, c2, c3

TwoClients == {c1, c2}
ThreeClients == {c1, c2, c3}
NoReaper == {}
OneReaper == {c2}

\* Clients that are not reapers behave alike.
Symmetry == Permutations(Clients \ Reapers)

=============================================================================
