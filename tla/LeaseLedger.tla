----------------------------- MODULE LeaseLedger -----------------------------
(***************************************************************************)
(* What worktreepool.Pool promises its callers: Lease hands out a worktree *)
(* that nobody has on lease, at most Max are on lease at a time, and a     *)
(* closed pool hands out none.  How worktrees come about, who waits for    *)
(* whom and what happens on disk is WorktreePool, which implements this    *)
(* module; Dispatcher is built on it.                                      *)
(***************************************************************************)
EXTENDS Naturals, FiniteSets

CONSTANTS
    Users,  \* callers of Lease and Release
    Max     \* PoolConfig.ElasticMax

VARIABLES
    out,    \* worktrees on lease: the pool's leased map
    held,   \* pairs <<u, w>>: u was handed w and has not returned it
    shut    \* Close has begun

vars == <<out, held, shut>>

Init == out = {} /\ held = {} /\ shut = FALSE

\* Lease returns w to u.
Grant(u, w) ==
    /\ ~shut
    /\ w \notin out
    /\ Cardinality(out) < Max
    /\ out' = out \cup {w}
    /\ held' = held \cup {<<u, w>>}
    /\ shut' = shut

\* u passes w to Release, which forgets the lease whoever holds it; a closed
\* pool refuses.
Return(u, w) ==
    /\ <<u, w>> \in held
    /\ held' = held \ {<<u, w>>}
    /\ out' = IF shut THEN out ELSE out \ {w}
    /\ shut' = shut

\* A caller releases a worktree that was handed to somebody else.
Reap(w) ==
    /\ out' = IF shut THEN out ELSE out \ {w}
    /\ held' = held /\ shut' = shut

Close == shut' = TRUE /\ UNCHANGED <<out, held>>

\* The end of Close drops the leased map.
Clear == shut /\ out' = {} /\ UNCHANGED <<held, shut>>

Next ==
    \/ \E p \in held' \ held : p[1] \in Users /\ Grant(p[1], p[2])
    \/ \E p \in held : Return(p[1], p[2])
    \/ \E w \in out : Reap(w)
    \/ Close
    \/ Clear

Spec == Init /\ [][Next]_vars

=============================================================================
