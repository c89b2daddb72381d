-------------------------- MODULE SubprocessManager --------------------------
(***************************************************************************)
(* internal/workforce/subprocess/manager.go: ephemeral sessions, the       *)
(* persistent session of one (spec, doctrine) key, the evictor, the crash  *)
(* detector and Shutdown.  Keys share nothing but m.mu, so one is enough.  *)
(*                                                                         *)
(* m.mu guards the two maps and nothing else: processes are started,       *)
(* signalled and closed outside it.  A critical section is one step, and   *)
(* so is every call of the factory and of Close.  Of the session store     *)
(* only the write whose failure is acted upon is modelled.                 *)
(***************************************************************************)
EXTENDS Naturals

CONSTANTS
    Users,          \* goroutines that call AcquirePersistent or SpawnEphemeral
    MaxSessions,    \* bound: processes ever started
    StoreFails      \* whether SessionStore.UpsertPersistent may fail

ASSUME ManagerAssumption == MaxSessions \in Nat /\ StoreFails \in BOOLEAN

VARIABLES
    spawned,     \* processes started so far; the next one is session spawned + 1
    open,        \* sessions started and not closed
    entry,       \* m.persistents[key]: its session, whether it is marked evicted,
                 \* past its TTL, and whether its process is gone
    ephemerals,  \* m.ephemerals
    user,        \* each caller: its step and its session
    loop,        \* the evictor and the crash detector: step and session
    stopping,    \* Shutdown: its step and the sessions it took from the maps
    late,        \* history: sessions that reach a map after Shutdown emptied it
    quiet,       \* history: no call was under way when Shutdown emptied the maps, and none
                 \* was made since that starts a process
    orphaned     \* history: a failed store write removed another caller's entry

managerVars == <<spawned, open, entry, ephemerals, user, loop, stopping, late, quiet, orphaned>>

SessionID == 1..MaxSessions
Loops == {"evictor", "detector"}
UserPC == {"idle", "spawn", "insert", "discard", "persist", "undo", "close", "track"}
LoopPC == {"idle", "close", "remove", "stopped"}
NoEntry == [s |-> 0, evicted |-> FALSE, stale |-> FALSE, exited |-> FALSE]
NewEntry(s) == [NoEntry EXCEPT !.s = s]
AtRest == [at |-> "idle", s |-> 0]

ManagerInit ==
    /\ spawned = 0 /\ open = {} /\ entry = NoEntry /\ ephemerals = {}
    /\ user = [u \in Users |-> AtRest]
    /\ loop = [x \in Loops |-> AtRest]
    /\ stopping = [at |-> "no", taken |-> {}]
    /\ late = {} /\ quiet = TRUE /\ orphaned = FALSE

Usable == entry.s # 0 /\ ~entry.evicted
Emptied == stopping.at \in {"close", "wait", "returned"}

-----------------------------------------------------------------------------
(* AcquirePersistent                                                       *)

\* The first critical section: a hit refreshes lastUse and returns, whether or
\* not its row can be written; a miss goes on to start a process.
AcquirePersistent(u) ==
    /\ user[u].at = "idle"
    /\ \/ Usable /\ entry' = [entry EXCEPT !.stale = FALSE] /\ UNCHANGED <<user, quiet>>
       \/ /\ ~Usable /\ user' = [user EXCEPT ![u].at = "spawn"] /\ UNCHANGED entry
          /\ quiet' = (quiet /\ ~Emptied)
    /\ UNCHANGED <<spawned, open, ephemerals, loop, stopping, late, orphaned>>

\* m.factory starts a process, after which its caller has step next.
Factory(u, next) ==
    /\ spawned < MaxSessions
    /\ spawned' = spawned + 1 /\ open' = open \cup {spawned'}
    /\ user' = [user EXCEPT ![u] = [at |-> next, s |-> spawned']]

StartPersistent(u) ==
    /\ user[u].at = "spawn"
    /\ \/ Factory(u, "insert")
       \/ user' = [user EXCEPT ![u] = AtRest] /\ UNCHANGED <<spawned, open>>
    /\ UNCHANGED <<entry, ephemerals, loop, stopping, late, quiet, orphaned>>

\* Mutant: the map is not looked at again after the factory.
InsertBlind(u) ==
    /\ user[u].at = "insert"
    /\ entry' = NewEntry(user[u].s) /\ user' = [user EXCEPT ![u].at = "persist"]
    /\ late' = IF Emptied THEN late \cup {user[u].s} ELSE late
    /\ UNCHANGED <<spawned, open, ephemerals, loop, stopping, quiet, orphaned>>

\* The second critical section: somebody else may have been faster.
Insert(u) ==
    /\ user[u].at = "insert"
    /\ \/ /\ Usable /\ entry' = [entry EXCEPT !.stale = FALSE]
          /\ user' = [user EXCEPT ![u].at = "discard"] /\ UNCHANGED late
       \/ /\ ~Usable /\ entry' = NewEntry(user[u].s)
          /\ user' = [user EXCEPT ![u].at = "persist"]
          /\ late' = IF Emptied THEN late \cup {user[u].s} ELSE late
    /\ UNCHANGED <<spawned, open, ephemerals, loop, stopping, quiet, orphaned>>

\* UpsertPersistent of a new entry.
Persist(u) ==
    /\ user[u].at = "persist"
    /\ \/ user' = [user EXCEPT ![u] = AtRest]
       \/ StoreFails /\ user' = [user EXCEPT ![u].at = "undo"]
    /\ UNCHANGED <<spawned, open, entry, ephemerals, loop, stopping, late, quiet, orphaned>>

\* delete(m.persistents, key): whatever entry the key has by now.
Undo(u) ==
    /\ user[u].at = "undo"
    /\ entry' = NoEntry
    /\ orphaned' = (orphaned \/ entry.s \notin {0, user[u].s})
    /\ user' = [user EXCEPT ![u].at = "close"]
    /\ UNCHANGED <<spawned, open, ephemerals, loop, stopping, late, quiet>>

\* A caller closes a session that is in no map: the loser of the race for the
\* key, the one whose row could not be written, and Release.
CloseOwn(u) ==
    /\ user[u].at \in {"discard", "close"}
    /\ open' = open \ {user[u].s} /\ user' = [user EXCEPT ![u] = AtRest]
    /\ UNCHANGED <<spawned, entry, ephemerals, loop, stopping, late, quiet, orphaned>>

-----------------------------------------------------------------------------
(* SpawnEphemeral and Release                                              *)

SpawnEphemeral(u) ==
    /\ user[u].at = "idle" /\ Factory(u, "track")
    /\ quiet' = (quiet /\ ~Emptied)
    /\ UNCHANGED <<entry, ephemerals, loop, stopping, late, orphaned>>

Track(u) ==
    /\ user[u].at = "track"
    /\ ephemerals' = ephemerals \cup {user[u].s}
    /\ late' = IF Emptied THEN late \cup {user[u].s} ELSE late
    /\ user' = [user EXCEPT ![u] = AtRest]
    /\ UNCHANGED <<spawned, open, entry, loop, stopping, quiet, orphaned>>

\* Release forgets an ephemeral session before it closes it.
ReleaseSession(u, s) ==
    /\ user[u].at = "idle" /\ s \in ephemerals
    /\ ephemerals' = ephemerals \ {s}
    /\ user' = [user EXCEPT ![u] = [at |-> "close", s |-> s]]
    /\ UNCHANGED <<spawned, open, entry, loop, stopping, late, quiet, orphaned>>

-----------------------------------------------------------------------------
(* The evictor and the crash detector                                      *)

\* Nobody uses the entry for its TTL; its process dies by itself.
TTLPasses ==
    /\ Usable /\ ~entry.stale /\ entry' = [entry EXCEPT !.stale = TRUE]
    /\ UNCHANGED <<spawned, open, ephemerals, user, loop, stopping, late, quiet, orphaned>>

ProcessExits ==
    /\ entry.s \in open /\ ~entry.exited /\ entry' = [entry EXCEPT !.exited = TRUE]
    /\ UNCHANGED <<spawned, open, ephemerals, user, loop, stopping, late, quiet, orphaned>>

\* What evictPastTTL and scanForCrashes look for.
Due(x) == Usable /\ (IF x = "evictor" THEN entry.stale ELSE entry.exited)

\* They mark what they are going to remove.
Mark(x) ==
    /\ loop[x].at = "idle" /\ Due(x)
    /\ entry' = [entry EXCEPT !.evicted = TRUE]
    /\ loop' = [loop EXCEPT ![x] = [at |-> "close", s |-> entry.s]]
    /\ UNCHANGED <<spawned, open, ephemerals, user, stopping, late, quiet, orphaned>>

\* SIGTERM, the grace period and SIGKILL for the evictor, and Close for both.
CloseMarked(x) ==
    /\ loop[x].at = "close"
    /\ open' = open \ {loop[x].s} /\ loop' = [loop EXCEPT ![x].at = "remove"]
    /\ UNCHANGED <<spawned, entry, ephemerals, user, stopping, late, quiet, orphaned>>

\* stillOurs: a new entry under the same key stays.
RemoveMarked(x) ==
    /\ loop[x].at = "remove"
    /\ entry' = IF entry.s = loop[x].s THEN NoEntry ELSE entry
    /\ loop' = [loop EXCEPT ![x] = AtRest]
    /\ UNCHANGED <<spawned, open, ephemerals, user, stopping, late, quiet, orphaned>>

\* The select of a loop finds shutdownCh closed.
LoopExits(x) ==
    /\ loop[x].at = "idle" /\ stopping.at # "no"
    /\ loop' = [loop EXCEPT ![x].at = "stopped"]
    /\ UNCHANGED <<spawned, open, entry, ephemerals, user, stopping, late, quiet, orphaned>>

LoopStep(x) == Mark(x) \/ CloseMarked(x) \/ RemoveMarked(x)

-----------------------------------------------------------------------------
(* Shutdown                                                                *)

ShutdownSignal ==
    /\ stopping.at = "no" /\ stopping' = [stopping EXCEPT !.at = "take"]
    /\ UNCHANGED <<spawned, open, entry, ephemerals, user, loop, late, quiet, orphaned>>

\* Mutant: the ephemeral sessions are dropped without being closed.
ShutdownTakePersistent ==
    /\ stopping.at = "take"
    /\ stopping' = [at |-> "close", taken |-> {entry.s} \ {0}]
    /\ ephemerals' = {} /\ entry' = NoEntry /\ quiet' = \A u \in Users : user[u].at = "idle"
    /\ UNCHANGED <<spawned, open, user, loop, late, orphaned>>

\* Both maps are emptied under m.mu ...
ShutdownTake ==
    /\ stopping.at = "take"
    /\ stopping' = [at |-> "close", taken |-> (ephemerals \cup {entry.s}) \ {0}]
    /\ ephemerals' = {} /\ entry' = NoEntry /\ quiet' = \A u \in Users : user[u].at = "idle"
    /\ UNCHANGED <<spawned, open, user, loop, late, orphaned>>

\* ... what was in them is closed, and the two loops are waited for.
ShutdownClose ==
    /\ stopping.at = "close"
    /\ open' = open \ stopping.taken /\ stopping' = [at |-> "wait", taken |-> {}]
    /\ UNCHANGED <<spawned, entry, ephemerals, user, loop, late, quiet, orphaned>>

ShutdownReturn ==
    /\ stopping.at = "wait" /\ \A x \in Loops : loop[x].at = "stopped"
    /\ stopping' = [stopping EXCEPT !.at = "returned"]
    /\ UNCHANGED <<spawned, open, entry, ephemerals, user, loop, late, quiet, orphaned>>

ShutdownStep == ShutdownTake \/ ShutdownClose \/ ShutdownReturn

UserStep(u) ==
    StartPersistent(u) \/ Insert(u) \/ Persist(u) \/ Undo(u) \/ CloseOwn(u) \/ Track(u)

ManagerNext ==
    \/ \E u \in Users : AcquirePersistent(u) \/ SpawnEphemeral(u) \/ UserStep(u)
    \/ \E u \in Users, s \in SessionID : ReleaseSession(u, s)
    \/ TTLPasses \/ ProcessExits
    \/ \E x \in Loops : LoopStep(x) \/ LoopExits(x)
    \/ ShutdownSignal \/ ShutdownStep

ManagerSpec == ManagerInit /\ [][ManagerNext]_managerVars

-----------------------------------------------------------------------------
(* Properties                                                              *)

\* Sessions, callers, loops and Shutdown hold what their Go types allow.
ManagerTypeOK ==
    /\ spawned \in 0..MaxSessions
    /\ open \in SUBSET SessionID /\ ephemerals \in SUBSET SessionID
    /\ entry \in [s : 0..MaxSessions, evicted : BOOLEAN, stale : BOOLEAN, exited : BOOLEAN]
    /\ user \in [Users -> [at : UserPC, s : 0..MaxSessions]]
    /\ loop \in [Loops -> [at : LoopPC, s : 0..MaxSessions]]
    /\ stopping \in [at : {"no", "take", "close", "wait", "returned"},
                     taken : SUBSET SessionID]
    /\ late \in SUBSET SessionID /\ orphaned \in BOOLEAN

\* Sessions a caller is going to file or to close.
InHand == {user[u].s : u \in {v \in Users :
                                user[v].at \in {"insert", "discard", "close", "track"}}}

\* No process is lost: one that runs is in a map, or in the hands of a caller, a
\* loop or Shutdown that is going to file or to close it, however acquires,
\* evictions, crashes and Shutdown overlap.  The one exception is a failed store
\* write: its undo deletes the key's entry without asking whose it is
\* (manager.go:365-381).
NoLostSession ==
    \A s \in open :
        \/ s = entry.s \/ s \in ephemerals \/ s \in stopping.taken \/ s \in InHand
        \/ \E x \in Loops : loop[x] = [at |-> "close", s |-> s]
        \/ orphaned

\* Shutdown closes what was filed before it emptied the maps.  When it has returned, what
\* still runs was filed later or is in the hands of a call that was under way, and nothing
\* runs if there was no such call.  This is less than manager.go:131-135 and doc.go:54-55
\* say, "every live session has been Closed": neither AcquirePersistent nor SpawnEphemeral
\* looks at shutdownCh, so that a call that overlaps with Shutdown leaves a process behind.
ShutdownCloses ==
    stopping.at = "returned" /\ ~orphaned =>
        /\ open \subseteq late \cup InHand
        /\ quiet => open = {}

\* Processes are accounted for while the manager runs, and Shutdown leaves behind only
\* those of calls it overlaps with (manager.go:205-381).
SessionsAccounted == NoLostSession /\ ShutdownCloses

\* Shutdown returns, although it waits for an evictor that may be in the middle
\* of an eviction and whose ticker may win the select again.
ShutdownReturns == stopping.at = "take" ~> stopping.at = "returned"

Stale(s) == entry.s = s /\ entry.stale
Evicted(s) == s \notin open \/ (entry.s = s /\ ~entry.stale) \/ stopping.at # "no" \/ orphaned

\* A session nobody uses for its TTL is closed, unless it is used again first or
\* the manager is shut down.
IdleIsEvicted == \A s \in SessionID : Stale(s) ~> Evicted(s)

=============================================================================
