----------------------------- MODULE Supervisor -----------------------------
(***************************************************************************)
(* The process that runs the realms: Supervisor with its monitor loop, and *)
(* UserAdmin, the control plane whose HTTP requests run in the same event  *)
(* loop.  A realm has an agent process and, if its entry says so, a        *)
(* consolidator.                                                           *)
(*                                                                         *)
(* What the supervisor knows of a realm is one record, and every piece of  *)
(* code between two awaits is a function on it.  A reconcile awaits the    *)
(* initialisation of palaces, so several reconciles - of the loop and of   *)
(* requests - can be under way, each with the roster it read.              *)
(*                                                                         *)
(* Time is left out: a failure may or may not have left the window that is *)
(* counted, a retry becomes due, a timeout may pass.  The consolidator of  *)
(* a realm that is paused is stopped in one step.                          *)
(***************************************************************************)
EXTENDS Naturals, FiniteSets, Sequences

CONSTANTS
    Users,
    Order,        \* the realms as they are sorted, or listed
    Seed, Span,   \* the hash of a realm's id, and the number of ports
    Requests, Loop, Nobody,
    KindOf,       \* what a request asks for
    TargetOf,     \* and of which realm
    MaxGen,       \* processes of one kind a realm can have at a time
    MaxFailures,  \* max_failures_per_minute
    Scenarios     \* initial rosters, their changes, and faults (model only)

Kinds == {"agent", "consolidator"}
Settings == {"off", "slow", "fast"}
Entry == [state : {"absent", "disabled", "enabled"}, cons : Settings]
Scenario ==
    [roster : [Users -> Entry], edits : SUBSET (Users \X Entry), requests : SUBSET Requests,
     early : BOOLEAN, stops : BOOLEAN, crashes : Nat, faults : Nat]

ASSUME SupervisorConstants ==
    /\ Order \in Seq(Users) /\ \A u \in Users : \E i \in DOMAIN Order : Order[i] = u
    /\ Seed \in [Users -> Nat] /\ Span \in Nat /\ Span >= Len(Order)
    /\ KindOf \in [Requests -> {"reconcile", "restore", "rebuild", "cleanup"}]
    /\ TargetOf \in [Requests -> Users]
    /\ Loop \notin Requests /\ Nobody \notin Requests
    \* One agent in the table, and those that a restore and a rebuild are stopping.
    /\ MaxGen \in Nat /\ MaxGen >= 3
    /\ MaxFailures \in Nat \ {0}
    /\ Scenarios \subseteq Scenario

Gens == 1 .. MaxGen
Tasks == Requests \cup {Loop}

VARIABLES
    roster, edits,      \* what the authority says, and its changes to come
    sup,                \* what the supervisor knows of each realm, and its processes
    loop,               \* where the monitor loop is
    rec,                \* the reconcile each task is in
    req,                \* where each request is
    lock, maintenance,  \* _lock and _maintenance_lock of UserAdmin
    running,            \* the task that has the event loop and goes on without an await
    palace,             \* the realms that have a palace
    early,              \* whether requests are served while the loop starts
    stops,              \* SIGTERM may come
    crashes, faults     \* processes that die, roster reads and palaces that fail

authVars == <<roster, edits>>
taskVars == <<loop, rec, req, lock, maintenance, running>>
budgetVars == <<early, stops, crashes, faults>>
vars == <<authVars, sup, taskVars, palace, budgetVars>>

----------------------------------------------------------------------------
(* The roster, as load_users_config reads it: an entry gets the first port  *)
(* from its hash on that no earlier entry has.                              *)

StableRealmPort(u, used) ==
    LET port(offset) == (Seed[u] + offset) % Span
        free == {i \in 0 .. Span - 1 : port(i) \notin used}
    IN port(CHOOSE i \in free : \A j \in free : i <= j)

\* The ports of the first n entries; 0 .. Span - 1 stand for the ports there are.
PortsUpTo[n \in 0 .. Len(Order)] ==
    IF n = 0 THEN [u \in {} |-> 0]
    ELSE LET before == PortsUpTo[n - 1]
             u == Order[n]
         IN IF roster[u].state = "absent" THEN before
            ELSE [v \in DOMAIN before \cup {u} |->
                    IF v \in DOMAIN before THEN before[v]
                    ELSE StableRealmPort(u, {before[w] : w \in DOMAIN before})]

LoadUsersConfig ==
    LET ports == PortsUpTo[Len(Order)]
    IN [u \in Users |-> [state |-> roster[u].state, cons |-> roster[u].cons,
                         port |-> IF u \in DOMAIN ports THEN ports[u] ELSE 0]]

----------------------------------------------------------------------------
(* _Child, and what is known of a realm.                                    *)

NoEntry == [state |-> "absent", port |-> 0, cons |-> "off"]

\* ran: the entry the process was started with; def: child.user.
NoProc == [st |-> "free", ran |-> NoEntry, def |-> NoEntry, degraded |-> FALSE, fails |-> 0]
NoFailure == [n |-> 0, degraded |-> FALSE, due |-> FALSE]
NewRealm ==
    [child |-> [k \in Kinds |-> 0],
     procs |-> [k \in Kinds |-> [g \in Gens |-> NoProc]],
     victims |-> {},   \* agents out of the table that a thread is stopping
     failed |-> NoFailure]

Alive(p) == p.st \in {"starting", "serving"}
Child(x, k) == IF x.child[k] = 0 THEN NoProc ELSE x.procs[k][x.child[k]]
IsWorkerAlive(x) == Alive(Child(x, "agent"))
Ready(x) == IsWorkerAlive(x) /\ ~Child(x, "agent").degraded

\* A place in the model for one more process.
FreeGen(x, k) == CHOOSE g \in Gens : x.procs[k][g].st = "free"

\* A new child.  A consolidator takes no lock; an agent has its palace to open.
Spawn(x, k, e) ==
    LET g == FreeGen(x, k)
        p == [NoProc EXCEPT !.st = IF k = "agent" THEN "starting" ELSE "serving",
                            !.ran = e, !.def = e]
    IN [x EXCEPT !.procs[k][g] = p, !.child[k] = g]

\* terminate, with SIGKILL after the grace period, and out of the table.
Terminate(x, k) ==
    IF x.child[k] = 0 THEN x
    ELSE [x EXCEPT !.procs[k][x.child[k]] = NoProc, !.child[k] = 0]
TerminateBoth(x) == Terminate(Terminate(x, "agent"), "consolidator")

Define(x, k, e) == [x EXCEPT !.procs[k][x.child[k]].def = e]

\* record_failure: with "fresh", the earlier ones have left the window.
RecordFailure(p, fresh) ==
    LET n == IF fresh THEN 1 ELSE p.fails + 1
    IN [p EXCEPT !.fails = n, !.degraded = n >= MaxFailures]

\* One child in _check_children: restarted from the entry it has, unless it
\* has failed too often.  "bad": the spawn raises, another failure.
Restarted(p, k, fresh, bad) ==
    LET q == RecordFailure(p, fresh)
    IN IF q.degraded THEN q
       ELSE IF bad THEN RecordFailure(q, FALSE)
       ELSE [q EXCEPT !.st = IF k = "agent" THEN "starting" ELSE "serving", !.ran = q.def]

CheckChild(x, k, fresh, bad) ==
    IF x.child[k] = 0 \/ Child(x, k).degraded \/ Alive(Child(x, k)) THEN x
    ELSE [x EXCEPT !.procs[k][x.child[k]] = Restarted(@, k, fresh, bad)]
CheckRealm(x, fresh, bad) ==
    CheckChild(CheckChild(x, "agent", fresh, bad), "consolidator", fresh, bad)

----------------------------------------------------------------------------
(* The parts of _reconcile, for a realm x and the entry e that was read.    *)

Enabled(e) == e.state = "enabled"
ConsolidatorEnabled(e) == Enabled(e) /\ e.cons # "off"

\* Failed initialisations of realms that are no longer wanted are dropped, and
\* agents that are not wanted or moved to another port are stopped.
StopUnwanted(x, e) ==
    LET y == IF Enabled(e) THEN x ELSE [x EXCEPT !.failed = NoFailure]
    IN IF y.child["agent"] # 0 /\ (~Enabled(e) \/ e.port # Child(y, "agent").def.port)
       THEN TerminateBoth(y) ELSE y

NeedsSpawn(x) == ~Ready(x)
InitDue(x) == x.failed.n = 0 \/ (~x.failed.degraded /\ x.failed.due)
Candidate(x, e) == Enabled(e) /\ NeedsSpawn(x) /\ InitDue(x)

\* Mutant: an agent that runs by now is not looked at.
EnsureAgentChildBlind(x, e, bad) ==
    LET y == IF Ready(x) THEN x ELSE Terminate(x, "agent")
    IN IF bad THEN y ELSE Spawn(y, "agent", e)

\* _ensure_agent_child.  "bad": the spawn raises, and there is no child.
EnsureAgentChild(x, e, bad) ==
    IF Ready(x) THEN Define(x, "agent", e)
    ELSE LET y == Terminate(x, "agent") IN IF bad THEN y ELSE Spawn(y, "agent", e)

\* _record_init_failure.
InitFailed(x, fresh) ==
    LET n == IF fresh THEN 1 ELSE x.failed.n + 1
    IN [x EXCEPT !.failed = [n |-> n, degraded |-> n >= MaxFailures, due |-> FALSE]]

\* The entries of running agents are refreshed.
Refresh(x, e) ==
    IF Enabled(e) /\ Ready(x) THEN Define([x EXCEPT !.failed = NoFailure], "agent", e) ELSE x

\* Mutant: a changed configuration does not restart the consolidator.
AlignConsolidatorKept(x, e) ==
    LET wanted == ConsolidatorEnabled(e) /\ Ready(x)
        y == IF wanted THEN x ELSE Terminate(x, "consolidator")
    IN IF ~wanted THEN y
       ELSE IF Alive(Child(y, "consolidator")) THEN Define(y, "consolidator", e)
       ELSE Spawn(y, "consolidator", e)

\* A consolidator runs beside a ready agent, with the configuration wanted.
AlignConsolidator(x, e) ==
    LET wanted == ConsolidatorEnabled(e) /\ Ready(x)
        stale == x.child["consolidator"] # 0 /\ Child(x, "consolidator").def.cons # e.cons
        y == IF wanted /\ ~stale THEN x ELSE Terminate(x, "consolidator")
    IN IF ~wanted THEN y
       ELSE IF Alive(Child(y, "consolidator")) THEN Define(y, "consolidator", e)
       ELSE Spawn(y, "consolidator", e)

Finish(x, e) == AlignConsolidator(Refresh(x, e), e)

----------------------------------------------------------------------------
(* _reconcile, as a task performs it: the roster is read, unwanted children *)
(* are stopped, and the palaces of the candidates are initialised; each     *)
(* result is acted on as it arrives, and the last is followed by the rest   *)
(* without another await.                                                   *)

NoRec == [wanted |-> [u \in Users |-> NoEntry], pending |-> {}]
Reconciling(t) == rec[t].pending # {}

\* Where the task is with these realms still to initialise: it goes on with the
\* event loop when there are none.
Awaiting(t, wanted, left, x) ==
    /\ rec' = [rec EXCEPT ![t] = IF left = {} THEN NoRec
                                 ELSE [wanted |-> wanted, pending |-> left]]
    /\ sup' = IF left = {} THEN [u \in Users |-> Finish(x[u], wanted[u])] ELSE x
    /\ running' = IF left = {} THEN t ELSE Nobody

\* The roster is read, or cannot be read and nothing is done.
Reconcile(t) ==
    \/ \E wanted \in {LoadUsersConfig} :
       LET x == [u \in Users |-> StopUnwanted(sup[u], wanted[u])]
       IN /\ Awaiting(t, wanted, {u \in Users : Candidate(x[u], wanted[u])}, x)
          /\ UNCHANGED faults
    \/ /\ faults > 0
       /\ faults' = faults - 1
       /\ running' = t
       /\ UNCHANGED <<sup, rec>>

InitPending(t, u) ==
    /\ running = Nobody
    /\ u \in rec[t].pending
    /\ t = Loop => loop # "starting"

InitSucceeds(t, u) ==
    /\ InitPending(t, u)
    /\ palace' = palace \cup {u}
    /\ \E bad \in BOOLEAN :
        /\ bad => faults > 0
        /\ faults' = IF bad THEN faults - 1 ELSE faults
        /\ LET e == rec[t].wanted[u]
               x == [sup[u] EXCEPT !.failed = NoFailure]
           IN Awaiting(t, rec[t].wanted, rec[t].pending \ {u},
                       [sup EXCEPT ![u] = EnsureAgentChild(x, e, bad)])
    /\ UNCHANGED <<authVars, loop, req, lock, maintenance, early, stops, crashes>>

InitFails(t, u) ==
    /\ InitPending(t, u)
    /\ faults > 0
    /\ faults' = faults - 1
    /\ \E fresh \in BOOLEAN :
        Awaiting(t, rec[t].wanted, rec[t].pending \ {u},
                 [sup EXCEPT ![u] = InitFailed(sup[u], fresh)])
    /\ UNCHANGED <<authVars, loop, req, lock, maintenance, palace, early, stops, crashes>>

----------------------------------------------------------------------------
(* The monitor loop: run, start, stop and _check_children.                  *)

\* start: the palaces of all the realms are initialised, and an agent is
\* started for each that succeeds - whatever children there are by then.
StartBegin ==
    /\ loop = "new" /\ running = Nobody
    /\ loop' = "starting"
    /\ rec' = [rec EXCEPT ![Loop] = [wanted |-> LoadUsersConfig,
                                     pending |-> {u \in Users : Enabled(roster[u])}]]
    /\ UNCHANGED <<authVars, sup, req, lock, maintenance, running, palace, budgetVars>>

Started(x, e) ==
    LET y == Spawn([x EXCEPT !.failed = NoFailure], "agent", e)
    IN IF ConsolidatorEnabled(e) /\ ~Alive(Child(y, "consolidator"))
       THEN Spawn(y, "consolidator", e) ELSE y

StartInitDone(u) ==
    /\ loop = "starting" /\ running = Nobody
    /\ u \in rec[Loop].pending
    /\ rec' = [rec EXCEPT ![Loop].pending = @ \ {u}]
    /\ \/ /\ sup' = [sup EXCEPT ![u] = Started(@, rec[Loop].wanted[u])]
          /\ palace' = palace \cup {u}
          /\ UNCHANGED faults
       \/ /\ faults > 0
          /\ faults' = faults - 1
          /\ sup' = [sup EXCEPT ![u] = InitFailed(@, FALSE)]
          /\ UNCHANGED palace
    /\ UNCHANGED <<authVars, loop, req, lock, maintenance, running, early, stops, crashes>>

StartEnd ==
    /\ loop = "starting" /\ running = Nobody /\ ~Reconciling(Loop)
    /\ loop' = "sleeping"
    /\ UNCHANGED <<authVars, sup, rec, req, lock, maintenance, running, palace, budgetVars>>

\* A failed initialisation is due again.
RetryDue(u) ==
    /\ sup[u].failed.n > 0 /\ ~sup[u].failed.degraded /\ ~sup[u].failed.due
    /\ sup' = [sup EXCEPT ![u].failed.due = TRUE]
    /\ UNCHANGED <<authVars, taskVars, palace, budgetVars>>

\* A pass of the loop on which a reconcile is due: a signal, a retry, or the
\* roster's refresh interval.
TickReconcile ==
    /\ loop = "sleeping" /\ running = Nobody /\ ~Reconciling(Loop)
    /\ Reconcile(Loop)
    /\ loop' = "ticking"
    /\ UNCHANGED <<authVars, req, lock, maintenance, palace, early, stops, crashes>>

\* _check_children, which blocks the loop while it backs off.
CheckChildren ==
    \/ /\ \E fresh \in BOOLEAN : sup' = [u \in Users |-> CheckRealm(sup[u], fresh, FALSE)]
       /\ UNCHANGED faults
    \/ /\ faults > 0
       /\ faults' = faults - 1
       /\ sup' = [u \in Users |-> CheckRealm(sup[u], FALSE, TRUE)]

TickCheck ==
    /\ \/ loop = "ticking" /\ running = Loop
       \/ loop = "sleeping" /\ running = Nobody
    /\ CheckChildren
    /\ loop' = "sleeping" /\ running' = Nobody
    /\ UNCHANGED <<authVars, rec, req, lock, maintenance, palace, early, stops, crashes>>

\* The stop event is seen, and the children are stopped.
Stop ==
    /\ stops /\ loop = "sleeping" /\ running = Nobody
    /\ loop' = "stopped"
    /\ sup' = [u \in Users |-> TerminateBoth(sup[u])]
    /\ UNCHANGED <<authVars, rec, req, lock, maintenance, running, palace, budgetVars>>

----------------------------------------------------------------------------
(* The processes.  A palace is opened by the process that has the lock of   *)
(* its realm; an agent that does not get it exits.                          *)

\* external: flock(2) on the realm's file in the run directory.
RealmLocked(u) ==
    \/ \E g \in Gens : sup[u].procs["agent"][g].st = "serving"
    \/ \E r \in Requests : req[r].at = "restoring" /\ TargetOf[r] = u

AgentOpens(u, g) ==
    /\ sup[u].procs["agent"][g].st = "starting"
    /\ IF RealmLocked(u)
       THEN /\ sup' = [sup EXCEPT ![u].procs["agent"][g].st = "dead"]
            /\ UNCHANGED palace
       ELSE /\ sup' = [sup EXCEPT ![u].procs["agent"][g].st = "serving"]
            /\ palace' = palace \cup {u}
    /\ UNCHANGED <<authVars, taskVars, budgetVars>>

Dies(u, k, g) ==
    /\ crashes > 0
    /\ Alive(sup[u].procs[k][g])
    /\ crashes' = crashes - 1
    /\ sup' = [sup EXCEPT ![u].procs[k][g].st = "dead"]
    /\ UNCHANGED <<authVars, taskVars, palace, early, stops, faults>>

\* The authority changes an entry of its roster.
Edit(change) ==
    /\ edits' = edits \ {change}
    /\ roster' = [roster EXCEPT ![change[1]] = change[2]]
    /\ UNCHANGED <<sup, taskVars, palace, budgetVars>>

----------------------------------------------------------------------------
(* The requests of UserAdmin.  One holds _lock from where it gets it to     *)
(* where it ends; a rebuild is a job that takes _maintenance_lock instead.  *)

Held(r) == running \in {Nobody, r}
At(r, place) == req[r].at = place
Go(r, place) == req' = [req EXCEPT ![r].at = place]
End(r) == Go(r, "done") /\ lock' = Nobody /\ running' = Nobody
Known(r) == roster[TargetOf[r]].state # "absent"

Admitted(r) ==
    /\ At(r, "queued") /\ running = Nobody /\ lock = Nobody
    /\ early \/ loop \notin {"new", "starting"}

\* reconcile, and the first reconcile of _cleanup_runtime_and_palace:
\* cleanup_orphaned_user refuses a realm that is enabled.
RequestReconcile(r) ==
    /\ Admitted(r)
    /\ KindOf[r] \in {"reconcile", "cleanup"}
    /\ KindOf[r] = "cleanup" => ~Enabled(roster[TargetOf[r]])
    /\ lock' = r
    /\ Go(r, IF KindOf[r] = "cleanup" THEN "stopping" ELSE "reconciling")
    /\ Reconcile(r)
    /\ UNCHANGED <<authVars, loop, maintenance, palace, early, stops, crashes>>

\* A realm the roster does not have, one that is enabled, a copy that cannot be
\* read or is of another realm, a rebuild that is under way.
Refused(r) ==
    /\ Admitted(r)
    /\ CASE KindOf[r] = "reconcile" -> FALSE
         [] KindOf[r] = "restore" -> TRUE
         [] KindOf[r] = "cleanup" -> Enabled(roster[TargetOf[r]])
         [] KindOf[r] = "rebuild" ->
              ~Known(r) \/ \E q \in Requests \ {r} :
                  /\ KindOf[q] = "rebuild" /\ TargetOf[q] = TargetOf[r]
                  /\ req[q].at \notin {"queued", "done"}
    /\ End(r)
    /\ UNCHANGED <<authVars, sup, loop, rec, maintenance, palace, budgetVars>>

RequestRestore(r) ==
    /\ Admitted(r)
    /\ KindOf[r] = "restore" /\ Known(r)
    /\ lock' = r
    /\ req' = [req EXCEPT ![r] = [at |-> "pausing", victim |-> 0,
                                  expected |-> Enabled(roster[TargetOf[r]])]]
    /\ UNCHANGED <<authVars, sup, loop, rec, maintenance, running, palace, budgetVars>>

\* start_rebuild_index makes a job, which says it is running ...
RequestRebuild(r) ==
    /\ Admitted(r)
    /\ KindOf[r] = "rebuild" /\ Known(r)
    /\ ~\E q \in Requests \ {r} :
          /\ KindOf[q] = "rebuild" /\ TargetOf[q] = TargetOf[r]
          /\ req[q].at \notin {"queued", "done"}
    /\ Go(r, "pending")
    /\ UNCHANGED <<authVars, sup, loop, rec, lock, maintenance, running, palace, budgetVars>>

\* ... when it gets _lock, and begins when it gets _maintenance_lock.
JobBegins(r) ==
    /\ At(r, "pending") /\ running = Nobody
    /\ lock = Nobody /\ maintenance = Nobody
    /\ maintenance' = r
    /\ Go(r, "pausing")
    /\ UNCHANGED <<authVars, sup, loop, rec, lock, running, palace, budgetVars>>

\* realm_paused: the consolidator is stopped, the agent is taken out of the
\* table, and a thread stops it.
Pause(r) ==
    /\ At(r, "pausing") /\ running = Nobody
    /\ LET u == TargetOf[r]
           x == Terminate(sup[u], "consolidator")
           g == x.child["agent"]
       IN /\ req' = [req EXCEPT ![r].at = "paused", ![r].victim = g]
          /\ sup' = [sup EXCEPT ![u] = [x EXCEPT !.child["agent"] = 0,
                                                 !.victims = @ \cup ({g} \ {0})]]
    /\ UNCHANGED <<authVars, loop, rec, lock, maintenance, running, palace, budgetVars>>

VictimStopped(x, g) ==
    IF g = 0 THEN x ELSE [x EXCEPT !.procs["agent"][g] = NoProc, !.victims = @ \ {g}]

Paused(r) ==
    /\ At(r, "paused") /\ running = Nobody
    /\ sup' = [sup EXCEPT ![TargetOf[r]] = VictimStopped(@, req[r].victim)]
    /\ req' = [req EXCEPT ![r].victim = 0,
                          ![r].at = IF KindOf[r] = "rebuild" THEN "rebuilding" ELSE "locking"]
    /\ UNCHANGED <<authVars, loop, rec, lock, maintenance, running, palace, budgetVars>>

\* Mutant: the lock of the realm is not taken.
LockRealmBlind(r) ==
    /\ At(r, "locking")
    /\ Go(r, "restoring")
    /\ UNCHANGED <<authVars, sup, loop, rec, lock, maintenance, running, palace, budgetVars>>

\* The thread of a restore takes the lock of the realm, or gives up
\* (WorkerNotTerminated).
LockRealm(r) ==
    /\ At(r, "locking")
    /\ Go(r, IF RealmLocked(TargetOf[r]) THEN "failed" ELSE "restoring")
    /\ UNCHANGED <<authVars, sup, loop, rec, lock, maintenance, running, palace, budgetVars>>

\* The realm is reconciled whether the body succeeded or not; a restore that
\* failed raises after that, and one that did not waits for the agent.
Resume(r) ==
    /\ req[r].at \in {"restoring", "rebuilding", "failed"} /\ running = Nobody
    /\ Reconcile(r)
    /\ \/ Go(r, IF KindOf[r] = "rebuild" THEN "rebuilt" ELSE "resuming")
       \/ Go(r, IF KindOf[r] = "rebuild" THEN "rebuilt" ELSE "reconciling")
    /\ UNCHANGED <<authVars, loop, lock, maintenance, palace, early, stops, crashes>>

\* The end of a request whose last step is a reconcile.
RequestReconciled(r) ==
    /\ At(r, "reconciling") /\ running = r
    /\ End(r)
    /\ UNCHANGED <<authVars, sup, loop, rec, maintenance, palace, budgetVars>>

\* _await_worker_return: the worker is back, is not expected, or the timeout
\* has passed.
WorkerReturned(r) ==
    /\ At(r, "resuming") /\ Held(r) /\ ~Reconciling(r)
    /\ running = r => ~req[r].expected \/ IsWorkerAlive(sup[TargetOf[r]])
    /\ End(r)
    /\ UNCHANGED <<authVars, sup, loop, rec, maintenance, palace, budgetVars>>

\* The worker is not back, or is still there: the request sleeps.
Sleeps(r) ==
    /\ running = r
    /\ \/ At(r, "resuming") /\ req[r].expected /\ ~IsWorkerAlive(sup[TargetOf[r]])
       \/ At(r, "stopping") /\ IsWorkerAlive(sup[TargetOf[r]])
    /\ running' = Nobody
    /\ UNCHANGED <<authVars, sup, loop, rec, req, lock, maintenance, palace, budgetVars>>

\* The job's result is recorded when it gets _lock.
JobDone(r) ==
    /\ At(r, "rebuilt") /\ running = r
    /\ maintenance' = Nobody /\ running' = Nobody
    /\ Go(r, "reporting")
    /\ UNCHANGED <<authVars, sup, loop, rec, lock, palace, budgetVars>>
JobReported(r) ==
    /\ At(r, "reporting") /\ running = Nobody /\ lock = Nobody
    /\ Go(r, "done")
    /\ UNCHANGED <<authVars, sup, loop, rec, lock, maintenance, running, palace, budgetVars>>

\* The worker has stopped and the palace is moved away, or it cannot be moved.
CleanUp(r) ==
    /\ At(r, "stopping") /\ Held(r) /\ ~Reconciling(r)
    /\ ~IsWorkerAlive(sup[TargetOf[r]])
    /\ palace' = palace \ {TargetOf[r]}
    /\ Reconcile(r)
    /\ Go(r, "reconciling")
    /\ UNCHANGED <<authVars, loop, lock, maintenance, early, stops, crashes>>

\* WorkerNotTerminated after the timeout, or PalaceCleanupFailed.
CleanUpFails(r) ==
    /\ At(r, "stopping") /\ Held(r) /\ ~Reconciling(r)
    /\ running = r => ~IsWorkerAlive(sup[TargetOf[r]])
    /\ End(r)
    /\ UNCHANGED <<authVars, sup, loop, rec, maintenance, palace, budgetVars>>

----------------------------------------------------------------------------

Init ==
    \E s \in Scenarios :
        /\ roster = s.roster /\ edits = s.edits
        /\ early = s.early /\ stops = s.stops /\ crashes = s.crashes /\ faults = s.faults
        /\ sup = [u \in Users |-> NewRealm]
        /\ loop = "new"
        /\ rec = [t \in Tasks |-> NoRec]
        /\ req = [r \in Requests |-> [at |-> IF r \in s.requests THEN "queued" ELSE "done",
                                      victim |-> 0, expected |-> FALSE]]
        /\ lock = Nobody /\ maintenance = Nobody /\ running = Nobody
        /\ palace = {}

LoopStep == StartBegin \/ StartEnd \/ TickCheck
RequestStep(r) ==
    \/ RequestReconcile(r) \/ RequestRestore(r) \/ RequestRebuild(r) \/ JobBegins(r)
    \/ Pause(r) \/ Paused(r) \/ LockRealm(r) \/ Resume(r) \/ RequestReconciled(r)
    \/ WorkerReturned(r) \/ Sleeps(r) \/ JobDone(r) \/ JobReported(r) \/ CleanUp(r)
    \/ CleanUpFails(r) \/ Refused(r)
InitStep(u) ==
    \/ StartInitDone(u)
    \/ \E t \in Tasks : InitSucceeds(t, u) \/ InitFails(t, u)

Next ==
    \/ LoopStep \/ TickReconcile \/ Stop
    \/ \E change \in edits : Edit(change)
    \/ \E r \in Requests : RequestStep(r)
    \/ \E u \in Users :
        \/ InitStep(u)
        \/ RetryDue(u)
        \/ \E g \in Gens : AgentOpens(u, g)
        \/ \E k \in Kinds, g \in Gens : Dies(u, k, g)

\* The event loop runs every task that is ready, threads and processes come to
\* an end, and the roster's refresh stays due until it is done.
Fairness ==
    /\ WF_vars(StartBegin \/ StartEnd \/ (running = Loop /\ TickCheck))
    /\ SF_vars(TickReconcile)
    /\ SF_vars(\E r \in Requests : RequestStep(r))
    /\ SF_vars(\E u \in Users : InitStep(u))
    /\ WF_vars(\E u \in Users : RetryDue(u))
    /\ WF_vars(\E u \in Users, g \in Gens : AgentOpens(u, g))

Spec == Init /\ [][Next]_vars

----------------------------------------------------------------------------
(* Properties.                                                              *)

\* A realm is restored only while no agent has its palace open: the supervisor's
\* own loop may start one at any time, and only the realm's lock keeps it out
\* (user_admin.py, restore_realm).
RestoreExclusive ==
    \A r \in Requests, g \in Gens :
        At(r, "restoring") => sup[TargetOf[r]].procs["agent"][g].st # "serving"

\* Every agent that runs is the one the supervisor knows of, or one that a paused
\* realm's thread is stopping: none is left behind by overlapping reconciles.
RunnersTracked ==
    \A u \in Users, g \in Gens :
        Alive(sup[u].procs["agent"][g]) => g = sup[u].child["agent"] \/ g \in sup[u].victims

\* While a realm is paused for its rebuild no agent opens its palace, which is
\* what realm_paused says it is for.
PausedHeld ==
    \A r \in Requests, g \in Gens :
        At(r, "rebuilding") => sup[TargetOf[r]].procs["agent"][g].st # "serving"

\* What the roster wants of a realm is what runs.
Aligned(u) ==
    LET x == sup[u]
        e == LoadUsersConfig[u]
        agent == Child(x, "agent")
        cons == Child(x, "consolidator")
    IN IF ~Enabled(e) THEN ~Alive(agent) /\ ~Alive(cons)
       ELSE IF x.failed.degraded THEN ~Alive(cons)
       ELSE /\ agent.st = "serving" /\ agent.ran.port = e.port
            /\ IF e.cons = "off" THEN ~Alive(cons) ELSE Alive(cons) /\ cons.ran.cons = e.cons

\* Whatever the requests, the edits and the failures were, requests end, and the
\* processes come to be those of the roster: each enabled realm has its agent, at
\* its port, and its consolidator with its configuration, unless its palace has
\* failed too often; the others have none.
Converges ==
    <>[](/\ \A r \in Requests : At(r, "done")
         /\ loop # "stopped" => \A u \in Users : Aligned(u)
         /\ loop = "stopped" => \A u \in Users : ~Alive(Child(sup[u], "agent")))

=============================================================================
