---------------------------- MODULE SpaceRouter ----------------------------
(***************************************************************************)
(* How a process opens, shares and gives back memory spaces:               *)
(* LocalPalaceRouter with its pool of open spaces, its two file locks per  *)
(* space and its table of directories, and the LockedBackend through which *)
(* every vector operation of an open space goes.                           *)
(*                                                                         *)
(* A client resolves its space and then runs one operation on it.  The     *)
(* resolution is a task of its own that survives the client, and so is an  *)
(* operation that has begun: a client can be cancelled wherever it waits.  *)
(* Processes share nothing but the file locks.  The lock of a space is the *)
(* readers-writer lock that SpaceLock implements; the operations of the     *)
(* graph, which take it too, are left out.                                 *)
(***************************************************************************)
EXTENDS Naturals, FiniteSets

CONSTANTS
    Procs, NoProc,
    Spaces, NoSpace,
    Dirs,
    Clients, Nobody, Closer,  \* Closer: the close task of a router
    ProcOf, SpaceOf,          \* where a client runs and what it asks for
    ModeOf,                   \* what it does there: "read" or "write"
    Allowed,                  \* the spaces a process serves
    Scenarios                 \* who comes, directories, pool limit, faults (model only)

Scenario ==
    [callers : SUBSET Clients, dirs : [Procs -> [Spaces -> Dirs]], limit : Nat \ {0},
     deaths : Nat, fails : Nat]

ASSUME RouterConstants ==
    /\ ProcOf \in [Clients -> Procs] /\ SpaceOf \in [Clients -> Spaces]
    /\ ModeOf \in [Clients -> {"read", "write"}]
    /\ Allowed \in [Procs -> SUBSET Spaces]
    /\ NoProc \notin Procs /\ NoSpace \notin Spaces
    /\ Nobody \notin Clients /\ Closer \notin Clients /\ Nobody # Closer
    /\ IsFiniteSet(Spaces) /\ Scenarios \subseteq Scenario

VARIABLES
    dirs, limit,  \* resolve_palace_for_memory_space or the override; max_spaces
    flock,        \* who holds each lock file
    locks,        \* _locks: the spaces a process has recorded claims for
    palace_dirs,  \* _palace_dirs: which space of a process uses a directory
    runtimes,     \* _runtimes
    open,         \* how many vector stores of a space a process has open
    refusing,     \* the spaces whose LockedBackend is closing
    pool,         \* who holds _pool_lock
    closing,      \* _closing of each router
    closer,       \* the close task of each router
    client,       \* where each client's resolution or operation is
    gone,         \* the clients that were cancelled
    deaths, fails \* how many more deaths and failures there may be

claimVars == <<flock, locks, palace_dirs>>
poolVars == <<runtimes, open, refusing, pool>>
closeVars == <<closing, closer>>
clientVars == <<client, gone>>
envVars == <<dirs, limit>>
faultVars == <<deaths, fails>>
vars == <<envVars, claimVars, poolVars, closeVars, clientVars, faultVars>>

Files == ({"space"} \X Spaces) \cup ({"palace"} \X Dirs)

Building == {"claim", "lock_space", "lock_palace", "prepare", "construct"}
Resolving == {"lookup", "await_pool", "recheck"} \cup Building
Operating == {"queued", "running"}
Place == {"outside", "resolved", "done"} \cup Resolving \cup Operating

IdleCloser == [pc |-> "none", space |-> NoSpace]
CloserPlace == {"none", "await_pool", "next", "drain", "close_store", "close_graph",
                "failed", "closed"}

Init ==
    \E s \in Scenarios :
    /\ dirs = s.dirs /\ limit = s.limit /\ deaths = s.deaths /\ fails = s.fails
    /\ flock = [f \in Files |-> NoProc]
    /\ locks = [p \in Procs |-> {}]
    /\ palace_dirs = [p \in Procs |-> [d \in Dirs |-> NoSpace]]
    /\ runtimes = [p \in Procs |-> {}] /\ refusing = [p \in Procs |-> {}]
    /\ open = [p \in Procs |-> [s2 \in Spaces |-> 0]]
    /\ pool = [p \in Procs |-> Nobody]
    /\ closing = [p \in Procs |-> FALSE] /\ closer = [p \in Procs |-> IdleCloser]
    /\ client = [c \in Clients |-> IF c \in s.callers THEN "outside" ELSE "done"]
    /\ gone = {}

At(c, pc) == client[c] = pc
Goto(c, pc) == client' = [client EXCEPT ![c] = pc]
P(c) == ProcOf[c]
S(c) == SpaceOf[c]
DirOf(c) == dirs[P(c)][S(c)]
SpaceFile(c) == <<"space", S(c)>>
PalaceFile(c) == <<"palace", DirOf(c)>>

Fault == fails > 0 /\ fails' = fails - 1 /\ UNCHANGED deaths

----------------------------------------------------------------------------
(* resolve and _resolve.                                                    *)

\* The resolution has its result; a client that is gone does not use it.
Return(c) == Goto(c, IF c \in gone THEN "done" ELSE "resolved")
Raise(c) == Goto(c, "done")

Resolve(c) ==
    /\ At(c, "outside")
    /\ IF closing[P(c)] THEN Raise(c) ELSE Goto(c, "lookup")
    /\ UNCHANGED <<envVars, claimVars, poolVars, closeVars, gone, faultVars>>

Lookup(c) ==
    /\ At(c, "lookup")
    /\ \/ S(c) \in runtimes[P(c)] /\ Return(c)
       \/ S(c) \notin runtimes[P(c)] /\ S(c) \notin Allowed[P(c)] /\ Raise(c)
       \/ S(c) \notin runtimes[P(c)] /\ S(c) \in Allowed[P(c)] /\ Goto(c, "await_pool")
    /\ UNCHANGED <<envVars, claimVars, poolVars, closeVars, gone, faultVars>>

EnterPool(c) ==
    /\ At(c, "await_pool") /\ pool[P(c)] = Nobody
    /\ pool' = [pool EXCEPT ![P(c)] = c]
    /\ Goto(c, "recheck")
    /\ UNCHANGED <<envVars, claimVars, runtimes, open, refusing, closeVars, gone, faultVars>>

LeavePool(c) == pool' = [pool EXCEPT ![P(c)] = Nobody]

\* Mutant: the space is looked up only before the wait for the pool.
RecheckNot(c) ==
    /\ At(c, "recheck")
    /\ IF closing[P(c)] \/ Cardinality(runtimes[P(c)]) >= limit
       THEN Raise(c) /\ LeavePool(c)
       ELSE Goto(c, "claim") /\ UNCHANGED pool
    /\ UNCHANGED <<envVars, claimVars, runtimes, open, refusing, closeVars, gone, faultVars>>

Recheck(c) ==
    /\ At(c, "recheck")
    /\ \/ closing[P(c)] /\ Raise(c) /\ LeavePool(c)
       \/ /\ ~closing[P(c)] /\ S(c) \in runtimes[P(c)]
          /\ Return(c) /\ LeavePool(c)
       \/ /\ ~closing[P(c)] /\ S(c) \notin runtimes[P(c)]
          /\ IF Cardinality(runtimes[P(c)]) >= limit
             THEN Raise(c) /\ LeavePool(c)
             ELSE Goto(c, "claim") /\ UNCHANGED pool
    /\ UNCHANGED <<envVars, claimVars, runtimes, open, refusing, closeVars, gone, faultVars>>

----------------------------------------------------------------------------
(* _build, in a thread, with the pool held.                                 *)

FilesOf(p, Z) == UNION {{<<"space", s>>, <<"palace", dirs[p][s]>>} : s \in Z}
DirsWithout(p, Z) == [d \in Dirs |-> IF palace_dirs[p][d] \in Z THEN NoSpace ELSE palace_dirs[p][d]]

\* _release_claims of the spaces Z: the lock files that were recorded for them
\* and their directories.
ReleaseClaims(p, Z) ==
    /\ flock' = [f \in Files |-> IF f \in FilesOf(p, Z \cap locks[p]) THEN NoProc ELSE flock[f]]
    /\ locks' = [locks EXCEPT ![p] = @ \ Z]
    /\ palace_dirs' = [palace_dirs EXCEPT ![p] = DirsWithout(p, Z)]

BuildFails(c) == Raise(c) /\ LeavePool(c) /\ ReleaseClaims(P(c), {S(c)})

ClaimPalaceDirectory(c) ==
    /\ At(c, "claim")
    /\ IF palace_dirs[P(c)][DirOf(c)] \in {NoSpace, S(c)}
       THEN /\ palace_dirs' = [palace_dirs EXCEPT ![P(c)][DirOf(c)] = S(c)]
            /\ Goto(c, "lock_space")
            /\ UNCHANGED <<flock, locks, pool>>
       ELSE BuildFails(c)
    /\ UNCHANGED <<envVars, runtimes, open, refusing, closeVars, gone, faultVars>>

\* The claim on the space.  One that is recorded already is not taken again;
\* that never happens, since a failed opening releases what it recorded.
LockSpace(c) ==
    /\ At(c, "lock_space")
    /\ IF S(c) \in locks[P(c)]
       THEN Goto(c, "prepare") /\ UNCHANGED <<claimVars, pool>>
       ELSE \/ /\ flock[SpaceFile(c)] = NoProc
               /\ flock' = [flock EXCEPT ![SpaceFile(c)] = P(c)]
               /\ Goto(c, "lock_palace")
               /\ UNCHANGED <<locks, palace_dirs, pool>>
            \/ flock[SpaceFile(c)] # NoProc /\ BuildFails(c)
    /\ UNCHANGED <<envVars, runtimes, open, refusing, closeVars, gone, faultVars>>

\* Mutant: a refused directory leaves the claim on the space behind.
LockPalaceHalf(c) ==
    /\ At(c, "lock_palace")
    /\ IF flock[PalaceFile(c)] = NoProc
       THEN /\ flock' = [flock EXCEPT ![PalaceFile(c)] = P(c)]
            /\ locks' = [locks EXCEPT ![P(c)] = @ \cup {S(c)}]
            /\ Goto(c, "prepare")
            /\ UNCHANGED <<palace_dirs, pool>>
       ELSE BuildFails(c)
    /\ UNCHANGED <<envVars, runtimes, open, refusing, closeVars, gone, faultVars>>

\* The claim on the directory.  Only with both are the claims recorded; a
\* refused attempt gives back the first.
LockPalace(c) ==
    /\ At(c, "lock_palace")
    /\ IF flock[PalaceFile(c)] = NoProc
       THEN /\ flock' = [flock EXCEPT ![PalaceFile(c)] = P(c)]
            /\ locks' = [locks EXCEPT ![P(c)] = @ \cup {S(c)}]
            /\ Goto(c, "prepare")
            /\ UNCHANGED <<palace_dirs, pool>>
       ELSE /\ flock' = [flock EXCEPT ![SpaceFile(c)] = NoProc]
            /\ palace_dirs' = [palace_dirs EXCEPT ![P(c)] = DirsWithout(P(c), {S(c)})]
            /\ Raise(c) /\ LeavePool(c)
            /\ UNCHANGED locks
    /\ UNCHANGED <<envVars, runtimes, open, refusing, closeVars, gone, faultVars>>

\* Location, initialisation and integrity of the palace, or a refusal.
Prepare(c) ==
    /\ At(c, "prepare")
    /\ \/ Goto(c, "construct") /\ UNCHANGED <<claimVars, pool, faultVars>>
       \/ Fault /\ BuildFails(c)
    /\ UNCHANGED <<envVars, runtimes, open, refusing, closeVars, gone>>

\* The stores and ledgers are opened, and the runtime joins the pool.
Construct(c) ==
    /\ At(c, "construct")
    /\ \/ /\ open' = [open EXCEPT ![P(c)][S(c)] = @ + 1]
          /\ runtimes' = [runtimes EXCEPT ![P(c)] = @ \cup {S(c)}]
          /\ Return(c) /\ LeavePool(c)
          /\ UNCHANGED <<claimVars, faultVars>>
       \/ Fault /\ BuildFails(c) /\ UNCHANGED <<open, runtimes>>
    /\ UNCHANGED <<envVars, refusing, closeVars, gone>>

----------------------------------------------------------------------------
(* LockedBackend._serialized: one operation under the lock of the space.    *)

Writes(c) == ModeOf[c] = "write"
Neighbours(c) == {d \in Clients : P(d) = P(c) /\ S(d) = S(c)}

\* The close task has the writer side.
StoreIsClosing(p, s) == closer[p].space = s /\ closer[p].pc = "close_store"

\* The operation is refused once the backend is closing, or becomes a task.
Begin(c) ==
    /\ At(c, "resolved")
    /\ IF S(c) \in refusing[P(c)] THEN Raise(c) ELSE Goto(c, "queued")
    /\ UNCHANGED <<envVars, claimVars, poolVars, closeVars, gone, faultVars>>

Enter(c) ==
    /\ At(c, "queued")
    /\ ~\E d \in Neighbours(c) \ {c} : At(d, "running") /\ (Writes(c) \/ Writes(d))
    /\ ~StoreIsClosing(P(c), S(c))
    /\ Goto(c, "running")
    /\ UNCHANGED <<envVars, claimVars, poolVars, closeVars, gone, faultVars>>

End(c) ==
    /\ At(c, "running")
    /\ Goto(c, "done")
    /\ UNCHANGED <<envVars, claimVars, poolVars, closeVars, gone, faultVars>>

\* The client's deadline passes.  A resolution goes on without it, and so does
\* an operation that has begun; one that is queued is cancelled with it.
Cancel(c) ==
    /\ c \notin gone /\ client[c] \notin {"outside", "done"}
    /\ gone' = gone \cup {c}
    /\ client' = [client EXCEPT ![c] = IF @ \in {"resolved", "queued"} THEN "done" ELSE @]
    /\ UNCHANGED <<envVars, claimVars, poolVars, closeVars, faultVars>>

----------------------------------------------------------------------------
(* aclose and _close, of the router and of the backends in it.              *)

Closing(p, pc) == closer[p].pc = pc
CloserGoto(p, pc, s) == closer' = [closer EXCEPT ![p] = [pc |-> pc, space |-> s]]

\* The first call, or one after a close that raised, makes the close task.
Aclose(p) ==
    /\ closer[p].pc \in {"none", "failed"}
    /\ closing' = [closing EXCEPT ![p] = TRUE]
    /\ CloserGoto(p, "await_pool", NoSpace)
    /\ UNCHANGED <<envVars, claimVars, poolVars, clientVars, faultVars>>

CloseEntersPool(p) ==
    /\ Closing(p, "await_pool") /\ pool[p] = Nobody
    /\ pool' = [pool EXCEPT ![p] = Closer]
    /\ CloserGoto(p, "next", NoSpace)
    /\ UNCHANGED <<envVars, claimVars, runtimes, open, refusing, closing, clientVars, faultVars>>

\* backend.aclose: new operations are refused from here on.
CloseNext(p) ==
    /\ Closing(p, "next")
    /\ \E s \in runtimes[p] :
           /\ refusing' = [refusing EXCEPT ![p] = @ \cup {s}]
           /\ CloserGoto(p, "drain", s)
    /\ UNCHANGED <<envVars, claimVars, runtimes, open, pool, closing, clientVars, faultVars>>

Operations(p, s) == {c \in Clients : P(c) = p /\ S(c) = s /\ client[c] \in Operating}

\* Mutant: only the operations somebody still waits for are drained.
CloseDrainsWaited(p) ==
    /\ Closing(p, "drain")
    /\ Operations(p, closer[p].space) \subseteq gone
    /\ CloserGoto(p, "close_store", closer[p].space)
    /\ UNCHANGED <<envVars, claimVars, poolVars, closing, clientVars, faultVars>>

\* Every operation of the backend has ended, detached ones included; the
\* close task takes the writer side.
CloseDrains(p) ==
    /\ Closing(p, "drain")
    /\ Operations(p, closer[p].space) = {}
    /\ CloserGoto(p, "close_store", closer[p].space)
    /\ UNCHANGED <<envVars, claimVars, poolVars, closing, clientVars, faultVars>>

\* The store is closed, or raises: then the pool is left and everything that
\* is still open stays claimed.
CloseStore(p) ==
    /\ Closing(p, "close_store")
    /\ \/ /\ open' = [open EXCEPT ![p][closer[p].space] = @ - 1]
          /\ CloserGoto(p, "close_graph", closer[p].space)
          /\ UNCHANGED <<pool, faultVars>>
       \/ /\ Fault
          /\ CloserGoto(p, "failed", NoSpace)
          /\ pool' = [pool EXCEPT ![p] = Nobody]
          /\ UNCHANGED open
    /\ UNCHANGED <<envVars, claimVars, runtimes, refusing, closing, clientVars>>

\* The graph is closed, the claims are released, and the runtime leaves.
CloseGraph(p) ==
    /\ Closing(p, "close_graph")
    /\ ReleaseClaims(p, {closer[p].space})
    /\ runtimes' = [runtimes EXCEPT ![p] = @ \ {closer[p].space}]
    /\ CloserGoto(p, "next", NoSpace)
    /\ UNCHANGED <<envVars, open, refusing, pool, closing, clientVars, faultVars>>

\* Nothing is open any more; claims of an opening that failed are released.
CloseEnds(p) ==
    /\ Closing(p, "next") /\ runtimes[p] = {}
    /\ ReleaseClaims(p, locks[p])
    /\ pool' = [pool EXCEPT ![p] = Nobody]
    /\ CloserGoto(p, "closed", NoSpace)
    /\ UNCHANGED <<envVars, runtimes, open, refusing, closing, clientVars, faultVars>>

\* The process dies and is started again: its file locks are gone with it.
Die(p) ==
    /\ deaths > 0 /\ deaths' = deaths - 1
    /\ flock' = [f \in Files |-> IF flock[f] = p THEN NoProc ELSE flock[f]]
    /\ locks' = [locks EXCEPT ![p] = {}]
    /\ palace_dirs' = [palace_dirs EXCEPT ![p] = [d \in Dirs |-> NoSpace]]
    /\ runtimes' = [runtimes EXCEPT ![p] = {}] /\ refusing' = [refusing EXCEPT ![p] = {}]
    /\ open' = [open EXCEPT ![p] = [s \in Spaces |-> 0]]
    /\ pool' = [pool EXCEPT ![p] = Nobody]
    /\ closing' = [closing EXCEPT ![p] = FALSE] /\ closer' = [closer EXCEPT ![p] = IdleCloser]
    /\ client' = [c \in Clients |-> IF P(c) = p /\ ~At(c, "outside") THEN "done" ELSE client[c]]
    /\ UNCHANGED <<envVars, gone, fails>>

----------------------------------------------------------------------------
Steps(c) ==
    \/ Lookup(c) \/ EnterPool(c) \/ Recheck(c)
    \/ ClaimPalaceDirectory(c) \/ LockSpace(c) \/ LockPalace(c) \/ Prepare(c) \/ Construct(c)
    \/ Begin(c) \/ Enter(c) \/ End(c)
CloseSteps(p) ==
    \/ CloseEntersPool(p) \/ CloseNext(p) \/ CloseDrains(p) \/ CloseStore(p) \/ CloseGraph(p)
    \/ CloseEnds(p)

Next ==
    \/ \E c \in Clients : Resolve(c) \/ Steps(c) \/ Cancel(c)
    \/ \E p \in Procs : Aclose(p) \/ CloseSteps(p) \/ Die(p)

\* Tasks that can run are run and threads come to an end.  A client comes
\* once, so that nobody is overtaken for ever and no lock has to be fair.
Fairness ==
    /\ \A c \in Clients : WF_vars(Steps(c))
    /\ \A p \in Procs : WF_vars(CloseSteps(p))

Spec == Init /\ [][Next]_vars /\ Fairness

----------------------------------------------------------------------------
(* Properties.                                                              *)

\* Variables have their types, and a pool never exceeds its limit.
TypeOK ==
    /\ flock \in [Files -> Procs \cup {NoProc}]
    /\ locks \in [Procs -> SUBSET Spaces]
    /\ palace_dirs \in [Procs -> [Dirs -> Spaces \cup {NoSpace}]]
    /\ open \in [Procs -> [Spaces -> Nat]]
    /\ runtimes \in [Procs -> SUBSET Spaces] /\ refusing \in [Procs -> SUBSET Spaces]
    /\ pool \in [Procs -> Clients \cup {Nobody, Closer}]
    /\ closing \in [Procs -> BOOLEAN]
    /\ closer \in [Procs -> [pc : CloserPlace, space : Spaces \cup {NoSpace}]]
    /\ client \in [Clients -> Place] /\ gone \subseteq Clients
    /\ \A p \in Procs : Cardinality(runtimes[p]) <= limit

\* A palace directory has one owner: whatever spaces and processes resolve to
\* it, at most one vector store is open on it, and by the process that holds
\* the directory's lock file.
OneOwner ==
    \A p, q \in Procs : \A s, t \in Spaces :
        open[p][s] > 0 =>
            /\ open[p][s] = 1
            /\ flock[<<"palace", dirs[p][s]>>] = p
            /\ open[q][t] > 0 /\ dirs[p][s] = dirs[q][t] => p = q /\ s = t

\* No operation outlives its store: while a thread works on a palace, its
\* caller gone or not, the store is open and the palace is claimed.
StoreOutlivesOperations ==
    \A c \in Clients : At(c, "running") =>
        open[P(c)][S(c)] > 0 /\ flock[PalaceFile(c)] = P(c)

\* Claims are neither lost nor left behind: while nobody is opening or closing
\* a space, a process holds the lock files and directories of the spaces in
\* its pool and no others - after a refused, failed or abandoned opening, and
\* after a close that raised.
ClaimsMatch ==
    \A p \in Procs : pool[p] = Nobody =>
        /\ {f \in Files : flock[f] = p} = FilesOf(p, runtimes[p])
        /\ {palace_dirs[p][d] : d \in Dirs} \ {NoSpace} = runtimes[p]
        /\ locks[p] = runtimes[p]

=============================================================================
