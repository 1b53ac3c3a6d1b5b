------------------------- MODULE SpaceRouterProofs -------------------------
(***************************************************************************)
(* Proofs about SpaceRouter: a palace directory has one owner, no operation *)
(* outlives its store, and claims are neither lost nor left behind - for   *)
(* any processes, spaces, directories, clients, limits, deaths and         *)
(* failures.                                                               *)
(*                                                                         *)
(* Then about SpaceLock, the lock a space's operations run under, for any  *)
(* finite set of tasks and any pattern of cancellations: the counters are  *)
(* exact, no wake-up is lost, and the lock implements the abstract         *)
(* readers-writer lock.                                                    *)
(***************************************************************************)
EXTENDS SpaceRouter, SpaceLock, FiniteSetTheorems, TLAPS

\* Where a client holds the pool lock, and where the close task does.
Holding == {"recheck"} \cup Building
Shutting == {"next", "drain", "close_store", "close_graph"}

\* The types of all variables.
Typed ==
    /\ dirs \in [Procs -> [Spaces -> Dirs]] /\ limit \in Nat \ {0}
    /\ flock \in [Files -> Procs \cup {NoProc}]
    /\ locks \in [Procs -> SUBSET Spaces]
    /\ palace_dirs \in [Procs -> [Dirs -> Spaces \cup {NoSpace}]]
    /\ open \in [Procs -> [Spaces -> Nat]]
    /\ runtimes \in [Procs -> SUBSET Spaces] /\ refusing \in [Procs -> SUBSET Spaces]
    /\ pool \in [Procs -> Clients \cup {Nobody, Closer}]
    /\ closing \in [Procs -> BOOLEAN]
    /\ closer \in [Procs -> [pc : CloserPlace, space : Spaces \cup {NoSpace}]]
    /\ client \in [Clients -> Place] /\ gone \subseteq Clients

\* Whoever is between taking and leaving the pool lock of a process holds it.
Pooled ==
    /\ \A c \in Clients : client[c] \in Holding <=> pool[P(c)] = c
    /\ \A p \in Procs : pool[p] \in Clients => P(pool[p]) = p
    /\ \A p \in Procs : closer[p].pc \in Shutting <=> pool[p] = Closer

\* A space is opened only when it is not open, there is room for it, and the
\* router has not begun to close.
Opens ==
    /\ \A p \in Procs : Cardinality(runtimes[p]) <= limit
    /\ \A c \in Clients : client[c] \in Building =>
           /\ S(c) \notin runtimes[P(c)] /\ refusing[P(c)] = {}
           /\ Cardinality(runtimes[P(c)]) < limit

\* What the close task works on is open, and refuses new operations.
Closes ==
    /\ \A p \in Procs : closer[p].pc # "none" \/ refusing[p] # {} => closing[p]
    /\ \A p \in Procs : closer[p].pc \in {"drain", "close_store", "close_graph"} =>
           closer[p].space \in runtimes[p] \cap refusing[p]

\* The store of a space is open while its runtime is in the pool, until the
\* close task has closed it.
Stores ==
    \A p \in Procs, s \in Spaces :
        open[p][s] = IF s \in runtimes[p] /\ ~(closer[p].pc = "close_graph" /\ closer[p].space = s)
                     THEN 1 ELSE 0

\* A client works on an open space; the close task goes on once nobody does.
Serves ==
    \A c \in Clients :
        /\ client[c] = "resolved" => S(c) \in runtimes[P(c)] \cup refusing[P(c)]
        /\ client[c] \in Operating =>
               /\ S(c) \in runtimes[P(c)]
               /\ ~(/\ closer[P(c)].pc \in {"close_store", "close_graph"}
                    /\ closer[P(c)].space = S(c))

\* The client that holds the pool of p is opening s, and has got to one of places.
Opening(p, s, places) ==
    pool[p] \in Clients /\ S(pool[p]) = s /\ client[pool[p]] \in places

\* What a process has claimed: all of it for the spaces in its pool, and for
\* the one it is opening as much as it has got to.
ClaimedAt(p) ==
    /\ \A s \in Spaces :
           /\ s \in locks[p] <=>
                  s \in runtimes[p] \/ Opening(p, s, {"prepare", "construct"})
           /\ flock[<<"space", s>>] = p <=>
                  s \in runtimes[p] \/ Opening(p, s, {"lock_palace", "prepare", "construct"})
           /\ palace_dirs[p][dirs[p][s]] = s <=>
                  s \in runtimes[p] \/ Opening(p, s, Building \ {"claim"})
    /\ \A d \in Dirs :
           /\ flock[<<"palace", d>>] = p <=> \E s \in locks[p] : dirs[p][s] = d
           /\ palace_dirs[p][d] # NoSpace => dirs[p][palace_dirs[p][d]] = d
Claimed == \A p \in Procs : ClaimedAt(p)

\* The inductive invariant.
RouterInv == Typed /\ Pooled /\ Opens /\ Closes /\ Stores /\ Serves /\ Claimed

----------------------------------------------------------------------------
(* Claims and who holds them.                                               *)

\* Where clients run, what they ask for and which lock files there are.
LEMMA Where ==
    ASSUME Typed
    PROVE  /\ \A c \in Clients : P(c) \in Procs /\ S(c) \in Spaces /\ DirOf(c) \in Dirs
           /\ \A c \in Clients : SpaceFile(c) \in Files /\ PalaceFile(c) \in Files
           /\ \A s \in Spaces : <<"space", s>> \in Files
           /\ \A d \in Dirs : <<"palace", d>> \in Files
<1>1. \A c \in Clients : P(c) \in Procs /\ S(c) \in Spaces
  BY RouterConstants DEF P, S
<1>2. \A c \in Clients : DirOf(c) \in Dirs
  BY <1>1 DEF DirOf, Typed
<1>3. QED
  BY <1>1, <1>2 DEF Files, SpaceFile, PalaceFile

\* Two spaces of a process that are claimed, or being claimed, have two
\* directories.
LEMMA OneSpacePerDirectory ==
    ASSUME RouterInv, NEW p \in Procs, NEW s \in locks[p], NEW t \in locks[p],
           dirs[p][s] = dirs[p][t]
    PROVE  s = t
<1>1. s \in Spaces /\ t \in Spaces
  BY DEF RouterInv, Typed
<1>2. ASSUME NEW u \in Spaces, u \in locks[p]
      PROVE  palace_dirs[p][dirs[p][u]] = u
  <2>1. u \in runtimes[p] \/ Opening(p, u, {"prepare", "construct"})
    BY <1>2 DEF RouterInv, Claimed, ClaimedAt
  <2>2. u \in runtimes[p] \/ Opening(p, u, Building \ {"claim"})
    BY <2>1 DEF Opening, Building
  <2>3. ClaimedAt(p)
    BY DEF RouterInv, Claimed
  <2>4. palace_dirs[p][dirs[p][u]] = u <=> u \in runtimes[p] \/ Opening(p, u, Building \ {"claim"})
    BY ONLY <2>3, u \in Spaces DEF ClaimedAt
  <2>5. QED
    BY <2>2, <2>4
<1>3. palace_dirs[p][dirs[p][s]] = s /\ palace_dirs[p][dirs[p][t]] = t
  BY <1>1, <1>2
<1>4. QED
  BY <1>3

\* The claims of p on s are gone, and nothing else is.
Released(p, s) ==
    /\ flock' \in [Files -> Procs \cup {NoProc}] /\ locks' \in [Procs -> SUBSET Spaces]
    /\ palace_dirs' \in [Procs -> [Dirs -> Spaces \cup {NoSpace}]]
    /\ \A t \in Spaces :
           /\ t \in locks'[p] <=> t \in locks[p] /\ t # s
           /\ flock'[<<"space", t>>] = p <=> flock[<<"space", t>>] = p /\ t # s
           /\ palace_dirs'[p][dirs[p][t]] = t <=> palace_dirs[p][dirs[p][t]] = t /\ t # s
    /\ \A d \in Dirs :
           /\ flock'[<<"palace", d>>] = p <=> \E t \in locks'[p] : dirs[p][t] = d
           /\ palace_dirs'[p][d] # NoSpace => dirs[p][palace_dirs'[p][d]] = d
    /\ \A q \in Procs \ {p} :
           /\ locks'[q] = locks[q] /\ palace_dirs'[q] = palace_dirs[q]
           /\ \A f \in Files : flock'[f] = q <=> flock[f] = q

\* Where no lock file is held that is not recorded, ReleaseClaims does that.
LEMMA ReleaseEffect ==
    ASSUME RouterInv, NEW p \in Procs, NEW s \in Spaces, ReleaseClaims(p, {s}),
           flock[<<"space", s>>] = p <=> s \in locks[p]
    PROVE  Released(p, s)
<1>a. /\ flock \in [Files -> Procs \cup {NoProc}] /\ locks \in [Procs -> SUBSET Spaces]
      /\ palace_dirs \in [Procs -> [Dirs -> Spaces \cup {NoSpace}]]
      /\ dirs \in [Procs -> [Spaces -> Dirs]] /\ NoSpace \notin Spaces /\ NoProc \notin Procs
  BY RouterConstants DEF RouterInv, Typed
<1>b. /\ \A t \in Spaces : <<"space", t>> \in Files
      /\ \A d \in Dirs : <<"palace", d>> \in Files
  BY DEF Files
<1>c. \A d \in Dirs :
          /\ flock[<<"palace", d>>] = p <=> \E t \in locks[p] : dirs[p][t] = d
          /\ palace_dirs[p][d] # NoSpace => dirs[p][palace_dirs[p][d]] = d
  BY DEF RouterInv, Claimed, ClaimedAt
<1>d. \A t \in locks[p] : s \in locks[p] /\ dirs[p][t] = dirs[p][s] => t = s
  BY OneSpacePerDirectory
<1> DEFINE mine == FilesOf(p, {s} \cap locks[p])
<1>1. \A f : f \in mine <=> s \in locks[p] /\ f \in {<<"space", s>>, <<"palace", dirs[p][s]>>}
  BY DEF FilesOf
<1>2. flock' = [f \in Files |-> IF f \in mine THEN NoProc ELSE flock[f]]
  BY DEF ReleaseClaims
<1>3. locks' = [locks EXCEPT ![p] = @ \ {s}]
  BY DEF ReleaseClaims
<1>4. palace_dirs' = [palace_dirs EXCEPT ![p] = DirsWithout(p, {s})]
  BY DEF ReleaseClaims
<1> HIDE DEF mine
<1>5. /\ locks' \in [Procs -> SUBSET Spaces] /\ locks'[p] = locks[p] \ {s}
      /\ \A q \in Procs \ {p} : locks'[q] = locks[q]
  BY <1>a, <1>3
<1>6. /\ DirsWithout(p, {s}) \in [Dirs -> Spaces \cup {NoSpace}]
      /\ \A d \in Dirs : DirsWithout(p, {s})[d] =
             IF palace_dirs[p][d] = s THEN NoSpace ELSE palace_dirs[p][d]
  BY <1>a DEF DirsWithout
<1>7. /\ palace_dirs' \in [Procs -> [Dirs -> Spaces \cup {NoSpace}]]
      /\ palace_dirs'[p] = DirsWithout(p, {s})
      /\ \A q \in Procs \ {p} : palace_dirs'[q] = palace_dirs[q]
  BY <1>a, <1>4, <1>6
<1>8. /\ flock' \in [Files -> Procs \cup {NoProc}]
      /\ \A f \in Files : flock'[f] = IF f \in mine THEN NoProc ELSE flock[f]
  BY <1>a, <1>2
<1>9. ASSUME NEW f \in mine
      PROVE  flock[f] = p
  <2>1. s \in locks[p] /\ f \in {<<"space", s>>, <<"palace", dirs[p][s]>>}
    BY <1>1
  <2>2. dirs[p][s] \in Dirs
    BY <1>a
  <2>3. flock[<<"palace", dirs[p][s]>>] = p
    BY <1>c, <2>1, <2>2
  <2>4. QED
    BY <2>1, <2>3
<1>10. \A q \in Procs \ {p} : \A f \in Files : flock'[f] = q <=> flock[f] = q
  BY <1>a, <1>8, <1>9
<1>11. ASSUME NEW t \in Spaces
       PROVE  /\ t \in locks'[p] <=> t \in locks[p] /\ t # s
              /\ palace_dirs'[p][dirs[p][t]] = t <=> palace_dirs[p][dirs[p][t]] = t /\ t # s
  <2>1. dirs[p][t] \in Dirs
    BY <1>a
  <2>2. palace_dirs'[p][dirs[p][t]] = IF palace_dirs[p][dirs[p][t]] = s THEN NoSpace
                                      ELSE palace_dirs[p][dirs[p][t]]
    BY <1>6, <1>7, <2>1
  <2>3. t # NoSpace
    BY <1>a
  <2>4. t \in locks'[p] <=> t \in locks[p] /\ t # s
    BY <1>5
  <2>5. QED
    BY <2>2, <2>3, <2>4
<1>12. ASSUME NEW t \in Spaces
       PROVE  flock'[<<"space", t>>] = p <=> flock[<<"space", t>>] = p /\ t # s
  <2>1. <<"space", t>> \in mine <=> s \in locks[p] /\ t = s
    BY <1>1
  <2>2. QED
    BY <1>a, <1>b, <1>8, <2>1
<1>13. ASSUME NEW d \in Dirs
       PROVE  flock'[<<"palace", d>>] = p <=> \E t \in locks'[p] : dirs[p][t] = d
  <2>1. <<"palace", d>> \in mine <=> s \in locks[p] /\ dirs[p][s] = d
    BY <1>1
  <2>2. QED
    BY <1>a, <1>b, <1>c, <1>d, <1>5, <1>8, <2>1
<1>14. ASSUME NEW d \in Dirs, palace_dirs'[p][d] # NoSpace
       PROVE  dirs[p][palace_dirs'[p][d]] = d
  <2>1. palace_dirs'[p][d] = IF palace_dirs[p][d] = s THEN NoSpace ELSE palace_dirs[p][d]
    BY <1>6, <1>7
  <2>2. palace_dirs'[p][d] = palace_dirs[p][d]
    BY <2>1, <1>14
  <2>3. QED
    BY <1>14, <1>c, <2>2
<1>15. QED
  BY <1>5, <1>7, <1>8, <1>10, <1>11, <1>12, <1>13, <1>14 DEF Released

\* A process whose pool stays with the same task, at the same place, keeps
\* its claims when another process or another task goes on.
LEMMA ClaimedElsewhere ==
    ASSUME RouterInv, NEW q \in Procs, ClaimedAt(q), dirs' = dirs,
           runtimes'[q] = runtimes[q], locks'[q] = locks[q], palace_dirs'[q] = palace_dirs[q],
           pool'[q] = pool[q], \A f \in Files : flock'[f] = q <=> flock[f] = q,
           \A c \in Clients : pool[q] = c => client'[c] = client[c]
    PROVE  ClaimedAt(q)'
<1>1. \A s, places : Opening(q, s, places)' <=> Opening(q, s, places)
  BY DEF Opening, RouterInv, Pooled
<1>2. /\ \A s \in Spaces : <<"space", s>> \in Files
      /\ \A d \in Dirs : <<"palace", d>> \in Files
  BY DEF Files
<1>3. /\ \A s \in Spaces : flock'[<<"space", s>>] = q <=> flock[<<"space", s>>] = q
      /\ \A d \in Dirs : flock'[<<"palace", d>>] = q <=> flock[<<"palace", d>>] = q
  BY <1>2
<1>4. QED
  BY <1>1, <1>3 DEF ClaimedAt

\* A process whose pool is free, or with its close task, has the claims of the
\* spaces in its pool.
LEMMA ClaimedIdle ==
    ASSUME NEW p \in Procs, pool'[p] \notin Clients,
           \A s \in Spaces :
               /\ s \in locks'[p] <=> s \in runtimes'[p]
               /\ flock'[<<"space", s>>] = p <=> s \in runtimes'[p]
               /\ palace_dirs'[p][dirs'[p][s]] = s <=> s \in runtimes'[p],
           \A d \in Dirs :
               /\ flock'[<<"palace", d>>] = p <=> \E s \in locks'[p] : dirs'[p][s] = d
               /\ palace_dirs'[p][d] # NoSpace => dirs'[p][palace_dirs'[p][d]] = d
    PROVE  ClaimedAt(p)'
BY DEF ClaimedAt, Opening

----------------------------------------------------------------------------
(* The effects of the actions.                                              *)

\* c goes to x, away from the pool, and works on nothing that is closed.
ClientMove(c, x) ==
    /\ client' = [client EXCEPT ![c] = x] /\ x \in Place /\ gone' \subseteq Clients
    /\ x = client[c] \/ (client[c] \notin Holding /\ x \notin Holding)
    /\ x = "resolved" => S(c) \in runtimes[P(c)] \cup refusing[P(c)]
    /\ x \in Operating =>
           /\ S(c) \in runtimes[P(c)]
           /\ ~(/\ closer[P(c)].pc \in {"close_store", "close_graph"}
                /\ closer[P(c)].space = S(c))
    /\ UNCHANGED <<envVars, claimVars, poolVars, closeVars>>

\* c, which has the pool or takes it, goes to x and keeps it, or leaves it.
BuildMove(c, x) ==
    /\ client' = [client EXCEPT ![c] = x] /\ x \in Place
    /\ client[c] \in Holding \cup {"await_pool"} /\ pool[P(c)] \in {c, Nobody}
    /\ \/ x \in Holding /\ pool' = [pool EXCEPT ![P(c)] = c]
       \/ x \in {"resolved", "done"} /\ pool' = [pool EXCEPT ![P(c)] = Nobody]
    /\ UNCHANGED <<envVars, closeVars, refusing, gone>>

LEMMA ClientEffect ==
    ASSUME RouterInv, NEW c \in Clients,
           Resolve(c) \/ Lookup(c) \/ Begin(c) \/ Enter(c) \/ End(c) \/ Cancel(c)
    PROVE  \E x : ClientMove(c, x)
<1>a. /\ client \in [Clients -> Place] /\ gone \subseteq Clients
      /\ P(c) \in Procs /\ S(c) \in Spaces
  BY Where DEF RouterInv, Typed
<1>b. client[c] \in Place
  BY <1>a
<1>1. CASE Resolve(c)
  BY <1>1, <1>a DEF Resolve, Raise, Goto, At, ClientMove, Holding, Building, Place, Resolving,
     Operating
<1>2. CASE Lookup(c)
  <2>1. CASE S(c) \in runtimes[P(c)] /\ Return(c)
    BY <1>2, <1>a, <2>1 DEF Lookup, Return, Goto, At, ClientMove, Holding, Building, Place,
       Resolving, Operating
  <2>2. CASE Raise(c) \/ Goto(c, "await_pool")
    BY <1>2, <1>a, <2>2 DEF Lookup, Raise, Goto, At, ClientMove, Holding, Building, Place,
       Resolving, Operating
  <2>3. QED
    BY <1>2, <2>1, <2>2 DEF Lookup
<1>3. CASE Begin(c)
  <2>1. CASE S(c) \in refusing[P(c)]
    BY <1>3, <1>a, <2>1 DEF Begin, Raise, Goto, At, ClientMove, Holding, Building, Place,
       Resolving, Operating
  <2>2. CASE S(c) \notin refusing[P(c)]
    <3>1. S(c) \in runtimes[P(c)]
      BY <1>3, <2>2 DEF Begin, At, RouterInv, Serves
    <3>2. ~(/\ closer[P(c)].pc \in {"close_store", "close_graph"}
            /\ closer[P(c)].space = S(c))
      BY <1>a, <2>2 DEF RouterInv, Closes
    <3>3. QED
      BY <1>3, <1>a, <2>2, <3>1, <3>2 DEF Begin, Goto, At, ClientMove, Holding, Building, Place,
         Resolving, Operating
  <2>3. QED
    BY <2>1, <2>2
<1>4. CASE Enter(c)
  <2>1. /\ S(c) \in runtimes[P(c)]
        /\ ~(/\ closer[P(c)].pc \in {"close_store", "close_graph"}
             /\ closer[P(c)].space = S(c))
    BY <1>4 DEF Enter, At, RouterInv, Serves, Operating
  <2>2. QED
    BY <1>4, <1>a, <2>1 DEF Enter, Goto, At, ClientMove, Holding, Building, Place,
       Resolving, Operating
<1>5. CASE End(c)
  BY <1>5, <1>a DEF End, Goto, At, ClientMove, Holding, Building, Place, Resolving, Operating
<1>6. CASE Cancel(c)
  <2> DEFINE x == IF client[c] \in {"resolved", "queued"} THEN "done" ELSE client[c]
  <2>1. client' = [client EXCEPT ![c] = x]
    BY <1>6 DEF Cancel
  <2>2. /\ x \in Place
        /\ x = client[c] \/ (client[c] \notin Holding /\ x \notin Holding)
        /\ x # "resolved" /\ (x \in Operating => client[c] \in Operating)
    BY <1>b DEF Place, Resolving, Operating, Holding, Building
  <2>3. gone' \subseteq Clients /\ UNCHANGED <<envVars, claimVars, poolVars, closeVars>>
    BY <1>6, <1>a DEF Cancel
  <2> HIDE DEF x
  <2>4. x \in Operating =>
            /\ S(c) \in runtimes[P(c)]
            /\ ~(/\ closer[P(c)].pc \in {"close_store", "close_graph"}
                 /\ closer[P(c)].space = S(c))
    BY <2>2 DEF RouterInv, Serves
  <2>5. QED
    BY <2>1, <2>2, <2>3, <2>4 DEF ClientMove
<1>7. QED
  BY <1>1, <1>2, <1>3, <1>4, <1>5, <1>6

\* Whoever is in the pool has it.
LEMMA InPool ==
    ASSUME RouterInv, NEW c \in Clients, client[c] \in Holding
    PROVE  pool[P(c)] = c /\ pool = [pool EXCEPT ![P(c)] = c]
<1>1. pool[P(c)] = c
  BY DEF RouterInv, Pooled
<1>2. QED
  BY <1>1 DEF RouterInv, Typed

LEMMA BuildEffect ==
    ASSUME RouterInv, NEW c \in Clients,
           \/ EnterPool(c) \/ Recheck(c) \/ ClaimPalaceDirectory(c) \/ LockSpace(c)
           \/ LockPalace(c) \/ Prepare(c) \/ Construct(c)
    PROVE  \E x : BuildMove(c, x)
<1>a. client \in [Clients -> Place] /\ "done" \in Place /\ "resolved" \in Place
  BY DEF RouterInv, Typed, Place
<1>b. \A x \in Holding : x \in Place
  BY DEF Holding, Place, Resolving
<1>1. ASSUME client[c] \in Holding, NEW x \in Holding, Goto(c, x), pool' = pool,
             UNCHANGED <<envVars, closeVars, refusing, gone>>
      PROVE  BuildMove(c, x)
  BY <1>1, <1>b, InPool DEF BuildMove, Goto
<1>2. ASSUME client[c] \in Holding, Raise(c) \/ Return(c), LeavePool(c),
             UNCHANGED <<envVars, closeVars, refusing, gone>>
      PROVE  \E x : BuildMove(c, x)
  <2>1. PICK x \in {"resolved", "done"} : Goto(c, x)
    BY <1>2 DEF Raise, Return
  <2>2. QED
    BY <1>2, <1>a, <2>1, InPool DEF BuildMove, Goto, LeavePool
<1>3. CASE EnterPool(c)
  BY <1>3, <1>b DEF EnterPool, At, Goto, BuildMove, Holding
<1>4. CASE Recheck(c)
  <2>1. /\ client[c] \in Holding /\ UNCHANGED <<envVars, closeVars, refusing, gone>>
        /\ \/ (Raise(c) \/ Return(c)) /\ LeavePool(c)
           \/ Goto(c, "claim") /\ pool' = pool
    BY <1>4 DEF Recheck, At, Holding
  <2>2. QED
    BY <1>1, <1>2, <2>1 DEF Holding, Building
<1>5. CASE ClaimPalaceDirectory(c)
  <2>1. /\ client[c] \in Holding /\ UNCHANGED <<envVars, closeVars, refusing, gone>>
        /\ \/ Raise(c) /\ LeavePool(c)
           \/ Goto(c, "lock_space") /\ pool' = pool
    BY <1>5 DEF ClaimPalaceDirectory, At, Holding, Building, BuildFails
  <2>2. QED
    BY <1>1, <1>2, <2>1 DEF Holding, Building
<1>6. CASE LockSpace(c)
  <2>1. /\ client[c] \in Holding /\ UNCHANGED <<envVars, closeVars, refusing, gone>>
        /\ \/ Raise(c) /\ LeavePool(c)
           \/ (Goto(c, "prepare") \/ Goto(c, "lock_palace")) /\ pool' = pool
    BY <1>6 DEF LockSpace, At, Holding, Building, BuildFails, claimVars
  <2>2. QED
    BY <1>1, <1>2, <2>1 DEF Holding, Building
<1>7. CASE LockPalace(c)
  <2>1. /\ client[c] \in Holding /\ UNCHANGED <<envVars, closeVars, refusing, gone>>
        /\ \/ Raise(c) /\ LeavePool(c)
           \/ Goto(c, "prepare") /\ pool' = pool
    BY <1>7 DEF LockPalace, At, Holding, Building, BuildFails
  <2>2. QED
    BY <1>1, <1>2, <2>1 DEF Holding, Building
<1>8. CASE Prepare(c)
  <2>1. /\ client[c] \in Holding /\ UNCHANGED <<envVars, closeVars, refusing, gone>>
        /\ \/ Raise(c) /\ LeavePool(c)
           \/ Goto(c, "construct") /\ pool' = pool
    BY <1>8 DEF Prepare, At, Holding, Building, BuildFails
  <2>2. QED
    BY <1>1, <1>2, <2>1 DEF Holding, Building
<1>9. CASE Construct(c)
  <2>1. /\ client[c] \in Holding /\ UNCHANGED <<envVars, closeVars, refusing, gone>>
        /\ Raise(c) \/ Return(c)
        /\ LeavePool(c)
    BY <1>9 DEF Construct, At, Holding, Building, BuildFails
  <2>2. QED
    BY <1>2, <2>1
<1>10. QED
  BY <1>3, <1>4, <1>5, <1>6, <1>7, <1>8, <1>9

\* The close task of p goes on to y, and takes, keeps or leaves the pool.
CloserMove(p, y) ==
    /\ closer' = [closer EXCEPT ![p] = y]
    /\ y \in [pc : CloserPlace, space : Spaces \cup {NoSpace}]
    /\ \/ /\ closer[p].pc \in Shutting \/ pool[p] = Nobody
          /\ y.pc \in Shutting /\ pool' = [pool EXCEPT ![p] = Closer]
       \/ /\ closer[p].pc \in Shutting
          /\ y.pc \in {"failed", "closed"} /\ pool' = [pool EXCEPT ![p] = Nobody]
       \/ /\ closer[p].pc \in {"none", "failed"}
          /\ y.pc = "await_pool" /\ pool' = pool
    /\ UNCHANGED <<envVars, clientVars>>

LEMMA CloserEffect ==
    ASSUME RouterInv, NEW p \in Procs, Aclose(p) \/ CloseSteps(p)
    PROVE  \E y : CloserMove(p, y)
<1>a. /\ closer \in [Procs -> [pc : CloserPlace, space : Spaces \cup {NoSpace}]]
      /\ pool \in [Procs -> Clients \cup {Nobody, Closer}]
      /\ runtimes \in [Procs -> SUBSET Spaces]
  BY DEF RouterInv, Typed
<1>b. closer[p].pc \in Shutting => pool[p] = Closer /\ pool = [pool EXCEPT ![p] = Closer]
  BY <1>a DEF RouterInv, Pooled
<1>c. closer[p].space \in Spaces \cup {NoSpace}
  BY <1>a
<1>1. ASSUME NEW step \in Shutting, NEW s \in Spaces \cup {NoSpace}, CloserGoto(p, step, s),
             pool' = pool, closer[p].pc \in Shutting, UNCHANGED <<envVars, clientVars>>
      PROVE  \E y : CloserMove(p, y)
  <2> DEFINE y == [pc |-> step, space |-> s]
  <2>1. y \in [pc : CloserPlace, space : Spaces \cup {NoSpace}] /\ y.pc \in Shutting
    BY DEF Shutting, CloserPlace
  <2>2. closer' = [closer EXCEPT ![p] = y]
    BY <1>1 DEF CloserGoto
  <2> HIDE DEF y
  <2>3. QED
    BY <1>1, <1>b, <2>1, <2>2 DEF CloserMove
<1>2. ASSUME NEW step \in {"failed", "closed"}, CloserGoto(p, step, NoSpace),
             pool' = [pool EXCEPT ![p] = Nobody],
             closer[p].pc \in Shutting, UNCHANGED <<envVars, clientVars>>
      PROVE  \E y : CloserMove(p, y)
  <2> DEFINE y == [pc |-> step, space |-> NoSpace]
  <2>1. /\ y \in [pc : CloserPlace, space : Spaces \cup {NoSpace}]
        /\ y.pc \in {"failed", "closed"}
    BY DEF CloserPlace
  <2>2. closer' = [closer EXCEPT ![p] = y]
    BY <1>2 DEF CloserGoto
  <2> HIDE DEF y
  <2>3. QED
    BY <1>2, <2>1, <2>2 DEF CloserMove
<1>3. CASE Aclose(p)
  <2> DEFINE y == [pc |-> "await_pool", space |-> NoSpace]
  <2>1. y \in [pc : CloserPlace, space : Spaces \cup {NoSpace}] /\ y.pc = "await_pool"
    BY DEF CloserPlace
  <2>2. closer' = [closer EXCEPT ![p] = y]
    BY <1>3 DEF Aclose, CloserGoto
  <2> HIDE DEF y
  <2>3. QED
    BY <1>3, <2>1, <2>2 DEF CloserMove, Aclose, poolVars
<1>4. CASE CloseEntersPool(p)
  <2> DEFINE y == [pc |-> "next", space |-> NoSpace]
  <2>1. y \in [pc : CloserPlace, space : Spaces \cup {NoSpace}] /\ y.pc \in Shutting
    BY DEF CloserPlace, Shutting
  <2>2. closer' = [closer EXCEPT ![p] = y]
    BY <1>4 DEF CloseEntersPool, CloserGoto
  <2> HIDE DEF y
  <2>3. QED
    BY <1>4, <2>1, <2>2 DEF CloserMove, CloseEntersPool
<1>5. CASE CloseNext(p)
  BY <1>5, <1>1, <1>a DEF CloseNext, Closing, Shutting
<1>6. CASE CloseDrains(p)
  BY <1>6, <1>1, <1>c DEF CloseDrains, Closing, Shutting, poolVars
<1>7. CASE CloseStore(p)
  <2>1. /\ closer[p].pc \in Shutting /\ UNCHANGED <<envVars, clientVars>>
        /\ \/ CloserGoto(p, "close_graph", closer[p].space) /\ pool' = pool
           \/ CloserGoto(p, "failed", NoSpace) /\ pool' = [pool EXCEPT ![p] = Nobody]
    BY <1>7 DEF CloseStore, Closing, Shutting
  <2>2. QED
    BY <1>1, <1>2, <1>c, <2>1 DEF Shutting
<1>8. CASE CloseGraph(p)
  BY <1>8, <1>1 DEF CloseGraph, Closing, Shutting
<1>9. CASE CloseEnds(p)
  BY <1>9, <1>2 DEF CloseEnds, Closing, Shutting
<1>10. QED
  BY <1>3, <1>4, <1>5, <1>6, <1>7, <1>8, <1>9 DEF CloseSteps

\* Every step is one of these, a death, or none.
LEMMA RouterSteps ==
    ASSUME RouterInv, [Next]_vars
    PROVE  \/ \E c \in Clients : \E x : ClientMove(c, x)
           \/ \E c \in Clients :
                  /\ \E x : BuildMove(c, x)
                  /\ \/ EnterPool(c) \/ Recheck(c) \/ ClaimPalaceDirectory(c)
                     \/ LockSpace(c) \/ LockPalace(c) \/ Prepare(c) \/ Construct(c)
           \/ \E p \in Procs :
                  /\ \E y : CloserMove(p, y)
                  /\ Aclose(p) \/ CloseSteps(p)
           \/ \E p \in Procs : Die(p)
           \/ UNCHANGED vars
<1>1. CASE \E c \in Clients : Resolve(c) \/ Steps(c) \/ Cancel(c)
  <2>1. PICK c \in Clients : Resolve(c) \/ Steps(c) \/ Cancel(c)
    BY <1>1
  <2>2. CASE Resolve(c) \/ Lookup(c) \/ Begin(c) \/ Enter(c) \/ End(c) \/ Cancel(c)
    BY <2>2, ClientEffect
  <2>3. CASE \/ EnterPool(c) \/ Recheck(c) \/ ClaimPalaceDirectory(c) \/ LockSpace(c)
             \/ LockPalace(c) \/ Prepare(c) \/ Construct(c)
    BY <2>3, BuildEffect
  <2>4. QED
    BY <2>1, <2>2, <2>3 DEF Steps
<1>2. CASE \E p \in Procs : Aclose(p) \/ CloseSteps(p) \/ Die(p)
  BY <1>2, CloserEffect
<1>3. QED
  BY <1>1, <1>2 DEF Next

----------------------------------------------------------------------------
(* Types.                                                                   *)

\* The lock files, records and directories have their types after a release.
LEMMA ReleaseTypes ==
    ASSUME Typed, NEW p \in Procs, NEW at, ReleaseClaims(p, at)
    PROVE  /\ flock' \in [Files -> Procs \cup {NoProc}]
           /\ locks' \in [Procs -> SUBSET Spaces]
           /\ palace_dirs' \in [Procs -> [Dirs -> Spaces \cup {NoSpace}]]
<1>1. DirsWithout(p, at) \in [Dirs -> Spaces \cup {NoSpace}]
  BY DEF Typed, DirsWithout
<1>2. palace_dirs' \in [Procs -> [Dirs -> Spaces \cup {NoSpace}]]
  BY <1>1 DEF Typed, ReleaseClaims
<1>3. flock' \in [Files -> Procs \cup {NoProc}]
  BY DEF Typed, ReleaseClaims
<1>4. locks' \in [Procs -> SUBSET Spaces]
  BY DEF Typed, ReleaseClaims
<1>5. QED
  BY <1>2, <1>3, <1>4

LEMMA BuildTyped ==
    ASSUME RouterInv, NEW c \in Clients, NEW x, BuildMove(c, x),
           \/ EnterPool(c) \/ Recheck(c) \/ ClaimPalaceDirectory(c) \/ LockSpace(c)
           \/ LockPalace(c) \/ Prepare(c) \/ Construct(c)
    PROVE  Typed'
<1>a. Typed /\ P(c) \in Procs /\ S(c) \in Spaces /\ DirOf(c) \in Dirs
      /\ SpaceFile(c) \in Files /\ PalaceFile(c) \in Files
  BY Where DEF RouterInv
<1>1. /\ dirs' \in [Procs -> [Spaces -> Dirs]] /\ limit' \in Nat \ {0}
      /\ refusing' \in [Procs -> SUBSET Spaces]
      /\ pool' \in [Procs -> Clients \cup {Nobody, Closer}]
      /\ closing' \in [Procs -> BOOLEAN]
      /\ closer' \in [Procs -> [pc : CloserPlace, space : Spaces \cup {NoSpace}]]
      /\ client' \in [Clients -> Place] /\ gone' \subseteq Clients
  <2>1. /\ dirs' \in [Procs -> [Spaces -> Dirs]] /\ limit' \in Nat \ {0}
        /\ refusing' \in [Procs -> SUBSET Spaces]
        /\ closing' \in [Procs -> BOOLEAN]
        /\ closer' \in [Procs -> [pc : CloserPlace, space : Spaces \cup {NoSpace}]]
        /\ gone' \subseteq Clients
    BY <1>a DEF BuildMove, Typed, envVars, closeVars
  <2>2. pool' \in [Procs -> Clients \cup {Nobody, Closer}]
    BY <1>a DEF BuildMove, Typed
  <2>3. client' \in [Clients -> Place]
    BY <1>a DEF BuildMove, Typed
  <2>4. QED
    BY <2>1, <2>2, <2>3
<1>2. /\ flock' \in [Files -> Procs \cup {NoProc}] /\ locks' \in [Procs -> SUBSET Spaces]
      /\ palace_dirs' \in [Procs -> [Dirs -> Spaces \cup {NoSpace}]]
  <2>1. CASE BuildFails(c)
    BY <2>1, <1>a, ReleaseTypes DEF BuildFails
  <2>2. CASE UNCHANGED claimVars
    BY <2>2, <1>a DEF claimVars, Typed
  <2>3. CASE ClaimPalaceDirectory(c) /\ ~BuildFails(c)
    <3>1. palace_dirs' = [palace_dirs EXCEPT ![P(c)][DirOf(c)] = S(c)]
          /\ UNCHANGED <<flock, locks>>
      BY <2>3 DEF ClaimPalaceDirectory
    <3>2. QED
      BY <1>a, <3>1 DEF Typed
  <2>4. CASE LockSpace(c) /\ ~BuildFails(c) /\ ~UNCHANGED claimVars
    <3>1. flock' = [flock EXCEPT ![SpaceFile(c)] = P(c)] /\ UNCHANGED <<locks, palace_dirs>>
      BY <2>4 DEF LockSpace
    <3>2. QED
      BY <1>a, <3>1 DEF Typed
  <2>5. CASE LockPalace(c)
    <3>1. CASE flock[PalaceFile(c)] = NoProc
      <4>1. /\ flock' = [flock EXCEPT ![PalaceFile(c)] = P(c)]
            /\ locks' = [locks EXCEPT ![P(c)] = @ \cup {S(c)}] /\ palace_dirs' = palace_dirs
        BY <2>5, <3>1 DEF LockPalace
      <4>2. QED
        BY <1>a, <4>1 DEF Typed
    <3>2. CASE flock[PalaceFile(c)] # NoProc
      <4>1. /\ flock' = [flock EXCEPT ![SpaceFile(c)] = NoProc] /\ locks' = locks
            /\ palace_dirs' = [palace_dirs EXCEPT ![P(c)] = DirsWithout(P(c), {S(c)})]
        BY <2>5, <3>2 DEF LockPalace
      <4>2. DirsWithout(P(c), {S(c)}) \in [Dirs -> Spaces \cup {NoSpace}]
        BY <1>a DEF Typed, DirsWithout
      <4>3. QED
        BY <1>a, <4>1, <4>2 DEF Typed
    <3>3. QED
      BY <3>1, <3>2
  <2>6. CASE EnterPool(c) \/ Recheck(c) \/ Prepare(c) \/ Construct(c)
    <3>1. UNCHANGED claimVars \/ BuildFails(c)
      BY <2>6 DEF EnterPool, Recheck, Prepare, Construct
    <3>2. QED
      BY <2>1, <2>2, <3>1
  <2>7. QED
    BY <2>1, <2>2, <2>3, <2>4, <2>5, <2>6
<1>3. open' \in [Procs -> [Spaces -> Nat]] /\ runtimes' \in [Procs -> SUBSET Spaces]
  <2>1. CASE UNCHANGED <<open, runtimes>>
    BY <2>1, <1>a DEF Typed
  <2>2. CASE Construct(c) /\ ~UNCHANGED <<open, runtimes>>
    <3>1. /\ open' = [open EXCEPT ![P(c)][S(c)] = @ + 1]
          /\ runtimes' = [runtimes EXCEPT ![P(c)] = @ \cup {S(c)}]
      BY <2>2 DEF Construct
    <3>2. QED
      BY <1>a, <3>1 DEF Typed
  <2>3. CASE ~Construct(c)
    <3>1. UNCHANGED <<open, runtimes>>
      BY <2>3
         DEF EnterPool, Recheck, ClaimPalaceDirectory, LockSpace, LockPalace, Prepare, poolVars
    <3>2. QED
      BY <3>1, <2>1
  <2>4. QED
    BY <2>1, <2>2, <2>3
<1>4. QED
  BY <1>1, <1>2, <1>3 DEF Typed

LEMMA CloserTyped ==
    ASSUME RouterInv, NEW p \in Procs, NEW y, CloserMove(p, y), Aclose(p) \/ CloseSteps(p)
    PROVE  Typed'
<1>a. Typed
  BY DEF RouterInv
<1>1. /\ dirs' \in [Procs -> [Spaces -> Dirs]] /\ limit' \in Nat \ {0}
      /\ pool' \in [Procs -> Clients \cup {Nobody, Closer}]
      /\ closer' \in [Procs -> [pc : CloserPlace, space : Spaces \cup {NoSpace}]]
      /\ client' \in [Clients -> Place] /\ gone' \subseteq Clients
  BY <1>a DEF CloserMove, Typed, envVars, clientVars
<1>2. /\ flock' \in [Files -> Procs \cup {NoProc}] /\ locks' \in [Procs -> SUBSET Spaces]
      /\ palace_dirs' \in [Procs -> [Dirs -> Spaces \cup {NoSpace}]]
  <2>1. UNCHANGED claimVars \/ \E at : ReleaseClaims(p, at)
    BY DEF CloseSteps, Aclose, CloseEntersPool, CloseNext, CloseDrains, CloseStore, CloseGraph,
       CloseEnds
  <2>2. CASE UNCHANGED claimVars
    BY <2>2, <1>a DEF claimVars, Typed
  <2>3. CASE \E at : ReleaseClaims(p, at)
    BY <2>3, <1>a, ReleaseTypes
  <2>4. QED
    BY <2>1, <2>2, <2>3
<1>3. closing' \in [Procs -> BOOLEAN]
  <2>1. closing' = closing \/ closing' = [closing EXCEPT ![p] = TRUE]
    BY DEF CloseSteps, Aclose, CloseEntersPool, CloseNext, CloseDrains, CloseStore, CloseGraph,
       CloseEnds
  <2>2. QED
    BY <2>1, <1>a DEF Typed
<1>4. /\ runtimes' \in [Procs -> SUBSET Spaces] /\ refusing' \in [Procs -> SUBSET Spaces]
  <2>1. \/ UNCHANGED <<runtimes, refusing>>
        \/ \E s : runtimes' = [runtimes EXCEPT ![p] = @ \ {s}] /\ refusing' = refusing
        \/ \E s \in runtimes[p] :
               refusing' = [refusing EXCEPT ![p] = @ \cup {s}] /\ runtimes' = runtimes
    BY DEF CloseSteps, Aclose, CloseEntersPool, CloseNext, CloseDrains, CloseStore, CloseGraph,
       CloseEnds, poolVars
  <2>2. ASSUME NEW s, runtimes' = [runtimes EXCEPT ![p] = @ \ {s}]
        PROVE  runtimes' \in [Procs -> SUBSET Spaces]
    BY <2>2, <1>a DEF Typed
  <2>3. ASSUME NEW s \in runtimes[p], refusing' = [refusing EXCEPT ![p] = @ \cup {s}]
        PROVE  refusing' \in [Procs -> SUBSET Spaces]
    BY <2>3, <1>a DEF Typed
  <2>4. runtimes \in [Procs -> SUBSET Spaces] /\ refusing \in [Procs -> SUBSET Spaces]
    BY <1>a DEF Typed
  <2>5. QED
    BY <2>1, <2>2, <2>3, <2>4
<1>5. open' \in [Procs -> [Spaces -> Nat]]
  <2>1. CASE open' = open
    BY <2>1, <1>a DEF Typed
  <2>2. CASE CloseStore(p) /\ open' = [open EXCEPT ![p][closer[p].space] = @ - 1]
    <3>1. closer[p].space \in Spaces /\ open[p][closer[p].space] = 1
      BY <2>2, <1>a DEF CloseStore, Closing, RouterInv, Closes, Stores, Typed
    <3>2. open' = [open EXCEPT ![p][closer[p].space] = 0]
      BY <2>2, <3>1
    <3>3. QED
      BY <1>a, <3>1, <3>2 DEF Typed
  <2>3. CASE ~CloseStore(p)
    BY <2>3, <2>1 DEF CloseSteps, Aclose, CloseEntersPool, CloseNext, CloseDrains, CloseGraph,
       CloseEnds, poolVars
  <2>4. QED
    BY <2>1, <2>2, <2>3 DEF CloseStore
<1>6. QED
  BY <1>1, <1>2, <1>3, <1>4, <1>5 DEF Typed

\* What a death leaves of a process.
LEMMA DieEffect ==
    ASSUME RouterInv, NEW p \in Procs, Die(p)
    PROVE  /\ Typed' /\ UNCHANGED <<dirs, limit>>
           /\ \A f \in Files : flock'[f] = IF flock[f] = p THEN NoProc ELSE flock[f]
           /\ locks'[p] = {} /\ runtimes'[p] = {} /\ refusing'[p] = {} /\ pool'[p] = Nobody
           /\ \A d \in Dirs : palace_dirs'[p][d] = NoSpace
           /\ \A s \in Spaces : open'[p][s] = 0
           /\ closer'[p].pc = "none"
           /\ \A c \in Clients : IF P(c) = p THEN client'[c] \in {"outside", "done"}
                                             ELSE client'[c] = client[c]
           /\ \A q \in Procs \ {p} :
                  /\ locks'[q] = locks[q] /\ palace_dirs'[q] = palace_dirs[q]
                  /\ runtimes'[q] = runtimes[q] /\ refusing'[q] = refusing[q]
                  /\ pool'[q] = pool[q] /\ open'[q] = open[q]
                  /\ closing'[q] = closing[q] /\ closer'[q] = closer[q]
<1>a. Typed
  BY DEF RouterInv
<1>b. client' \in [Clients -> Place]
      /\ \A c \in Clients : client'[c] =
             IF P(c) = p /\ client[c] # "outside" THEN "done" ELSE client[c]
  BY <1>a DEF Die, Typed, At, Place
<1>c. closer' \in [Procs -> [pc : CloserPlace, space : Spaces \cup {NoSpace}]]
      /\ closer'[p].pc = "none" /\ \A q \in Procs \ {p} : closer'[q] = closer[q]
  BY <1>a DEF Die, Typed, IdleCloser, CloserPlace
<1>d. /\ flock' \in [Files -> Procs \cup {NoProc}]
      /\ \A f \in Files : flock'[f] = IF flock[f] = p THEN NoProc ELSE flock[f]
  BY <1>a DEF Die, Typed
<1>e. /\ palace_dirs' \in [Procs -> [Dirs -> Spaces \cup {NoSpace}]]
      /\ \A d \in Dirs : palace_dirs'[p][d] = NoSpace
      /\ \A q \in Procs \ {p} : palace_dirs'[q] = palace_dirs[q]
  BY <1>a DEF Die, Typed
<1>f. /\ open' \in [Procs -> [Spaces -> Nat]]
      /\ \A s \in Spaces : open'[p][s] = 0
      /\ \A q \in Procs \ {p} : open'[q] = open[q]
  BY <1>a DEF Die, Typed
<1>g. /\ locks' \in [Procs -> SUBSET Spaces] /\ locks'[p] = {}
      /\ \A q \in Procs \ {p} : locks'[q] = locks[q]
  BY <1>a DEF Die, Typed
<1>h. /\ runtimes' \in [Procs -> SUBSET Spaces] /\ runtimes'[p] = {}
      /\ refusing' \in [Procs -> SUBSET Spaces] /\ refusing'[p] = {}
      /\ \A q \in Procs \ {p} : runtimes'[q] = runtimes[q] /\ refusing'[q] = refusing[q]
  BY <1>a DEF Die, Typed
<1>i. /\ pool' \in [Procs -> Clients \cup {Nobody, Closer}] /\ pool'[p] = Nobody
      /\ closing' \in [Procs -> BOOLEAN]
      /\ \A q \in Procs \ {p} : pool'[q] = pool[q] /\ closing'[q] = closing[q]
  BY <1>a DEF Die, Typed
<1>j. UNCHANGED <<dirs, limit, gone>>
  BY DEF Die, envVars
<1>k. dirs' \in [Procs -> [Spaces -> Dirs]] /\ limit' \in Nat \ {0} /\ gone' \subseteq Clients
  BY <1>a, <1>j DEF Typed
<1>l. Typed'
  BY <1>b, <1>c, <1>d, <1>e, <1>f, <1>g, <1>h, <1>i, <1>k DEF Typed
<1>m. QED
  BY <1>b, <1>c, <1>d, <1>e, <1>f, <1>g, <1>h, <1>i, <1>j, <1>l

\* Typed is kept.
LEMMA TypedNext == RouterInv /\ [Next]_vars => Typed'
<1> SUFFICES ASSUME RouterInv, [Next]_vars
             PROVE  Typed'
  OBVIOUS
<1>1. ASSUME NEW c \in Clients, NEW x, ClientMove(c, x)
      PROVE  Typed'
  BY <1>1 DEF ClientMove, RouterInv, Typed, envVars, claimVars, poolVars, closeVars
<1>2. CASE UNCHANGED vars
  BY <1>2 DEF vars, RouterInv, Typed, envVars, claimVars, poolVars, closeVars, clientVars
<1>3. QED
  BY <1>1, <1>2, RouterSteps, BuildTyped, CloserTyped, DieEffect

----------------------------------------------------------------------------
(* The pool lock, and what is opened and closed under it.                   *)

\* Who has the pool stays the one who is there.
LEMMA PooledNext == RouterInv /\ [Next]_vars => Pooled'
<1> SUFFICES ASSUME RouterInv, [Next]_vars
             PROVE  Pooled'
  OBVIOUS
<1>a. /\ client \in [Clients -> Place]
      /\ pool \in [Procs -> Clients \cup {Nobody, Closer}]
      /\ closer \in [Procs -> [pc : CloserPlace, space : Spaces \cup {NoSpace}]]
      /\ \A c \in Clients : P(c) \in Procs
      /\ Nobody \notin Clients /\ Closer \notin Clients /\ Nobody # Closer
  BY Where, RouterConstants DEF RouterInv, Typed
<1>b. Pooled
  BY DEF RouterInv
<1>1. ASSUME NEW c \in Clients, NEW x, ClientMove(c, x)
      PROVE  Pooled'
  <2>1. \A d \in Clients : client'[d] \in Holding <=> client[d] \in Holding
    BY <1>a, <1>1 DEF ClientMove
  <2>2. pool' = pool /\ closer' = closer
    BY <1>1 DEF ClientMove, poolVars, closeVars
  <2>3. QED
    BY <1>b, <2>1, <2>2 DEF Pooled, P
<1>2. ASSUME NEW c \in Clients, NEW x, BuildMove(c, x)
      PROVE  Pooled'
  <2>1. /\ client'[c] = x /\ \A d \in Clients \ {c} : client'[d] = client[d]
        /\ closer' = closer
        /\ pool'[P(c)] = IF x \in Holding THEN c ELSE Nobody
        /\ \A q \in Procs \ {P(c)} : pool'[q] = pool[q]
    BY <1>a, <1>2 DEF BuildMove, closeVars, Holding, Building
  <2>2. pool[P(c)] \in {c, Nobody}
    BY <1>2 DEF BuildMove
  <2>3. ASSUME NEW d \in Clients \ {c}
        PROVE  client'[d] \in Holding <=> pool'[P(d)] = d
    BY <1>a, <1>b, <2>1, <2>2 DEF Pooled
  <2>4. ASSUME NEW q \in Procs, pool'[q] \in Clients
        PROVE  P(pool'[q]) = q
    BY <1>a, <1>b, <2>1, <2>4 DEF Pooled
  <2>5. ASSUME NEW q \in Procs
        PROVE  closer'[q].pc \in Shutting <=> pool'[q] = Closer
    BY <1>a, <1>b, <2>1, <2>2 DEF Pooled
  <2>6. client'[c] \in Holding <=> pool'[P(c)] = c
    BY <1>a, <2>1
  <2>7. QED
    BY <2>3, <2>4, <2>5, <2>6 DEF Pooled, P
<1>3. ASSUME NEW p \in Procs, NEW y, CloserMove(p, y)
      PROVE  Pooled'
  <2>1. /\ client' = client /\ closer'[p] = y
        /\ \A q \in Procs \ {p} : closer'[q] = closer[q] /\ pool'[q] = pool[q]
    BY <1>a, <1>3 DEF CloserMove, clientVars
  <2>2. \/ pool[p] \in {Closer, Nobody} /\ y.pc \in Shutting /\ pool'[p] = Closer
        \/ pool[p] = Closer /\ y.pc \notin Shutting /\ pool'[p] = Nobody
        \/ pool[p] # Closer /\ y.pc \notin Shutting /\ pool'[p] = pool[p]
    BY <1>a, <1>b, <1>3 DEF CloserMove, Pooled, Shutting
  <2>3. ASSUME NEW d \in Clients
        PROVE  client'[d] \in Holding <=> pool'[P(d)] = d
    BY <1>a, <1>b, <2>1, <2>2 DEF Pooled
  <2>4. ASSUME NEW q \in Procs, pool'[q] \in Clients
        PROVE  P(pool'[q]) = q
    BY <1>a, <1>b, <2>1, <2>2, <2>4 DEF Pooled
  <2>5. ASSUME NEW q \in Procs
        PROVE  closer'[q].pc \in Shutting <=> pool'[q] = Closer
    BY <1>a, <1>b, <2>1, <2>2 DEF Pooled
  <2>6. QED
    BY <2>3, <2>4, <2>5 DEF Pooled, P
<1>4. ASSUME NEW p \in Procs, Die(p)
      PROVE  Pooled'
  <2>1. /\ pool'[p] = Nobody /\ closer'[p].pc = "none"
        /\ \A c \in Clients : IF P(c) = p THEN client'[c] \in {"outside", "done"}
                                          ELSE client'[c] = client[c]
        /\ \A q \in Procs \ {p} : pool'[q] = pool[q] /\ closer'[q] = closer[q]
    BY <1>4, DieEffect
  <2>2. "outside" \notin Holding /\ "done" \notin Holding /\ "none" \notin Shutting
    BY DEF Holding, Building, Shutting
  <2>3. ASSUME NEW d \in Clients
        PROVE  client'[d] \in Holding <=> pool'[P(d)] = d
    BY <1>a, <1>b, <2>1, <2>2 DEF Pooled
  <2>4. ASSUME NEW q \in Procs
        PROVE  /\ pool'[q] \in Clients => P(pool'[q]) = q
               /\ closer'[q].pc \in Shutting <=> pool'[q] = Closer
    BY <1>a, <1>b, <2>1, <2>2 DEF Pooled
  <2>5. QED
    BY <2>3, <2>4 DEF Pooled, P
<1>5. CASE UNCHANGED vars
  BY <1>5, <1>b DEF vars, poolVars, closeVars, clientVars, Pooled, P
<1>6. QED
  BY <1>1, <1>2, <1>3, <1>4, <1>5, RouterSteps

\* A client that opens a space is alone in its process.
LEMMA OneOpens ==
    ASSUME RouterInv, NEW c \in Clients, NEW d \in Clients, P(c) = P(d),
           client[c] \in Holding, client[d] \in Holding
    PROVE  c = d
BY InPool

\* What a step of an opening does to the pool of open spaces.
LEMMA BuildRuntimes ==
    ASSUME RouterInv, NEW c \in Clients, NEW x, BuildMove(c, x),
           \/ EnterPool(c) \/ Recheck(c) \/ ClaimPalaceDirectory(c) \/ LockSpace(c)
           \/ LockPalace(c) \/ Prepare(c) \/ Construct(c)
    PROVE  /\ \/ runtimes' = runtimes /\ open' = open
              \/ /\ client[c] = "construct" /\ x \in {"done", "resolved"}
                 /\ runtimes' = [runtimes EXCEPT ![P(c)] = @ \cup {S(c)}]
                 /\ open' = [open EXCEPT ![P(c)][S(c)] = @ + 1]
           /\ x \in Building => client[c] \in Building \/
                  (/\ S(c) \notin runtimes[P(c)] /\ ~closing[P(c)]
                   /\ ~(Cardinality(runtimes[P(c)]) >= limit))
           /\ x = "resolved" => S(c) \in runtimes'[P(c)]
<1>a. /\ client \in [Clients -> Place] /\ runtimes \in [Procs -> SUBSET Spaces]
      /\ P(c) \in Procs
  BY Where DEF RouterInv, Typed
<1>b. client'[c] = x
  BY <1>a DEF BuildMove
<1>1. CASE EnterPool(c)
  BY <1>1, <1>a, <1>b DEF EnterPool, Goto, Building
<1>2. CASE Recheck(c)
  BY <1>2, <1>a, <1>b DEF Recheck, Goto, Return, Raise, Building
<1>3. CASE ClaimPalaceDirectory(c) \/ LockSpace(c) \/ LockPalace(c)
  BY <1>3, <1>a, <1>b DEF ClaimPalaceDirectory, LockSpace, LockPalace, Goto, BuildFails, Raise,
     At, Building
<1>4. CASE Prepare(c)
  BY <1>4, <1>a, <1>b DEF Prepare, Goto, BuildFails, Raise, At, Building, poolVars
<1>5. CASE Construct(c)
  <2>1. CASE BuildFails(c) /\ UNCHANGED <<open, runtimes>>
    BY <1>5, <1>a, <1>b, <2>1 DEF Goto, BuildFails, Raise, Building
  <2>2. CASE /\ open' = [open EXCEPT ![P(c)][S(c)] = @ + 1]
             /\ runtimes' = [runtimes EXCEPT ![P(c)] = @ \cup {S(c)}]
             /\ Return(c)
    BY <1>5, <1>a, <1>b, <2>2 DEF Construct, Goto, Return, At, Building
  <2>3. QED
    BY <1>5, <2>1, <2>2 DEF Construct
<1>6. QED
  BY <1>1, <1>2, <1>3, <1>4, <1>5

\* What a step of the close task does to the pool of open spaces.
LEMMA CloserRuntimes ==
    ASSUME RouterInv, NEW p \in Procs, Aclose(p) \/ CloseSteps(p)
    PROVE  \/ /\ UNCHANGED <<runtimes, refusing, open>>
              /\ closer'[p].pc \in {"await_pool", "next", "failed", "closed"}
           \/ \E s \in runtimes[p] :
                  /\ refusing' = [refusing EXCEPT ![p] = @ \cup {s}]
                  /\ closer'[p].pc = "drain" /\ closer'[p].space = s
                  /\ UNCHANGED <<runtimes, open>>
           \/ /\ closer[p].pc = "drain" /\ Operations(p, closer[p].space) = {}
              /\ closer'[p].pc = "close_store" /\ closer'[p].space = closer[p].space
              /\ UNCHANGED <<runtimes, refusing, open>>
           \/ /\ closer[p].pc = "close_store"
              /\ open' = [open EXCEPT ![p][closer[p].space] = @ - 1]
              /\ closer'[p].pc = "close_graph" /\ closer'[p].space = closer[p].space
              /\ UNCHANGED <<runtimes, refusing>>
           \/ /\ closer[p].pc = "close_graph"
              /\ runtimes' = [runtimes EXCEPT ![p] = @ \ {closer[p].space}]
              /\ closer'[p].pc = "next" /\ UNCHANGED <<refusing, open>>
<1>a. \A step, s : CloserGoto(p, step, s) => closer'[p].pc = step /\ closer'[p].space = s
  BY DEF RouterInv, Typed, CloserGoto
<1>1. CASE Aclose(p)
  BY <1>1, <1>a DEF Aclose, poolVars
<1>2. CASE CloseEntersPool(p)
  BY <1>2, <1>a DEF CloseEntersPool
<1>3. CASE CloseNext(p)
  BY <1>3, <1>a DEF CloseNext
<1>4. CASE CloseDrains(p)
  BY <1>4, <1>a DEF CloseDrains, Closing, poolVars
<1>5. CASE CloseStore(p)
  BY <1>5, <1>a DEF CloseStore, Closing
<1>6. CASE CloseGraph(p)
  BY <1>6, <1>a DEF CloseGraph, Closing
<1>7. CASE CloseEnds(p)
  BY <1>7, <1>a DEF CloseEnds
<1>8. QED
  BY <1>1, <1>2, <1>3, <1>4, <1>5, <1>6, <1>7 DEF CloseSteps

\* The close task goes on only where the router has begun to close.
LEMMA CloserCloses ==
    ASSUME RouterInv, NEW p \in Procs, Aclose(p) \/ CloseSteps(p)
    PROVE  closing'[p] /\ \A q \in Procs \ {p} : closing'[q] = closing[q]
<1>a. closing \in [Procs -> BOOLEAN] /\ (closer[p].pc # "none" => closing[p])
  BY DEF RouterInv, Typed, Closes
<1>1. CASE Aclose(p)
  BY <1>1, <1>a DEF Aclose
<1>2. CASE CloseSteps(p)
  BY <1>2, <1>a DEF CloseSteps, CloseEntersPool, CloseNext, CloseDrains, CloseStore, CloseGraph,
     CloseEnds, Closing
<1>3. QED
  BY <1>1, <1>2

\* A space is opened only where there is room for it.
LEMMA OpensNext == RouterInv /\ [Next]_vars => Opens'
<1> SUFFICES ASSUME RouterInv, [Next]_vars
             PROVE  Opens'
  OBVIOUS
<1>a. /\ client \in [Clients -> Place] /\ runtimes \in [Procs -> SUBSET Spaces]
      /\ refusing \in [Procs -> SUBSET Spaces]
      /\ limit \in Nat \ {0} /\ Opens /\ Pooled /\ Closes
      /\ \A c \in Clients : P(c) \in Procs /\ S(c) \in Spaces
      /\ Nobody \notin Clients /\ Closer \notin Clients
  BY Where, RouterConstants DEF RouterInv, Typed
<1>b. \A p \in Procs : IsFiniteSet(runtimes[p]) /\ Cardinality(runtimes[p]) \in Nat
  BY <1>a, RouterConstants, FS_Subset, FS_CardinalityType
<1>c. \A x \in Building : x \in Holding
  BY DEF Holding
<1>1. ASSUME NEW c \in Clients, NEW x, ClientMove(c, x)
      PROVE  Opens'
  <2>1. \A d \in Clients : client'[d] \in Building => client[d] \in Building
    BY <1>a, <1>c, <1>1 DEF ClientMove
  <2>2. runtimes' = runtimes /\ refusing' = refusing /\ limit' = limit
    BY <1>1 DEF ClientMove, poolVars, envVars
  <2>3. QED
    BY <1>a, <2>1, <2>2 DEF Opens, P, S
<1>2. ASSUME NEW c \in Clients, NEW x, BuildMove(c, x),
             \/ EnterPool(c) \/ Recheck(c) \/ ClaimPalaceDirectory(c) \/ LockSpace(c)
             \/ LockPalace(c) \/ Prepare(c) \/ Construct(c)
      PROVE  Opens'
  <2>1. /\ client'[c] = x /\ \A d \in Clients \ {c} : client'[d] = client[d]
        /\ limit' = limit /\ refusing' = refusing
    BY <1>a, <1>2 DEF BuildMove, envVars
  <2>2. x \in Building =>
            S(c) \notin runtimes[P(c)] /\ refusing[P(c)] = {} /\ Cardinality(runtimes[P(c)]) < limit
    BY <1>a, <1>b, <1>2, BuildRuntimes DEF Opens, Closes
  <2>3. CASE runtimes' = runtimes
    BY <1>a, <2>1, <2>2, <2>3 DEF Opens, P, S
  <2>4. CASE /\ client[c] = "construct" /\ x \in {"done", "resolved"}
             /\ runtimes' = [runtimes EXCEPT ![P(c)] = @ \cup {S(c)}]
    <3>1. /\ S(c) \notin runtimes[P(c)] /\ Cardinality(runtimes[P(c)]) < limit
          /\ client[c] \in Holding
      BY <1>a, <2>4 DEF Opens, Building, Holding
    <3>2. /\ runtimes'[P(c)] = runtimes[P(c)] \cup {S(c)}
          /\ \A q \in Procs \ {P(c)} : runtimes'[q] = runtimes[q]
      BY <1>a, <2>4
    <3>3. Cardinality(runtimes'[P(c)]) = Cardinality(runtimes[P(c)]) + 1
      BY <1>a, <1>b, <3>1, <3>2, FS_AddElement
    <3>4. Cardinality(runtimes'[P(c)]) <= limit
      BY <1>a, <1>b, <3>1, <3>3
    <3>5. ASSUME NEW d \in Clients, client'[d] \in Building
          PROVE  d # c /\ client[d] \in Building /\ P(d) # P(c)
      <4>1. d # c
        BY <2>1, <2>4, <3>5 DEF Building
      <4>2. client[d] \in Building
        BY <2>1, <3>5, <4>1
      <4>3. P(d) # P(c)
        BY <1>c, <3>1, <4>1, <4>2, OneOpens
      <4>4. QED
        BY <4>1, <4>2, <4>3
    <3>6. \A q \in Procs : Cardinality(runtimes'[q]) <= limit'
      BY <1>a, <2>1, <3>2, <3>4 DEF Opens
    <3>7. QED
      BY <1>a, <2>1, <3>2, <3>5, <3>6 DEF Opens, P, S
  <2>5. QED
    BY <1>2, <2>3, <2>4, BuildRuntimes
<1>3. ASSUME NEW p \in Procs, NEW y, CloserMove(p, y), Aclose(p) \/ CloseSteps(p)
      PROVE  Opens'
  <2>1. client' = client /\ limit' = limit
    BY <1>3 DEF CloserMove, clientVars, envVars
  <2>2. CASE UNCHANGED <<runtimes, refusing>>
    BY <1>a, <2>1, <2>2 DEF Opens, P, S
  <2>3. CASE ~UNCHANGED <<runtimes, refusing>>
    <3>1. CloseNext(p) \/ CloseGraph(p)
      BY <1>3, <2>3 DEF CloseSteps, Aclose, CloseEntersPool, CloseDrains, CloseStore, CloseEnds,
         poolVars
    <3>2. closer[p].pc \in Shutting
      BY <3>1 DEF CloseNext, CloseGraph, Closing, Shutting
    <3>3. pool[p] = Closer
      BY <1>a, <3>2 DEF Pooled
    <3>4. \A c \in Clients : client[c] \in Building => P(c) # p
      BY <1>a, <1>c, <3>3, InPool
    <3>5. \A q \in Procs \ {p} : runtimes'[q] = runtimes[q] /\ refusing'[q] = refusing[q]
      BY <1>a, <3>1 DEF CloseNext, CloseGraph
    <3>6. runtimes'[p] \subseteq runtimes[p]
      BY <1>a, <3>1 DEF CloseNext, CloseGraph
    <3>7. Cardinality(runtimes'[p]) <= Cardinality(runtimes[p])
      BY <1>b, <3>6, FS_Subset
    <3>8. Cardinality(runtimes'[p]) \in Nat
      BY <1>b, <3>6, FS_Subset, FS_CardinalityType
    <3>9. \A q \in Procs : Cardinality(runtimes'[q]) <= limit'
      BY <1>a, <1>b, <2>1, <3>5, <3>7, <3>8 DEF Opens
    <3>10. QED
      BY <1>a, <2>1, <3>4, <3>5, <3>9 DEF Opens, P, S
  <2>4. QED
    BY <2>2, <2>3
<1>4. ASSUME NEW p \in Procs, Die(p)
      PROVE  Opens'
  <2>1. /\ limit' = limit /\ runtimes'[p] = {}
        /\ \A c \in Clients : IF P(c) = p THEN client'[c] \in {"outside", "done"}
                                          ELSE client'[c] = client[c]
        /\ \A q \in Procs \ {p} : runtimes'[q] = runtimes[q] /\ refusing'[q] = refusing[q]
    BY <1>4, DieEffect
  <2>2. Cardinality(runtimes'[p]) = 0
    BY <2>1, FS_EmptySet
  <2>3. ASSUME NEW q \in Procs
        PROVE  Cardinality(runtimes'[q]) <= limit'
    <3>1. CASE q = p
      BY <1>a, <2>1, <2>2, <3>1
    <3>2. CASE q # p
      <4>1. runtimes'[q] = runtimes[q] /\ Cardinality(runtimes[q]) <= limit
        BY <1>a, <2>1, <3>2 DEF Opens
      <4>2. QED
        BY <2>1, <4>1
    <3>3. QED
      BY <3>1, <3>2
  <2>4. QED
    BY <1>a, <2>1, <2>3 DEF Opens, P, S, Building
<1>5. CASE UNCHANGED vars
  BY <1>5, <1>a DEF vars, poolVars, clientVars, envVars, Opens, P, S
<1>6. QED
  BY <1>1, <1>2, <1>3, <1>4, <1>5, RouterSteps

\* What the close task works on stays open and refuses operations.
LEMMA ClosesNext == RouterInv /\ [Next]_vars => Closes'
<1> SUFFICES ASSUME RouterInv, [Next]_vars
             PROVE  Closes'
  OBVIOUS
<1>a. /\ runtimes \in [Procs -> SUBSET Spaces] /\ refusing \in [Procs -> SUBSET Spaces]
      /\ closer \in [Procs -> [pc : CloserPlace, space : Spaces \cup {NoSpace}]]
      /\ Closes /\ \A c \in Clients : P(c) \in Procs
  BY Where DEF RouterInv, Typed
<1>1. ASSUME NEW c \in Clients, NEW x, ClientMove(c, x)
      PROVE  Closes'
  BY <1>1, <1>a DEF ClientMove, poolVars, closeVars, Closes
<1>2. ASSUME NEW c \in Clients, NEW x, BuildMove(c, x),
             \/ EnterPool(c) \/ Recheck(c) \/ ClaimPalaceDirectory(c) \/ LockSpace(c)
             \/ LockPalace(c) \/ Prepare(c) \/ Construct(c)
      PROVE  Closes'
  <2>1. closer' = closer /\ closing' = closing /\ refusing' = refusing
    BY <1>2 DEF BuildMove, closeVars
  <2>2. \A q \in Procs : runtimes[q] \subseteq runtimes'[q]
    BY <1>a, <1>2, BuildRuntimes
  <2>3. QED
    BY <1>a, <2>1, <2>2 DEF Closes
<1>3. ASSUME NEW p \in Procs, NEW y, CloserMove(p, y), Aclose(p) \/ CloseSteps(p)
      PROVE  Closes'
  <2>1. /\ closing'[p]
        /\ \A q \in Procs \ {p} : closing'[q] = closing[q] /\ closer'[q] = closer[q]
    BY <1>a, <1>3, CloserCloses DEF CloserMove
  <2>2. /\ closer'[p].pc \in {"drain", "close_store", "close_graph"} =>
               closer'[p].space \in runtimes'[p] \cap refusing'[p]
        /\ \A q \in Procs \ {p} : runtimes'[q] = runtimes[q] /\ refusing'[q] = refusing[q]
    <3>1. CASE /\ UNCHANGED <<runtimes, refusing, open>>
               /\ closer'[p].pc \in {"await_pool", "next", "failed", "closed"}
      BY <3>1
    <3>2. ASSUME NEW s \in runtimes[p], refusing' = [refusing EXCEPT ![p] = @ \cup {s}],
                 closer'[p].pc = "drain", closer'[p].space = s, UNCHANGED <<runtimes, open>>
          PROVE  <2>2!1 /\ <2>2!2
      BY <1>a, <3>2
    <3>3. CASE /\ closer[p].pc \in {"drain", "close_store"} /\ UNCHANGED <<runtimes, refusing>>
               /\ closer'[p].space = closer[p].space
      BY <1>a, <3>3 DEF Closes
    <3>4. CASE /\ runtimes' = [runtimes EXCEPT ![p] = @ \ {closer[p].space}]
               /\ closer'[p].pc = "next" /\ UNCHANGED refusing
      BY <1>a, <3>4
    <3>5. QED
      BY <1>3, <3>1, <3>2, <3>3, <3>4, CloserRuntimes
  <2>3. QED
    BY <1>a, <2>1, <2>2 DEF Closes
<1>4. ASSUME NEW p \in Procs, Die(p)
      PROVE  Closes'
  <2>1. /\ closer'[p].pc = "none" /\ refusing'[p] = {}
        /\ \A q \in Procs \ {p} :
               /\ runtimes'[q] = runtimes[q] /\ refusing'[q] = refusing[q]
               /\ closing'[q] = closing[q] /\ closer'[q] = closer[q]
    BY <1>4, DieEffect
  <2>2. QED
    BY <1>a, <2>1 DEF Closes
<1>5. CASE UNCHANGED vars
  BY <1>5, <1>a DEF vars, poolVars, closeVars, Closes
<1>6. QED
  BY <1>1, <1>2, <1>3, <1>4, <1>5, RouterSteps

\* A store is open while its runtime is in the pool, and once.
LEMMA StoresNext == RouterInv /\ [Next]_vars => Stores'
<1> SUFFICES ASSUME RouterInv, [Next]_vars
             PROVE  Stores'
  OBVIOUS
<1>a. /\ runtimes \in [Procs -> SUBSET Spaces]
      /\ open \in [Procs -> [Spaces -> Nat]]
      /\ closer \in [Procs -> [pc : CloserPlace, space : Spaces \cup {NoSpace}]]
      /\ Closes /\ Stores /\ Opens /\ Pooled
      /\ \A c \in Clients : P(c) \in Procs /\ S(c) \in Spaces
      /\ Nobody \notin Clients /\ Closer \notin Clients
  BY Where, RouterConstants DEF RouterInv, Typed
<1>1. CASE UNCHANGED <<runtimes, open, closer>>
  BY <1>a, <1>1 DEF Stores
<1>2. ASSUME NEW c \in Clients, client[c] = "construct", UNCHANGED closer,
             runtimes' = [runtimes EXCEPT ![P(c)] = @ \cup {S(c)}],
             open' = [open EXCEPT ![P(c)][S(c)] = @ + 1]
      PROVE  Stores'
  <2>1. /\ S(c) \notin runtimes[P(c)] /\ open[P(c)][S(c)] = 0
        /\ ~(closer[P(c)].pc = "close_graph" /\ closer[P(c)].space = S(c))
    BY <1>a, <1>2 DEF Opens, Building, Stores, Closes
  <2>2. /\ runtimes'[P(c)] = runtimes[P(c)] \cup {S(c)}
        /\ \A q \in Procs \ {P(c)} : runtimes'[q] = runtimes[q]
    BY <1>a, <1>2
  <2>3. /\ open'[P(c)][S(c)] = 1
        /\ \A s \in Spaces \ {S(c)} : open'[P(c)][s] = open[P(c)][s]
        /\ \A q \in Procs \ {P(c)} : open'[q] = open[q]
    BY <1>a, <1>2, <2>1
  <2>4. ASSUME NEW q \in Procs, NEW s \in Spaces
        PROVE  open'[q][s] = IF s \in runtimes'[q]
                                   /\ ~(closer'[q].pc = "close_graph" /\ closer'[q].space = s)
                             THEN 1 ELSE 0
    <3>1. open[q][s] = IF s \in runtimes[q]
                             /\ ~(closer[q].pc = "close_graph" /\ closer[q].space = s)
                       THEN 1 ELSE 0
      BY <1>a DEF Stores
    <3>2. closer' = closer
      BY <1>2
    <3>3. CASE q = P(c) /\ s = S(c)
      BY <1>a, <2>1, <2>2, <2>3, <3>2, <3>3
    <3>4. CASE q = P(c) /\ s # S(c)
      BY <1>a, <2>2, <2>3, <3>1, <3>2, <3>4
    <3>5. CASE q # P(c)
      BY <2>2, <2>3, <3>1, <3>2, <3>5
    <3>6. QED
      BY <3>3, <3>4, <3>5
  <2>5. QED
    BY <2>4 DEF Stores
<1>3. ASSUME NEW p \in Procs, NEW y, CloserMove(p, y), Aclose(p) \/ CloseSteps(p)
      PROVE  Stores'
  <2>1. \A q \in Procs \ {p} : closer'[q] = closer[q]
    BY <1>a, <1>3 DEF CloserMove
  <2>2. ASSUME \A q \in Procs \ {p} : runtimes'[q] = runtimes[q] /\ open'[q] = open[q],
               \A s \in Spaces : open'[p][s] =
                   IF s \in runtimes'[p] /\ ~(closer'[p].pc = "close_graph" /\ closer'[p].space = s)
                   THEN 1 ELSE 0
        PROVE  Stores'
    BY <1>a, <2>1, <2>2 DEF Stores
  <2>3. CASE /\ UNCHANGED <<runtimes, open>> /\ closer'[p].pc # "close_graph"
             /\ closer[p].pc # "close_graph"
    BY <1>a, <2>2, <2>3 DEF Stores
  <2>4. CASE /\ closer[p].pc = "close_store"
             /\ open' = [open EXCEPT ![p][closer[p].space] = @ - 1]
             /\ closer'[p].pc = "close_graph" /\ closer'[p].space = closer[p].space
             /\ UNCHANGED runtimes
    <3>1. closer[p].space \in runtimes[p] /\ closer[p].space \in Spaces
      BY <1>a, <2>4 DEF Closes
    <3>2. open[p][closer[p].space] = 1
      BY <1>a, <2>4, <3>1 DEF Stores
    <3>3. /\ open'[p][closer[p].space] = 0
          /\ \A s \in Spaces \ {closer[p].space} : open'[p][s] = open[p][s]
          /\ \A q \in Procs \ {p} : open'[q] = open[q]
      BY <1>a, <2>4, <3>1, <3>2
    <3>4. \A s \in Spaces : open[p][s] = IF s \in runtimes[p] THEN 1 ELSE 0
      BY <1>a, <2>4 DEF Stores
    <3>5. QED
      BY <2>2, <2>4, <3>1, <3>3, <3>4
  <2>5. CASE /\ closer[p].pc = "close_graph"
             /\ runtimes' = [runtimes EXCEPT ![p] = @ \ {closer[p].space}]
             /\ closer'[p].pc = "next" /\ UNCHANGED open
    <3>1. /\ runtimes'[p] = runtimes[p] \ {closer[p].space}
          /\ \A q \in Procs \ {p} : runtimes'[q] = runtimes[q]
      BY <1>a, <2>5
    <3>2. QED
      BY <1>a, <2>2, <2>5, <3>1 DEF Stores
  <2>6. closer[p].pc = "close_graph" => CloseGraph(p)
    BY <1>3
       DEF CloseSteps, Aclose, CloseEntersPool, CloseNext, CloseDrains, CloseStore, CloseEnds,
       Closing
  <2>7. CloseGraph(p) => runtimes' = [runtimes EXCEPT ![p] = @ \ {closer[p].space}]
                         /\ open' = open /\ closer[p].pc = "close_graph"
    BY DEF CloseGraph, Closing
  <2>8. CloseGraph(p) => closer'[p].pc = "next"
    BY <1>a DEF CloseGraph, CloserGoto
  <2>9. CASE CloseGraph(p)
    BY <2>5, <2>7, <2>8, <2>9
  <2>10. CASE ~CloseGraph(p)
    <3>1. closer[p].pc # "close_graph"
      BY <2>6, <2>10
    <3>2. QED
      BY <1>3, <2>3, <2>4, <3>1, CloserRuntimes
  <2>11. QED
    BY <2>9, <2>10
<1>4. ASSUME NEW p \in Procs, Die(p)
      PROVE  Stores'
  <2>1. /\ runtimes'[p] = {} /\ \A s \in Spaces : open'[p][s] = 0
        /\ \A q \in Procs \ {p} :
               runtimes'[q] = runtimes[q] /\ open'[q] = open[q] /\ closer'[q] = closer[q]
    BY <1>4, DieEffect
  <2>2. QED
    BY <1>a, <2>1 DEF Stores
<1>5. ASSUME NEW c \in Clients, NEW x, ClientMove(c, x)
      PROVE  Stores'
  BY <1>1, <1>5 DEF ClientMove, poolVars, closeVars
<1>6. ASSUME NEW c \in Clients, NEW x, BuildMove(c, x),
             \/ EnterPool(c) \/ Recheck(c) \/ ClaimPalaceDirectory(c) \/ LockSpace(c)
             \/ LockPalace(c) \/ Prepare(c) \/ Construct(c)
      PROVE  Stores'
  <2>1. closer' = closer
    BY <1>6 DEF BuildMove, closeVars
  <2>2. QED
    BY <1>1, <1>2, <1>6, <2>1, BuildRuntimes
<1>7. CASE UNCHANGED vars
  BY <1>1, <1>7 DEF vars, poolVars, closeVars
<1>8. QED
  BY <1>3, <1>4, <1>5, <1>6, <1>7, RouterSteps

\* A client works on a space that is open, and stays so while it works.
LEMMA ServesNext == RouterInv /\ [Next]_vars => Serves'
<1> SUFFICES ASSUME RouterInv, [Next]_vars
             PROVE  Serves'
  OBVIOUS
<1>a. /\ client \in [Clients -> Place] /\ runtimes \in [Procs -> SUBSET Spaces]
      /\ refusing \in [Procs -> SUBSET Spaces]
      /\ closer \in [Procs -> [pc : CloserPlace, space : Spaces \cup {NoSpace}]]
      /\ Serves /\ Closes /\ \A c \in Clients : P(c) \in Procs /\ S(c) \in Spaces
  BY Where DEF RouterInv, Typed
<1>1. ASSUME NEW c \in Clients, NEW x, ClientMove(c, x)
      PROVE  Serves'
  <2>1. /\ client'[c] = x /\ \A d \in Clients \ {c} : client'[d] = client[d]
        /\ UNCHANGED <<runtimes, refusing, closer>>
        /\ x = "resolved" => S(c) \in runtimes[P(c)] \cup refusing[P(c)]
        /\ x \in Operating =>
               /\ S(c) \in runtimes[P(c)]
               /\ ~(/\ closer[P(c)].pc \in {"close_store", "close_graph"}
                    /\ closer[P(c)].space = S(c))
    BY <1>a, <1>1 DEF ClientMove, poolVars, closeVars
  <2>2. QED
    BY <1>a, <2>1 DEF Serves, P, S
<1>2. ASSUME NEW c \in Clients, NEW x, BuildMove(c, x),
             \/ EnterPool(c) \/ Recheck(c) \/ ClaimPalaceDirectory(c) \/ LockSpace(c)
             \/ LockPalace(c) \/ Prepare(c) \/ Construct(c)
      PROVE  Serves'
  <2>1. /\ client'[c] = x /\ \A d \in Clients \ {c} : client'[d] = client[d]
        /\ closer' = closer /\ refusing' = refusing
        /\ x \in Holding \cup {"resolved", "done"}
    BY <1>a, <1>2 DEF BuildMove, closeVars
  <2>2. \A q \in Procs : runtimes[q] \subseteq runtimes'[q]
    BY <1>a, <1>2, BuildRuntimes
  <2>3. x = "resolved" => S(c) \in runtimes'[P(c)]
    BY <1>2, BuildRuntimes
  <2>4. x \notin Operating
    BY <2>1 DEF Holding, Building, Operating
  <2>5. QED
    BY <1>a, <2>1, <2>2, <2>3, <2>4 DEF Serves, P, S
<1>3. ASSUME NEW p \in Procs, NEW y, CloserMove(p, y), Aclose(p) \/ CloseSteps(p)
      PROVE  Serves'
  <2>1. client' = client /\ \A q \in Procs \ {p} : closer'[q] = closer[q]
    BY <1>a, <1>3 DEF CloserMove, clientVars
  <2>2. ASSUME \A q \in Procs : refusing[q] \subseteq refusing'[q],
               \A q \in Procs \ {p} : runtimes'[q] = runtimes[q],
               \A s \in runtimes[p] : s \in runtimes'[p]
                   \/ (s \in refusing[p] /\ closer[p].pc = "close_graph" /\ closer[p].space = s),
               \/ closer'[p].pc \notin {"close_store", "close_graph"}
               \/ closer'[p].space = closer[p].space /\ closer[p].pc \in {"close_store", "close_graph"}
               \/ Operations(p, closer'[p].space) = {}
        PROVE  Serves'
    <3>1. ASSUME NEW c \in Clients, client[c] = "resolved"
          PROVE  S(c) \in runtimes'[P(c)] \cup refusing'[P(c)]
      BY <1>a, <2>2, <3>1 DEF Serves
    <3>2. ASSUME NEW c \in Clients, client[c] \in Operating
          PROVE  /\ S(c) \in runtimes'[P(c)]
                 /\ ~(/\ closer'[P(c)].pc \in {"close_store", "close_graph"}
                      /\ closer'[P(c)].space = S(c))
      <4>1. /\ S(c) \in runtimes[P(c)]
            /\ ~(/\ closer[P(c)].pc \in {"close_store", "close_graph"}
                 /\ closer[P(c)].space = S(c))
        BY <1>a, <3>2 DEF Serves
      <4>2. CASE P(c) # p
        BY <1>a, <2>1, <2>2, <4>1, <4>2
      <4>3. CASE P(c) = p
        <5>1. S(c) \in runtimes'[P(c)]
          BY <2>2, <4>1, <4>3
        <5>2. c \in Operations(p, S(c))
          BY <3>2, <4>3 DEF Operations
        <5>3. QED
          BY <2>2, <4>1, <4>3, <5>1, <5>2
      <4>4. QED
        BY <4>2, <4>3
    <3>3. QED
      BY <2>1, <3>1, <3>2 DEF Serves, P, S
  <2>3. CASE UNCHANGED <<runtimes, refusing>> /\ closer'[p].pc \notin {"close_store", "close_graph"}
    BY <2>2, <2>3
  <2>4. ASSUME NEW s \in runtimes[p], refusing' = [refusing EXCEPT ![p] = @ \cup {s}],
               closer'[p].pc = "drain", runtimes' = runtimes
        PROVE  Serves'
    BY <1>a, <2>2, <2>4
  <2>5. CASE /\ Operations(p, closer[p].space) = {} /\ closer'[p].space = closer[p].space
             /\ UNCHANGED <<runtimes, refusing>>
    BY <2>2, <2>5
  <2>6. CASE /\ closer[p].pc = "close_store" /\ closer'[p].space = closer[p].space
             /\ UNCHANGED <<runtimes, refusing>>
    BY <2>2, <2>6
  <2>7. CASE /\ closer[p].pc = "close_graph"
             /\ runtimes' = [runtimes EXCEPT ![p] = @ \ {closer[p].space}]
             /\ closer'[p].pc = "next" /\ UNCHANGED refusing
    <3>1. closer[p].space \in refusing[p]
      BY <1>a, <2>7 DEF Closes
    <3>2. QED
      BY <1>a, <2>2, <2>7, <3>1
  <2>8. QED
    BY <1>3, <2>3, <2>4, <2>5, <2>6, <2>7, CloserRuntimes
<1>4. ASSUME NEW p \in Procs, Die(p)
      PROVE  Serves'
  <2>1. /\ \A c \in Clients : IF P(c) = p THEN client'[c] \in {"outside", "done"}
                                          ELSE client'[c] = client[c]
        /\ \A q \in Procs \ {p} :
               /\ runtimes'[q] = runtimes[q] /\ refusing'[q] = refusing[q]
               /\ closer'[q] = closer[q]
    BY <1>4, DieEffect
  <2>2. QED
    BY <1>a, <2>1 DEF Serves, P, S, Operating
<1>5. CASE UNCHANGED vars
  BY <1>5, <1>a DEF vars, poolVars, closeVars, clientVars, Serves, P, S
<1>6. QED
  BY <1>1, <1>2, <1>3, <1>4, <1>5, RouterSteps

----------------------------------------------------------------------------
(* Claims.                                                                  *)

\* The claims of p once c, in its pool, has gone to x.
LEMMA ClaimedAfter ==
    ASSUME Typed, NEW c \in Clients, NEW x, BuildMove(c, x), NEW places
    PROVE  \A s \in Spaces : Opening(P(c), s, places)' <=> s = S(c) /\ x \in places /\ x \in Holding
<1>1. /\ client'[c] = x /\ pool'[P(c)] = IF x \in Holding THEN c ELSE Nobody
      /\ Nobody \notin Clients
  BY Where, RouterConstants DEF BuildMove, Typed, Holding, Building
<1>2. QED
  BY <1>1 DEF Opening, P, S

\* What p claims while c is in its pool.
LEMMA ClaimedBefore ==
    ASSUME RouterInv, NEW c \in Clients, client[c] \in Holding \cup {"await_pool"},
           pool[P(c)] \in {c, Nobody}, NEW places, places \subseteq Building
    PROVE  \A s \in Spaces : Opening(P(c), s, places) <=> s = S(c) /\ client[c] \in places
<1>1. client[c] \in Holding <=> pool[P(c)] = c
  BY DEF RouterInv, Pooled
<1>2. "await_pool" \notin Building /\ \A y \in places : y \in Holding
  BY DEF Building, Holding
<1>3. QED
  BY <1>1, <1>2, RouterConstants DEF Opening

\* The other processes keep their claims.
LEMMA ClaimedOthers ==
    ASSUME RouterInv, NEW p \in Procs, NEW q \in Procs \ {p}, dirs' = dirs,
           runtimes'[q] = runtimes[q], locks'[q] = locks[q], palace_dirs'[q] = palace_dirs[q],
           pool'[q] = pool[q], \A f \in Files : flock'[f] = q <=> flock[f] = q,
           \A c \in Clients : P(c) # p => client'[c] = client[c]
    PROVE  ClaimedAt(q)'
<1>1. \A c \in Clients : pool[q] = c => client'[c] = client[c]
  BY DEF RouterInv, Pooled
<1>2. ClaimedAt(q)
  BY DEF RouterInv, Claimed
<1>3. QED
  BY <1>1, <1>2, ClaimedElsewhere

\* Released claims are those of the spaces left in the pool.
LEMMA ClaimedReleased ==
    ASSUME RouterInv, NEW p \in Procs, NEW s \in Spaces, Released(p, s), dirs' = dirs,
           pool'[p] \notin Clients, runtimes'[p] = runtimes[p] \ {s},
           \A t \in Spaces \ {s} : \A places \in SUBSET Building : ~Opening(p, t, places)
    PROVE  ClaimedAt(p)'
<1>1. ClaimedAt(p)
  BY DEF RouterInv, Claimed
<1>2. /\ {"prepare", "construct"} \in SUBSET Building
      /\ {"lock_palace", "prepare", "construct"} \in SUBSET Building
      /\ Building \ {"claim"} \in SUBSET Building
  BY DEF Building
<1>3. ASSUME NEW t \in Spaces
      PROVE  /\ t \in locks'[p] <=> t \in runtimes'[p]
             /\ flock'[<<"space", t>>] = p <=> t \in runtimes'[p]
             /\ palace_dirs'[p][dirs'[p][t]] = t <=> t \in runtimes'[p]
  <2>1. t # s => /\ t \in locks[p] <=> t \in runtimes[p]
                 /\ flock[<<"space", t>>] = p <=> t \in runtimes[p]
                 /\ palace_dirs[p][dirs[p][t]] = t <=> t \in runtimes[p]
    BY <1>1, <1>2 DEF ClaimedAt
  <2>2. QED
    BY <2>1 DEF Released
<1>4. ASSUME NEW d \in Dirs
      PROVE  /\ flock'[<<"palace", d>>] = p <=> \E t \in locks'[p] : dirs'[p][t] = d
             /\ palace_dirs'[p][d] # NoSpace => dirs'[p][palace_dirs'[p][d]] = d
  BY DEF Released
<1>5. QED
  BY <1>3, <1>4, ClaimedIdle

\* No space but the one that is being opened has claims outside the pool of
\* open spaces.
LEMMA OnlyOneOpening ==
    ASSUME RouterInv, NEW c \in Clients, client[c] \in Holding, NEW t \in Spaces \ {S(c)},
           NEW places
    PROVE  ~Opening(P(c), t, places)
BY InPool DEF Opening

\* An opening that fails leaves the claims of the spaces in the pool.
LEMMA BuildFailsClaimed ==
    ASSUME RouterInv, NEW c \in Clients, BuildFails(c), dirs' = dirs, runtimes' = runtimes,
           client[c] \in Building, client[c] # "lock_palace"
    PROVE  Claimed'
<1>a. /\ P(c) \in Procs /\ S(c) \in Spaces /\ Typed /\ client[c] \in Holding
      /\ Nobody \notin Clients
  BY Where, RouterConstants DEF RouterInv, Holding
<1>b. S(c) \notin runtimes[P(c)]
  BY DEF RouterInv, Opens
<1>c. ClaimedAt(P(c))
  BY <1>a DEF RouterInv, Claimed
<1>1. /\ S(c) \in locks[P(c)] <=> client[c] \in {"prepare", "construct"}
      /\ flock[<<"space", S(c)>>] = P(c) <=> client[c] \in {"lock_palace", "prepare", "construct"}
  <2>1. \A places : Opening(P(c), S(c), places) <=> client[c] \in places
    BY <1>a, InPool DEF Opening
  <2>2. QED
    BY <1>a, <1>b, <1>c, <2>1 DEF ClaimedAt
<1>2. flock[<<"space", S(c)>>] = P(c) <=> S(c) \in locks[P(c)]
  BY <1>1
<1>3. Released(P(c), S(c))
  BY <1>a, <1>2, ReleaseEffect DEF BuildFails
<1>4. /\ pool'[P(c)] = Nobody /\ \A q \in Procs \ {P(c)} : pool'[q] = pool[q]
      /\ \A d \in Clients \ {c} : client'[d] = client[d]
  BY <1>a DEF BuildFails, LeavePool, Raise, Goto, Typed
<1>5. runtimes'[P(c)] = runtimes[P(c)] \ {S(c)}
  BY <1>b
<1>6. ClaimedAt(P(c))'
  BY <1>a, <1>3, <1>4, <1>5, OnlyOneOpening, ClaimedReleased
<1>7. ASSUME NEW q \in Procs \ {P(c)}
      PROVE  ClaimedAt(q)'
  BY <1>a, <1>3, <1>4, ClaimedOthers DEF Released
<1>8. ASSUME NEW q \in Procs
      PROVE  ClaimedAt(q)'
  <2>1. CASE q = P(c)
    BY <1>6, <2>1
  <2>2. CASE q # P(c)
    BY <1>7, <2>2
  <2>3. QED
    BY <2>1, <2>2
<1>9. QED
  BY <1>8 DEF Claimed

\* The three sets of places at which an opening has made a claim.
LEMMA ClaimPlaces ==
    /\ {"prepare", "construct"} \subseteq Building
    /\ {"lock_palace", "prepare", "construct"} \subseteq Building
    /\ Building \ {"claim"} \subseteq Building
BY DEF Building

\* What the claims must be once c, in the pool of its process, is at x: it is
\* enough to look at its process.
LEMMA ClaimedStep ==
    ASSUME RouterInv, NEW c \in Clients, NEW x, BuildMove(c, x),
           \A q \in Procs \ {P(c)} :
               /\ runtimes'[q] = runtimes[q] /\ locks'[q] = locks[q]
               /\ palace_dirs'[q] = palace_dirs[q]
               /\ \A f \in Files : flock'[f] = q <=> flock[f] = q,
           \A s \in Spaces :
               LET Mine(places) == s = S(c) /\ x \in places IN
               /\ s \in locks'[P(c)] <=> s \in runtimes'[P(c)] \/ Mine({"prepare", "construct"})
               /\ flock'[<<"space", s>>] = P(c) <=>
                      s \in runtimes'[P(c)] \/ Mine({"lock_palace", "prepare", "construct"})
               /\ palace_dirs'[P(c)][dirs[P(c)][s]] = s <=>
                      s \in runtimes'[P(c)] \/ Mine(Building \ {"claim"}),
           \A d \in Dirs :
               /\ flock'[<<"palace", d>>] = P(c) <=> \E s \in locks'[P(c)] : dirs[P(c)][s] = d
               /\ palace_dirs'[P(c)][d] # NoSpace => dirs[P(c)][palace_dirs'[P(c)][d]] = d
    PROVE  Claimed'
<1>a. /\ P(c) \in Procs /\ Typed /\ dirs' = dirs
      /\ \A d \in Clients \ {c} : client'[d] = client[d]
      /\ \A q \in Procs \ {P(c)} : pool'[q] = pool[q]
  BY Where DEF RouterInv, BuildMove, Typed, envVars
<1>1. ASSUME NEW s \in Spaces
      PROVE  /\ Opening(P(c), s, {"prepare", "construct"})' <=>
                    s = S(c) /\ x \in {"prepare", "construct"}
             /\ Opening(P(c), s, {"lock_palace", "prepare", "construct"})' <=>
                    s = S(c) /\ x \in {"lock_palace", "prepare", "construct"}
             /\ Opening(P(c), s, Building \ {"claim"})' <=> s = S(c) /\ x \in Building \ {"claim"}
  <2>1. \A y \in Building : y \in Holding
    BY DEF Holding
  <2>2. QED
    BY <1>a, <2>1, ClaimedAfter, ClaimPlaces
<1>2. ClaimedAt(P(c))'
  BY <1>a, <1>1 DEF ClaimedAt, P
<1>3. ASSUME NEW q \in Procs \ {P(c)}
      PROVE  ClaimedAt(q)'
  BY <1>a, ClaimedOthers
<1>4. ASSUME NEW q \in Procs
      PROVE  ClaimedAt(q)'
  <2>1. CASE q = P(c)
    BY <1>2, <2>1
  <2>2. CASE q # P(c)
    BY <1>3, <2>2
  <2>3. QED
    BY <2>1, <2>2
<1>5. QED
  BY <1>4 DEF Claimed

\* The claims of the process of c, in its pool or about to enter it.
LEMMA ClaimedNow ==
    ASSUME RouterInv, NEW c \in Clients, client[c] \in Holding \cup {"await_pool"},
           pool[P(c)] \in {c, Nobody}
    PROVE  /\ \A s \in Spaces :
                  LET Mine(places) == s = S(c) /\ client[c] \in places IN
                  /\ s \in locks[P(c)] <=> s \in runtimes[P(c)] \/ Mine({"prepare", "construct"})
                  /\ flock[<<"space", s>>] = P(c) <=>
                         s \in runtimes[P(c)] \/ Mine({"lock_palace", "prepare", "construct"})
                  /\ palace_dirs[P(c)][dirs[P(c)][s]] = s <=>
                         s \in runtimes[P(c)] \/ Mine(Building \ {"claim"})
           /\ \A d \in Dirs :
                  /\ flock[<<"palace", d>>] = P(c) <=> \E s \in locks[P(c)] : dirs[P(c)][s] = d
                  /\ palace_dirs[P(c)][d] # NoSpace => dirs[P(c)][palace_dirs[P(c)][d]] = d
<1>1. ClaimedAt(P(c))
  BY Where DEF RouterInv, Claimed
<1>2. ASSUME NEW s \in Spaces
      PROVE  /\ Opening(P(c), s, {"prepare", "construct"}) <=>
                    s = S(c) /\ client[c] \in {"prepare", "construct"}
             /\ Opening(P(c), s, {"lock_palace", "prepare", "construct"}) <=>
                    s = S(c) /\ client[c] \in {"lock_palace", "prepare", "construct"}
             /\ Opening(P(c), s, Building \ {"claim"}) <=>
                    s = S(c) /\ client[c] \in Building \ {"claim"}
  BY ClaimedBefore, ClaimPlaces
<1>3. QED
  BY <1>1, <1>2 DEF ClaimedAt

\* A step of an opening that claims nothing leaves the claims as they are.
LEMMA NothingClaimed ==
    ASSUME RouterInv, NEW c \in Clients, NEW x, BuildMove(c, x), UNCHANGED claimVars,
           runtimes' = runtimes,
           \/ /\ client[c] \in {"await_pool", "recheck"}
              /\ x \in {"recheck", "claim", "resolved", "done"}
           \/ client[c] = "prepare" /\ x = "construct"
    PROVE  Claimed'
<1>1. client[c] \in Holding \cup {"await_pool"} /\ pool[P(c)] \in {c, Nobody}
  BY DEF BuildMove
<1>2. /\ x \in {"prepare", "construct"} <=> client[c] \in {"prepare", "construct"}
      /\ x \in {"lock_palace", "prepare", "construct"} <=>
             client[c] \in {"lock_palace", "prepare", "construct"}
      /\ x \in Building \ {"claim"} <=> client[c] \in Building \ {"claim"}
  BY DEF Building
<1>3. UNCHANGED <<flock, locks, palace_dirs>>
  BY DEF claimVars
<1>4. /\ \A s \in Spaces :
             LET Mine(places) == s = S(c) /\ x \in places IN
             /\ s \in locks'[P(c)] <=> s \in runtimes'[P(c)] \/ Mine({"prepare", "construct"})
             /\ flock'[<<"space", s>>] = P(c) <=>
                    s \in runtimes'[P(c)] \/ Mine({"lock_palace", "prepare", "construct"})
             /\ palace_dirs'[P(c)][dirs[P(c)][s]] = s <=>
                    s \in runtimes'[P(c)] \/ Mine(Building \ {"claim"})
      /\ \A d \in Dirs :
             /\ flock'[<<"palace", d>>] = P(c) <=> \E s \in locks'[P(c)] : dirs[P(c)][s] = d
             /\ palace_dirs'[P(c)][d] # NoSpace => dirs[P(c)][palace_dirs'[P(c)][d]] = d
  BY <1>1, <1>2, <1>3, ClaimedNow
<1>5. QED
  BY <1>3, <1>4, ClaimedStep

\* The directory is taken.
LEMMA DirectoryClaimed ==
    ASSUME RouterInv, NEW c \in Clients, BuildMove(c, "lock_space"), client[c] = "claim",
           palace_dirs[P(c)][DirOf(c)] \in {NoSpace, S(c)},
           palace_dirs' = [palace_dirs EXCEPT ![P(c)][DirOf(c)] = S(c)],
           UNCHANGED <<flock, locks, runtimes>>
    PROVE  Claimed'
<1>a. /\ P(c) \in Procs /\ S(c) \in Spaces /\ DirOf(c) \in Dirs /\ Typed
      /\ S(c) \notin runtimes[P(c)] /\ NoSpace \notin Spaces
  BY Where, RouterConstants DEF RouterInv, Opens, Building
<1>b. client[c] \in Holding \cup {"await_pool"} /\ pool[P(c)] \in {c, Nobody}
  BY DEF BuildMove
<1>1. /\ palace_dirs'[P(c)][DirOf(c)] = S(c)
      /\ \A d \in Dirs \ {DirOf(c)} : palace_dirs'[P(c)][d] = palace_dirs[P(c)][d]
      /\ \A q \in Procs \ {P(c)} : palace_dirs'[q] = palace_dirs[q]
  BY <1>a DEF Typed
<1>2. ASSUME NEW s \in Spaces
      PROVE  palace_dirs'[P(c)][dirs[P(c)][s]] = s <=>
                 s \in runtimes[P(c)] \/ (s = S(c) /\ "lock_space" \in Building \ {"claim"})
  <2>1. palace_dirs[P(c)][dirs[P(c)][s]] = s <=> s \in runtimes[P(c)]
    BY <1>b, ClaimedNow
  <2>2. dirs[P(c)][s] \in Dirs /\ "lock_space" \in Building \ {"claim"}
    BY <1>a DEF Typed, Building
  <2>3. CASE s = S(c)
    BY <1>1, <2>2, <2>3 DEF DirOf
  <2>4. CASE s # S(c) /\ dirs[P(c)][s] = DirOf(c)
    BY <1>a, <1>1, <2>1, <2>4
  <2>5. CASE s # S(c) /\ dirs[P(c)][s] # DirOf(c)
    BY <1>1, <2>1, <2>2, <2>5
  <2>6. QED
    BY <2>3, <2>4, <2>5
<1>3. ASSUME NEW s \in Spaces
      PROVE  /\ s \in locks'[P(c)] <=>
                    s \in runtimes'[P(c)] \/ (s = S(c) /\ "lock_space" \in {"prepare", "construct"})
             /\ flock'[<<"space", s>>] = P(c) <=>
                    s \in runtimes'[P(c)]
                    \/ (s = S(c) /\ "lock_space" \in {"lock_palace", "prepare", "construct"})
  BY <1>b, ClaimedNow
<1>4. ASSUME NEW d \in Dirs
      PROVE  /\ flock'[<<"palace", d>>] = P(c) <=> \E s \in locks'[P(c)] : dirs[P(c)][s] = d
             /\ palace_dirs'[P(c)][d] # NoSpace => dirs[P(c)][palace_dirs'[P(c)][d]] = d
  <2>1. /\ flock[<<"palace", d>>] = P(c) <=> \E s \in locks[P(c)] : dirs[P(c)][s] = d
        /\ palace_dirs[P(c)][d] # NoSpace => dirs[P(c)][palace_dirs[P(c)][d]] = d
    BY <1>b, ClaimedNow
  <2>2. QED
    BY <1>1, <2>1 DEF DirOf
<1>5. QED
  BY <1>1, <1>2, <1>3, <1>4, ClaimedStep

\* The lock file of the space is taken.
LEMMA SpaceClaimed ==
    ASSUME RouterInv, NEW c \in Clients, BuildMove(c, "lock_palace"), client[c] = "lock_space",
           flock[SpaceFile(c)] = NoProc, flock' = [flock EXCEPT ![SpaceFile(c)] = P(c)],
           UNCHANGED <<locks, palace_dirs, runtimes>>
    PROVE  Claimed'
<1>a. P(c) \in Procs /\ S(c) \in Spaces /\ SpaceFile(c) \in Files /\ Typed /\ NoProc \notin Procs
  BY Where, RouterConstants DEF RouterInv
<1>b. client[c] \in Holding \cup {"await_pool"} /\ pool[P(c)] \in {c, Nobody}
  BY DEF BuildMove
<1>1. /\ flock'[SpaceFile(c)] = P(c)
      /\ \A f \in Files \ {SpaceFile(c)} : flock'[f] = flock[f]
  BY <1>a DEF Typed
<1>2. \A q \in Procs \ {P(c)} : \A f \in Files : flock'[f] = q <=> flock[f] = q
  BY <1>a, <1>1
<1>3. ASSUME NEW s \in Spaces
      PROVE  flock'[<<"space", s>>] = P(c) <=>
                 s \in runtimes'[P(c)]
                 \/ (s = S(c) /\ "lock_palace" \in {"lock_palace", "prepare", "construct"})
  <2>1. flock[<<"space", s>>] = P(c) <=> s \in runtimes[P(c)]
    BY <1>b, ClaimedNow
  <2>2. <<"space", s>> \in Files
    BY DEF Files
  <2>3. QED
    BY <1>1, <2>1, <2>2 DEF SpaceFile
<1>4. ASSUME NEW s \in Spaces
      PROVE  /\ s \in locks'[P(c)] <=>
                    s \in runtimes'[P(c)] \/ (s = S(c) /\ "lock_palace" \in {"prepare", "construct"})
             /\ palace_dirs'[P(c)][dirs[P(c)][s]] = s <=>
                    s \in runtimes'[P(c)] \/ (s = S(c) /\ "lock_palace" \in Building \ {"claim"})
  <2>1. /\ s \in locks[P(c)] <=>
               s \in runtimes[P(c)] \/ (s = S(c) /\ client[c] \in {"prepare", "construct"})
        /\ palace_dirs[P(c)][dirs[P(c)][s]] = s <=>
               s \in runtimes[P(c)] \/ (s = S(c) /\ client[c] \in Building \ {"claim"})
    BY <1>b, ClaimedNow
  <2>2. QED
    BY <2>1 DEF Building
<1>5. ASSUME NEW d \in Dirs
      PROVE  /\ flock'[<<"palace", d>>] = P(c) <=> \E s \in locks'[P(c)] : dirs[P(c)][s] = d
             /\ palace_dirs'[P(c)][d] # NoSpace => dirs[P(c)][palace_dirs'[P(c)][d]] = d
  <2>1. /\ flock[<<"palace", d>>] = P(c) <=> \E s \in locks[P(c)] : dirs[P(c)][s] = d
        /\ palace_dirs[P(c)][d] # NoSpace => dirs[P(c)][palace_dirs[P(c)][d]] = d
    BY <1>b, ClaimedNow
  <2>2. <<"palace", d>> \in Files /\ <<"palace", d>> # SpaceFile(c)
    BY DEF Files, SpaceFile
  <2>3. QED
    BY <1>1, <2>1, <2>2
<1>6. QED
  BY <1>2, <1>3, <1>4, <1>5, ClaimedStep

\* The lock file of the directory is taken, and the claims are recorded.
LEMMA PalaceClaimed ==
    ASSUME RouterInv, NEW c \in Clients, BuildMove(c, "prepare"), client[c] = "lock_palace",
           flock[PalaceFile(c)] = NoProc, flock' = [flock EXCEPT ![PalaceFile(c)] = P(c)],
           locks' = [locks EXCEPT ![P(c)] = @ \cup {S(c)}],
           UNCHANGED <<palace_dirs, runtimes>>
    PROVE  Claimed'
<1>a. /\ P(c) \in Procs /\ S(c) \in Spaces /\ DirOf(c) \in Dirs /\ PalaceFile(c) \in Files
      /\ Typed /\ NoProc \notin Procs
  BY Where, RouterConstants DEF RouterInv
<1>b. client[c] \in Holding \cup {"await_pool"} /\ pool[P(c)] \in {c, Nobody}
  BY DEF BuildMove
<1>1. /\ flock'[PalaceFile(c)] = P(c)
      /\ \A f \in Files \ {PalaceFile(c)} : flock'[f] = flock[f]
      /\ locks'[P(c)] = locks[P(c)] \cup {S(c)}
      /\ \A q \in Procs \ {P(c)} : locks'[q] = locks[q]
  BY <1>a DEF Typed
<1>2. \A q \in Procs \ {P(c)} : \A f \in Files : flock'[f] = q <=> flock[f] = q
  BY <1>a, <1>1
<1>3. ASSUME NEW s \in Spaces
      PROVE  /\ s \in locks'[P(c)] <=>
                    s \in runtimes'[P(c)] \/ (s = S(c) /\ "prepare" \in {"prepare", "construct"})
             /\ flock'[<<"space", s>>] = P(c) <=>
                    s \in runtimes'[P(c)]
                    \/ (s = S(c) /\ "prepare" \in {"lock_palace", "prepare", "construct"})
             /\ palace_dirs'[P(c)][dirs[P(c)][s]] = s <=>
                    s \in runtimes'[P(c)] \/ (s = S(c) /\ "prepare" \in Building \ {"claim"})
  <2>1. /\ s \in locks[P(c)] <=>
               s \in runtimes[P(c)] \/ (s = S(c) /\ client[c] \in {"prepare", "construct"})
        /\ flock[<<"space", s>>] = P(c) <=>
               s \in runtimes[P(c)]
               \/ (s = S(c) /\ client[c] \in {"lock_palace", "prepare", "construct"})
        /\ palace_dirs[P(c)][dirs[P(c)][s]] = s <=>
               s \in runtimes[P(c)] \/ (s = S(c) /\ client[c] \in Building \ {"claim"})
    BY <1>b, ClaimedNow
  <2>2. <<"space", s>> \in Files /\ <<"space", s>> # PalaceFile(c)
    BY DEF Files, PalaceFile
  <2>3. s \in locks'[P(c)] <=>
            s \in runtimes'[P(c)] \/ (s = S(c) /\ "prepare" \in {"prepare", "construct"})
    BY <1>1, <2>1
  <2>4. flock'[<<"space", s>>] = flock[<<"space", s>>]
    BY <1>1, <2>2
  <2>5. "lock_palace" \in Building \ {"claim"} /\ "prepare" \in Building \ {"claim"}
    BY DEF Building
  <2>6. QED
    BY <2>1, <2>3, <2>4, <2>5
<1>4. ASSUME NEW d \in Dirs
      PROVE  /\ flock'[<<"palace", d>>] = P(c) <=> \E s \in locks'[P(c)] : dirs[P(c)][s] = d
             /\ palace_dirs'[P(c)][d] # NoSpace => dirs[P(c)][palace_dirs'[P(c)][d]] = d
  <2>1. /\ flock[<<"palace", d>>] = P(c) <=> \E s \in locks[P(c)] : dirs[P(c)][s] = d
        /\ palace_dirs[P(c)][d] # NoSpace => dirs[P(c)][palace_dirs[P(c)][d]] = d
    BY <1>b, ClaimedNow
  <2>2. CASE d = DirOf(c)
    BY <1>1, <2>1, <2>2 DEF DirOf, PalaceFile
  <2>3. CASE d # DirOf(c)
    <3>1. <<"palace", d>> \in Files /\ <<"palace", d>> # PalaceFile(c)
      BY <2>3 DEF Files, PalaceFile
    <3>2. flock'[<<"palace", d>>] = flock[<<"palace", d>>]
      BY <1>1, <3>1
    <3>3. (\E s \in locks'[P(c)] : dirs[P(c)][s] = d) <=> \E s \in locks[P(c)] : dirs[P(c)][s] = d
      BY <1>1, <2>3 DEF DirOf
    <3>4. QED
      BY <2>1, <3>2, <3>3
  <2>4. QED
    BY <2>2, <2>3
<1>5. QED
  BY <1>1, <1>2, <1>3, <1>4, ClaimedStep

\* The directory's lock file is refused: the space's is given back.
LEMMA PalaceRefused ==
    ASSUME RouterInv, NEW c \in Clients, BuildMove(c, "done"), client[c] = "lock_palace",
           flock' = [flock EXCEPT ![SpaceFile(c)] = NoProc],
           palace_dirs' = [palace_dirs EXCEPT ![P(c)] = DirsWithout(P(c), {S(c)})],
           UNCHANGED <<locks, runtimes>>
    PROVE  Claimed'
<1>a. /\ P(c) \in Procs /\ S(c) \in Spaces /\ SpaceFile(c) \in Files
      /\ S(c) \notin runtimes[P(c)]
      /\ Typed /\ NoProc \notin Procs /\ NoSpace \notin Spaces
  BY Where, RouterConstants DEF RouterInv, Opens, Building
<1>b. client[c] \in Holding \cup {"await_pool"} /\ pool[P(c)] \in {c, Nobody}
  BY DEF BuildMove
<1>1. /\ flock'[SpaceFile(c)] = NoProc
      /\ \A f \in Files \ {SpaceFile(c)} : flock'[f] = flock[f]
  BY <1>a DEF Typed
<1>2. /\ \A d \in Dirs : palace_dirs'[P(c)][d] = IF palace_dirs[P(c)][d] = S(c) THEN NoSpace
                                                ELSE palace_dirs[P(c)][d]
      /\ \A q \in Procs \ {P(c)} : palace_dirs'[q] = palace_dirs[q]
  BY <1>a DEF Typed, DirsWithout
<1>3. flock[SpaceFile(c)] = P(c)
  <2>1. S(c) \in runtimes[P(c)] \/ client[c] \in {"lock_palace", "prepare", "construct"}
    OBVIOUS
  <2>2. QED
    BY <1>a, <1>b, <2>1, ClaimedNow DEF SpaceFile
<1>4. \A q \in Procs \ {P(c)} : \A f \in Files : flock'[f] = q <=> flock[f] = q
  BY <1>a, <1>1, <1>3
<1>5. "done" \notin Building
  BY DEF Building
<1>6. ASSUME NEW s \in Spaces
      PROVE  /\ s \in locks'[P(c)] <=>
                    s \in runtimes'[P(c)] \/ (s = S(c) /\ "done" \in {"prepare", "construct"})
             /\ flock'[<<"space", s>>] = P(c) <=>
                    s \in runtimes'[P(c)]
                    \/ (s = S(c) /\ "done" \in {"lock_palace", "prepare", "construct"})
             /\ palace_dirs'[P(c)][dirs[P(c)][s]] = s <=>
                    s \in runtimes'[P(c)] \/ (s = S(c) /\ "done" \in Building \ {"claim"})
  <2>1. /\ s \in locks[P(c)] <=>
               s \in runtimes[P(c)] \/ (s = S(c) /\ client[c] \in {"prepare", "construct"})
        /\ flock[<<"space", s>>] = P(c) <=>
               s \in runtimes[P(c)]
               \/ (s = S(c) /\ client[c] \in {"lock_palace", "prepare", "construct"})
        /\ palace_dirs[P(c)][dirs[P(c)][s]] = s <=>
               s \in runtimes[P(c)] \/ (s = S(c) /\ client[c] \in Building \ {"claim"})
    BY <1>b, ClaimedNow
  <2>2. <<"space", s>> \in Files /\ dirs[P(c)][s] \in Dirs
    BY <1>a DEF Files, Typed
  <2>3. palace_dirs'[P(c)][dirs[P(c)][s]] = s <=> s # S(c) /\ palace_dirs[P(c)][dirs[P(c)][s]] = s
    <3> DEFINE d == dirs[P(c)][s]
    <3>1. d \in Dirs /\ s # NoSpace
      BY <1>a, <2>2
    <3> HIDE DEF d
    <3>2. palace_dirs'[P(c)][d] = IF palace_dirs[P(c)][d] = S(c) THEN NoSpace
                                  ELSE palace_dirs[P(c)][d]
      BY <1>2, <3>1
    <3>3. palace_dirs'[P(c)][d] = s <=> s # S(c) /\ palace_dirs[P(c)][d] = s
      BY <3>1, <3>2
    <3>4. QED
      BY <3>3 DEF d
  <2>4. flock'[<<"space", s>>] = P(c) <=> s # S(c) /\ flock[<<"space", s>>] = P(c)
    BY <1>a, <1>1, <2>2 DEF SpaceFile
  <2>5. QED
    BY <1>a, <1>5, <2>1, <2>3, <2>4
<1>7. ASSUME NEW d \in Dirs
      PROVE  /\ flock'[<<"palace", d>>] = P(c) <=> \E s \in locks'[P(c)] : dirs[P(c)][s] = d
             /\ palace_dirs'[P(c)][d] # NoSpace => dirs[P(c)][palace_dirs'[P(c)][d]] = d
  <2>1. /\ flock[<<"palace", d>>] = P(c) <=> \E s \in locks[P(c)] : dirs[P(c)][s] = d
        /\ palace_dirs[P(c)][d] # NoSpace => dirs[P(c)][palace_dirs[P(c)][d]] = d
    BY <1>b, ClaimedNow
  <2>2. <<"palace", d>> \in Files /\ <<"palace", d>> # SpaceFile(c)
    BY DEF Files, SpaceFile
  <2>3. flock'[<<"palace", d>>] = flock[<<"palace", d>>]
    BY <1>1, <2>2
  <2>4. palace_dirs'[P(c)][d] # NoSpace => palace_dirs'[P(c)][d] = palace_dirs[P(c)][d]
    BY <1>2
  <2>5. QED
    BY <2>1, <2>3, <2>4
<1>8. ASSUME NEW q \in Procs \ {P(c)}
      PROVE  /\ runtimes'[q] = runtimes[q] /\ locks'[q] = locks[q]
             /\ palace_dirs'[q] = palace_dirs[q]
             /\ \A f \in Files : flock'[f] = q <=> flock[f] = q
  BY <1>2, <1>4
<1>9. QED
  BY <1>6, <1>7, <1>8, ClaimedStep

\* The runtime joins the pool with its claims.
LEMMA RuntimeJoins ==
    ASSUME RouterInv, NEW c \in Clients, NEW x \in {"resolved", "done"}, BuildMove(c, x),
           client[c] = "construct", UNCHANGED claimVars,
           runtimes' = [runtimes EXCEPT ![P(c)] = @ \cup {S(c)}]
    PROVE  Claimed'
<1>a. P(c) \in Procs /\ S(c) \in Spaces /\ Typed
  BY Where DEF RouterInv
<1>b. client[c] \in Holding \cup {"await_pool"} /\ pool[P(c)] \in {c, Nobody}
  BY DEF BuildMove
<1>1. /\ runtimes'[P(c)] = runtimes[P(c)] \cup {S(c)}
      /\ \A q \in Procs \ {P(c)} : runtimes'[q] = runtimes[q]
      /\ UNCHANGED <<flock, locks, palace_dirs>>
  BY <1>a DEF Typed, claimVars
<1>2. "construct" \in Building \ {"claim"} /\ x \notin Building
  BY DEF Building
<1>3. ASSUME NEW s \in Spaces
      PROVE  LET Mine(places) == s = S(c) /\ x \in places IN
             /\ s \in locks'[P(c)] <=> s \in runtimes'[P(c)] \/ Mine({"prepare", "construct"})
             /\ flock'[<<"space", s>>] = P(c) <=>
                    s \in runtimes'[P(c)] \/ Mine({"lock_palace", "prepare", "construct"})
             /\ palace_dirs'[P(c)][dirs[P(c)][s]] = s <=>
                    s \in runtimes'[P(c)] \/ Mine(Building \ {"claim"})
  <2>1. /\ s \in locks[P(c)] <=>
               s \in runtimes[P(c)] \/ (s = S(c) /\ client[c] \in {"prepare", "construct"})
        /\ flock[<<"space", s>>] = P(c) <=>
               s \in runtimes[P(c)]
               \/ (s = S(c) /\ client[c] \in {"lock_palace", "prepare", "construct"})
        /\ palace_dirs[P(c)][dirs[P(c)][s]] = s <=>
               s \in runtimes[P(c)] \/ (s = S(c) /\ client[c] \in Building \ {"claim"})
    BY <1>b, ClaimedNow
  <2>2. QED
    BY <1>1, <1>2, <2>1
<1>4. ASSUME NEW d \in Dirs
      PROVE  /\ flock'[<<"palace", d>>] = P(c) <=> \E s \in locks'[P(c)] : dirs[P(c)][s] = d
             /\ palace_dirs'[P(c)][d] # NoSpace => dirs[P(c)][palace_dirs'[P(c)][d]] = d
  <2>1. /\ flock[<<"palace", d>>] = P(c) <=> \E s \in locks[P(c)] : dirs[P(c)][s] = d
        /\ palace_dirs[P(c)][d] # NoSpace => dirs[P(c)][palace_dirs[P(c)][d]] = d
    BY <1>b, ClaimedNow
  <2>2. QED
    BY <1>1, <2>1
<1>5. QED
  BY <1>1, <1>3, <1>4, ClaimedStep

\* Claims match after every step of an opening.
LEMMA BuildClaimed ==
    ASSUME RouterInv, NEW c \in Clients, NEW x, BuildMove(c, x),
           \/ EnterPool(c) \/ Recheck(c) \/ ClaimPalaceDirectory(c) \/ LockSpace(c)
           \/ LockPalace(c) \/ Prepare(c) \/ Construct(c)
    PROVE  Claimed'
<1>a. /\ client \in [Clients -> Place] /\ P(c) \in Procs /\ S(c) \in Spaces
      /\ dirs' = dirs
  BY Where DEF RouterInv, Typed, BuildMove, envVars
<1>b. \A v : Goto(c, v) => x = v
  BY <1>a DEF Goto, BuildMove
<1>c. Return(c) \/ Raise(c) => x \in {"resolved", "done"}
  BY <1>b DEF Return, Raise
<1>1. CASE EnterPool(c)
  <2>1. client[c] = "await_pool" /\ x = "recheck" /\ UNCHANGED claimVars /\ runtimes' = runtimes
    BY <1>1, <1>b DEF EnterPool, At
  <2>2. QED
    BY <2>1, NothingClaimed
<1>2. CASE Recheck(c)
  <2>1. /\ client[c] = "recheck" /\ x \in {"claim", "resolved", "done"}
        /\ UNCHANGED claimVars /\ runtimes' = runtimes
    BY <1>2, <1>b, <1>c DEF Recheck, At
  <2>2. QED
    BY <2>1, NothingClaimed
<1>3. CASE ClaimPalaceDirectory(c)
  <2>1. client[c] = "claim" /\ runtimes' = runtimes
    BY <1>3 DEF ClaimPalaceDirectory, At
  <2>2. CASE palace_dirs[P(c)][DirOf(c)] \in {NoSpace, S(c)}
    <3>1. /\ x = "lock_space" /\ palace_dirs' = [palace_dirs EXCEPT ![P(c)][DirOf(c)] = S(c)]
          /\ UNCHANGED <<flock, locks, runtimes>>
      BY <1>3, <1>b, <2>2 DEF ClaimPalaceDirectory
    <3>2. QED
      BY <2>1, <2>2, <3>1, DirectoryClaimed
  <2>3. CASE palace_dirs[P(c)][DirOf(c)] \notin {NoSpace, S(c)}
    <3>1. BuildFails(c)
      BY <1>3, <2>3 DEF ClaimPalaceDirectory
    <3>2. QED
      BY <1>a, <2>1, <3>1, BuildFailsClaimed DEF Building
  <2>4. QED
    BY <2>2, <2>3
<1>4. CASE LockSpace(c)
  <2>1. client[c] = "lock_space" /\ runtimes' = runtimes
    BY <1>4 DEF LockSpace, At
  <2>2. S(c) \notin locks[P(c)]
    <3>1. S(c) \notin runtimes[P(c)] /\ client[c] \in Holding /\ pool[P(c)] \in {c, Nobody}
      BY <2>1 DEF RouterInv, Opens, Building, Holding, BuildMove
    <3>2. S(c) \in locks[P(c)] <=>
              S(c) \in runtimes[P(c)] \/ client[c] \in {"prepare", "construct"}
      BY <1>a, <3>1, ClaimedNow
    <3>3. QED
      BY <2>1, <3>1, <3>2
  <2>3. CASE flock[SpaceFile(c)] = NoProc
    <3>1. /\ x = "lock_palace" /\ flock' = [flock EXCEPT ![SpaceFile(c)] = P(c)]
          /\ UNCHANGED <<locks, palace_dirs, runtimes>>
      BY <1>4, <1>b, <2>2, <2>3 DEF LockSpace
    <3>2. QED
      BY <2>1, <2>3, <3>1, SpaceClaimed
  <2>4. CASE flock[SpaceFile(c)] # NoProc
    <3>1. BuildFails(c)
      BY <1>4, <2>2, <2>4 DEF LockSpace
    <3>2. QED
      BY <1>a, <2>1, <3>1, BuildFailsClaimed DEF Building
  <2>5. QED
    BY <2>3, <2>4
<1>5. CASE LockPalace(c)
  <2>1. client[c] = "lock_palace" /\ runtimes' = runtimes
    BY <1>5 DEF LockPalace, At
  <2>2. CASE flock[PalaceFile(c)] = NoProc
    <3>1. /\ x = "prepare" /\ flock' = [flock EXCEPT ![PalaceFile(c)] = P(c)]
          /\ locks' = [locks EXCEPT ![P(c)] = @ \cup {S(c)}]
          /\ UNCHANGED <<palace_dirs, runtimes>>
      BY <1>5, <1>b, <2>2 DEF LockPalace
    <3>2. QED
      BY <2>1, <2>2, <3>1, PalaceClaimed
  <2>3. CASE flock[PalaceFile(c)] # NoProc
    <3>1. /\ x = "done" /\ flock' = [flock EXCEPT ![SpaceFile(c)] = NoProc]
          /\ palace_dirs' = [palace_dirs EXCEPT ![P(c)] = DirsWithout(P(c), {S(c)})]
          /\ UNCHANGED <<locks, runtimes>>
      BY <1>5, <1>b, <2>3 DEF LockPalace, Raise
    <3>2. QED
      BY <2>1, <3>1, PalaceRefused
  <2>4. QED
    BY <2>2, <2>3
<1>6. CASE Prepare(c)
  <2>1. client[c] = "prepare" /\ runtimes' = runtimes
    BY <1>6 DEF Prepare, At, poolVars
  <2>2. CASE BuildFails(c)
    BY <1>a, <2>1, <2>2, BuildFailsClaimed DEF Building
  <2>3. CASE ~BuildFails(c)
    <3>1. x = "construct" /\ UNCHANGED claimVars
      BY <1>6, <1>b, <2>3 DEF Prepare
    <3>2. QED
      BY <2>1, <3>1, NothingClaimed
  <2>4. QED
    BY <2>2, <2>3
<1>7. CASE Construct(c)
  <2>1. client[c] = "construct"
    BY <1>7 DEF Construct, At
  <2>2. CASE BuildFails(c) /\ UNCHANGED <<open, runtimes>>
    BY <1>a, <2>1, <2>2, BuildFailsClaimed DEF Building
  <2>3. CASE ~(BuildFails(c) /\ UNCHANGED <<open, runtimes>>)
    <3>1. /\ x \in {"resolved", "done"} /\ UNCHANGED claimVars
          /\ runtimes' = [runtimes EXCEPT ![P(c)] = @ \cup {S(c)}]
      BY <1>7, <1>c, <2>3 DEF Construct
    <3>2. QED
      BY <2>1, <3>1, RuntimeJoins
  <2>4. QED
    BY <2>2, <2>3
<1>8. QED
  BY <1>1, <1>2, <1>3, <1>4, <1>5, <1>6, <1>7

\* Claims match after every step of a close.
LEMMA CloserClaimed ==
    ASSUME RouterInv, NEW p \in Procs, NEW y, CloserMove(p, y), Aclose(p) \/ CloseSteps(p)
    PROVE  Claimed'
<1>a. /\ dirs' = dirs /\ client' = client /\ \A q \in Procs \ {p} : pool'[q] = pool[q]
      /\ pool'[p] \in {pool[p], Nobody, Closer}
      /\ Nobody \notin Clients /\ Closer \notin Clients
      /\ Typed /\ Claimed
  BY RouterConstants DEF RouterInv, Typed, CloserMove, envVars, clientVars
<1>1. ASSUME UNCHANGED <<flock, locks, palace_dirs, runtimes>>, pool' = pool
      PROVE  Claimed'
  BY <1>a, <1>1, ClaimedElsewhere DEF Claimed
<1>2. ASSUME UNCHANGED <<flock, locks, palace_dirs, runtimes>>, pool[p] \notin Clients
      PROVE  Claimed'
  <2>1. pool'[p] \notin Clients
    BY <1>a, <1>2
  <2>2. /\ \A s \in Spaces :
               /\ s \in locks[p] <=> s \in runtimes[p]
               /\ flock[<<"space", s>>] = p <=> s \in runtimes[p]
               /\ palace_dirs[p][dirs[p][s]] = s <=> s \in runtimes[p]
        /\ \A d \in Dirs :
               /\ flock[<<"palace", d>>] = p <=> \E s \in locks[p] : dirs[p][s] = d
               /\ palace_dirs[p][d] # NoSpace => dirs[p][palace_dirs[p][d]] = d
    BY <1>a, <1>2 DEF Claimed, ClaimedAt, Opening
  <2>3. ClaimedAt(p)'
    BY <1>a, <1>2, <2>1, <2>2, ClaimedIdle
  <2>4. \A q \in Procs \ {p} : ClaimedAt(q)'
    BY <1>a, <1>2, ClaimedOthers
  <2>5. ASSUME NEW q \in Procs
        PROVE  ClaimedAt(q)'
    <3>1. CASE q = p
      BY <2>3, <3>1
    <3>2. CASE q # p
      BY <2>4, <3>2
    <3>3. QED
      BY <3>1, <3>2
  <2>6. QED
    BY <2>5 DEF Claimed
<1>3. closer[p].pc \in Shutting => pool[p] = Closer
  BY DEF RouterInv, Pooled
<1>4. CASE Aclose(p) \/ CloseNext(p) \/ CloseDrains(p)
  BY <1>1, <1>4 DEF Aclose, CloseNext, CloseDrains, claimVars, poolVars
<1>5. CASE CloseEntersPool(p)
  BY <1>2, <1>5, <1>a DEF CloseEntersPool, claimVars
<1>6. CASE CloseStore(p)
  BY <1>2, <1>3, <1>6, <1>a DEF CloseStore, claimVars, Closing, Shutting
<1>7. CASE CloseGraph(p)
  <2> DEFINE s == closer[p].space
  <2>1. /\ closer[p].pc = "close_graph" /\ ReleaseClaims(p, {s})
        /\ runtimes' = [runtimes EXCEPT ![p] = @ \ {s}] /\ pool' = pool
    BY <1>7 DEF CloseGraph, Closing
  <2>2. s \in runtimes[p] /\ s \in Spaces
    BY <1>a, <2>1 DEF RouterInv, Closes, Typed
  <2> HIDE DEF s
  <2>3. pool[p] \notin Clients
    BY <1>3, <1>a, <2>1 DEF Shutting
  <2>4. s \in locks[p] /\ flock[<<"space", s>>] = p
    BY <1>a, <2>2 DEF Claimed, ClaimedAt
  <2>5. Released(p, s)
    BY <2>1, <2>2, <2>4, ReleaseEffect
  <2>6. runtimes'[p] = runtimes[p] \ {s} /\ \A q \in Procs \ {p} : runtimes'[q] = runtimes[q]
    BY <1>a, <2>1 DEF Typed
  <2>7. ClaimedAt(p)'
    BY <1>a, <2>1, <2>2, <2>3, <2>5, <2>6, ClaimedReleased DEF Opening
  <2>8. ASSUME NEW q \in Procs \ {p}
        PROVE  ClaimedAt(q)'
    BY <1>a, <2>5, <2>6, ClaimedOthers DEF Released
  <2>9. ASSUME NEW q \in Procs
        PROVE  ClaimedAt(q)'
    <3>1. CASE q = p
      BY <2>7, <3>1
    <3>2. CASE q # p
      BY <2>8, <3>2
    <3>3. QED
      BY <3>1, <3>2
  <2>10. QED
    BY <2>9 DEF Claimed
<1>8. CASE CloseEnds(p)
  <2>1. /\ closer[p].pc = "next" /\ runtimes[p] = {} /\ ReleaseClaims(p, locks[p])
        /\ runtimes' = runtimes
    BY <1>8 DEF CloseEnds, Closing
  <2>2. pool[p] \notin Clients
    BY <1>3, <1>a, <2>1 DEF Shutting
  <2>3. locks[p] = {}
    <3>1. \A s \in Spaces : s \in locks[p] <=> s \in runtimes[p]
      BY <1>a, <2>2 DEF Claimed, ClaimedAt, Opening
    <3>2. QED
      BY <1>a, <2>1, <3>1 DEF Typed
  <2>4. locks' = locks
    BY <1>a, <2>1, <2>3 DEF ReleaseClaims, Typed
  <2>5. flock' = flock
    <3>1. \A f : f \notin FilesOf(p, locks[p] \cap locks[p])
      BY <2>3 DEF FilesOf
    <3>2. flock' = [f \in Files |-> flock[f]]
      BY <2>1, <3>1 DEF ReleaseClaims
    <3>3. QED
      BY <1>a, <3>2 DEF Typed
  <2>6. palace_dirs' = palace_dirs
    <3>1. DirsWithout(p, locks[p]) = palace_dirs[p]
      BY <1>a, <2>3 DEF DirsWithout, Typed
    <3>2. QED
      BY <1>a, <2>1, <3>1 DEF ReleaseClaims, Typed
  <2>7. QED
    BY <1>2, <2>1, <2>2, <2>4, <2>5, <2>6
<1>9. QED
  BY <1>4, <1>5, <1>6, <1>7, <1>8 DEF CloseSteps

\* A process that dies has no claims.
LEMMA DieClaimed ==
    ASSUME RouterInv, NEW p \in Procs, Die(p)
    PROVE  Claimed'
<1>a. /\ Typed /\ Nobody \notin Clients /\ NoProc \notin Procs /\ NoSpace \notin Spaces
      /\ \A s \in Spaces : <<"space", s>> \in Files /\ dirs[p][s] \in Dirs
      /\ \A d \in Dirs : <<"palace", d>> \in Files
  BY RouterConstants DEF RouterInv, Typed, Files
<1>1. /\ dirs' = dirs
      /\ \A f \in Files : flock'[f] = IF flock[f] = p THEN NoProc ELSE flock[f]
      /\ locks'[p] = {} /\ runtimes'[p] = {} /\ pool'[p] = Nobody
      /\ \A d \in Dirs : palace_dirs'[p][d] = NoSpace
      /\ \A c \in Clients : P(c) # p => client'[c] = client[c]
      /\ \A q \in Procs \ {p} :
             /\ locks'[q] = locks[q] /\ palace_dirs'[q] = palace_dirs[q]
             /\ runtimes'[q] = runtimes[q] /\ pool'[q] = pool[q]
  BY DieEffect
<1>2. \A f \in Files : flock'[f] # p /\ \A q \in Procs \ {p} : flock'[f] = q <=> flock[f] = q
  BY <1>a, <1>1
<1>3. ClaimedAt(p)'
  BY <1>a, <1>1, <1>2, ClaimedIdle
<1>4. ASSUME NEW q \in Procs \ {p}
      PROVE  ClaimedAt(q)'
  BY <1>1, <1>2, ClaimedOthers
<1>5. ASSUME NEW q \in Procs
      PROVE  ClaimedAt(q)'
  <2>1. CASE q = p
    BY <1>3, <2>1
  <2>2. CASE q # p
    BY <1>4, <2>2
  <2>3. QED
    BY <2>1, <2>2
<1>6. QED
  BY <1>5 DEF Claimed

\* Claims match after every step.
LEMMA ClaimedNext == RouterInv /\ [Next]_vars => Claimed'
<1> SUFFICES ASSUME RouterInv, [Next]_vars
             PROVE  Claimed'
  OBVIOUS
<1>1. ASSUME NEW c \in Clients, NEW x, ClientMove(c, x)
      PROVE  Claimed'
  <2>1. /\ dirs' = dirs /\ UNCHANGED <<flock, locks, palace_dirs, runtimes, pool>>
        /\ \A d \in Clients \ {c} : client'[d] = client[d]
        /\ x = client[c] \/ client[c] \notin Holding
        /\ client'[c] = x
    BY <1>1 DEF ClientMove, envVars, claimVars, poolVars, RouterInv, Typed
  <2>2. ASSUME NEW q \in Procs
        PROVE  ClaimedAt(q)'
    <3>1. ASSUME NEW d \in Clients, pool[q] = d
          PROVE  client'[d] = client[d]
      <4>1. client[d] \in Holding
        BY <3>1 DEF RouterInv, Pooled
      <4>2. QED
        BY <2>1, <4>1
    <3>2. QED
      BY <2>1, <3>1, ClaimedElsewhere DEF RouterInv, Claimed
  <2>3. QED
    BY <2>2 DEF Claimed
<1>2. CASE UNCHANGED vars
  <2>1. UNCHANGED <<dirs, flock, locks, palace_dirs, runtimes, pool, client>>
    BY <1>2 DEF vars, envVars, claimVars, poolVars, clientVars
  <2>2. QED
    BY <2>1, ClaimedElsewhere DEF RouterInv, Claimed
<1>3. QED
  BY <1>1, <1>2, RouterSteps, BuildClaimed, CloserClaimed, DieClaimed

----------------------------------------------------------------------------
(* Theorems.                                                                *)

\* A router starts with nothing open and nothing claimed.
LEMMA InitRouterInv == Init => RouterInv
<1> SUFFICES ASSUME Init
             PROVE  RouterInv
  OBVIOUS
<1>1. PICK sc \in Scenarios :
          /\ dirs = sc.dirs /\ limit = sc.limit
          /\ client = [c \in Clients |-> IF c \in sc.callers THEN "outside" ELSE "done"]
  BY DEF Init
<1>2. /\ flock = [f \in Files |-> NoProc]
      /\ locks = [p \in Procs |-> {}]
      /\ palace_dirs = [p \in Procs |-> [d \in Dirs |-> NoSpace]]
      /\ runtimes = [p \in Procs |-> {}] /\ refusing = [p \in Procs |-> {}]
      /\ open = [p \in Procs |-> [s2 \in Spaces |-> 0]]
      /\ pool = [p \in Procs |-> Nobody]
      /\ closing = [p \in Procs |-> FALSE] /\ closer = [p \in Procs |-> IdleCloser]
      /\ gone = {}
  BY DEF Init
<1>3. dirs \in [Procs -> [Spaces -> Dirs]] /\ limit \in Nat \ {0}
  BY <1>1, RouterConstants DEF Scenario
<1>4. /\ \A p \in Procs : closer[p].pc = "none" /\ closer[p].space = NoSpace
      /\ closer \in [Procs -> [pc : CloserPlace, space : Spaces \cup {NoSpace}]]
  BY <1>2 DEF IdleCloser, CloserPlace
<1>5. client \in [Clients -> Place] /\ \A c \in Clients : client[c] \in {"outside", "done"}
  BY <1>1 DEF Place
<1>6. Typed
  BY <1>2, <1>3, <1>4, <1>5 DEF Typed
<1>7. "outside" \notin Holding /\ "done" \notin Holding /\ "none" \notin Shutting
  BY DEF Holding, Building, Shutting
<1>8. Pooled
  BY <1>2, <1>4, <1>5, <1>6, <1>7, Where, RouterConstants DEF Pooled
<1>9. Opens
  <2>1. \A p \in Procs : Cardinality(runtimes[p]) = 0
    BY <1>2, FS_EmptySet
  <2>2. QED
    BY <1>3, <1>5, <2>1 DEF Opens, Building
<1>10. Closes /\ Stores
  BY <1>2, <1>4 DEF Closes, Stores
<1>11. Serves
  BY <1>5 DEF Serves, Operating
<1>12. Claimed
  <2>1. \A p \in Procs : pool[p] \notin Clients /\ locks[p] = {} /\ runtimes[p] = {}
    BY <1>2, RouterConstants
  <2>2. \A f \in Files : flock[f] \notin Procs
    BY <1>2, RouterConstants
  <2>3. /\ \A s \in Spaces : <<"space", s>> \in Files /\ NoSpace # s
        /\ \A d \in Dirs : <<"palace", d>> \in Files
    BY RouterConstants DEF Files
  <2>4. \A p \in Procs, d \in Dirs : palace_dirs[p][d] = NoSpace
    BY <1>2
  <2>5. ASSUME NEW p \in Procs
        PROVE  ClaimedAt(p)
    <3>1. \A s \in Spaces : dirs[p][s] \in Dirs
      BY <1>3
    <3>2. \A s, places : ~Opening(p, s, places)
      BY <2>1 DEF Opening
    <3>3. QED
      BY <2>1, <2>2, <2>3, <2>4, <3>1, <3>2 DEF ClaimedAt
  <2>6. QED
    BY <2>5 DEF Claimed
<1>13. QED
  BY <1>6, <1>8, <1>9, <1>10, <1>11, <1>12 DEF RouterInv

\* In every behaviour of the routers, with any processes, spaces, clients and
\* scenarios, the inductive invariant holds: the pool lock has the holder the
\* places say, and claims and stores belong to the spaces of the pool and to
\* the one that is being opened.
THEOREM RouterInvariant == Spec => []RouterInv
<1>1. RouterInv /\ [Next]_vars => RouterInv'
  BY TypedNext, PooledNext, OpensNext, ClosesNext, StoresNext, ServesNext, ClaimedNext
     DEF RouterInv
<1>2. QED
  BY InitRouterInv, <1>1, PTL DEF Spec

\* Variables keep their types and no pool exceeds max_spaces.
THEOREM RouterTypeCorrect == Spec => []TypeOK
<1>1. RouterInv => TypeOK
  BY DEF RouterInv, Typed, Opens, TypeOK
<1>2. QED
  BY RouterInvariant, <1>1, PTL

\* An open store belongs to a space of the pool, whose directory is claimed.
LEMMA OpenIsClaimed ==
    ASSUME RouterInv, NEW p \in Procs, NEW s \in Spaces, open[p][s] > 0
    PROVE  open[p][s] = 1 /\ s \in locks[p] /\ flock[<<"palace", dirs[p][s]>>] = p
<1>1. open[p][s] = 1 /\ s \in runtimes[p]
  BY DEF RouterInv, Stores
<1>2. dirs[p][s] \in Dirs
  BY DEF RouterInv, Typed
<1>3. QED
  BY <1>1, <1>2 DEF RouterInv, Claimed, ClaimedAt

\* A palace directory has one owner, however many spaces and processes resolve
\* to it.
THEOREM RouterOneOwner == Spec => []OneOwner
<1>1. ASSUME RouterInv, NEW p \in Procs, NEW q \in Procs, NEW s \in Spaces, NEW t \in Spaces,
             open[p][s] > 0
      PROVE  /\ open[p][s] = 1
             /\ flock[<<"palace", dirs[p][s]>>] = p
             /\ open[q][t] > 0 /\ dirs[p][s] = dirs[q][t] => p = q /\ s = t
  <2>1. open[p][s] = 1 /\ s \in locks[p] /\ flock[<<"palace", dirs[p][s]>>] = p
    BY <1>1, OpenIsClaimed
  <2>2. ASSUME open[q][t] > 0, dirs[p][s] = dirs[q][t]
        PROVE  p = q /\ s = t
    <3>1. t \in locks[q] /\ flock[<<"palace", dirs[q][t]>>] = q
      BY <1>1, <2>2, OpenIsClaimed
    <3>2. p = q
      BY <2>1, <2>2, <3>1
    <3>3. QED
      BY <1>1, <2>1, <2>2, <3>1, <3>2, OneSpacePerDirectory
  <2>3. QED
    BY <2>1, <2>2
<1>2. RouterInv => OneOwner
  BY <1>1 DEF OneOwner
<1>3. QED
  BY RouterInvariant, <1>2, PTL

\* An operation that runs, its client gone or not, runs on an open store of a
\* palace the process has claimed.
THEOREM RouterStoreOutlivesOperations == Spec => []StoreOutlivesOperations
<1>1. ASSUME RouterInv, NEW c \in Clients, At(c, "running")
      PROVE  open[P(c)][S(c)] > 0 /\ flock[PalaceFile(c)] = P(c)
  <2>1. /\ S(c) \in runtimes[P(c)]
        /\ ~(/\ closer[P(c)].pc \in {"close_store", "close_graph"}
             /\ closer[P(c)].space = S(c))
    BY <1>1 DEF At, RouterInv, Serves, Operating
  <2>2. P(c) \in Procs /\ S(c) \in Spaces
    BY <1>1, Where DEF RouterInv
  <2>3. open[P(c)][S(c)] = 1
    BY <1>1, <2>1, <2>2 DEF RouterInv, Stores
  <2>4. QED
    BY <1>1, <2>2, <2>3, OpenIsClaimed DEF PalaceFile, DirOf
<1>2. RouterInv => StoreOutlivesOperations
  BY <1>1 DEF StoreOutlivesOperations
<1>3. QED
  BY RouterInvariant, <1>2, PTL

\* While nobody opens or closes a space, the lock files and directories of a
\* process are those of the spaces in its pool: no failure loses a claim or
\* leaves one behind.
THEOREM RouterClaimsMatch == Spec => []ClaimsMatch
<1>1. ASSUME RouterInv, NEW p \in Procs, pool[p] = Nobody
      PROVE  /\ {f \in Files : flock[f] = p} = FilesOf(p, runtimes[p])
             /\ {palace_dirs[p][d] : d \in Dirs} \ {NoSpace} = runtimes[p]
             /\ locks[p] = runtimes[p]
  <2>a. /\ locks[p] \subseteq Spaces /\ runtimes[p] \subseteq Spaces
        /\ palace_dirs[p] \in [Dirs -> Spaces \cup {NoSpace}] /\ dirs[p] \in [Spaces -> Dirs]
        /\ NoSpace \notin Spaces
    BY <1>1, RouterConstants DEF RouterInv, Typed
  <2>b. /\ \A s \in Spaces :
               /\ s \in locks[p] <=> s \in runtimes[p]
               /\ flock[<<"space", s>>] = p <=> s \in runtimes[p]
               /\ palace_dirs[p][dirs[p][s]] = s <=> s \in runtimes[p]
        /\ \A d \in Dirs :
               /\ flock[<<"palace", d>>] = p <=> \E s \in locks[p] : dirs[p][s] = d
               /\ palace_dirs[p][d] # NoSpace => dirs[p][palace_dirs[p][d]] = d
    BY <1>1, RouterConstants DEF RouterInv, Claimed, ClaimedAt, Opening
  <2>1. locks[p] = runtimes[p]
    BY <2>a, <2>b
  <2>2. ASSUME NEW f \in Files
        PROVE  flock[f] = p <=> f \in FilesOf(p, runtimes[p])
    <3>1. ASSUME NEW s \in Spaces, f = <<"space", s>>
          PROVE  flock[f] = p <=> f \in FilesOf(p, runtimes[p])
      <4>1. f \in FilesOf(p, runtimes[p]) <=> s \in runtimes[p]
        BY <3>1 DEF FilesOf
      <4>2. QED
        BY <2>b, <3>1, <4>1
    <3>2. ASSUME NEW d \in Dirs, f = <<"palace", d>>
          PROVE  flock[f] = p <=> f \in FilesOf(p, runtimes[p])
      <4>1. f \in FilesOf(p, runtimes[p]) <=> \E s \in runtimes[p] : dirs[p][s] = d
        BY <3>2 DEF FilesOf
      <4>2. QED
        BY <2>b, <2>1, <3>2, <4>1
    <3>3. QED
      BY <3>1, <3>2 DEF Files
  <2>3. \A f \in FilesOf(p, runtimes[p]) : f \in Files
    BY <2>a DEF FilesOf, Files
  <2>4. {f \in Files : flock[f] = p} = FilesOf(p, runtimes[p])
    BY <2>2, <2>3
  <2>5. ASSUME NEW d \in Dirs, palace_dirs[p][d] # NoSpace
        PROVE  palace_dirs[p][d] \in runtimes[p]
    <3>1. palace_dirs[p][d] \in Spaces /\ dirs[p][palace_dirs[p][d]] = d
      <4>1. palace_dirs[p][d] \in Spaces
        BY <2>a, <2>5
      <4>2. dirs[p][palace_dirs[p][d]] = d
        BY <2>b, <2>5
      <4>3. QED
        BY <4>1, <4>2
    <3>2. palace_dirs[p][dirs[p][palace_dirs[p][d]]] = palace_dirs[p][d]
      BY <3>1
    <3>3. QED
      BY <2>b, <3>1, <3>2
  <2>6. ASSUME NEW s \in runtimes[p]
        PROVE  s # NoSpace /\ \E d \in Dirs : palace_dirs[p][d] = s
    BY <2>a, <2>b
  <2>7. {palace_dirs[p][d] : d \in Dirs} \ {NoSpace} = runtimes[p]
    BY <2>5, <2>6
  <2>8. QED
    BY <2>1, <2>4, <2>7
<1>2. RouterInv => ClaimsMatch
  BY <1>1 DEF ClaimsMatch
<1>3. QED
  BY RouterInvariant, <1>2, PTL

----------------------------------------------------------------------------
(* The space lock.                                                          *)


\* The tasks of an assignment p that are in one of the places.
TasksIn(p, places) == {u \in Tasks : p[u] \in places}

\* Never a writer beside a reader, and never two writers.
Exclusive ==
    /\ writing => readers = 0
    /\ \A t, u \in Tasks : pc[t] = "writing" /\ pc[u] = "writing" => t = u

LockInv == LockTypeOK /\ Counted /\ Exclusive /\ NoLostWakeup

\* What one step does to the places: t goes to `to', and the others stay, or
\* are woken.
Effect(p, q, t, to) ==
    /\ p \in [Tasks -> PC] /\ q \in [Tasks -> PC]
    /\ q[t] = to
    /\ \A u \in Tasks \ {t} :
          \/ q[u] = p[u]
          \/ p[u] = "wait_read" /\ q[u] = "woken_read"
          \/ p[u] = "wait_write" /\ q[u] = "woken_write"

\* Nobody but t enters or leaves the places.
OnlyMover(p, q, t, places) == \A u \in Tasks \ {t} : q[u] \in places <=> p[u] \in places

\* Nobody waits unnotified.
AllTold(p) == \A u \in Tasks : p[u] \notin {"wait_read", "wait_write"}

----------------------------------------------------------------------------
\* The tasks there are finitely many.
LEMMA WhereFinite ==
    ASSUME NEW p, NEW places
    PROVE  IsFiniteSet(TasksIn(p, places)) /\ Cardinality(TasksIn(p, places)) \in Nat
  BY TasksFinite, FS_Subset, FS_CardinalityType DEF TasksIn

\* If t enters and nobody else enters or leaves, one task more is there.
LEMMA CountUp ==
    ASSUME NEW p, NEW q, NEW t \in Tasks, NEW places, OnlyMover(p, q, t, places),
           p[t] \notin places, q[t] \in places
    PROVE  Cardinality(TasksIn(q, places)) = Cardinality(TasksIn(p, places)) + 1
  <1>1. TasksIn(q, places) = TasksIn(p, places) \cup {t} /\ t \notin TasksIn(p, places)
    BY DEF TasksIn, OnlyMover
  <1> QED
    BY <1>1, WhereFinite, FS_AddElement

\* If t leaves and nobody else enters or leaves, one task fewer is there.
LEMMA CountDown ==
    ASSUME NEW p, NEW q, NEW t \in Tasks, NEW places, OnlyMover(p, q, t, places),
           p[t] \in places, q[t] \notin places
    PROVE  Cardinality(TasksIn(q, places)) = Cardinality(TasksIn(p, places)) - 1
  <1>1. TasksIn(q, places) = TasksIn(p, places) \ {t} /\ t \in TasksIn(p, places)
    BY DEF TasksIn, OnlyMover
  <1> QED
    BY <1>1, WhereFinite, FS_RemoveElement

\* If nobody enters or leaves the places, the count stays.
LEMMA CountSame ==
    ASSUME NEW p, NEW q, NEW t \in Tasks, NEW places, OnlyMover(p, q, t, places),
           p[t] \in places <=> q[t] \in places
    PROVE  Cardinality(TasksIn(q, places)) = Cardinality(TasksIn(p, places))
  <1>1. TasksIn(q, places) = TasksIn(p, places)
    BY DEF TasksIn, OnlyMover
  <1> QED
    BY <1>1

\* A count is positive exactly when some task is counted.
LEMMA CountWitness ==
    ASSUME NEW p, NEW places
    PROVE  /\ Cardinality(TasksIn(p, places)) \in Nat
           /\ Cardinality(TasksIn(p, places)) > 0 <=> \E u \in Tasks : p[u] \in places
  <1>1. IsFiniteSet(TasksIn(p, places))
    BY WhereFinite
  <1>2. TasksIn(p, places) # {} <=> \E u \in Tasks : p[u] \in places
    BY DEF TasksIn
  <1> QED
    BY <1>1, <1>2, FS_CardinalityType, FS_EmptySet

\* Moving a task has the effect of a step.
LEMMA MoveEffect ==
    ASSUME pc \in [Tasks -> PC], NEW t \in Tasks, NEW to \in PC
    PROVE  Effect(pc, Move(t, to), t, to)
  BY DEF Effect, Move

\* So has moving a task out of or into the lock and telling everybody, which
\* leaves nobody waiting unnotified.
LEMMA NotifyEffect ==
    ASSUME pc \in [Tasks -> PC], NEW t \in Tasks, NEW to \in {"outside", "writing"}
    PROVE  /\ Effect(pc, NotifyAll(Move(t, to)), t, to)
           /\ AllTold(NotifyAll(Move(t, to)))
  <1> DEFINE q == NotifyAll(Move(t, to))
  <1>1. \A u \in Tasks : Move(t, to)[u] = IF u = t THEN to ELSE pc[u]
    BY DEF Move
  <1>2. \A u \in Tasks : q[u] = CASE Move(t, to)[u] = "wait_read" -> "woken_read"
                                  [] Move(t, to)[u] = "wait_write" -> "woken_write"
                                  [] OTHER -> Move(t, to)[u]
    BY DEF NotifyAll
  <1>3. \A u \in Tasks : q[u] = IF u = t THEN to
                                ELSE IF pc[u] = "wait_read" THEN "woken_read"
                                ELSE IF pc[u] = "wait_write" THEN "woken_write"
                                ELSE pc[u]
    BY <1>1, <1>2
  <1>4. q \in [Tasks -> PC]
    <2>1. \A u \in Tasks : q[u] \in PC
      BY <1>3 DEF PC, WaitingRead, WaitingWrite
    <2> QED
      BY <2>1 DEF NotifyAll
  <1> HIDE DEF q
  <1>5. Effect(pc, q, t, to) /\ AllTold(q)
    BY <1>3, <1>4 DEF Effect, AllTold
  <1> QED
    BY <1>5 DEF q

\* Waking moves nobody in or out of the lock, or of acquire_write.
LEMMA EffectMembers ==
    ASSUME NEW p, NEW q, NEW t \in Tasks, NEW to, Effect(p, q, t, to)
    PROVE  /\ OnlyMover(p, q, t, {"reading"})
           /\ OnlyMover(p, q, t, {"writing"})
           /\ OnlyMover(p, q, t, WaitingWrite)
  BY DEF Effect, OnlyMover, WaitingWrite

\* The counters after a step that moves t.
LEMMA CountersFollow ==
    ASSUME LockInv, NEW q, NEW t \in Tasks, NEW to, Effect(pc, q, t, to)
    PROVE  /\ to = "reading" /\ pc[t] # "reading"
              => Cardinality(TasksIn(q, {"reading"})) = readers + 1
           /\ to # "reading" /\ pc[t] = "reading"
              => Cardinality(TasksIn(q, {"reading"})) = readers - 1 /\ readers > 0
           /\ to # "reading" /\ pc[t] # "reading"
              => Cardinality(TasksIn(q, {"reading"})) = readers
           /\ to \in WaitingWrite /\ pc[t] \notin WaitingWrite
              => Cardinality(TasksIn(q, WaitingWrite)) = waiting_writers + 1
           /\ to \notin WaitingWrite /\ pc[t] \in WaitingWrite
              => Cardinality(TasksIn(q, WaitingWrite)) = waiting_writers - 1 /\ waiting_writers > 0
           /\ (to \in WaitingWrite <=> pc[t] \in WaitingWrite)
              => Cardinality(TasksIn(q, WaitingWrite)) = waiting_writers
  <1>1. /\ readers = Cardinality(TasksIn(pc, {"reading"}))
        /\ waiting_writers = Cardinality(TasksIn(pc, WaitingWrite))
    BY DEF LockInv, Counted, TasksAt, TasksIn
  <1>2. q[t] = to
    BY DEF Effect
  <1>3. OnlyMover(pc, q, t, {"reading"}) /\ OnlyMover(pc, q, t, WaitingWrite)
    BY EffectMembers
  <1>4. ASSUME NEW places, OnlyMover(pc, q, t, places)
        PROVE  /\ to \in places /\ pc[t] \notin places
                  => Cardinality(TasksIn(q, places)) = Cardinality(TasksIn(pc, places)) + 1
               /\ to \notin places /\ pc[t] \in places
                  => Cardinality(TasksIn(q, places)) = Cardinality(TasksIn(pc, places)) - 1
               /\ (to \in places <=> pc[t] \in places)
                  => Cardinality(TasksIn(q, places)) = Cardinality(TasksIn(pc, places))
    <2>1. pc[t] \notin places /\ q[t] \in places
          => Cardinality(TasksIn(q, places)) = Cardinality(TasksIn(pc, places)) + 1
      BY <1>4, CountUp
    <2>2. pc[t] \in places /\ q[t] \notin places
          => Cardinality(TasksIn(q, places)) = Cardinality(TasksIn(pc, places)) - 1
      BY <1>4, CountDown
    <2>3. (pc[t] \in places <=> q[t] \in places)
          => Cardinality(TasksIn(q, places)) = Cardinality(TasksIn(pc, places))
      BY <1>4, CountSame
    <2> QED
      BY <1>2, <2>1, <2>2, <2>3
  <1>5. /\ to = "reading" /\ pc[t] # "reading"
           => Cardinality(TasksIn(q, {"reading"})) = readers + 1
        /\ to # "reading" /\ pc[t] = "reading"
           => Cardinality(TasksIn(q, {"reading"})) = readers - 1
        /\ to # "reading" /\ pc[t] # "reading"
           => Cardinality(TasksIn(q, {"reading"})) = readers
    BY <1>1, <1>3, <1>4
  <1>6. /\ to \in WaitingWrite /\ pc[t] \notin WaitingWrite
           => Cardinality(TasksIn(q, WaitingWrite)) = waiting_writers + 1
        /\ to \notin WaitingWrite /\ pc[t] \in WaitingWrite
           => Cardinality(TasksIn(q, WaitingWrite)) = waiting_writers - 1
        /\ (to \in WaitingWrite <=> pc[t] \in WaitingWrite)
           => Cardinality(TasksIn(q, WaitingWrite)) = waiting_writers
    BY <1>1, <1>3, <1>4
  <1>7. pc[t] = "reading" => readers > 0
    BY <1>1, CountWitness
  <1>8. pc[t] \in WaitingWrite => waiting_writers > 0
    BY <1>1, CountWitness
  <1> QED
    BY <1>5, <1>6, <1>7, <1>8

\* The readers inside after a step that moves t.
LEMMA ReadersFollow ==
    ASSUME NEW p, NEW q, NEW t \in Tasks, NEW to, Effect(p, q, t, to)
    PROVE  /\ to = "reading" => TasksIn(q, {"reading"}) = TasksIn(p, {"reading"}) \cup {t}
           /\ to # "reading" => TasksIn(q, {"reading"}) = TasksIn(p, {"reading"}) \ {t}
           /\ p[t] # "reading" => t \notin TasksIn(p, {"reading"})
           /\ p[t] = "reading" => t \in TasksIn(p, {"reading"})
  BY DEF Effect, TasksIn

\* The writer inside after a step that moves t.
LEMMA WriterFollows ==
    ASSUME LockInv, NEW q, NEW t \in Tasks, NEW to, Effect(pc, q, t, to)
    PROVE  /\ to = "writing" /\ ~writing
              => /\ \A u \in Tasks : q[u] = "writing" <=> u = t
                 /\ TasksIn(pc, {"writing"}) = {} /\ TasksIn(q, {"writing"}) = {t}
           /\ to # "writing" /\ pc[t] = "writing"
              => /\ \A u \in Tasks : q[u] # "writing"
                 /\ TasksIn(pc, {"writing"}) = {t} /\ TasksIn(q, {"writing"}) = {}
                 /\ readers = 0
           /\ to # "writing" /\ pc[t] # "writing"
              => /\ \A u \in Tasks : q[u] = "writing" <=> pc[u] = "writing"
                 /\ TasksIn(q, {"writing"}) = TasksIn(pc, {"writing"})
  <1>1. \A u \in Tasks : pc[u] = "writing" => writing
    BY DEF LockInv, Counted, TasksAt
  <1>2. /\ \A u, v \in Tasks : pc[u] = "writing" /\ pc[v] = "writing" => u = v
        /\ writing => readers = 0
    BY DEF LockInv, Exclusive
  <1>3. \A u \in Tasks \ {t} : q[u] = "writing" <=> pc[u] = "writing"
    BY EffectMembers DEF OnlyMover
  <1>4. q[t] = to
    BY DEF Effect
  <1>5. ASSUME to = "writing", ~writing
        PROVE  /\ \A u \in Tasks : q[u] = "writing" <=> u = t
               /\ TasksIn(pc, {"writing"}) = {} /\ TasksIn(q, {"writing"}) = {t}
    BY <1>1, <1>3, <1>4, <1>5 DEF TasksIn
  <1>6. ASSUME to # "writing", pc[t] = "writing"
        PROVE  /\ \A u \in Tasks : q[u] # "writing"
               /\ TasksIn(pc, {"writing"}) = {t} /\ TasksIn(q, {"writing"}) = {}
               /\ readers = 0
    BY <1>1, <1>2, <1>3, <1>4, <1>6 DEF TasksIn
  <1>7. ASSUME to # "writing", pc[t] # "writing"
        PROVE  /\ \A u \in Tasks : q[u] = "writing" <=> pc[u] = "writing"
               /\ TasksIn(q, {"writing"}) = TasksIn(pc, {"writing"})
    BY <1>3, <1>4, <1>7 DEF TasksIn
  <1> QED
    BY <1>5, <1>6, <1>7

\* The invariant, in the form a step establishes it.
LEMMA LockInvAfter ==
    ASSUME pc' \in [Tasks -> PC], readers' \in Nat, waiting_writers' \in Nat,
           writing' \in BOOLEAN,
           Cardinality(TasksIn(pc', {"reading"})) = readers',
           Cardinality(TasksIn(pc', WaitingWrite)) = waiting_writers',
           writing' <=> \E u \in Tasks : pc'[u] = "writing",
           writing' => readers' = 0,
           \A u, v \in Tasks : pc'[u] = "writing" /\ pc'[v] = "writing" => u = v,
           \A u \in Tasks : pc'[u] = "wait_write" => writing' \/ readers' > 0,
           \A u \in Tasks : pc'[u] = "wait_read"
               => \/ writing' \/ readers' > 0
                  \/ \E v \in Tasks : pc'[v] \in {"woken_write", "cancelled_write"}
    PROVE  LockInv'
  <1>1. LockTypeOK'
    BY DEF LockTypeOK
  <1>2. Counted'
    BY DEF Counted, TasksAt, TasksIn
  <1>3. Exclusive'
    BY DEF Exclusive
  <1>4. NoLostWakeup'
    BY DEF NoLostWakeup, TasksAt
  <1> QED
    BY <1>1, <1>2, <1>3, <1>4 DEF LockInv

\* The invariant, in the form the actions use it: a writer counted as waiting
\* is runnable, or somebody is inside.
LEMMA LockInvBefore ==
    ASSUME LockInv
    PROVE  /\ pc \in [Tasks -> PC] /\ readers \in Nat /\ waiting_writers \in Nat
           /\ writing \in BOOLEAN
           /\ writing <=> \E u \in Tasks : pc[u] = "writing"
           /\ writing => readers = 0
           /\ \A u, v \in Tasks : pc[u] = "writing" /\ pc[v] = "writing" => u = v
           /\ \A u \in Tasks : pc[u] = "wait_write" => writing \/ readers > 0
           /\ \A u \in Tasks : pc[u] = "wait_read"
                 => \/ writing \/ readers > 0
                    \/ \E v \in Tasks : pc[v] \in {"woken_write", "cancelled_write"}
           /\ waiting_writers > 0
                 => \/ writing \/ readers > 0
                    \/ \E v \in Tasks : pc[v] \in {"woken_write", "cancelled_write"}
  <1>1. /\ pc \in [Tasks -> PC] /\ readers \in Nat /\ waiting_writers \in Nat
        /\ writing \in BOOLEAN
    BY DEF LockInv, LockTypeOK
  <1>2. writing <=> \E u \in Tasks : pc[u] = "writing"
    BY DEF LockInv, Counted, TasksAt
  <1>3. /\ writing => readers = 0
        /\ \A u, v \in Tasks : pc[u] = "writing" /\ pc[v] = "writing" => u = v
    BY DEF LockInv, Exclusive
  <1>4. /\ \A u \in Tasks : pc[u] = "wait_write" => writing \/ readers > 0
        /\ \A u \in Tasks : pc[u] = "wait_read"
              => \/ writing \/ readers > 0
                 \/ \E v \in Tasks : pc[v] \in {"woken_write", "cancelled_write"}
    BY DEF LockInv, NoLostWakeup, TasksAt
  <1>5. ASSUME waiting_writers > 0
        PROVE  \/ writing \/ readers > 0
               \/ \E v \in Tasks : pc[v] \in {"woken_write", "cancelled_write"}
    <2>1. waiting_writers = Cardinality(TasksIn(pc, WaitingWrite))
      BY DEF LockInv, Counted, TasksAt, TasksIn
    <2>2. PICK v \in Tasks : pc[v] \in WaitingWrite
      BY <1>5, <2>1, CountWitness
    <2> QED
      BY <1>4, <2>2 DEF WaitingWrite
  <1> QED
    BY <1>1, <1>2, <1>3, <1>4, <1>5

----------------------------------------------------------------------------
(* One lemma per action: it keeps the invariant, and is a step of the       *)
(* abstract lock or leaves the tasks inside as they are.                    *)

AbstractStep == [Abstract!Next]_<<TasksAt({"reading"}), TasksAt({"writing"})>>

\* A step that moves t neither into the lock nor out of it is a stutter.
LEMMA AsideStutters ==
    ASSUME LockInv, NEW t \in Tasks, NEW to \in PC \ {"reading", "writing"},
           Effect(pc, pc', t, to), pc[t] \notin {"reading", "writing"}
    PROVE  AbstractStep
  <1>1. TasksIn(pc', {"reading"}) = TasksIn(pc, {"reading"})
    <2>1. to # "reading" /\ pc[t] # "reading"
      OBVIOUS
    <2>2. TasksIn(pc', {"reading"}) = TasksIn(pc, {"reading"}) \ {t}
      BY <2>1, ReadersFollow
    <2>3. t \notin TasksIn(pc, {"reading"})
      BY <2>1 DEF TasksIn
    <2> QED
      BY <2>2, <2>3
  <1>2. TasksIn(pc', {"writing"}) = TasksIn(pc, {"writing"})
    BY WriterFollows
  <1> QED
    BY <1>1, <1>2 DEF AbstractStep, TasksAt, TasksIn

\* acquire_read.
LEMMA AcquireReadStep ==
    ASSUME LockInv, NEW t \in Tasks, AcquireRead(t)
    PROVE  LockInv' /\ AbstractStep
  <1>1. pc \in [Tasks -> PC] /\ pc[t] \notin {"reading", "writing"} \cup WaitingWrite
    BY LockInvBefore DEF AcquireRead, WaitingWrite
  <1>2. CASE ReadAllowed
    <2>1. /\ pc' = Move(t, "reading") /\ readers' = readers + 1
          /\ writing' = writing /\ waiting_writers' = waiting_writers
          /\ ~writing /\ waiting_writers = 0
      BY <1>2 DEF AcquireRead, ReadAllowed
    <2>2. Effect(pc, pc', t, "reading")
      BY <1>1, <2>1, MoveEffect DEF PC
    <2>3. "reading" \notin WaitingWrite
      BY DEF WaitingWrite
    <2>4. /\ Cardinality(TasksIn(pc', {"reading"})) = readers'
          /\ Cardinality(TasksIn(pc', WaitingWrite)) = waiting_writers'
      BY <1>1, <2>1, <2>2, <2>3, CountersFollow
    <2>5. \A u \in Tasks : pc'[u] = "writing" <=> pc[u] = "writing"
      BY <1>1, <2>2, WriterFollows
    <2>6. LockInv'
      BY <2>1, <2>2, <2>4, <2>5, LockInvBefore, LockInvAfter DEF Effect
    <2>7. /\ TasksIn(pc', {"reading"}) = TasksIn(pc, {"reading"}) \cup {t}
          /\ TasksIn(pc', {"writing"}) = TasksIn(pc, {"writing"})
      BY <1>1, <2>2, ReadersFollow, WriterFollows
    <2>8. TasksIn(pc, {"writing"}) = {}
      BY <2>1, LockInvBefore DEF TasksIn
    <2> QED
      BY <2>6, <2>7, <2>8 DEF AbstractStep, TasksAt, TasksIn, Abstract!Next, Abstract!EnterRead
  <1>3. CASE ~ReadAllowed
    <2>1. /\ pc' = Move(t, "wait_read")
          /\ readers' = readers /\ writing' = writing /\ waiting_writers' = waiting_writers
      BY <1>3 DEF AcquireRead
    <2>2. Effect(pc, pc', t, "wait_read")
      BY <1>1, <2>1, MoveEffect DEF PC, WaitingRead
    <2>3. "wait_read" \notin WaitingWrite /\ "wait_read" \in PC
      BY DEF PC, WaitingRead, WaitingWrite
    <2>4. /\ Cardinality(TasksIn(pc', {"reading"})) = readers'
          /\ Cardinality(TasksIn(pc', WaitingWrite)) = waiting_writers'
      BY <1>1, <2>1, <2>2, <2>3, CountersFollow
    <2>5. \A u \in Tasks : pc'[u] = "writing" <=> pc[u] = "writing"
      BY <1>1, <2>2, WriterFollows
    <2>6. \A u \in Tasks \ {t} : pc'[u] = pc[u]
      BY <1>1, <2>1 DEF Move
    <2>7. \/ writing \/ readers > 0
          \/ \E v \in Tasks : pc[v] \in {"woken_write", "cancelled_write"}
      BY <1>3, LockInvBefore DEF ReadAllowed
    <2>8. \/ writing \/ readers > 0
          \/ \E v \in Tasks : pc'[v] \in {"woken_write", "cancelled_write"}
      BY <1>1, <2>6, <2>7 DEF WaitingWrite
    <2>9. \A u \in Tasks : pc'[u] = "wait_write" => pc[u] = "wait_write"
      BY <2>2, <2>6 DEF Effect
    <2>10. LockInv'
      BY <2>1, <2>2, <2>4, <2>5, <2>8, <2>9, LockInvBefore, LockInvAfter DEF Effect
    <2> QED
      BY <1>1, <2>2, <2>3, <2>10, AsideStutters
  <1> QED
    BY <1>2, <1>3

\* release_read: the last reader out leaves nobody unnotified.
LEMMA ReleaseReadStep ==
    ASSUME LockInv, NEW t \in Tasks, ReleaseRead(t)
    PROVE  LockInv' /\ AbstractStep
  <1>1. /\ pc \in [Tasks -> PC] /\ pc[t] = "reading" /\ pc[t] \notin WaitingWrite
        /\ readers' = readers - 1 /\ writing' = writing /\ waiting_writers' = waiting_writers
        /\ pc' = IF readers = 1 THEN NotifyAll(Move(t, "outside")) ELSE Move(t, "outside")
    BY LockInvBefore DEF ReleaseRead, WaitingWrite
  <1>2. Effect(pc, pc', t, "outside") /\ (readers = 1 => AllTold(pc'))
    BY <1>1, MoveEffect, NotifyEffect DEF PC
  <1>3. "outside" \notin WaitingWrite
    BY DEF WaitingWrite
  <1>4. /\ Cardinality(TasksIn(pc', {"reading"})) = readers' /\ readers > 0
        /\ Cardinality(TasksIn(pc', WaitingWrite)) = waiting_writers'
    <2>1. Cardinality(TasksIn(pc', {"reading"})) = readers - 1 /\ readers > 0
      BY <1>1, <1>2, CountersFollow
    <2>2. Cardinality(TasksIn(pc', WaitingWrite)) = waiting_writers
      BY <1>1, <1>2, <1>3, CountersFollow
    <2> QED
      BY <1>1, <2>1, <2>2
  <1>5. \A u \in Tasks : pc'[u] = "writing" <=> pc[u] = "writing"
    BY <1>1, <1>2, WriterFollows
  <1>6. readers' > 0 \/ \A u \in Tasks : pc'[u] \notin {"wait_read", "wait_write"}
    BY <1>1, <1>2, <1>4, LockInvBefore DEF AllTold
  <1>7. LockInv'
    BY <1>1, <1>2, <1>4, <1>5, <1>6, LockInvBefore, LockInvAfter DEF Effect
  <1>8. /\ TasksIn(pc', {"reading"}) = TasksIn(pc, {"reading"}) \ {t}
        /\ TasksIn(pc', {"writing"}) = TasksIn(pc, {"writing"})
        /\ t \in TasksIn(pc, {"reading"}) /\ t \notin TasksIn(pc, {"writing"})
    BY <1>1, <1>2, ReadersFollow, WriterFollows DEF TasksIn
  <1> QED
    BY <1>7, <1>8 DEF AbstractStep, TasksAt, TasksIn, Abstract!Next, Abstract!Leave

\* A writer enters, from outside or from its wait, when nobody is inside.
LEMMA EnterWriteStep ==
    ASSUME LockInv, NEW t \in Tasks, pc[t] \in {"outside", "woken_write"}, WriteAllowed,
           \/ pc' = Move(t, "writing")
           \/ pc' = NotifyAll(Move(t, "writing")),
           writing' = TRUE, readers' = readers,
           waiting_writers' = IF pc[t] = "outside" THEN waiting_writers ELSE waiting_writers - 1
    PROVE  LockInv' /\ AbstractStep
  <1>1. /\ pc \in [Tasks -> PC] /\ pc[t] # "reading"
        /\ pc[t] \in WaitingWrite <=> pc[t] # "outside"
        /\ ~writing /\ readers = 0
    BY LockInvBefore DEF WaitingWrite, WriteAllowed
  <1>2. Effect(pc, pc', t, "writing")
    BY <1>1, MoveEffect, NotifyEffect DEF PC
  <1>3. "writing" \notin WaitingWrite
    BY DEF WaitingWrite
  <1>4. /\ Cardinality(TasksIn(pc', {"reading"})) = readers'
        /\ Cardinality(TasksIn(pc', WaitingWrite)) = waiting_writers'
    <2>1. Cardinality(TasksIn(pc', {"reading"})) = readers
      BY <1>1, <1>2, CountersFollow
    <2>2. pc[t] = "outside" => Cardinality(TasksIn(pc', WaitingWrite)) = waiting_writers
      BY <1>1, <1>2, <1>3, CountersFollow
    <2>3. pc[t] # "outside" => Cardinality(TasksIn(pc', WaitingWrite)) = waiting_writers - 1
      BY <1>1, <1>2, <1>3, CountersFollow
    <2> QED
      BY <2>1, <2>2, <2>3
  <1>5. /\ \A u \in Tasks : pc'[u] = "writing" <=> u = t
        /\ TasksIn(pc, {"writing"}) = {} /\ TasksIn(pc', {"writing"}) = {t}
    BY <1>1, <1>2, WriterFollows
  <1>6. waiting_writers' \in Nat
    BY <1>4, WhereFinite
  <1>7. LockInv'
    BY <1>1, <1>2, <1>4, <1>5, <1>6, LockInvBefore, LockInvAfter DEF Effect
  <1>8. TasksIn(pc', {"reading"}) = TasksIn(pc, {"reading"})
    BY <1>1, <1>2, ReadersFollow
  <1>9. TasksIn(pc, {"reading"}) = {}
    <2>1. Cardinality(TasksIn(pc, {"reading"})) = 0
      BY <1>1 DEF LockInv, Counted, TasksAt, TasksIn
    <2> QED
      BY <2>1, WhereFinite, FS_EmptySet
  <1> QED
    BY <1>5, <1>7, <1>8, <1>9
       DEF AbstractStep, TasksAt, TasksIn, Abstract!Next, Abstract!EnterWrite

\* A writer that finds somebody inside waits, counted as waiting.
LEMMA QueueWriteStep ==
    ASSUME LockInv, NEW t \in Tasks, pc[t] \in {"outside", "woken_write"}, ~WriteAllowed,
           pc' = Move(t, "wait_write"), writing' = writing, readers' = readers,
           waiting_writers' = IF pc[t] = "outside" THEN waiting_writers + 1 ELSE waiting_writers
    PROVE  LockInv' /\ AbstractStep
  <1>1. /\ pc \in [Tasks -> PC] /\ pc[t] \notin {"reading", "writing"}
        /\ pc[t] \in WaitingWrite <=> pc[t] # "outside"
    BY LockInvBefore DEF WaitingWrite
  <1>2. "wait_write" \in WaitingWrite /\ "wait_write" \in PC
    BY DEF PC, WaitingWrite
  <1>3. Effect(pc, pc', t, "wait_write")
    BY <1>1, <1>2, MoveEffect
  <1>4. /\ Cardinality(TasksIn(pc', {"reading"})) = readers'
        /\ Cardinality(TasksIn(pc', WaitingWrite)) = waiting_writers'
    BY <1>1, <1>2, <1>3, CountersFollow
  <1>5. \A u \in Tasks : pc'[u] = "writing" <=> pc[u] = "writing"
    BY <1>1, <1>3, WriterFollows
  <1>6. writing \/ readers > 0
    BY LockInvBefore DEF WriteAllowed
  <1>7. waiting_writers' \in Nat
    BY <1>4, WhereFinite
  <1>8. LockInv'
    BY <1>3, <1>4, <1>5, <1>6, <1>7, LockInvBefore, LockInvAfter DEF Effect
  <1> QED
    BY <1>1, <1>2, <1>3, <1>8, AsideStutters

\* acquire_write, called and resumed.
LEMMA AcquireWriteStep ==
    ASSUME LockInv, NEW t \in Tasks, AcquireWrite(t) \/ ResumeWrite(t)
    PROVE  LockInv' /\ AbstractStep
  <1>1. CASE AcquireWrite(t)
    <2>1. pc[t] = "outside" /\ readers' = readers
      BY <1>1 DEF AcquireWrite
    <2>2. CASE WriteAllowed
      <3>1. /\ pc' = Move(t, "writing") \/ pc' = NotifyAll(Move(t, "writing"))
            /\ writing' = TRUE /\ waiting_writers' = waiting_writers
        BY <1>1, <2>2 DEF AcquireWrite
      <3> QED
        BY <2>1, <2>2, <3>1, EnterWriteStep
    <2>3. CASE ~WriteAllowed
      <3>1. /\ pc' = Move(t, "wait_write")
            /\ writing' = writing /\ waiting_writers' = waiting_writers + 1
        BY <1>1, <2>3 DEF AcquireWrite
      <3> QED
        BY <2>1, <2>3, <3>1, QueueWriteStep
    <2> QED
      BY <2>2, <2>3
  <1>2. CASE ResumeWrite(t)
    <2>1. pc[t] = "woken_write" /\ readers' = readers
      BY <1>2 DEF ResumeWrite
    <2>2. CASE WriteAllowed
      <3>1. /\ pc' = Move(t, "writing") \/ pc' = NotifyAll(Move(t, "writing"))
            /\ writing' = TRUE /\ waiting_writers' = waiting_writers - 1
        BY <1>2, <2>2 DEF ResumeWrite, StopWaiting
      <3> QED
        BY <2>1, <2>2, <3>1, EnterWriteStep
    <2>3. CASE ~WriteAllowed
      <3>1. /\ pc' = Move(t, "wait_write")
            /\ writing' = writing /\ waiting_writers' = waiting_writers
        BY <1>2, <2>3 DEF ResumeWrite
      <3> QED
        BY <2>1, <2>3, <3>1, QueueWriteStep
    <2> QED
      BY <2>2, <2>3
  <1> QED
    BY <1>1, <1>2

\* release_write.
LEMMA ReleaseWriteStep ==
    ASSUME LockInv, NEW t \in Tasks, ReleaseWrite(t)
    PROVE  LockInv' /\ AbstractStep
  <1>1. /\ pc \in [Tasks -> PC] /\ pc[t] = "writing" /\ pc[t] \notin WaitingWrite
        /\ readers' = readers /\ writing' = FALSE /\ waiting_writers' = waiting_writers
        /\ pc' = NotifyAll(Move(t, "outside"))
    BY LockInvBefore DEF ReleaseWrite, WaitingWrite
  <1>2. Effect(pc, pc', t, "outside") /\ AllTold(pc')
    BY <1>1, NotifyEffect
  <1>3. "outside" \notin WaitingWrite
    BY DEF WaitingWrite
  <1>4. /\ Cardinality(TasksIn(pc', {"reading"})) = readers'
        /\ Cardinality(TasksIn(pc', WaitingWrite)) = waiting_writers'
    BY <1>1, <1>2, <1>3, CountersFollow
  <1>5. /\ \A u \in Tasks : pc'[u] # "writing"
        /\ TasksIn(pc, {"writing"}) = {t} /\ TasksIn(pc', {"writing"}) = {}
    BY <1>1, <1>2, WriterFollows
  <1>6. LockInv'
    BY <1>1, <1>2, <1>4, <1>5, LockInvBefore, LockInvAfter DEF Effect, AllTold
  <1>7. /\ TasksIn(pc', {"reading"}) = TasksIn(pc, {"reading"})
        /\ t \notin TasksIn(pc, {"reading"})
    BY <1>1, <1>2, ReadersFollow
  <1> QED
    BY <1>5, <1>6, <1>7 DEF AbstractStep, TasksAt, TasksIn, Abstract!Next, Abstract!Leave

\* A cancellation: the cancelled writer stays counted until it runs.
LEMMA CancelStep ==
    ASSUME LockInv, NEW t \in Tasks, CancelWait(t)
    PROVE  LockInv' /\ AbstractStep
  <1>1. PICK to \in {"cancelled_read", "cancelled_write"} :
           /\ pc' = Move(t, to)
           /\ to = "cancelled_read" => pc[t] \in {"wait_read", "woken_read"}
           /\ to = "cancelled_write" => pc[t] \in {"wait_write", "woken_write"}
    BY DEF CancelWait
  <1>2. /\ pc \in [Tasks -> PC] /\ to \in PC /\ to \notin {"reading", "writing"}
        /\ to \in WaitingWrite <=> pc[t] \in WaitingWrite
        /\ pc[t] \notin {"reading", "writing"}
        /\ readers' = readers /\ writing' = writing /\ waiting_writers' = waiting_writers
    BY <1>1, LockInvBefore DEF CancelWait, PC, WaitingRead, WaitingWrite
  <1>3. Effect(pc, pc', t, to)
    BY <1>1, <1>2, MoveEffect
  <1>4. /\ Cardinality(TasksIn(pc', {"reading"})) = readers'
        /\ Cardinality(TasksIn(pc', WaitingWrite)) = waiting_writers'
    BY <1>2, <1>3, CountersFollow
  <1>5. \A u \in Tasks : pc'[u] = "writing" <=> pc[u] = "writing"
    BY <1>2, <1>3, WriterFollows
  <1>6. pc'[t] = to /\ \A u \in Tasks \ {t} : pc'[u] = pc[u]
    BY <1>1, <1>2 DEF Move
  <1>7. \A u \in Tasks : /\ pc'[u] = "wait_write" => pc[u] = "wait_write"
                         /\ pc'[u] = "wait_read" => pc[u] = "wait_read"
    BY <1>1, <1>6
  <1>8. (\E v \in Tasks : pc[v] \in {"woken_write", "cancelled_write"})
        => \E v \in Tasks : pc'[v] \in {"woken_write", "cancelled_write"}
    BY <1>1, <1>6
  <1>9. LockInv'
    BY <1>2, <1>3, <1>4, <1>5, <1>7, <1>8, LockInvBefore, LockInvAfter DEF Effect
  <1> QED
    BY <1>2, <1>3, <1>9, AsideStutters

\* A cancelled task leaves: a writer that was the last one waiting tells the
\* readers it held off, and one that was not leaves another behind.
LEMMA AbandonStep ==
    ASSUME LockInv, NEW t \in Tasks, Abandon(t)
    PROVE  LockInv' /\ AbstractStep
  <1>1. /\ pc \in [Tasks -> PC] /\ pc[t] \notin {"reading", "writing"}
        /\ readers' = readers /\ writing' = writing
        /\ "outside" \in PC /\ "outside" \notin WaitingWrite
    BY LockInvBefore DEF Abandon, PC, WaitingWrite
  <1>2. CASE pc[t] = "cancelled_read"
    <2>1. pc' = Move(t, "outside") /\ waiting_writers' = waiting_writers
      BY <1>2 DEF Abandon
    <2>2. Effect(pc, pc', t, "outside")
      BY <1>1, <2>1, MoveEffect
    <2>3. pc[t] \notin WaitingWrite
      BY <1>2 DEF WaitingWrite
    <2>4. /\ Cardinality(TasksIn(pc', {"reading"})) = readers'
          /\ Cardinality(TasksIn(pc', WaitingWrite)) = waiting_writers'
      BY <1>1, <2>1, <2>2, <2>3, CountersFollow
    <2>5. \A u \in Tasks : pc'[u] = "writing" <=> pc[u] = "writing"
      BY <1>1, <2>2, WriterFollows
    <2>6. pc'[t] = "outside" /\ \A u \in Tasks \ {t} : pc'[u] = pc[u]
      BY <1>1, <2>1 DEF Move
    <2>7. \A u \in Tasks : /\ pc'[u] = "wait_write" => pc[u] = "wait_write"
                           /\ pc'[u] = "wait_read" => pc[u] = "wait_read"
      BY <2>6
    <2>8. (\E v \in Tasks : pc[v] \in {"woken_write", "cancelled_write"})
          => \E v \in Tasks : pc'[v] \in {"woken_write", "cancelled_write"}
      BY <1>2, <2>6
    <2>9. LockInv'
      BY <1>1, <2>1, <2>2, <2>4, <2>5, <2>7, <2>8, LockInvBefore, LockInvAfter DEF Effect
    <2> QED
      BY <1>1, <2>2, <2>9, AsideStutters
  <1>3. CASE pc[t] = "cancelled_write"
    <2>1. /\ waiting_writers' = waiting_writers - 1
          /\ pc' = IF waiting_writers = 1 /\ ~writing THEN NotifyAll(Move(t, "outside"))
                   ELSE Move(t, "outside")
      BY <1>3 DEF Abandon, StopWaiting
    <2>2. /\ Effect(pc, pc', t, "outside")
          /\ waiting_writers = 1 /\ ~writing => AllTold(pc')
      BY <1>1, <2>1, MoveEffect, NotifyEffect
    <2>3. pc[t] \in WaitingWrite
      BY <1>3 DEF WaitingWrite
    <2>4. /\ Cardinality(TasksIn(pc', {"reading"})) = readers'
          /\ Cardinality(TasksIn(pc', WaitingWrite)) = waiting_writers'
          /\ waiting_writers > 0
      <3>1. Effect(pc, pc', t, "outside") /\ pc[t] # "reading" /\ "outside" \notin WaitingWrite
        BY <1>1, <2>2
      <3>2. Cardinality(TasksIn(pc', {"reading"})) = readers
        BY <3>1, CountersFollow
      <3>3. Cardinality(TasksIn(pc', WaitingWrite)) = waiting_writers - 1 /\ waiting_writers > 0
        BY <2>3, <3>1, CountersFollow
      <3> QED
        BY <1>1, <2>1, <3>2, <3>3
    <2>5. \A u \in Tasks : pc'[u] = "writing" <=> pc[u] = "writing"
      BY <1>1, <2>2, WriterFollows
    <2>6. waiting_writers \in Nat /\ waiting_writers' \in Nat
      BY <2>4, WhereFinite, LockInvBefore
    <2>7. \A u \in Tasks : pc'[u] = "wait_write" => pc[u] = "wait_write"
      BY <2>2 DEF Effect
    <2>8. \/ writing \/ readers > 0 \/ AllTold(pc')
          \/ \E v \in Tasks : pc'[v] \in {"woken_write", "cancelled_write"}
      <3>1. CASE waiting_writers = 1
        BY <2>2, <3>1
      <3>2. CASE waiting_writers > 1
        <4>1. waiting_writers' > 0
          BY <2>1, <2>6, <3>2
        <4>2. PICK v \in Tasks : pc'[v] \in WaitingWrite
          BY <2>4, <4>1, CountWitness
        <4> QED
          BY <2>7, <4>2, LockInvBefore DEF WaitingWrite
      <3> QED
        BY <2>4, <2>6, <3>1, <3>2
    <2>9. LockInv'
      BY <1>1, <2>2, <2>4, <2>5, <2>6, <2>7, <2>8, LockInvBefore, LockInvAfter
      DEF Effect, AllTold
    <2> QED
      BY <1>1, <2>2, <2>9, AsideStutters
  <1> QED
    BY <1>2, <1>3 DEF Abandon

----------------------------------------------------------------------------
\* Every step keeps the invariant and is a step of the abstract lock.
LEMMA LockStep ==
    ASSUME LockInv, [LockNext]_lockVars
    PROVE  LockInv' /\ AbstractStep
  <1>1. CASE LockNext
    <2>1. PICK t \in Tasks : AcquireRead(t) \/ AcquireWrite(t) \/ CancelWait(t) \/ Progress(t)
      BY <1>1 DEF LockNext
    <2>2. \/ AcquireRead(t) \/ AcquireWrite(t) \/ ResumeWrite(t) \/ CancelWait(t)
          \/ Abandon(t) \/ ReleaseRead(t) \/ ReleaseWrite(t)
      BY <2>1 DEF Progress
    <2> QED
      BY <2>2, AcquireReadStep, AcquireWriteStep, CancelStep, AbandonStep,
         ReleaseReadStep, ReleaseWriteStep
  <1>2. CASE UNCHANGED lockVars
    <2>1. LockInv'
      BY <1>2 DEF lockVars, LockInv, LockTypeOK, Counted, Exclusive, NoLostWakeup, TasksAt
    <2> QED
      BY <1>2, <2>1 DEF lockVars, AbstractStep, TasksAt
  <1> QED
    BY <1>1, <1>2

\* Initially nobody is inside or waiting.
LEMMA LockInvInit ==
    ASSUME LockInit
    PROVE  LockInv /\ Abstract!Init
  <1>1. /\ pc = [t \in Tasks |-> "outside"]
        /\ readers = 0 /\ writing = FALSE /\ waiting_writers = 0
    BY DEF LockInit
  <1>2. TasksAt({"reading"}) = {} /\ TasksAt({"writing"}) = {} /\ TasksAt(WaitingWrite) = {}
        /\ TasksAt({"wait_read"}) = {} /\ TasksAt({"wait_write"}) = {}
    BY <1>1 DEF TasksAt, WaitingWrite
  <1>3. LockInv
    BY <1>1, <1>2, FS_EmptySet DEF LockInv, LockTypeOK, Counted, Exclusive, NoLostWakeup, PC
  <1> QED
    BY <1>2, <1>3 DEF Abstract!Init

\* The counters of the lock are exact, at most one writer is inside and never
\* beside a reader, and no wake-up is lost.
THEOREM LockInvariant == LockSpec => []LockInv
  <1>1. LockInit => LockInv
    BY LockInvInit
  <1>2. LockInv /\ [LockNext]_lockVars => LockInv'
    BY LockStep
  <1> QED
    BY <1>1, <1>2, PTL DEF LockSpec

\* _readers and _waiting_writers are never negative.
THEOREM LockTypeCorrect == LockSpec => []LockTypeOK
  <1>1. LockInv => LockTypeOK
    BY DEF LockInv
  <1> QED
    BY <1>1, LockInvariant, PTL

\* _readers counts the readers inside and _waiting_writers the writers that
\* wait, whatever was cancelled.
THEOREM LockCounted == LockSpec => []Counted
  <1>1. LockInv => Counted
    BY DEF LockInv
  <1> QED
    BY <1>1, LockInvariant, PTL

\* Nobody waits unnotified for a lock that nobody inside, and no runnable
\* writer, will hand on.
THEOREM LockNoLostWakeup == LockSpec => []NoLostWakeup
  <1>1. LockInv => NoLostWakeup
    BY DEF LockInv
  <1> QED
    BY <1>1, LockInvariant, PTL

\* The lock of space_lock.py is a readers-writer lock.
THEOREM LockImplements == LockSpec => ImplementsReadersWriter
  <1>1. LockInit => Abstract!Init
    BY LockInvInit
  <1>2. LockInv /\ [LockNext]_lockVars
        => [Abstract!Next]_<<TasksAt({"reading"}), TasksAt({"writing"})>>
    BY LockStep DEF AbstractStep
  <1> QED
    BY <1>1, <1>2, LockInvariant, PTL DEF LockSpec, ImplementsReadersWriter, Abstract!Spec
=============================================================================
