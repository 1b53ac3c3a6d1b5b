---------------------------- MODULE RealmsProofs ----------------------------
(***************************************************************************)
(* The theorems of Supervisor and RealmSnapshot: that a realm is restored  *)
(* only while no agent serves it, that no agent is left behind by          *)
(* overlapping reconciles, and that a restore can be interrupted anywhere. *)
(*                                                                         *)
(* What the supervisor does to a realm between two awaits is a composition *)
(* of a few operators, and each of them is shown to be "calm": it lets no  *)
(* agent serve that did not, and leaves the victims of a pause alone; and  *)
(* to "keep" the agents tracked, unless it starts one over a child.        *)
(***************************************************************************)
EXTENDS RealmSnapshot, TLAPS

----------------------------------------------------------------------------
(* The form of what is known of a realm.                                    *)

ProcForm(p) == DOMAIN p = {"st", "ran", "def", "degraded", "fails"}

RealmForm(x) ==
    /\ DOMAIN x = {"child", "procs", "victims", "failed"}
    /\ DOMAIN x.child = Kinds
    /\ DOMAIN x.procs = Kinds
    /\ DOMAIN x.procs["agent"] = Gens
    /\ \A g \in Gens : ProcForm(x.procs["agent"][g])

Agent(x, g) == x.procs["agent"][g].st

\* Some agent can be started, whatever the victims are.
Room(x) == \E g \in Gens : g \notin x.victims

\* Every place that is taken is that of the child or of a victim.
Tracked(x) == \A g \in Gens : Agent(x, g) # "free" => g = x.child["agent"] \/ g \in x.victims

Calm(x, y) ==
    /\ RealmForm(y)
    /\ y.victims = x.victims
    /\ \A g \in Gens : Agent(y, g) = "serving" => Agent(x, g) = "serving"

Keeps(x, y) == Tracked(x) /\ Room(x) => Tracked(y)

\* One that does not start an agent over another.
Orderly(x, y) == Calm(x, y) /\ Keeps(x, y)

LEMMA OrderlyTrans ==
    ASSUME NEW x, NEW y, NEW z, Orderly(x, y), Orderly(y, z)
    PROVE  Orderly(x, z)
<1>1. Calm(x, z)
  BY DEF Orderly, Calm
<1>2. Room(x) => Room(y)
  BY DEF Orderly, Calm, Room
<1> QED
  BY <1>1, <1>2 DEF Orderly, Keeps

LEMMA CalmTrans ==
    ASSUME NEW x, NEW y, NEW z, Calm(x, y), Calm(y, z)
    PROVE  Calm(x, z)
BY DEF Calm

LEMMA OrderlyRefl ==
    ASSUME NEW x, RealmForm(x)
    PROVE  Orderly(x, x)
BY DEF Orderly, Calm, Keeps

LEMMA GensPositive == 0 \notin Gens
BY SupervisorConstants DEF Gens

LEMMA ChangeOfFailed ==
    ASSUME NEW x, RealmForm(x), NEW f
    PROVE  LET y == [x EXCEPT !.failed = f]
           IN Orderly(x, y) /\ y.child = x.child /\ y.procs = x.procs
<1> DEFINE y == [x EXCEPT !.failed = f]
<1>1. DOMAIN y = DOMAIN x
  OBVIOUS
<1>2. y.child = x.child /\ y.procs = x.procs /\ y.victims = x.victims
  BY DEF RealmForm
<1> HIDE DEF y
<1>3. RealmForm(y)
  BY <1>1, <1>2 DEF RealmForm
<1>4. Orderly(x, y)
  BY <1>2, <1>3 DEF Orderly, Calm, Keeps, Tracked, Agent
<1> QED
  BY <1>2, <1>4 DEF y

----------------------------------------------------------------------------
(* The operators on children.                                               *)

LEMMA NoProcForm == ProcForm(NoProc) /\ NoProc.st = "free"
BY DEF NoProc, ProcForm

LEMMA TerminateOrderly ==
    ASSUME NEW x, RealmForm(x), NEW k \in Kinds
    PROVE  /\ Orderly(x, Terminate(x, k))
           /\ Terminate(x, k).child[k] = 0
           /\ \A j \in Kinds : j # k => Terminate(x, k).child[j] = x.child[j]
<1>1. CASE x.child[k] = 0
  BY <1>1, OrderlyRefl DEF Terminate
<1>2. CASE x.child[k] # 0
  <2> DEFINE c == x.child[k]
             ps == [x.procs[k] EXCEPT ![c] = NoProc]
             y == [x EXCEPT !.procs = [x.procs EXCEPT ![k] = ps],
                            !.child = [x.child EXCEPT ![k] = 0]]
  <2>1. Terminate(x, k) = y
    BY <1>2, Zenon DEF Terminate
  <2>2. ASSUME k = "agent"
        PROVE  /\ DOMAIN ps = Gens
               /\ \A g \in Gens : ps[g] = IF g = c THEN NoProc ELSE x.procs["agent"][g]
               /\ \A g \in Gens : ProcForm(ps[g])
    BY <2>2, NoProcForm DEF RealmForm
  <2> HIDE DEF ps
  <2>a. /\ DOMAIN y = DOMAIN x /\ y.victims = x.victims
        /\ y.procs = [x.procs EXCEPT ![k] = ps] /\ y.child = [x.child EXCEPT ![k] = 0]
    BY DEF RealmForm
  <2> HIDE DEF y
  <2>b. "agent" \in Kinds
    BY DEF Kinds
  <2>c. /\ DOMAIN y.child = Kinds /\ DOMAIN y.procs = Kinds
        /\ y.procs["agent"] = IF k = "agent" THEN ps ELSE x.procs["agent"]
        /\ y.child[k] = 0
        /\ \A j \in Kinds : j # k => y.child[j] = x.child[j]
    BY <2>a, <2>b DEF RealmForm
  <2>3. RealmForm(y)
    BY <2>a, <2>b, <2>c, <2>2 DEF RealmForm
  <2>4. \A g \in Gens : Agent(y, g) # "free" =>
            Agent(y, g) = Agent(x, g) /\ (k = "agent" => g # c)
    BY <2>2, <2>c, NoProcForm DEF Agent
  <2>5. Calm(x, y)
    BY <2>a, <2>3, <2>4 DEF Calm
  <2>6. Keeps(x, y)
    <3>1. CASE k = "agent"
      BY <3>1, <2>a, <2>c, <2>4 DEF Keeps, Tracked
    <3>2. CASE k # "agent"
      BY <3>2, <2>a, <2>b, <2>c, <2>4 DEF Keeps, Tracked
    <3> QED
      BY <3>1, <3>2
  <2> QED
    BY <2>1, <2>c, <2>5, <2>6 DEF Orderly
<1> QED
  BY <1>1, <1>2

LEMMA SpawnedForm ==
    ASSUME NEW e, NEW s
    PROVE  LET p == [NoProc EXCEPT !.st = s, !.ran = e, !.def = e]
           IN ProcForm(p) /\ p.st = s
BY DEF NoProc, ProcForm

LEMMA SpawnCalm ==
    ASSUME NEW x, RealmForm(x), NEW k \in Kinds, NEW e
    PROVE  /\ Calm(x, Spawn(x, k, e))
           /\ k = "agent" => \A g \in Gens :
                  Agent(Spawn(x, k, e), g) = IF g = FreeGen(x, "agent") THEN "starting"
                                             ELSE Agent(x, g)
           /\ k # "agent" => Spawn(x, k, e).procs["agent"] = x.procs["agent"]
           /\ Spawn(x, k, e).child[k] = FreeGen(x, k)
           /\ \A j \in Kinds : j # k => Spawn(x, k, e).child[j] = x.child[j]
<1> DEFINE c == FreeGen(x, k)
           s == IF k = "agent" THEN "starting" ELSE "serving"
           p == [NoProc EXCEPT !.st = s, !.ran = e, !.def = e]
           ps == [x.procs[k] EXCEPT ![c] = p]
           y == [x EXCEPT !.procs = [x.procs EXCEPT ![k] = ps],
                          !.child = [x.child EXCEPT ![k] = c]]
<1>1. Spawn(x, k, e) = y
  BY Zenon DEF Spawn
<1>2. ProcForm(p) /\ p.st = s
  BY SpawnedForm
<1> HIDE DEF p
<1>3. ASSUME k = "agent"
      PROVE  /\ DOMAIN ps = Gens
             /\ \A g \in Gens : ps[g] = IF g = c THEN p ELSE x.procs["agent"][g]
             /\ \A g \in Gens : ProcForm(ps[g])
  BY <1>2, <1>3 DEF RealmForm
<1> HIDE DEF ps, c
<1>a. /\ DOMAIN y = DOMAIN x /\ y.victims = x.victims
      /\ y.procs = [x.procs EXCEPT ![k] = ps] /\ y.child = [x.child EXCEPT ![k] = c]
  BY DEF RealmForm
<1> HIDE DEF y
<1>b. "agent" \in Kinds
  BY DEF Kinds
<1>c. /\ DOMAIN y.child = Kinds /\ DOMAIN y.procs = Kinds
      /\ y.procs["agent"] = IF k = "agent" THEN ps ELSE x.procs["agent"]
      /\ y.child[k] = c
      /\ \A j \in Kinds : j # k => y.child[j] = x.child[j]
  BY <1>a, <1>b DEF RealmForm
<1>4. RealmForm(y)
  BY <1>a, <1>b, <1>c, <1>3 DEF RealmForm
<1>5. k = "agent" => \A g \in Gens :
          Agent(y, g) = IF g = c THEN "starting" ELSE Agent(x, g)
  BY <1>2, <1>3, <1>c DEF Agent
<1>6. k # "agent" => y.procs["agent"] = x.procs["agent"]
  BY <1>c
<1>7. Calm(x, y)
  BY <1>a, <1>4, <1>5, <1>6 DEF Calm, Agent
<1> QED
  BY <1>1, <1>c, <1>5, <1>6, <1>7 DEF c

\* A consolidator, or an agent where there is no child.
LEMMA SpawnOrderly ==
    ASSUME NEW x, RealmForm(x), NEW k \in Kinds, NEW e,
           k = "agent" => x.child["agent"] = 0
    PROVE  Orderly(x, Spawn(x, k, e))
<1> DEFINE y == Spawn(x, k, e)
<1>1. Calm(x, y)
  BY SpawnCalm
<1>2. ASSUME Tracked(x), Room(x) PROVE Tracked(y)
  <2>1. CASE k # "agent"
    <3>1. y.procs["agent"] = x.procs["agent"] /\ y.child["agent"] = x.child["agent"]
      BY <2>1, SpawnCalm DEF Kinds
    <3> QED
      BY <3>1, <1>1, <1>2 DEF Tracked, Agent, Calm
  <2>2. CASE k = "agent"
    <3>1. PICK g \in Gens : g \notin x.victims
      BY <1>2 DEF Room
    <3>2. Agent(x, g) = "free"
      BY <3>1, <2>2, <1>2, GensPositive DEF Tracked
    <3>3. FreeGen(x, "agent") \in Gens
      BY <3>2 DEF FreeGen, Agent
    <3>4. y.child["agent"] = FreeGen(x, "agent")
      BY <2>2, SpawnCalm
    <3>5. \A h \in Gens : h # FreeGen(x, "agent") => Agent(y, h) = Agent(x, h)
      BY <2>2, SpawnCalm
    <3>6. \A h \in Gens : Agent(x, h) # "free" => h \in x.victims
      BY <2>2, <1>2, GensPositive DEF Tracked
    <3> QED
      BY <3>4, <3>5, <3>6, <1>1 DEF Tracked, Calm
  <2> QED
    BY <2>1, <2>2
<1> QED
  BY <1>1, <1>2 DEF Orderly, Keeps

LEMMA DefineOrderly ==
    ASSUME NEW x, RealmForm(x), NEW k \in Kinds, NEW e
    PROVE  Orderly(x, Define(x, k, e)) /\ Define(x, k, e).child = x.child
<1> DEFINE c == x.child[k]
           p == [x.procs[k][c] EXCEPT !.def = e]
           ps == [x.procs[k] EXCEPT ![c] = p]
           y == [x EXCEPT !.procs = [x.procs EXCEPT ![k] = ps]]
<1>1. Define(x, k, e) = y
  BY Zenon DEF Define
<1>2. "agent" \in Kinds
  BY DEF Kinds
<1>3. ASSUME k = "agent", c \in Gens
      PROVE  ProcForm(p) /\ p.st = Agent(x, c)
  BY <1>3 DEF RealmForm, ProcForm, Agent
<1> HIDE DEF p
<1>4. ASSUME k = "agent"
      PROVE  /\ DOMAIN ps = Gens
             /\ \A g \in Gens : ps[g] = IF g = c THEN p ELSE x.procs["agent"][g]
  BY <1>4 DEF RealmForm
<1>5. /\ DOMAIN y = DOMAIN x /\ y.victims = x.victims /\ y.child = x.child
      /\ y.procs = [x.procs EXCEPT ![k] = ps]
  BY DEF RealmForm
<1> HIDE DEF ps, y
<1>6. DOMAIN y.procs = Kinds /\ y.procs["agent"] = IF k = "agent" THEN ps ELSE x.procs["agent"]
  BY <1>2, <1>5 DEF RealmForm
<1>7. \A g \in Gens : ProcForm(y.procs["agent"][g]) /\ Agent(y, g) = Agent(x, g)
  BY <1>3, <1>4, <1>6 DEF RealmForm, Agent
<1>8. RealmForm(y)
  BY <1>2, <1>4, <1>5, <1>6, <1>7 DEF RealmForm
<1>9. Orderly(x, y)
  BY <1>5, <1>7, <1>8 DEF Orderly, Calm, Keeps, Tracked
<1> QED
  BY <1>1, <1>5, <1>9

LEMMA RecordFailureForm ==
    ASSUME NEW p, ProcForm(p), NEW fresh
    PROVE  ProcForm(RecordFailure(p, fresh)) /\ RecordFailure(p, fresh).st = p.st
<1> DEFINE n == IF fresh THEN 1 ELSE p.fails + 1
           d == n >= MaxFailures
<1>1. RecordFailure(p, fresh) = [p EXCEPT !.fails = n, !.degraded = d]
  BY DEF RecordFailure
<1> HIDE DEF n, d
<1> QED
  BY <1>1 DEF ProcForm

LEMMA RestartedForm ==
    ASSUME NEW p, ProcForm(p), NEW fresh, NEW bad
    PROVE  /\ ProcForm(Restarted(p, "agent", fresh, bad))
           /\ Restarted(p, "agent", fresh, bad).st \in {p.st, "starting"}
<1> DEFINE q == RecordFailure(p, fresh)
<1>1. ProcForm(q) /\ q.st = p.st
  BY RecordFailureForm
<1>2. ProcForm(RecordFailure(q, FALSE)) /\ RecordFailure(q, FALSE).st = p.st
  BY <1>1, RecordFailureForm
<1> HIDE DEF q
<1>3. /\ ProcForm([q EXCEPT !.st = "starting", !.ran = q.def])
      /\ [q EXCEPT !.st = "starting", !.ran = q.def].st = "starting"
  BY <1>1 DEF ProcForm
<1>4. \/ Restarted(p, "agent", fresh, bad) = q
      \/ Restarted(p, "agent", fresh, bad) = RecordFailure(q, FALSE)
      \/ Restarted(p, "agent", fresh, bad) = [q EXCEPT !.st = "starting", !.ran = q.def]
  BY DEF Restarted, q
<1> QED
  BY <1>1, <1>2, <1>3, <1>4

LEMMA CheckChildOrderly ==
    ASSUME NEW x, RealmForm(x), NEW k \in Kinds, NEW fresh, NEW bad
    PROVE  Orderly(x, CheckChild(x, k, fresh, bad))
<1>1. CASE x.child[k] = 0 \/ Child(x, k).degraded \/ Alive(Child(x, k))
  BY <1>1, OrderlyRefl DEF CheckChild
<1>2. CASE ~(x.child[k] = 0 \/ Child(x, k).degraded \/ Alive(Child(x, k)))
  <2> DEFINE c == x.child[k]
             p == Restarted(x.procs[k][c], k, fresh, bad)
             ps == [x.procs[k] EXCEPT ![c] = p]
             y == [x EXCEPT !.procs = [x.procs EXCEPT ![k] = ps]]
  <2>1. CheckChild(x, k, fresh, bad) = y
    BY <1>2, Zenon DEF CheckChild
  <2>2. "agent" \in Kinds
    BY DEF Kinds
  <2>3. ASSUME k = "agent", c \in Gens
        PROVE  ProcForm(p) /\ p.st \in {Agent(x, c), "starting"}
    <3>1. ProcForm(x.procs["agent"][c])
      BY <2>3 DEF RealmForm
    <3> QED
      BY <2>3, <3>1, RestartedForm DEF Agent
  <2> HIDE DEF p
  <2>4. ASSUME k = "agent"
        PROVE  /\ DOMAIN ps = Gens
               /\ \A g \in Gens : ps[g] = IF g = c THEN p ELSE x.procs["agent"][g]
    BY <2>4 DEF RealmForm
  <2>5. /\ DOMAIN y = DOMAIN x /\ y.victims = x.victims /\ y.child = x.child
        /\ y.procs = [x.procs EXCEPT ![k] = ps]
    BY DEF RealmForm
  <2> HIDE DEF ps, y
  <2>6. DOMAIN y.procs = Kinds /\ y.procs["agent"] = IF k = "agent" THEN ps ELSE x.procs["agent"]
    BY <2>2, <2>5 DEF RealmForm
  <2>7. \A g \in Gens : /\ ProcForm(y.procs["agent"][g])
                         /\ \/ Agent(y, g) = Agent(x, g)
                            \/ g = x.child["agent"] /\ Agent(y, g) = "starting"
    BY <2>3, <2>4, <2>6 DEF RealmForm, Agent
  <2>8. RealmForm(y)
    BY <2>2, <2>4, <2>5, <2>6, <2>7 DEF RealmForm
  <2>9. Orderly(x, y)
    BY <2>5, <2>7, <2>8 DEF Orderly, Calm, Keeps, Tracked
  <2> QED
    BY <2>1, <2>9
<1> QED
  BY <1>1, <1>2

----------------------------------------------------------------------------
(* What a task does to a realm between two awaits.                          *)

LEMMA BothKinds == "agent" \in Kinds /\ "consolidator" \in Kinds /\ "agent" # "consolidator"
BY DEF Kinds

LEMMA OrderlyForm ==
    ASSUME NEW x, NEW y, Orderly(x, y)
    PROVE  RealmForm(y) /\ Calm(x, y)
BY DEF Orderly, Calm

LEMMA TerminateBothOrderly ==
    ASSUME NEW x, RealmForm(x)
    PROVE  /\ Orderly(x, TerminateBoth(x))
           /\ TerminateBoth(x).child["agent"] = 0
<1> DEFINE y == Terminate(x, "agent")
<1>1. Orderly(x, y) /\ y.child["agent"] = 0
  BY TerminateOrderly, BothKinds
<1>2. RealmForm(y)
  BY <1>1, OrderlyForm
<1> HIDE DEF y
<1> DEFINE z == Terminate(y, "consolidator")
<1>3. Orderly(y, z) /\ z.child["agent"] = y.child["agent"]
  BY <1>2, TerminateOrderly, BothKinds
<1>4. TerminateBoth(x) = z
  BY DEF TerminateBoth, y
<1> HIDE DEF z
<1> QED
  BY <1>1, <1>3, <1>4, OrderlyTrans

LEMMA CheckRealmOrderly ==
    ASSUME NEW x, RealmForm(x), NEW fresh, NEW bad
    PROVE  Orderly(x, CheckRealm(x, fresh, bad))
<1> DEFINE y == CheckChild(x, "agent", fresh, bad)
<1>1. Orderly(x, y)
  BY CheckChildOrderly, BothKinds
<1>2. RealmForm(y)
  BY <1>1, OrderlyForm
<1> HIDE DEF y
<1> DEFINE z == CheckChild(y, "consolidator", fresh, bad)
<1>3. Orderly(y, z)
  BY <1>2, CheckChildOrderly, BothKinds
<1>4. CheckRealm(x, fresh, bad) = z
  BY DEF CheckRealm, y
<1> HIDE DEF z
<1> QED
  BY <1>1, <1>3, <1>4, OrderlyTrans

LEMMA StopUnwantedOrderly ==
    ASSUME NEW x, RealmForm(x), NEW e
    PROVE  Orderly(x, StopUnwanted(x, e))
<1> DEFINE y == IF Enabled(e) THEN x ELSE [x EXCEPT !.failed = NoFailure]
<1>1. Orderly(x, y)
  BY ChangeOfFailed, OrderlyRefl
<1>2. RealmForm(y)
  BY <1>1, OrderlyForm
<1>3. StopUnwanted(x, e) \in {y, TerminateBoth(y)}
  BY DEF StopUnwanted
<1> HIDE DEF y
<1>4. Orderly(y, TerminateBoth(y))
  BY <1>2, TerminateBothOrderly
<1> QED
  BY <1>1, <1>3, <1>4, OrderlyTrans

LEMMA EnsureAgentChildOrderly ==
    ASSUME NEW x, RealmForm(x), NEW e, NEW bad
    PROVE  Orderly(x, EnsureAgentChild(x, e, bad))
<1> DEFINE y == Terminate(x, "agent")
<1>1. Orderly(x, y) /\ y.child["agent"] = 0
  BY TerminateOrderly, BothKinds
<1>2. RealmForm(y)
  BY <1>1, OrderlyForm
<1>3. EnsureAgentChild(x, e, bad) \in {Define(x, "agent", e), y, Spawn(y, "agent", e)}
  BY DEF EnsureAgentChild
<1> HIDE DEF y
<1>4. Orderly(y, Spawn(y, "agent", e))
  BY <1>1, <1>2, SpawnOrderly, BothKinds
<1>5. Orderly(x, Define(x, "agent", e))
  BY DefineOrderly, BothKinds
<1> QED
  BY <1>1, <1>3, <1>4, <1>5, OrderlyTrans

LEMMA InitFailedOrderly ==
    ASSUME NEW x, RealmForm(x), NEW fresh
    PROVE  /\ Orderly(x, InitFailed(x, fresh))
           /\ InitFailed(x, fresh).child = x.child
BY ChangeOfFailed DEF InitFailed

LEMMA RefreshOrderly ==
    ASSUME NEW x, RealmForm(x), NEW e
    PROVE  Orderly(x, Refresh(x, e))
<1> DEFINE y == [x EXCEPT !.failed = NoFailure]
<1>1. Orderly(x, y)
  BY ChangeOfFailed
<1>2. RealmForm(y)
  BY <1>1, OrderlyForm
<1>3. Refresh(x, e) \in {x, Define(y, "agent", e)}
  BY DEF Refresh
<1> HIDE DEF y
<1>4. Orderly(y, Define(y, "agent", e))
  BY <1>2, DefineOrderly, BothKinds
<1> QED
  BY <1>1, <1>3, <1>4, OrderlyRefl, OrderlyTrans

LEMMA AlignConsolidatorOrderly ==
    ASSUME NEW x, RealmForm(x), NEW e
    PROVE  Orderly(x, AlignConsolidator(x, e))
<1> DEFINE wanted == ConsolidatorEnabled(e) /\ Ready(x)
           stale == x.child["consolidator"] # 0 /\ Child(x, "consolidator").def.cons # e.cons
           y == IF wanted /\ ~stale THEN x ELSE Terminate(x, "consolidator")
<1>1. Orderly(x, y)
  BY TerminateOrderly, OrderlyRefl, BothKinds
<1>2. RealmForm(y)
  BY <1>1, OrderlyForm
<1>3. AlignConsolidator(x, e)
      \in {y, Define(y, "consolidator", e), Spawn(y, "consolidator", e)}
  BY DEF AlignConsolidator
<1> HIDE DEF y
<1>4. Orderly(y, Define(y, "consolidator", e)) /\ Orderly(y, Spawn(y, "consolidator", e))
  BY <1>2, DefineOrderly, SpawnOrderly, BothKinds
<1> QED
  BY <1>1, <1>3, <1>4, OrderlyTrans

LEMMA FinishOrderly ==
    ASSUME NEW x, RealmForm(x), NEW e
    PROVE  Orderly(x, Finish(x, e))
<1>1. Orderly(x, Refresh(x, e))
  BY RefreshOrderly
<1>2. Orderly(Refresh(x, e), AlignConsolidator(Refresh(x, e), e))
  BY <1>1, OrderlyForm, AlignConsolidatorOrderly
<1> QED
  BY <1>1, <1>2, OrderlyTrans DEF Finish

\* start: orderly where the realm has no child yet.
LEMMA StartedCalm ==
    ASSUME NEW x, RealmForm(x), NEW e
    PROVE  /\ Calm(x, Started(x, e))
           /\ x.child["agent"] = 0 => Orderly(x, Started(x, e))
<1> DEFINE w == [x EXCEPT !.failed = NoFailure]
<1>1. Orderly(x, w) /\ w.child = x.child
  BY ChangeOfFailed
<1>2. RealmForm(w) /\ Calm(x, w)
  BY <1>1, OrderlyForm
<1> HIDE DEF w
<1> DEFINE y == Spawn(w, "agent", e)
<1>3. Calm(w, y) /\ (x.child["agent"] = 0 => Orderly(w, y))
  BY <1>1, <1>2, SpawnCalm, SpawnOrderly, BothKinds
<1>4. RealmForm(y)
  BY <1>3 DEF Calm
<1>5. Started(x, e) \in {y, Spawn(y, "consolidator", e)}
  BY DEF Started, w
<1> HIDE DEF y
<1>6. Orderly(y, Spawn(y, "consolidator", e))
  BY <1>4, SpawnOrderly, BothKinds
<1>7. Calm(x, y) /\ (x.child["agent"] = 0 => Orderly(x, y))
  BY <1>1, <1>2, <1>3, OrderlyTrans, CalmTrans
<1>8. Calm(x, Spawn(y, "consolidator", e))
  BY <1>6, <1>7, OrderlyForm, CalmTrans
<1>9. x.child["agent"] = 0 => Orderly(x, Spawn(y, "consolidator", e))
  BY <1>6, <1>7, OrderlyTrans
<1> QED
  BY <1>5, <1>7, <1>8, <1>9

----------------------------------------------------------------------------
(* The invariant of the supervisor and its requests.                        *)

Form ==
    /\ DOMAIN sup = Users /\ \A u \in Users : RealmForm(sup[u])
    /\ DOMAIN req = Requests
    /\ \A r \in Requests : DOMAIN req[r] = {"at", "victim", "expected"}
    /\ DOMAIN rec = Tasks /\ \A t \in Tasks : DOMAIN rec[t] = {"wanted", "pending"}

\* Where a request of a kind can be, and which of the places hold a lock.
Outside == {"queued", "done"}
JobPlaces == {"pausing", "paused", "rebuilding", "rebuilt"}
LockPlaces == {"reconciling", "stopping", "pausing", "paused", "locking", "restoring",
               "failed", "resuming"}
PlacesOf(kind) ==
    Outside \cup IF kind = "rebuild" THEN JobPlaces \cup {"pending", "reporting"} ELSE LockPlaces

Placed == \A r \in Requests : req[r].at \in PlacesOf(KindOf[r])

\* The requests exclude one another by the two locks.
Holding ==
    \A r \in Requests :
        IF KindOf[r] = "rebuild" THEN req[r].at \in JobPlaces => maintenance = r
        ELSE req[r].at \notin Outside => lock = r

\* A victim is that of a request that waits for it.
Waited ==
    \A u \in Users : \A g \in sup[u].victims :
        /\ g # 0
        /\ \E r \in Requests : req[r].at = "paused" /\ TargetOf[r] = u /\ req[r].victim = g

\* While the loop starts, no request is under way and the agents are those it has started.
Starting == loop \in {"new", "starting"}
Begun ==
    ~early /\ Starting =>
        /\ \A r \in Requests : req[r].at \in Outside /\ rec[r].pending = {}
        /\ loop = "new" => /\ rec[Loop].pending = {}
                           /\ \A u \in Users : sup[u].child["agent"] = 0
        /\ \A u \in rec[Loop].pending \cap Users : sup[u].child["agent"] = 0

AllTracked == ~early => \A u \in Users : Tracked(sup[u])

RealmsInv ==
    /\ Form /\ Placed /\ Holding /\ Waited /\ Begun /\ AllTracked
    /\ RestoreExclusive

\* What most steps do to the realms.
AllOrderly == DOMAIN sup' = Users /\ \A u \in Users : Orderly(sup[u], sup'[u])

LEMMA UnchangedOrderly ==
    ASSUME Form, sup' = sup
    PROVE  AllOrderly
BY OrderlyRefl DEF Form, AllOrderly

LEMMA OneOrderly ==
    ASSUME Form, NEW u \in Users, NEW y, Orderly(sup[u], y), sup' = [sup EXCEPT ![u] = y]
    PROVE  AllOrderly
BY OrderlyRefl DEF Form, AllOrderly

LEMMA RecForm ==
    ASSUME Form, NEW t \in Tasks, NEW w, NEW left,
           rec' = [rec EXCEPT ![t] = IF left = {} THEN NoRec ELSE [wanted |-> w, pending |-> left]]
    PROVE  DOMAIN rec' = Tasks /\ \A s \in Tasks : DOMAIN rec'[s] = {"wanted", "pending"}
<1> DEFINE v == IF left = {} THEN NoRec ELSE [wanted |-> w, pending |-> left]
<1>1. DOMAIN v = {"wanted", "pending"}
  BY DEF NoRec
<1>2. rec' = [rec EXCEPT ![t] = v]
  OBVIOUS
<1> HIDE DEF v
<1> QED
  BY <1>1, <1>2 DEF Form

LEMMA AwaitingOrderly ==
    ASSUME Form, NEW t \in Tasks, NEW STATE w, NEW STATE left, NEW STATE x, Awaiting(t, w, left, x),
           DOMAIN x = Users, \A u \in Users : Orderly(sup[u], x[u])
    PROVE  /\ AllOrderly
           /\ DOMAIN rec' = Tasks /\ \A s \in Tasks : DOMAIN rec'[s] = {"wanted", "pending"}
<1>1. ASSUME left # {} PROVE AllOrderly
  <2>1. sup' = x
    BY <1>1 DEF Awaiting
  <2> QED
    BY <2>1 DEF AllOrderly
<1>2. ASSUME left = {} PROVE AllOrderly
  <2>1. sup' = [u \in Users |-> Finish(x[u], w[u])]
    BY <1>2 DEF Awaiting
  <2>2. ASSUME NEW u \in Users PROVE Orderly(sup[u], Finish(x[u], w[u]))
    <3>1. Orderly(sup[u], x[u]) /\ RealmForm(x[u])
      BY OrderlyForm
    <3>2. Orderly(x[u], Finish(x[u], w[u]))
      BY <3>1, FinishOrderly
    <3> QED
      BY <3>1, <3>2, OrderlyTrans
  <2>3. DOMAIN sup' = Users /\ \A u \in Users : sup'[u] = Finish(x[u], w[u])
    BY <2>1
  <2> QED
    BY <2>2, <2>3 DEF AllOrderly
<1>3. DOMAIN rec' = Tasks /\ \A s \in Tasks : DOMAIN rec'[s] = {"wanted", "pending"}
  BY RecForm DEF Awaiting
<1> QED
  BY <1>1, <1>2, <1>3

LEMMA ReconcileOrderly ==
    ASSUME Form, NEW t \in Tasks, Reconcile(t)
    PROVE  /\ AllOrderly
           /\ DOMAIN rec' = Tasks /\ \A s \in Tasks : DOMAIN rec'[s] = {"wanted", "pending"}
<1>1. CASE UNCHANGED <<sup, rec>>
  BY <1>1, UnchangedOrderly DEF Form
<1>2. ASSUME NEW w,
             LET x == [u \in Users |-> StopUnwanted(sup[u], w[u])]
             IN Awaiting(t, w, {u \in Users : Candidate(x[u], w[u])}, x)
      PROVE  /\ AllOrderly
             /\ DOMAIN rec' = Tasks /\ \A s \in Tasks : DOMAIN rec'[s] = {"wanted", "pending"}
  <2> DEFINE x == [u \in Users |-> StopUnwanted(sup[u], w[u])]
             left == {u \in Users : Candidate(x[u], w[u])}
  <2>1. \A u \in Users : Orderly(sup[u], x[u])
    BY StopUnwantedOrderly DEF Form
  <2>2. DOMAIN x = Users
    OBVIOUS
  <2>3. Awaiting(t, w, left, x)
    BY <1>2
  <2> HIDE DEF x, left
  <2> QED
    BY <2>1, <2>2, <2>3, AwaitingOrderly
<1> QED
  BY <1>1, <1>2 DEF Reconcile

LEMMA InitSucceedsOrderly ==
    ASSUME Form, NEW t \in Tasks, NEW u \in Users, InitSucceeds(t, u)
    PROVE  /\ AllOrderly
           /\ DOMAIN rec' = Tasks /\ \A s \in Tasks : DOMAIN rec'[s] = {"wanted", "pending"}
<1> DEFINE e == rec[t].wanted[u]
           x == [sup[u] EXCEPT !.failed = NoFailure]
<1>1. PICK bad \in BOOLEAN :
          Awaiting(t, rec[t].wanted, rec[t].pending \ {u},
                   [sup EXCEPT ![u] = EnsureAgentChild(x, e, bad)])
  BY DEF InitSucceeds
<1>2. Orderly(sup[u], x)
  BY ChangeOfFailed DEF Form
<1> HIDE DEF x, e
<1>3. Orderly(x, EnsureAgentChild(x, e, bad))
  BY <1>2, OrderlyForm, EnsureAgentChildOrderly
<1>4. Orderly(sup[u], EnsureAgentChild(x, e, bad))
  BY <1>2, <1>3, OrderlyTrans
<1> DEFINE y == EnsureAgentChild(x, e, bad)
           z == [sup EXCEPT ![u] = y]
           left == rec[t].pending \ {u}
<1>5. Awaiting(t, rec[t].wanted, left, z)
  BY <1>1
<1> HIDE DEF y, left
<1>6. DOMAIN z = Users /\ \A v \in Users : Orderly(sup[v], z[v])
  BY <1>4, OrderlyRefl DEF Form, y
<1> HIDE DEF z
<1> QED
  BY <1>5, <1>6, AwaitingOrderly

LEMMA InitFailsOrderly ==
    ASSUME Form, NEW t \in Tasks, NEW u \in Users, InitFails(t, u)
    PROVE  /\ AllOrderly
           /\ DOMAIN rec' = Tasks /\ \A s \in Tasks : DOMAIN rec'[s] = {"wanted", "pending"}
<1>1. PICK fresh \in BOOLEAN :
          Awaiting(t, rec[t].wanted, rec[t].pending \ {u},
                   [sup EXCEPT ![u] = InitFailed(sup[u], fresh)])
  BY DEF InitFails
<1> DEFINE y == InitFailed(sup[u], fresh)
           z == [sup EXCEPT ![u] = y]
           left == rec[t].pending \ {u}
<1>2. Orderly(sup[u], y)
  BY InitFailedOrderly DEF Form
<1>3. Awaiting(t, rec[t].wanted, left, z)
  BY <1>1
<1> HIDE DEF y, left
<1>4. DOMAIN z = Users /\ \A v \in Users : Orderly(sup[v], z[v])
  BY <1>2, OrderlyRefl DEF Form
<1> HIDE DEF z
<1> QED
  BY <1>3, <1>4, AwaitingOrderly

LEMMA TickCheckOrderly ==
    ASSUME Form, TickCheck
    PROVE  AllOrderly
<1>1. PICK fresh \in BOOLEAN, bad \in BOOLEAN :
          sup' = [u \in Users |-> CheckRealm(sup[u], fresh, bad)]
  BY DEF TickCheck, CheckChildren
<1> QED
  BY <1>1, CheckRealmOrderly DEF Form, AllOrderly

LEMMA StopOrderly ==
    ASSUME Form, Stop
    PROVE  AllOrderly
BY TerminateBothOrderly DEF Form, AllOrderly, Stop

LEMMA RetryDueOrderly ==
    ASSUME Form, NEW u \in Users, RetryDue(u)
    PROVE  AllOrderly /\ \A v \in Users : sup'[v].child = sup[v].child
<1> DEFINE f == [sup[u].failed EXCEPT !.due = TRUE]
           y == [sup[u] EXCEPT !.failed = f]
<1>1. sup' = [sup EXCEPT ![u] = y]
  BY Zenon DEF RetryDue
<1>2. Orderly(sup[u], y) /\ y.child = sup[u].child
  BY ChangeOfFailed DEF Form
<1> HIDE DEF y
<1> QED
  BY <1>1, <1>2, OneOrderly DEF Form

----------------------------------------------------------------------------
(* The steps that do more to a realm: a process that opens its palace or    *)
(* dies, the start, and the two ends of a pause.                            *)

WithStatus(x, k, g, v) == [x EXCEPT !.procs[k][g].st = v]

\* What has become of x when process g of kind k has the status v.
StatusSet(x, y, k, g, v) ==
    /\ RealmForm(y) /\ y.victims = x.victims /\ y.child = x.child
    /\ \A h \in Gens : Agent(y, h) = IF k = "agent" /\ h = g THEN v ELSE Agent(x, h)

LEMMA StatusChange ==
    ASSUME NEW x, RealmForm(x), NEW k \in Kinds, NEW g \in Gens, NEW v,
           NEW y, y = WithStatus(x, k, g, v)
    PROVE  StatusSet(x, y, k, g, v)
<1> DEFINE p == [x.procs[k][g] EXCEPT !.st = v]
           ps == [x.procs[k] EXCEPT ![g] = p]
<1>1. y = [x EXCEPT !.procs = [x.procs EXCEPT ![k] = ps]]
  BY Zenon DEF WithStatus
<1>2. "agent" \in Kinds
  BY DEF Kinds
<1>3. ASSUME k = "agent"
      PROVE  ProcForm(p) /\ p.st = v
  BY <1>3 DEF RealmForm, ProcForm
<1> HIDE DEF p
<1>4. ASSUME k = "agent"
      PROVE  /\ DOMAIN ps = Gens
             /\ \A h \in Gens : ps[h] = IF h = g THEN p ELSE x.procs["agent"][h]
  BY <1>4 DEF RealmForm
<1>5. /\ DOMAIN y = DOMAIN x /\ y.victims = x.victims /\ y.child = x.child
      /\ y.procs = [x.procs EXCEPT ![k] = ps]
  BY <1>1 DEF RealmForm
<1> HIDE DEF ps
<1>6. DOMAIN y.procs = Kinds /\ y.procs["agent"] = IF k = "agent" THEN ps ELSE x.procs["agent"]
  BY <1>2, <1>5 DEF RealmForm
<1>7. \A h \in Gens : /\ ProcForm(y.procs["agent"][h])
                       /\ Agent(y, h) = IF k = "agent" /\ h = g THEN v ELSE Agent(x, h)
  BY <1>3, <1>4, <1>6 DEF RealmForm, Agent
<1>8. RealmForm(y)
  BY <1>2, <1>4, <1>5, <1>6, <1>7 DEF RealmForm
<1> QED
  BY <1>5, <1>7, <1>8 DEF StatusSet

\* The effect of one step on one realm, weaker than Orderly.
OneRealm(u, y) ==
    /\ u \in Users /\ DOMAIN sup' = Users /\ sup'[u] = y
    /\ \A v \in Users : v # u => sup'[v] = sup[v]

LEMMA OneRealmForm ==
    ASSUME Form, NEW u, NEW y, sup' = [sup EXCEPT ![u] = y], u \in Users
    PROVE  OneRealm(u, y)
BY DEF Form, OneRealm

LEMMA OpensEffect ==
    ASSUME Form, NEW u \in Users, NEW g \in Gens, AgentOpens(u, g)
    PROVE  \E y :
              /\ OneRealm(u, y) /\ RealmForm(y)
              /\ y.victims = sup[u].victims /\ y.child = sup[u].child
              /\ \A h \in Gens : h # g => Agent(y, h) = Agent(sup[u], h)
              /\ Agent(sup[u], g) # "free"
              /\ Agent(y, g) = "serving" => ~RealmLocked(u)
<1>0. PICK k \in Kinds : k = "agent"
  BY BothKinds
<1>1. PICK v \in {"dead", "serving"} :
          /\ sup' = [sup EXCEPT ![u].procs[k][g].st = v]
          /\ v = "serving" => ~RealmLocked(u)
  BY <1>0 DEF AgentOpens
<1> DEFINE y == WithStatus(sup[u], k, g, v)
<1>2. sup' = [sup EXCEPT ![u] = y]
  BY <1>1, Zenon DEF WithStatus
<1>3. RealmForm(sup[u])
  BY DEF Form
<1>a. y = WithStatus(sup[u], k, g, v)
  OBVIOUS
<1> HIDE DEF y
<1>b. StatusSet(sup[u], y, k, g, v)
  BY <1>3, <1>a, StatusChange, Zenon
<1>4. /\ RealmForm(y) /\ y.victims = sup[u].victims /\ y.child = sup[u].child
      /\ \A h \in Gens : Agent(y, h) = IF k = "agent" /\ h = g THEN v
                                      ELSE Agent(sup[u], h)
  BY <1>b DEF StatusSet
<1>5. OneRealm(u, y)
  BY <1>2, OneRealmForm
<1>6. Agent(sup[u], g) = "starting"
  BY DEF AgentOpens, Agent
<1> QED
  BY <1>0, <1>1, <1>4, <1>5, <1>6

LEMMA DiesEffect ==
    ASSUME Form, NEW u \in Users, NEW k \in Kinds, NEW g \in Gens, Dies(u, k, g)
    PROVE  \E y :
              /\ OneRealm(u, y) /\ RealmForm(y)
              /\ y.victims = sup[u].victims /\ y.child = sup[u].child
              /\ \A h \in Gens : \/ Agent(y, h) = Agent(sup[u], h)
                                 \/ Agent(sup[u], h) # "free" /\ Agent(y, h) = "dead"
<1> DEFINE y == WithStatus(sup[u], k, g, "dead")
<1>1. sup' = [sup EXCEPT ![u] = y]
  BY Zenon DEF Dies, WithStatus
<1>2. RealmForm(sup[u])
  BY DEF Form
<1>a. y = WithStatus(sup[u], k, g, "dead")
  OBVIOUS
<1> HIDE DEF y
<1>b. StatusSet(sup[u], y, k, g, "dead")
  BY <1>2, <1>a, StatusChange, Zenon
<1>3. /\ RealmForm(y) /\ y.victims = sup[u].victims /\ y.child = sup[u].child
      /\ \A h \in Gens :
            Agent(y, h) = IF k = "agent" /\ h = g THEN "dead" ELSE Agent(sup[u], h)
  BY <1>b DEF StatusSet
<1>4. OneRealm(u, y)
  BY <1>1, OneRealmForm
<1>5. k = "agent" => Agent(sup[u], g) # "free"
  BY DEF Dies, Alive, Agent
<1> QED
  BY <1>3, <1>4, <1>5

LEMMA StartEffect ==
    ASSUME Form, NEW u \in Users, StartInitDone(u)
    PROVE  \E y :
              /\ OneRealm(u, y) /\ Calm(sup[u], y)
              /\ sup[u].child["agent"] = 0 => Orderly(sup[u], y)
<1>1. RealmForm(sup[u])
  BY DEF Form
<1>2. PICK y \in {Started(sup[u], rec[Loop].wanted[u]), InitFailed(sup[u], FALSE)} :
          sup' = [sup EXCEPT ![u] = y]
  BY DEF StartInitDone
<1>3. Calm(sup[u], y) /\ (sup[u].child["agent"] = 0 => Orderly(sup[u], y))
  BY <1>1, <1>2, StartedCalm, InitFailedOrderly, OrderlyForm
<1> QED
  BY <1>2, <1>3, OneRealmForm

LEMMA PauseEffect ==
    ASSUME Form, NEW r \in Requests, Pause(r)
    PROVE  LET u == TargetOf[r]
               g == sup[u].child["agent"]
           IN \E y :
              /\ OneRealm(u, y) /\ RealmForm(y)
              /\ y.victims = sup[u].victims \cup ({g} \ {0})
              /\ \A h \in Gens : Agent(y, h) = "serving" => Agent(sup[u], h) = "serving"
              /\ Tracked(sup[u]) /\ Room(sup[u]) => Tracked(y)
              /\ req' = [req EXCEPT ![r].at = "paused", ![r].victim = g]
<1> DEFINE u == TargetOf[r]
           x == Terminate(sup[u], "consolidator")
           y == [x EXCEPT !.child["agent"] = 0,
                          !.victims = x.victims \cup ({x.child["agent"]} \ {0})]
<1>1. u \in Users /\ RealmForm(sup[u])
  BY SupervisorConstants DEF Form
<1>2. /\ sup' = [sup EXCEPT ![u] = y]
      /\ req' = [req EXCEPT ![r].at = "paused", ![r].victim = x.child["agent"]]
  BY Zenon DEF Pause
<1>3. Orderly(sup[u], x) /\ x.child["agent"] = sup[u].child["agent"]
  BY <1>1, TerminateOrderly, BothKinds
<1>4. RealmForm(x) /\ Calm(sup[u], x)
  BY <1>3, OrderlyForm
<1> HIDE DEF x, u
<1> DEFINE g == x.child["agent"]
<1>5. /\ DOMAIN y = DOMAIN x /\ y.procs = x.procs /\ DOMAIN y.child = Kinds
      /\ y.child["agent"] = 0 /\ y.victims = x.victims \cup ({g} \ {0})
  BY <1>4, BothKinds DEF RealmForm
<1> HIDE DEF y, g
<1>6. RealmForm(y)
  BY <1>4, <1>5 DEF RealmForm
<1>7. Tracked(x) => Tracked(y)
  BY <1>5, GensPositive DEF Tracked, Agent, g
<1>8. /\ y.victims = sup[u].victims \cup ({g} \ {0})
      /\ \A h \in Gens : Agent(y, h) = "serving" => Agent(sup[u], h) = "serving"
  BY <1>4, <1>5 DEF Calm, Agent
<1>9. OneRealm(u, y)
  BY <1>1, <1>2, OneRealmForm
<1>10. Tracked(sup[u]) /\ Room(sup[u]) => Tracked(y)
  BY <1>3, <1>7 DEF Orderly, Keeps
<1>11. g = sup[u].child["agent"] /\ req' = [req EXCEPT ![r].at = "paused", ![r].victim = g]
  BY <1>2, <1>3 DEF g
<1> QED
  BY <1>6, <1>8, <1>9, <1>10, <1>11 DEF u

LEMMA PausedEffect ==
    ASSUME Form, NEW r \in Requests, Paused(r)
    PROVE  LET u == TargetOf[r]
               g == req[r].victim
           IN \E y :
              /\ OneRealm(u, y) /\ RealmForm(y)
              /\ y.victims = IF g = 0 THEN sup[u].victims ELSE sup[u].victims \ {g}
              /\ \A h \in Gens : Agent(y, h) = "serving" => Agent(sup[u], h) = "serving"
              /\ Tracked(sup[u]) => Tracked(y)
<1> DEFINE u == TargetOf[r]
           g == req[r].victim
           x == sup[u]
           y == VictimStopped(x, g)
<1>1. u \in Users /\ RealmForm(x)
  BY SupervisorConstants DEF Form
<1>2. sup' = [sup EXCEPT ![u] = y]
  BY Zenon DEF Paused
<1>3. OneRealm(u, y)
  BY <1>1, <1>2, OneRealmForm
<1>4. CASE g = 0
  BY <1>1, <1>3, <1>4 DEF VictimStopped
<1>5. CASE g # 0
  <2> DEFINE ps == [x.procs["agent"] EXCEPT ![g] = NoProc]
             z == [x EXCEPT !.procs = [x.procs EXCEPT !["agent"] = ps],
                            !.victims = x.victims \ {g}]
  <2>1. y = z
    BY <1>5, Zenon DEF VictimStopped
  <2>2. /\ DOMAIN ps = Gens
        /\ \A h \in Gens : ps[h] = IF h = g THEN NoProc ELSE x.procs["agent"][h]
    BY <1>1 DEF RealmForm
  <2> HIDE DEF ps, x, g
  <2>3. /\ DOMAIN z = DOMAIN x /\ z.child = x.child
        /\ z.procs = [x.procs EXCEPT !["agent"] = ps] /\ z.victims = x.victims \ {g}
    BY <1>1 DEF RealmForm
  <2> HIDE DEF z
  <2>4. DOMAIN z.procs = Kinds /\ z.procs["agent"] = ps
    BY <1>1, <2>3, BothKinds DEF RealmForm
  <2>5. \A h \in Gens : /\ ProcForm(z.procs["agent"][h])
                         /\ Agent(z, h) = IF h = g THEN "free" ELSE Agent(x, h)
    BY <1>1, <2>2, <2>4, NoProcForm DEF RealmForm, Agent
  <2>6. RealmForm(z)
    BY <1>1, <2>2, <2>3, <2>4, <2>5 DEF RealmForm
  <2>7. Tracked(x) => Tracked(z)
    BY <2>3, <2>5 DEF Tracked
  <2>8. OneRealm(u, z) /\ z.victims = x.victims \ {g}
        /\ \A h \in Gens : Agent(z, h) = "serving" => Agent(x, h) = "serving"
    BY <1>3, <2>1, <2>3, <2>5
  <2> QED
    BY <1>5, <2>6, <2>7, <2>8 DEF x, g
<1> QED
  BY <1>4, <1>5

----------------------------------------------------------------------------
(* A step of the whole.                                                     *)

RecFormNext == DOMAIN rec' = Tasks /\ \A t \in Tasks : DOMAIN rec'[t] = {"wanted", "pending"}

LEMMA RequestOrderly ==
    ASSUME Form, NEW r \in Requests, RequestStep(r)
    PROVE  (AllOrderly \/ Pause(r) \/ Paused(r)) /\ RecFormNext
<1>1. CASE Pause(r) \/ Paused(r)
  <2>1. rec' = rec
    BY <1>1 DEF Pause, Paused
  <2> QED
    BY <1>1, <2>1 DEF RecFormNext, Form
<1>2. CASE RequestReconcile(r) \/ Resume(r) \/ CleanUp(r)
  <2>1. Reconcile(r)
    BY <1>2 DEF RequestReconcile, Resume, CleanUp
  <2> QED
    BY <2>1, ReconcileOrderly DEF Tasks, RecFormNext
<1>3. CASE \/ RequestRestore(r) \/ RequestRebuild(r) \/ JobBegins(r) \/ LockRealm(r)
           \/ RequestReconciled(r) \/ WorkerReturned(r) \/ Sleeps(r) \/ JobDone(r)
           \/ JobReported(r) \/ CleanUpFails(r) \/ Refused(r)
  <2>1. sup' = sup /\ rec' = rec
    <3>1. CASE RequestRestore(r)
      BY <3>1 DEF RequestRestore
    <3>2. CASE RequestRebuild(r)
      BY <3>2 DEF RequestRebuild
    <3>3. CASE JobBegins(r)
      BY <3>3 DEF JobBegins
    <3>4. CASE LockRealm(r)
      BY <3>4 DEF LockRealm
    <3>5. CASE RequestReconciled(r)
      BY <3>5 DEF RequestReconciled
    <3>6. CASE WorkerReturned(r)
      BY <3>6 DEF WorkerReturned
    <3>7. CASE Sleeps(r)
      BY <3>7 DEF Sleeps
    <3>8. CASE JobDone(r)
      BY <3>8 DEF JobDone
    <3>9. CASE JobReported(r)
      BY <3>9 DEF JobReported
    <3>10. CASE CleanUpFails(r)
      BY <3>10 DEF CleanUpFails
    <3>11. CASE Refused(r)
      BY <3>11 DEF Refused
    <3> QED
      BY <1>3, <3>1, <3>2, <3>3, <3>4, <3>5, <3>6, <3>7, <3>8, <3>9, <3>10, <3>11
  <2> QED
    BY <2>1, UnchangedOrderly DEF RecFormNext, Form
<1> QED
  BY <1>1, <1>2, <1>3 DEF RequestStep

LEMMA OtherOrderly ==
    ASSUME Form, NEW u \in Users, InitStep(u) \/ RetryDue(u)
    PROVE  (AllOrderly \/ StartInitDone(u)) /\ RecFormNext
<1>1. CASE StartInitDone(u)
  <2>1. rec' = [rec EXCEPT ![Loop].pending = @ \ {u}]
    BY <1>1 DEF StartInitDone
  <2>2. RecFormNext
    BY <2>1 DEF RecFormNext, Form, Tasks
  <2> QED
    BY <1>1, <2>2
<1>2. ASSUME NEW t \in Tasks, InitSucceeds(t, u) \/ InitFails(t, u)
      PROVE  AllOrderly /\ RecFormNext
  BY <1>2, InitSucceedsOrderly, InitFailsOrderly DEF RecFormNext
<1>3. CASE RetryDue(u)
  <2>1. rec' = rec
    BY <1>3 DEF RetryDue, taskVars
  <2> QED
    BY <1>3, <2>1, RetryDueOrderly DEF RecFormNext, Form
<1> QED
  BY <1>1, <1>2, <1>3 DEF InitStep

LEMMA LoopOrderly ==
    ASSUME Form, LoopStep \/ TickReconcile \/ Stop
    PROVE  AllOrderly /\ RecFormNext
<1>1. CASE StartBegin
  <2> DEFINE v == [wanted |-> LoadUsersConfig, pending |-> {u \in Users : Enabled(roster[u])}]
  <2>1. rec' = [rec EXCEPT ![Loop] = v] /\ sup' = sup
    BY <1>1 DEF StartBegin
  <2>2. DOMAIN v = {"wanted", "pending"}
    OBVIOUS
  <2> HIDE DEF v
  <2>3. RecFormNext
    BY <2>1, <2>2 DEF RecFormNext, Form
  <2> QED
    BY <2>1, <2>3, UnchangedOrderly
<1>2. CASE StartEnd
  <2>1. sup' = sup /\ rec' = rec
    BY <1>2 DEF StartEnd
  <2> QED
    BY <2>1, UnchangedOrderly DEF RecFormNext, Form
<1>3. CASE TickCheck
  <2>1. rec' = rec
    BY <1>3 DEF TickCheck
  <2> QED
    BY <1>3, <2>1, TickCheckOrderly DEF RecFormNext, Form
<1>4. CASE TickReconcile
  <2>1. Reconcile(Loop)
    BY <1>4 DEF TickReconcile
  <2> QED
    BY <2>1, ReconcileOrderly DEF Tasks, RecFormNext
<1>5. CASE Stop
  <2>1. rec' = rec
    BY <1>5 DEF Stop
  <2> QED
    BY <1>5, <2>1, StopOrderly DEF RecFormNext, Form
<1> QED
  BY <1>1, <1>2, <1>3, <1>4, <1>5 DEF LoopStep

\* The requests and their locks move only in the steps of a request.
ReqUnchanged == req' = req /\ lock' = lock /\ maintenance' = maintenance

NextIs(r) ==
    \/ RequestStep(r) /\ AllOrderly
    \/ Pause(r)
    \/ Paused(r)
ProcessIs(u) ==
    \/ StartInitDone(u)
    \/ \E g \in Gens : AgentOpens(u, g)
    \/ \E k \in Kinds, g \in Gens : Dies(u, k, g)

LEMMA NextCases ==
    ASSUME Form, Next
    PROVE  /\ RecFormNext
           /\ \/ \E r \in Requests : NextIs(r)
              \/ ReqUnchanged /\ AllOrderly
              \/ ReqUnchanged /\ \E u \in Users : ProcessIs(u)
<1>1. ASSUME NEW change \in edits, Edit(change)
      PROVE  AllOrderly /\ RecFormNext /\ ReqUnchanged
  <2>1. sup' = sup /\ rec' = rec /\ ReqUnchanged
    BY <1>1 DEF Edit, taskVars, ReqUnchanged
  <2> QED
    BY <2>1, UnchangedOrderly DEF RecFormNext, Form
<1>2. ASSUME NEW u \in Users, NEW g \in Gens, AgentOpens(u, g)
      PROVE  ProcessIs(u) /\ RecFormNext /\ ReqUnchanged
  <2>1. rec' = rec /\ ReqUnchanged
    BY <1>2 DEF AgentOpens, taskVars, ReqUnchanged
  <2> QED
    BY <1>2, <2>1 DEF ProcessIs, RecFormNext, Form
<1>3. ASSUME NEW u \in Users, NEW k \in Kinds, NEW g \in Gens, Dies(u, k, g)
      PROVE  ProcessIs(u) /\ RecFormNext /\ ReqUnchanged
  <2>1. rec' = rec /\ ReqUnchanged
    BY <1>3 DEF Dies, taskVars, ReqUnchanged
  <2> QED
    BY <1>3, <2>1 DEF ProcessIs, RecFormNext, Form
<1>4. ASSUME NEW u \in Users, InitStep(u) \/ RetryDue(u)
      PROVE  (AllOrderly \/ ProcessIs(u)) /\ RecFormNext /\ ReqUnchanged
  <2>1. ReqUnchanged
    BY <1>4 DEF InitStep, StartInitDone, InitSucceeds, InitFails, RetryDue, ReqUnchanged, taskVars
  <2> QED
    BY <1>4, <2>1, OtherOrderly DEF ProcessIs
<1>5. ASSUME LoopStep \/ TickReconcile \/ Stop
      PROVE  AllOrderly /\ RecFormNext /\ ReqUnchanged
  <2>1. ReqUnchanged
    BY <1>5 DEF LoopStep, StartBegin, StartEnd, TickCheck, TickReconcile, Stop, ReqUnchanged
  <2> QED
    BY <1>5, <2>1, LoopOrderly
<1>6. ASSUME NEW r \in Requests, RequestStep(r)
      PROVE  NextIs(r) /\ RecFormNext
  BY <1>6, RequestOrderly DEF NextIs
<1> QED
  BY <1>1, <1>2, <1>3, <1>4, <1>5, <1>6 DEF Next

LEMMA NextEarly ==
    ASSUME Next
    PROVE  early' = early
<1> USE DEF vars, authVars, taskVars, budgetVars
<1>1. LoopStep \/ TickReconcile \/ Stop => early' = early
  BY DEF LoopStep, StartBegin, StartEnd, TickCheck, TickReconcile, Stop
<1>2. \A change \in edits : Edit(change) => early' = early
  BY DEF Edit
<1>3. \A u \in Users : InitStep(u) \/ RetryDue(u) => early' = early
  BY DEF InitStep, StartInitDone, InitSucceeds, InitFails, RetryDue
<1>4. \A u \in Users, g \in Gens : AgentOpens(u, g) => early' = early
  BY DEF AgentOpens
<1>5. \A u \in Users, k \in Kinds, g \in Gens : Dies(u, k, g) => early' = early
  BY DEF Dies
<1>6. ASSUME NEW r \in Requests, RequestStep(r) PROVE early' = early
  <2>1. CASE \/ RequestReconcile(r) \/ RequestRestore(r) \/ RequestRebuild(r) \/ JobBegins(r)
             \/ Pause(r) \/ Paused(r) \/ LockRealm(r) \/ Resume(r)
    BY <2>1 DEF RequestReconcile, RequestRestore, RequestRebuild, JobBegins, Pause, Paused,
                LockRealm, Resume
  <2>2. CASE \/ RequestReconciled(r) \/ WorkerReturned(r) \/ Sleeps(r) \/ JobDone(r)
             \/ JobReported(r) \/ CleanUp(r) \/ CleanUpFails(r) \/ Refused(r)
    BY <2>2 DEF RequestReconciled, WorkerReturned, Sleeps, JobDone, JobReported, CleanUp,
                CleanUpFails, Refused
  <2> QED
    BY <1>6, <2>1, <2>2 DEF RequestStep
<1> QED
  BY <1>1, <1>2, <1>3, <1>4, <1>5, <1>6 DEF Next

OnlyReq(r) ==
    /\ DOMAIN req' = Requests
    /\ DOMAIN req'[r] = {"at", "victim", "expected"}
    /\ \A q \in Requests : q # r => req'[q] = req[q]

LEMMA ReqMoves ==
    ASSUME Form, Placed, Holding, NEW r \in Requests, RequestStep(r)
    PROVE  OnlyReq(r) /\ Placed' /\ Holding'
<1>0. \A q \in Requests : q # Nobody
  BY SupervisorConstants
<1> USE DEF JobPlaces, LockPlaces, Outside, PlacesOf
<1>1. CASE RequestReconcile(r)
  <2>1. /\ req[r].at = "queued" /\ lock = Nobody
        /\ KindOf[r] # "rebuild"
        /\ lock' = r /\ maintenance' = maintenance
    BY <1>1 DEF RequestReconcile, Admitted, At, Go
  <2>2. /\ req'[r].at \in {"stopping", "reconciling"}
        /\ OnlyReq(r)
    BY <1>1 DEF RequestReconcile, Admitted, At, Go, Form, OnlyReq
  <2>3. Placed'
    BY <2>1, <2>2 DEF Placed, OnlyReq
  <2>4. Holding'
    BY <1>0, <2>1, <2>2 DEF Holding, Placed, OnlyReq
  <2> QED
    BY <2>2, <2>3, <2>4
<1>2. CASE RequestRestore(r)
  <2>1. /\ req[r].at = "queued" /\ lock = Nobody
        /\ KindOf[r] # "rebuild"
        /\ lock' = r /\ maintenance' = maintenance
    BY <1>2 DEF RequestRestore, Admitted, At
  <2>2. /\ req'[r].at = "pausing"
        /\ OnlyReq(r)
    BY <1>2 DEF RequestRestore, Admitted, At, Form, OnlyReq
  <2>3. Placed'
    BY <2>1, <2>2 DEF Placed, OnlyReq
  <2>4. Holding'
    BY <1>0, <2>1, <2>2 DEF Holding, Placed, OnlyReq
  <2> QED
    BY <2>2, <2>3, <2>4
<1>3. CASE RequestRebuild(r)
  <2>1. /\ req[r].at = "queued" /\ lock = Nobody
        /\ KindOf[r] = "rebuild"
        /\ lock' = lock /\ maintenance' = maintenance
    BY <1>3 DEF RequestRebuild, Admitted, At, Go
  <2>2. /\ req'[r].at = "pending"
        /\ OnlyReq(r)
    BY <1>3 DEF RequestRebuild, Admitted, At, Go, Form, OnlyReq
  <2>3. Placed'
    BY <2>1, <2>2 DEF Placed, OnlyReq
  <2>4. Holding'
    BY <1>0, <2>1, <2>2 DEF Holding, Placed, OnlyReq
  <2> QED
    BY <2>2, <2>3, <2>4
<1>4. CASE JobBegins(r)
  <2>1. /\ req[r].at = "pending" /\ maintenance = Nobody
        /\ lock' = lock /\ maintenance' = r
    BY <1>4 DEF JobBegins, At, Go
  <2>2. /\ req'[r].at = "pausing"
        /\ OnlyReq(r)
    BY <1>4 DEF JobBegins, At, Go, Form, OnlyReq
  <2>3. Placed'
    BY <2>1, <2>2 DEF Placed, OnlyReq
  <2>4. Holding'
    BY <1>0, <2>1, <2>2 DEF Holding, Placed, OnlyReq
  <2> QED
    BY <2>2, <2>3, <2>4
<1>5. CASE Pause(r)
  <2>1. /\ req[r].at = "pausing"
        /\ lock' = lock /\ maintenance' = maintenance
    BY <1>5 DEF Pause, At
  <2>2. /\ req'[r].at = "paused"
        /\ OnlyReq(r)
    BY <1>5 DEF Pause, At, Form, OnlyReq
  <2>3. Placed'
    BY <2>1, <2>2 DEF Placed, OnlyReq
  <2>4. Holding'
    BY <1>0, <2>1, <2>2 DEF Holding, Placed, OnlyReq
  <2> QED
    BY <2>2, <2>3, <2>4
<1>6. CASE Paused(r)
  <2>1. /\ req[r].at = "paused"
        /\ lock' = lock /\ maintenance' = maintenance
    BY <1>6 DEF Paused, At
  <2>2. /\ req'[r].at = IF KindOf[r] = "rebuild" THEN "rebuilding" ELSE "locking"
        /\ OnlyReq(r)
    BY <1>6 DEF Paused, At, Form, OnlyReq
  <2>3. Placed'
    BY <2>1, <2>2 DEF Placed, OnlyReq
  <2>4. Holding'
    BY <1>0, <2>1, <2>2 DEF Holding, Placed, OnlyReq
  <2> QED
    BY <2>2, <2>3, <2>4
<1>7. CASE LockRealm(r)
  <2>1. /\ req[r].at = "locking"
        /\ lock' = lock /\ maintenance' = maintenance
    BY <1>7 DEF LockRealm, At, Go
  <2>2. /\ req'[r].at \in {"failed", "restoring"}
        /\ OnlyReq(r)
    BY <1>7 DEF LockRealm, At, Go, Form, OnlyReq
  <2>3. Placed'
    BY <2>1, <2>2 DEF Placed, OnlyReq
  <2>4. Holding'
    BY <1>0, <2>1, <2>2 DEF Holding, Placed, OnlyReq
  <2> QED
    BY <2>2, <2>3, <2>4
<1>8. CASE Resume(r)
  <2>1. /\ req[r].at \in {"restoring", "rebuilding", "failed"}
        /\ lock' = lock /\ maintenance' = maintenance
    BY <1>8 DEF Resume, Go
  <2>2. /\ IF KindOf[r] = "rebuild" THEN req'[r].at = "rebuilt" ELSE req'[r].at \in {"resuming", "reconciling"}
        /\ OnlyReq(r)
    BY <1>8 DEF Resume, Go, Form, OnlyReq
  <2>3. Placed'
    BY <2>1, <2>2 DEF Placed, OnlyReq
  <2>4. Holding'
    BY <1>0, <2>1, <2>2 DEF Holding, Placed, OnlyReq
  <2> QED
    BY <2>2, <2>3, <2>4
<1>9. CASE RequestReconciled(r)
  <2>1. /\ req[r].at = "reconciling"
        /\ lock' = Nobody /\ maintenance' = maintenance
    BY <1>9 DEF RequestReconciled, At, End, Go
  <2>2. /\ req'[r].at = "done"
        /\ OnlyReq(r)
    BY <1>9 DEF RequestReconciled, At, End, Go, Form, OnlyReq
  <2>3. Placed'
    BY <2>1, <2>2 DEF Placed, OnlyReq
  <2>4. Holding'
    BY <1>0, <2>1, <2>2 DEF Holding, Placed, OnlyReq
  <2> QED
    BY <2>2, <2>3, <2>4
<1>10. CASE WorkerReturned(r)
  <2>1. /\ req[r].at = "resuming"
        /\ lock' = Nobody /\ maintenance' = maintenance
    BY <1>10 DEF WorkerReturned, At, End, Go
  <2>2. /\ req'[r].at = "done"
        /\ OnlyReq(r)
    BY <1>10 DEF WorkerReturned, At, End, Go, Form, OnlyReq
  <2>3. Placed'
    BY <2>1, <2>2 DEF Placed, OnlyReq
  <2>4. Holding'
    BY <1>0, <2>1, <2>2 DEF Holding, Placed, OnlyReq
  <2> QED
    BY <2>2, <2>3, <2>4
<1>11. CASE JobDone(r)
  <2>1. /\ req[r].at = "rebuilt"
        /\ lock' = lock /\ maintenance' = Nobody
    BY <1>11 DEF JobDone, At, Go
  <2>2. /\ req'[r].at = "reporting"
        /\ OnlyReq(r)
    BY <1>11 DEF JobDone, At, Go, Form, OnlyReq
  <2>3. Placed'
    BY <2>1, <2>2 DEF Placed, OnlyReq
  <2>4. Holding'
    BY <1>0, <2>1, <2>2 DEF Holding, Placed, OnlyReq
  <2> QED
    BY <2>2, <2>3, <2>4
<1>12. CASE JobReported(r)
  <2>1. /\ req[r].at = "reporting"
        /\ lock' = lock /\ maintenance' = maintenance
    BY <1>12 DEF JobReported, At, Go
  <2>2. /\ req'[r].at = "done"
        /\ OnlyReq(r)
    BY <1>12 DEF JobReported, At, Go, Form, OnlyReq
  <2>3. Placed'
    BY <2>1, <2>2 DEF Placed, OnlyReq
  <2>4. Holding'
    BY <1>0, <2>1, <2>2 DEF Holding, Placed, OnlyReq
  <2> QED
    BY <2>2, <2>3, <2>4
<1>13. CASE CleanUp(r)
  <2>1. /\ req[r].at = "stopping"
        /\ lock' = lock /\ maintenance' = maintenance
    BY <1>13 DEF CleanUp, At, Go
  <2>2. /\ req'[r].at = "reconciling"
        /\ OnlyReq(r)
    BY <1>13 DEF CleanUp, At, Go, Form, OnlyReq
  <2>3. Placed'
    BY <2>1, <2>2 DEF Placed, OnlyReq
  <2>4. Holding'
    BY <1>0, <2>1, <2>2 DEF Holding, Placed, OnlyReq
  <2> QED
    BY <2>2, <2>3, <2>4
<1>14. CASE CleanUpFails(r)
  <2>1. /\ req[r].at = "stopping"
        /\ lock' = Nobody /\ maintenance' = maintenance
    BY <1>14 DEF CleanUpFails, At, End, Go
  <2>2. /\ req'[r].at = "done"
        /\ OnlyReq(r)
    BY <1>14 DEF CleanUpFails, At, End, Go, Form, OnlyReq
  <2>3. Placed'
    BY <2>1, <2>2 DEF Placed, OnlyReq
  <2>4. Holding'
    BY <1>0, <2>1, <2>2 DEF Holding, Placed, OnlyReq
  <2> QED
    BY <2>2, <2>3, <2>4
<1>15. CASE Refused(r)
  <2>1. /\ req[r].at = "queued" /\ lock = Nobody
        /\ lock' = Nobody /\ maintenance' = maintenance
    BY <1>15 DEF Refused, Admitted, At, End, Go
  <2>2. /\ req'[r].at = "done"
        /\ OnlyReq(r)
    BY <1>15 DEF Refused, Admitted, At, End, Go, Form, OnlyReq
  <2>3. Placed'
    BY <2>1, <2>2 DEF Placed, OnlyReq
  <2>4. Holding'
    BY <1>0, <2>1, <2>2 DEF Holding, Placed, OnlyReq
  <2> QED
    BY <2>2, <2>3, <2>4
<1>16. CASE Sleeps(r)
  <2>1. req' = req /\ lock' = lock /\ maintenance' = maintenance
    BY <1>16 DEF Sleeps
  <2> QED
    BY <2>1 DEF Form, OnlyReq, Placed, Holding
<1> QED
  BY <1>1, <1>2, <1>3, <1>4, <1>5, <1>6, <1>7, <1>8, <1>9, <1>10, <1>11, <1>12, <1>13, <1>14, <1>15, <1>16
  DEF RequestStep

\* Only Paused leaves "paused", and only LockRealm comes to "restoring".
LEMMA LeavesPaused ==
    ASSUME NEW r \in Requests, RequestStep(r), req[r].at = "paused"
    PROVE  Paused(r)
<1>1. ~(\/ RequestReconcile(r) \/ RequestRestore(r) \/ RequestRebuild(r) \/ JobBegins(r)
        \/ Pause(r) \/ LockRealm(r) \/ Resume(r) \/ RequestReconciled(r))
  BY DEF RequestReconcile, RequestRestore, RequestRebuild, JobBegins, Pause, LockRealm, Resume,
         RequestReconciled, Admitted, At
<1>2. ~(\/ WorkerReturned(r) \/ Sleeps(r) \/ JobDone(r)
        \/ JobReported(r) \/ CleanUp(r) \/ CleanUpFails(r) \/ Refused(r))
  BY DEF WorkerReturned, Sleeps, JobDone, JobReported, CleanUp, CleanUpFails, Refused,
         Admitted, At
<1> QED
  BY <1>1, <1>2 DEF RequestStep

LEMMA ComesToRestoring ==
    ASSUME Form, NEW r \in Requests, RequestStep(r), req[r].at # "restoring",
           req'[r].at = "restoring"
    PROVE  LockRealm(r)
<1>1. ~(\/ RequestReconcile(r) \/ RequestRestore(r) \/ RequestRebuild(r) \/ JobBegins(r)
        \/ Pause(r) \/ Paused(r) \/ Resume(r) \/ RequestReconciled(r))
  BY DEF RequestReconcile, RequestRestore, RequestRebuild, JobBegins, Pause, Paused, Resume,
         RequestReconciled, End, Go, Form
<1>2. ~(\/ WorkerReturned(r) \/ Sleeps(r) \/ JobDone(r)
        \/ JobReported(r) \/ CleanUp(r) \/ CleanUpFails(r) \/ Refused(r))
  BY DEF WorkerReturned, Sleeps, JobDone, JobReported, CleanUp, CleanUpFails, Refused,
         End, Go, Form
<1> QED
  BY <1>1, <1>2 DEF RequestStep

\* At most two agents of a realm are being stopped, so one more can be started.
LEMMA RoomForOne ==
    ASSUME Placed, Holding, Waited, NEW u \in Users
    PROVE  Room(sup[u])
<1> DEFINE a == req[lock].victim
           b == req[maintenance].victim
<1>1. ASSUME NEW g \in sup[u].victims
      PROVE  g = a \/ g = b
  <2>1. PICK r \in Requests : req[r].at = "paused" /\ req[r].victim = g
    BY DEF Waited
  <2>2. CASE KindOf[r] = "rebuild"
    BY <2>1, <2>2 DEF Holding, JobPlaces
  <2>3. CASE KindOf[r] # "rebuild"
    BY <2>1, <2>3 DEF Holding, Outside
  <2> QED
    BY <2>2, <2>3
<1> HIDE DEF a, b
<1>2. 1 \in Gens /\ 2 \in Gens /\ 3 \in Gens
  BY SupervisorConstants DEF Gens
<1>3. \/ 1 # a /\ 1 # b
      \/ 2 # a /\ 2 # b
      \/ 3 # a /\ 3 # b
  OBVIOUS
<1> QED
  BY <1>1, <1>2, <1>3 DEF Room

LEMMA SupNext ==
    ASSUME RealmsInv, Next
    PROVE  /\ DOMAIN sup' = Users /\ \A u \in Users : RealmForm(sup'[u])
           /\ AllTracked'
<1>1. CASE AllOrderly
  <2>1. \A u \in Users : RealmForm(sup'[u])
    BY <1>1, OrderlyForm DEF AllOrderly
  <2>2. ASSUME ~early, NEW u \in Users PROVE Tracked(sup'[u])
    <3>1. Tracked(sup[u]) /\ Room(sup[u])
      BY <2>2, RoomForOne DEF RealmsInv, AllTracked
    <3> QED
      BY <1>1, <3>1 DEF AllOrderly, Orderly, Keeps
  <2> QED
    BY <1>1, <2>1, <2>2, NextEarly DEF AllOrderly, AllTracked
<1>2. ASSUME NEW u \in Users, NEW y, OneRealm(u, y), RealmForm(y),
             ~early => Tracked(y)
      PROVE  /\ DOMAIN sup' = Users /\ \A v \in Users : RealmForm(sup'[v])
             /\ AllTracked'
  <2>1. DOMAIN sup' = Users /\ \A v \in Users : sup'[v] = IF v = u THEN y ELSE sup[v]
    BY <1>2 DEF OneRealm
  <2>2. \A v \in Users : RealmForm(sup'[v])
    BY <1>2, <2>1 DEF RealmsInv, Form
  <2>3. ~early => \A v \in Users : Tracked(sup'[v])
    BY <1>2, <2>1 DEF RealmsInv, AllTracked
  <2> QED
    BY <2>1, <2>2, <2>3, NextEarly DEF AllTracked
<1>3. ASSUME NEW u \in Users, StartInitDone(u)
      PROVE  \E y : OneRealm(u, y) /\ RealmForm(y) /\ (~early => Tracked(y))
  <2>1. PICK y : /\ OneRealm(u, y) /\ Calm(sup[u], y)
                 /\ sup[u].child["agent"] = 0 => Orderly(sup[u], y)
    BY <1>3, StartEffect DEF RealmsInv
  <2>2. RealmForm(y)
    BY <2>1 DEF Calm
  <2>3. ASSUME ~early PROVE Tracked(y)
    <3>1. sup[u].child["agent"] = 0
      BY <1>3, <2>3 DEF StartInitDone, RealmsInv, Begun, Starting
    <3>2. Tracked(sup[u]) /\ Room(sup[u])
      BY <2>3, RoomForOne DEF RealmsInv, AllTracked
    <3> QED
      BY <2>1, <3>1, <3>2 DEF Orderly, Keeps
  <2> QED
    BY <2>1, <2>2, <2>3
<1>4. ASSUME NEW u \in Users, NEW g \in Gens, AgentOpens(u, g)
      PROVE  \E y : OneRealm(u, y) /\ RealmForm(y) /\ (~early => Tracked(y))
  <2>1. PICK y : /\ OneRealm(u, y) /\ RealmForm(y)
                 /\ y.victims = sup[u].victims /\ y.child = sup[u].child
                 /\ \A h \in Gens : h # g => Agent(y, h) = Agent(sup[u], h)
                 /\ Agent(sup[u], g) # "free"
    BY <1>4, OpensEffect DEF RealmsInv
  <2>2. ~early => Tracked(sup[u])
    BY DEF RealmsInv, AllTracked
  <2> QED
    BY <2>1, <2>2 DEF Tracked
<1>5. ASSUME NEW u \in Users, NEW k \in Kinds, NEW g \in Gens, Dies(u, k, g)
      PROVE  \E y : OneRealm(u, y) /\ RealmForm(y) /\ (~early => Tracked(y))
  <2>1. PICK y : /\ OneRealm(u, y) /\ RealmForm(y)
                 /\ y.victims = sup[u].victims /\ y.child = sup[u].child
                 /\ \A h \in Gens : \/ Agent(y, h) = Agent(sup[u], h)
                                    \/ Agent(sup[u], h) # "free" /\ Agent(y, h) = "dead"
    BY <1>5, DiesEffect DEF RealmsInv
  <2>2. ~early => Tracked(sup[u])
    BY DEF RealmsInv, AllTracked
  <2> QED
    BY <2>1, <2>2 DEF Tracked
<1>6. ASSUME NEW r \in Requests, Pause(r) \/ Paused(r)
      PROVE  \E u \in Users : \E y : OneRealm(u, y) /\ RealmForm(y) /\ (~early => Tracked(y))
  <2> DEFINE u == TargetOf[r]
  <2>1. u \in Users
    BY SupervisorConstants
  <2>2. ~early => Tracked(sup[u]) /\ Room(sup[u])
    BY <2>1, RoomForOne DEF RealmsInv, AllTracked
  <2>3. PICK y : /\ OneRealm(u, y) /\ RealmForm(y)
                 /\ Tracked(sup[u]) /\ Room(sup[u]) => Tracked(y)
    BY <1>6, PauseEffect, PausedEffect DEF RealmsInv
  <2> QED
    BY <2>1, <2>2, <2>3
<1> QED
  BY <1>1, <1>2, <1>3, <1>4, <1>5, <1>6, NextCases DEF RealmsInv, NextIs, ProcessIs

LEMMA FormNext ==
    ASSUME RealmsInv, Next
    PROVE  Form' /\ Placed' /\ Holding'
<1>1. DOMAIN sup' = Users /\ (\A u \in Users : RealmForm(sup'[u])) /\ RecFormNext
  BY SupNext, NextCases DEF RealmsInv
<1>2. CASE ReqUnchanged
  BY <1>1, <1>2 DEF ReqUnchanged, RealmsInv, Form, Placed, Holding, RecFormNext
<1>3. ASSUME NEW r \in Requests, RequestStep(r)
      PROVE  Form' /\ Placed' /\ Holding'
  <2>1. OnlyReq(r) /\ Placed' /\ Holding'
    BY <1>3, ReqMoves DEF RealmsInv
  <2> QED
    BY <1>1, <2>1 DEF OnlyReq, RealmsInv, Form, RecFormNext
<1>4. ASSUME NEW r \in Requests, NextIs(r) PROVE RequestStep(r)
  BY <1>4 DEF NextIs, RequestStep
<1> QED
  BY <1>2, <1>3, <1>4, NextCases DEF RealmsInv

LEMMA WaitedNext ==
    ASSUME RealmsInv, Next
    PROVE  Waited'
<1>1. ASSUME ReqUnchanged, \A u \in Users : sup'[u].victims = sup[u].victims
      PROVE  Waited'
  BY <1>1 DEF ReqUnchanged, RealmsInv, Waited
<1>2. AllOrderly => \A u \in Users : sup'[u].victims = sup[u].victims
  BY DEF AllOrderly, Orderly, Calm
<1>a. ASSUME NEW r \in Requests, RequestStep(r), ~Paused(r), AllOrderly
      PROVE  Waited'
  <2>1. OnlyReq(r)
    BY <1>a, ReqMoves DEF RealmsInv
  <2>2. req[r].at # "paused"
    BY <1>a, LeavesPaused
  <2>3. ASSUME NEW u \in Users, NEW g \in sup'[u].victims
        PROVE  g # 0 /\ \E q \in Requests : /\ req'[q].at = "paused" /\ TargetOf[q] = u
                                           /\ req'[q].victim = g
    <3>1. g # 0 /\ \E q \in Requests : /\ req[q].at = "paused" /\ TargetOf[q] = u
                                       /\ req[q].victim = g
      BY <1>2, <1>a, <2>3 DEF RealmsInv, Waited
    <3> QED
      BY <3>1, <2>1, <2>2 DEF OnlyReq
  <2> QED
    BY <2>3 DEF Waited
<1>3. ASSUME NEW u \in Users, ProcessIs(u), ReqUnchanged
      PROVE  Waited'
  <2>1. \E y : OneRealm(u, y) /\ y.victims = sup[u].victims
    BY <1>3, StartEffect, OpensEffect, DiesEffect DEF ProcessIs, RealmsInv, Calm
  <2>2. \A v \in Users : sup'[v].victims = sup[v].victims
    BY <2>1 DEF OneRealm
  <2> QED
    BY <1>1, <1>3, <2>2
<1>4. ASSUME NEW r \in Requests, Pause(r)
      PROVE  Waited'
  <2> DEFINE u == TargetOf[r]
             g == sup[u].child["agent"]
  <2>1. u \in Users
    BY SupervisorConstants
  <2>2. PICK y : /\ OneRealm(u, y)
                 /\ y.victims = sup[u].victims \cup ({g} \ {0})
                 /\ req' = [req EXCEPT ![r].at = "paused", ![r].victim = g]
    BY <1>4, PauseEffect DEF RealmsInv
  <2>3. /\ req'[r].at = "paused" /\ req'[r].victim = g
        /\ \A q \in Requests : q # r => req'[q] = req[q]
    BY <2>2 DEF RealmsInv, Form
  <2>4. req[r].at # "paused"
    BY <1>4 DEF Pause, At
  <2>5. /\ sup'[u].victims = sup[u].victims \cup ({g} \ {0})
        /\ \A v \in Users : v # u => sup'[v].victims = sup[v].victims
    BY <2>2 DEF OneRealm
  <2> HIDE DEF g
  <2>6. ASSUME NEW v \in Users, NEW h \in sup'[v].victims
        PROVE  h # 0 /\ \E q \in Requests : /\ req'[q].at = "paused" /\ TargetOf[q] = v
                                           /\ req'[q].victim = h
    <3>1. CASE h \in sup[v].victims
      <4>1. h # 0 /\ \E q \in Requests : /\ req[q].at = "paused" /\ TargetOf[q] = v
                                         /\ req[q].victim = h
        BY <3>1 DEF RealmsInv, Waited
      <4> QED
        BY <4>1, <2>3, <2>4
    <3>2. CASE h \notin sup[v].victims
      <4>1. v = u /\ h = g /\ h # 0
        BY <2>5, <2>6, <3>2
      <4> QED
        BY <4>1, <2>3
    <3> QED
      BY <3>1, <3>2
  <2> QED
    BY <2>6 DEF Waited
<1>5. ASSUME NEW r \in Requests, Paused(r)
      PROVE  Waited'
  <2> DEFINE u == TargetOf[r]
             g == req[r].victim
  <2>1. u \in Users
    BY SupervisorConstants
  <2>2. PICK y : /\ OneRealm(u, y)
                 /\ y.victims = IF g = 0 THEN sup[u].victims ELSE sup[u].victims \ {g}
    BY <1>5, PausedEffect DEF RealmsInv
  <2>3. \A q \in Requests : q # r => req'[q] = req[q]
    BY <1>5 DEF Paused, RealmsInv, Form
  <2>4. /\ sup'[u].victims = IF g = 0 THEN sup[u].victims ELSE sup[u].victims \ {g}
        /\ \A v \in Users : v # u => sup'[v].victims = sup[v].victims
    BY <2>2 DEF OneRealm
  <2>5. ASSUME NEW v \in Users, NEW h \in sup'[v].victims
        PROVE  h # 0 /\ \E q \in Requests : /\ req'[q].at = "paused" /\ TargetOf[q] = v
                                           /\ req'[q].victim = h
    <3>1. h \in sup[v].victims
      BY <2>4, <2>5
    <3>2. PICK q \in Requests : req[q].at = "paused" /\ TargetOf[q] = v /\ req[q].victim = h
      BY <3>1 DEF RealmsInv, Waited
    <3>3. h # 0
      BY <3>1 DEF RealmsInv, Waited
    <3>4. q # r
      BY <3>2, <3>3, <2>4, <2>5
    <3> QED
      BY <3>2, <3>3, <3>4, <2>3
  <2> QED
    BY <2>5 DEF Waited
<1>6. ASSUME NEW r \in Requests, RequestStep(r), AllOrderly
      PROVE  Waited'
  BY <1>a, <1>5, <1>6
<1> QED
  BY <1>1, <1>2, <1>3, <1>4, <1>5, <1>6, NextCases DEF RealmsInv, NextIs

\* A request is served while the loop starts only if early ones are.
LEMMA NoRequestAtStart ==
    ASSUME RealmsInv, ~early, Starting, NEW r \in Requests, RequestStep(r)
    PROVE  FALSE
<1>1. req[r].at \in {"queued", "done"}
  BY DEF RealmsInv, Begun, Outside
<1>2. ~Admitted(r)
  BY DEF Admitted, Starting
<1>3. ~(\/ RequestReconcile(r) \/ RequestRestore(r) \/ RequestRebuild(r) \/ Refused(r))
  BY <1>2 DEF RequestReconcile, RequestRestore, RequestRebuild, Refused
<1>4. ~(\/ JobBegins(r) \/ Pause(r) \/ Paused(r) \/ LockRealm(r) \/ Resume(r)
        \/ RequestReconciled(r) \/ WorkerReturned(r))
  BY <1>1 DEF JobBegins, Pause, Paused, LockRealm, Resume, RequestReconciled, WorkerReturned, At
<1>5. ~(\/ Sleeps(r) \/ JobDone(r) \/ JobReported(r) \/ CleanUp(r) \/ CleanUpFails(r))
  BY <1>1 DEF Sleeps, JobDone, JobReported, CleanUp, CleanUpFails, At
<1> QED
  BY <1>3, <1>4, <1>5 DEF RequestStep

LEMMA BegunNext ==
    ASSUME RealmsInv, Next
    PROVE  Begun'
<1>0. Loop \in Tasks /\ Loop \notin Requests /\ Requests \subseteq Tasks
  BY SupervisorConstants DEF Tasks
<1> SUFFICES ASSUME ~early, Starting' PROVE Begun'
  BY NextEarly DEF Begun
<1> DEFINE Same == /\ req' = req /\ rec' = rec /\ loop' = loop
                   /\ \A u \in Users : sup'[u].child = sup[u].child
<1>1. ASSUME Same PROVE Begun'
  BY <1>1, NextEarly DEF RealmsInv, Begun, Starting
<1>2. CASE StartBegin
  <2>1. /\ req' = req /\ sup' = sup /\ loop = "new" /\ loop' = "starting"
        /\ \A r \in Requests : rec'[r] = rec[r]
    BY <1>2, <1>0 DEF StartBegin, RealmsInv, Form
  <2>2. Starting
    BY <2>1 DEF Starting
  <2> QED
    BY <2>1, <2>2 DEF RealmsInv, Begun
<1>3. CASE StartEnd \/ TickCheck \/ TickReconcile \/ Stop
  <2>1. loop' \in {"sleeping", "ticking", "stopped"}
    BY <1>3 DEF StartEnd, TickCheck, TickReconcile, Stop
  <2> QED
    BY <2>1 DEF Starting
<1>4. ASSUME NEW change \in edits, Edit(change) PROVE Begun'
  <2>1. req' = req /\ rec' = rec /\ loop' = loop /\ sup' = sup
    BY <1>4 DEF Edit, taskVars
  <2> QED
    BY <2>1, <1>1
<1>5. ASSUME NEW r \in Requests, RequestStep(r) PROVE Begun'
  <2>1. loop' = loop
    <3>1. CASE \/ RequestReconcile(r) \/ RequestRestore(r) \/ RequestRebuild(r)
               \/ JobBegins(r) \/ Pause(r) \/ Paused(r) \/ LockRealm(r) \/ Resume(r)
      BY <3>1 DEF RequestReconcile, RequestRestore, RequestRebuild, JobBegins, Pause, Paused,
                  LockRealm, Resume
    <3>2. CASE \/ RequestReconciled(r) \/ WorkerReturned(r) \/ Sleeps(r) \/ JobDone(r)
               \/ JobReported(r) \/ CleanUp(r) \/ CleanUpFails(r) \/ Refused(r)
      BY <3>2 DEF RequestReconciled, WorkerReturned, Sleeps, JobDone, JobReported, CleanUp,
                  CleanUpFails, Refused
    <3> QED
      BY <1>5, <3>1, <3>2 DEF RequestStep
  <2> QED
    BY <1>5, <2>1, NoRequestAtStart DEF Starting
<1>6. ASSUME NEW u \in Users, RetryDue(u) PROVE Begun'
  <2>1. req' = req /\ rec' = rec /\ loop' = loop
    BY <1>6 DEF RetryDue, taskVars
  <2> QED
    BY <2>1, <1>1, <1>6, RetryDueOrderly DEF RealmsInv
<1>7. ASSUME NEW u \in Users, NEW g \in Gens, AgentOpens(u, g) PROVE Begun'
  <2>1. req' = req /\ rec' = rec /\ loop' = loop
    BY <1>7 DEF AgentOpens, taskVars
  <2>2. \E y : OneRealm(u, y) /\ y.child = sup[u].child
    BY <1>7, OpensEffect DEF RealmsInv
  <2>3. \A v \in Users : sup'[v].child = sup[v].child
    BY <2>2 DEF OneRealm
  <2> QED
    BY <2>1, <2>3, <1>1
<1>8. ASSUME NEW u \in Users, NEW k \in Kinds, NEW g \in Gens, Dies(u, k, g) PROVE Begun'
  <2>1. req' = req /\ rec' = rec /\ loop' = loop
    BY <1>8 DEF Dies, taskVars
  <2>2. \E y : OneRealm(u, y) /\ y.child = sup[u].child
    BY <1>8, DiesEffect DEF RealmsInv
  <2>3. \A v \in Users : sup'[v].child = sup[v].child
    BY <2>2 DEF OneRealm
  <2> QED
    BY <2>1, <2>3, <1>1
<1>9. ASSUME NEW u \in Users, NEW t \in Tasks, InitSucceeds(t, u) \/ InitFails(t, u)
      PROVE  Begun'
  <2>1. loop' = loop /\ InitPending(t, u)
    BY <1>9 DEF InitSucceeds, InitFails
  <2>2. Starting
    BY <2>1 DEF Starting
  <2>3. CASE t = Loop
    BY <2>1, <2>2, <2>3 DEF InitPending, RealmsInv, Begun, Starting
  <2>4. CASE t \in Requests
    BY <2>1, <2>2, <2>4 DEF InitPending, RealmsInv, Begun
  <2> QED
    BY <2>3, <2>4 DEF Tasks
<1>10. ASSUME NEW u \in Users, StartInitDone(u) PROVE Begun'
  <2>1. /\ req' = req /\ loop' = loop /\ loop = "starting"
        /\ rec' = [rec EXCEPT ![Loop].pending = @ \ {u}]
    BY <1>10 DEF StartInitDone
  <2>2. /\ \A r \in Requests : rec'[r] = rec[r]
        /\ rec'[Loop].pending = rec[Loop].pending \ {u}
    BY <1>0, <2>1 DEF RealmsInv, Form
  <2>3. PICK y : OneRealm(u, y)
    BY <1>10, StartEffect DEF RealmsInv
  <2>4. \A v \in Users : v # u => sup'[v] = sup[v]
    BY <2>3 DEF OneRealm
  <2>5. Starting
    BY <2>1 DEF Starting
  <2> QED
    BY <2>1, <2>2, <2>4, <2>5 DEF RealmsInv, Begun
<1> QED
  BY <1>2, <1>3, <1>4, <1>5, <1>6, <1>7, <1>8, <1>9, <1>10 DEF Next, LoopStep, InitStep

LEMMA ExclusiveNext ==
    ASSUME RealmsInv, Next
    PROVE  RestoreExclusive'
<1> DEFINE NoneNew == \A u \in Users, g \in Gens :
                         Agent(sup'[u], g) = "serving" => Agent(sup[u], g) = "serving"
           Restores(r) == req[r].at = "restoring" \/ req'[r].at # "restoring"
<1>0. \A r \in Requests : TargetOf[r] \in Users
  BY SupervisorConstants
<1>1. ASSUME NoneNew, \A r \in Requests : Restores(r)
      PROVE  RestoreExclusive'
  BY <1>0, <1>1 DEF RealmsInv, RestoreExclusive, At, Agent
<1>2. AllOrderly => NoneNew
  BY DEF AllOrderly, Orderly, Calm
<1>3. ReqUnchanged => \A r \in Requests : Restores(r)
  BY DEF ReqUnchanged
<1>4. ASSUME NEW r \in Requests, RequestStep(r), ~LockRealm(r)
      PROVE  \A q \in Requests : Restores(q)
  BY <1>4, ReqMoves, ComesToRestoring DEF RealmsInv, OnlyReq
<1>5. ASSUME NEW r \in Requests, Pause(r) \/ Paused(r)
      PROVE  RestoreExclusive'
  <2>1. RequestStep(r) /\ ~LockRealm(r)
    BY <1>5 DEF RequestStep, Pause, Paused, LockRealm, At
  <2>2. \E y : /\ OneRealm(TargetOf[r], y)
               /\ \A h \in Gens : Agent(y, h) = "serving" => Agent(sup[TargetOf[r]], h) = "serving"
    BY <1>5, PauseEffect, PausedEffect DEF RealmsInv
  <2>3. NoneNew
    BY <2>2 DEF OneRealm
  <2> QED
    BY <1>1, <1>4, <2>1, <2>3
<1>6. ASSUME NEW r \in Requests, LockRealm(r)
      PROVE  RestoreExclusive'
  <2>1. /\ sup' = sup
        /\ req' = [req EXCEPT ![r].at = IF RealmLocked(TargetOf[r]) THEN "failed" ELSE "restoring"]
    BY <1>6 DEF LockRealm, Go
  <2>2. \A q \in Requests : q # r => req'[q] = req[q]
    BY <2>1 DEF RealmsInv, Form
  <2>3. req'[r].at = "restoring" => ~RealmLocked(TargetOf[r])
    BY <2>1 DEF RealmsInv, Form
  <2>4. ASSUME NEW q \in Requests, NEW g \in Gens, req'[q].at = "restoring"
        PROVE  Agent(sup[TargetOf[q]], g) # "serving"
    <3>1. CASE q = r
      BY <2>3, <2>4, <3>1 DEF RealmLocked, Agent
    <3>2. CASE q # r
      BY <2>2, <2>4, <3>2 DEF RealmsInv, RestoreExclusive, At, Agent
    <3> QED
      BY <3>1, <3>2
  <2> QED
    BY <2>1, <2>4 DEF RestoreExclusive, At, Agent
<1>7. ASSUME NEW u \in Users, NEW g \in Gens, AgentOpens(u, g), ReqUnchanged
      PROVE  RestoreExclusive'
  <2>1. PICK y : /\ OneRealm(u, y)
                 /\ \A h \in Gens : h # g => Agent(y, h) = Agent(sup[u], h)
                 /\ Agent(y, g) = "serving" => ~RealmLocked(u)
    BY <1>7, OpensEffect DEF RealmsInv
  <2>2. ASSUME NEW q \in Requests, NEW h \in Gens, req[q].at = "restoring"
        PROVE  Agent(sup'[TargetOf[q]], h) # "serving"
    <3>1. CASE TargetOf[q] = u /\ h = g
      BY <2>1, <2>2, <3>1 DEF OneRealm, RealmLocked
    <3>2. CASE ~(TargetOf[q] = u /\ h = g)
      <4>1. Agent(sup'[TargetOf[q]], h) = Agent(sup[TargetOf[q]], h)
        BY <1>0, <2>1, <3>2 DEF OneRealm
      <4> QED
        BY <4>1, <2>2 DEF RealmsInv, RestoreExclusive, At, Agent
    <3> QED
      BY <3>1, <3>2
  <2> QED
    BY <1>7, <2>2 DEF RestoreExclusive, At, Agent, ReqUnchanged
<1>8. ASSUME NEW u \in Users, ReqUnchanged,
             StartInitDone(u) \/ \E k \in Kinds, g \in Gens : Dies(u, k, g)
      PROVE  RestoreExclusive'
  <2>1. \E y : /\ OneRealm(u, y)
               /\ \A h \in Gens : Agent(y, h) = "serving" => Agent(sup[u], h) = "serving"
    BY <1>8, StartEffect, DiesEffect DEF RealmsInv, Calm
  <2>2. NoneNew
    BY <2>1 DEF OneRealm
  <2> QED
    BY <1>1, <1>3, <1>8, <2>2
<1>9. ASSUME NEW r \in Requests, RequestStep(r), AllOrderly
      PROVE  RestoreExclusive'
  BY <1>1, <1>2, <1>4, <1>6, <1>9
<1> HIDE DEF NoneNew, Restores
<1> QED
  BY <1>1, <1>2, <1>3, <1>5, <1>7, <1>8, <1>9, NextCases DEF RealmsInv, NextIs, ProcessIs

\* The file steps of RealmSnapshot that leave all this alone, and those of Supervisor
\* that do nothing.
LEMMA OtherNext ==
    ASSUME RealmsInv, sup' = sup, req' = req, rec' = rec, loop' = loop, lock' = lock,
           maintenance' = maintenance, early' = early
    PROVE  RealmsInv'
BY DEF RealmsInv, Form, Placed, Holding, Waited, Begun, Starting, AllTracked, RestoreExclusive, At

LEMMA RealmsInvInit ==
    ASSUME Init
    PROVE  RealmsInv
<1>1. PICK s \in Scenarios :
          /\ sup = [u \in Users |-> NewRealm]
          /\ loop = "new"
          /\ rec = [t \in Tasks |-> NoRec]
          /\ req = [r \in Requests |-> [at |-> IF r \in s.requests THEN "queued" ELSE "done",
                                        victim |-> 0, expected |-> FALSE]]
  BY DEF Init
<1>2. /\ DOMAIN req = Requests
      /\ \A r \in Requests : /\ DOMAIN req[r] = {"at", "victim", "expected"}
                             /\ req[r].at \in Outside
  BY <1>1 DEF Outside
<1>3. /\ DOMAIN rec = Tasks
      /\ \A t \in Tasks : DOMAIN rec[t] = {"wanted", "pending"} /\ rec[t].pending = {}
  BY <1>1 DEF NoRec
<1>4. /\ RealmForm(NewRealm) /\ NewRealm.child["agent"] = 0 /\ NewRealm.victims = {}
      /\ \A g \in Gens : Agent(NewRealm, g) = "free"
  BY BothKinds, NoProcForm DEF NewRealm, RealmForm, Agent
<1>5. DOMAIN sup = Users /\ \A u \in Users : sup[u] = NewRealm
  BY <1>1
<1>6. Form
  BY <1>2, <1>3, <1>4, <1>5 DEF Form
<1>7. Placed /\ Holding
  BY <1>2 DEF Placed, Holding, PlacesOf, Outside, JobPlaces
<1>8. Waited /\ AllTracked
  BY <1>4, <1>5 DEF Waited, AllTracked, Tracked
<1>9. Begun
  BY <1>2, <1>3, <1>4, <1>5, SupervisorConstants DEF Begun, Tasks
<1>10. RestoreExclusive
  BY <1>2 DEF RestoreExclusive, At, Outside
<1> QED
  BY <1>6, <1>7, <1>8, <1>9, <1>10 DEF RealmsInv

LEMMA RealmsInvNext ==
    ASSUME RealmsInv, Next
    PROVE  RealmsInv'
BY SupNext, FormNext, WaitedNext, BegunNext, ExclusiveNext DEF RealmsInv

----------------------------------------------------------------------------
(* The theorems of Supervisor.                                              *)

LEMMA RealmsInvStutter ==
    ASSUME RealmsInv, UNCHANGED vars
    PROVE  RealmsInv'
BY OtherNext DEF vars, taskVars, budgetVars

\* Requests exclude one another by the two locks of the control plane, an agent on
\* its way out is waited for, and no request is served while the loop starts unless
\* early ones are: on this the next two rest (user_admin.py, supervisor.py).
THEOREM SupervisorInvariant == Spec => []RealmsInv
<1>1. Init => RealmsInv
  BY RealmsInvInit
<1>2. RealmsInv /\ [Next]_vars => RealmsInv'
  BY RealmsInvNext, RealmsInvStutter
<1> QED
  BY <1>1, <1>2, PTL DEF Spec

\* A realm is restored only while no agent has its palace open, whatever the loop,
\* other requests, crashes and agents on their way do meanwhile.
THEOREM RestoreIsExclusive == Spec => []RestoreExclusive
<1>1. RealmsInv => RestoreExclusive
  BY DEF RealmsInv
<1> QED
  BY <1>1, SupervisorInvariant, PTL

\* No overlap of reconciles, pauses and restarts leaves an agent behind that the
\* supervisor does not know of, but where requests are served before the start is over.
THEOREM RunnersAreTracked == Spec => [](~early => RunnersTracked)
<1>1. RealmsInv => (~early => RunnersTracked)
  BY DEF RealmsInv, AllTracked, Tracked, RunnersTracked, Agent, Alive
<1> QED
  BY <1>1, SupervisorInvariant, PTL

----------------------------------------------------------------------------
(* The files of a realm.                                                    *)

FileForm ==
    /\ DOMAIN live = Dirs /\ DOMAIN staged = Dirs /\ DOMAIN aside = Dirs
    /\ \A d \in Dirs : /\ "from" \in DOMAIN live[d] /\ "from" \in DOMAIN staged[d]
                       /\ "from" \in DOMAIN aside[d]

All(where, origin) == \A d \in Dirs : where[d].from = origin

\* Where the directories are when the restore is at a place.
Replacing(d, gone) ==
    /\ IF gone THEN live[d] = NoDir /\ aside[d].from = "live" ELSE live[d].from = "live"
    /\ staged[d].from = "copy"
    /\ IF d = "palace" THEN live["ledgers"].from = "live" /\ staged["ledgers"].from = "copy"
       ELSE live["palace"].from = "copy" /\ aside["palace"].from = "live"

FilesAt ==
    \/ restore.at \in {"idle", "staging", "dropping", "failed"} /\ All(live, "live")
    \/ restore.at = "replacing" /\ Replacing(restore.dir, FALSE)
    \/ restore.at = "placing" /\ Replacing(restore.dir, TRUE)
    \/ restore.at = "clearing" /\ All(live, "copy") /\ All(aside, "live")
    \/ restore.at = "done" /\ All(live, "copy")
    \/ /\ restore.at = "removing"
       /\ \A d \in Dirs : \/ live[d].from = "live"
                          \/ aside[d].from = "live" /\ (live[d] = NoDir \/ live[d].from = "copy")
    \/ /\ restore.at = "returning"
       /\ \A d \in Dirs : live[d].from = "live" \/ (aside[d].from = "live" /\ live[d] = NoDir)
       /\ restore.dir = "palace" => live["ledgers"].from = "live"

\* While the restore is under way the request is where it holds the realm's lock.
LockedWhile == restore.at \notin {"idle", "done", "failed"} => req[Restore].at = "restoring"

FilesInv ==
    /\ FileForm /\ FilesAt /\ LockedWhile
    /\ restore.dir \in Dirs

LEMMA DirsAre == Dirs = {"palace", "ledgers"} /\ "palace" # "ledgers"
BY DEF Dirs

LEMMA FilesSame ==
    ASSUME FilesInv, live' = live, staged' = staged, aside' = aside, restore' = restore,
           restore.at \notin {"idle", "done", "failed"} => req'[Restore].at = "restoring"
    PROVE  FilesInv'
BY DEF FilesInv, FileForm, FilesAt, All, Replacing, LockedWhile

LEMMA NowhereDir == NoDir.from = "nowhere" /\ "from" \in DOMAIN NoDir
BY DEF NoDir

LEMMA DirectoryFrom ==
    ASSUME NEW c, NEW o
    PROVE  Directory(c, o).from = o /\ "from" \in DOMAIN Directory(c, o)
BY DEF Directory

LEMMA ServedAtRest ==
    ASSUME RealmsInv, FilesInv, Served
    PROVE  restore.at \in {"idle", "done", "failed"}
<1>1. Restore \in Requests /\ TargetOf[Restore] = Realm
  BY RealmSnapshotConstants
<1>2. req[Restore].at # "restoring"
  BY <1>1 DEF Served, RealmsInv, RestoreExclusive, At
<1> QED
  BY <1>2 DEF FilesInv, LockedWhile

\* What an agent does leaves each directory where it came from.
LEMMA AgentFiles ==
    ASSUME RealmsInv, FilesInv, AgentStep
    PROVE  FilesInv'
<1>1. PICK m \in Memories : Records(m) \/ Erases(m) \/ Materialises(m)
  BY DEF AgentStep
<1>2. /\ staged' = staged /\ aside' = aside /\ restore' = restore /\ req' = req
  BY <1>1 DEF Records, Erases, Materialises, vars, taskVars
<1>3. restore.at \in {"idle", "done", "failed"}
  BY <1>1, ServedAtRest DEF Records, Erases, Materialises
<1>4. \E p, l : live' = [live EXCEPT !["palace"].content = p, !["ledgers"].content = l]
           \/ live' = [live EXCEPT !["ledgers"].content = l]
  <2>1. CASE Records(m) \/ Erases(m)
    <3>1. \E l : live' = [live EXCEPT !["ledgers"].content = l]
      BY <2>1, Zenon DEF Records, Erases
    <3> QED
      BY <3>1
  <2>2. CASE Materialises(m)
    BY <2>2, Zenon DEF Materialises
  <2> QED
    BY <1>1, <2>1, <2>2
<1>5. DOMAIN live' = Dirs
  BY <1>4 DEF FilesInv, FileForm
<1>6. \A d \in Dirs : live'[d].from = live[d].from /\ "from" \in DOMAIN live'[d]
  BY <1>4, DirsAre DEF FilesInv, FileForm
<1>7. FileForm'
  BY <1>2, <1>5, <1>6 DEF FilesInv, FileForm
<1>8. FilesAt'
  BY <1>2, <1>3, <1>6 DEF FilesInv, FilesAt, All
<1> QED
  BY <1>2, <1>7, <1>8 DEF FilesInv, LockedWhile

LEMMA CopyFiles ==
    ASSUME FilesInv, CopyStep
    PROVE  FilesInv' /\ (RealmsInv => RealmsInv')
<1>1. /\ live' = live /\ staged' = staged /\ aside' = aside /\ restore' = restore
      /\ sup' = sup /\ req' = req /\ rec' = rec /\ loop' = loop
      /\ lock' = lock /\ maintenance' = maintenance /\ early' = early
  BY DEF CopyStep, CopyPalace, CopyLedger, Stamp, otherVars, vars, taskVars, budgetVars
<1>2. restore.at \notin {"idle", "done", "failed"} => req'[Restore].at = "restoring"
  BY <1>1 DEF FilesInv, LockedWhile
<1> QED
  BY <1>1, <1>2, FilesSame, OtherNext

LEMMA ProcessFiles ==
    ASSUME FilesInv, ProcessStep
    PROVE  FilesInv'
<1>1. /\ live' = live /\ staged' = staged /\ aside' = aside /\ restore' = restore
      /\ req[Restore].at = "restoring" /\ req'[Restore].at # "restoring" =>
            restore.at \in {"done", "failed"}
  BY DEF ProcessStep, fileVars, At
<1>2. restore.at \notin {"idle", "done", "failed"} => req'[Restore].at = "restoring"
  BY <1>1 DEF FilesInv, LockedWhile
<1> QED
  BY <1>1, <1>2, FilesSame

LEMMA RestoreFiles ==
    ASSUME FilesInv, RestoreStep
    PROVE  FilesInv'
<1> DEFINE Goes(at, d) == restore' = [at |-> at, dir |-> d]
<1>0. req' = req
  BY DEF RestoreStep, Verify, Stage, StageFails, MoveAside, PutInPlace, RenameFails,
         RemoveReplaced, BringBack, DropStaged, ClearAside, vars, taskVars
<1>1. CASE Verify
  <2>1. /\ restore.at = "idle" /\ req[Restore].at = "restoring"
        /\ live' = live /\ staged' = staged /\ aside' = aside
        /\ restore'.at \in {"failed", "staging"} /\ restore'.dir = "palace"
    BY <1>1 DEF Verify, Restoring, At, Place
  <2>2. FileForm' /\ FilesAt'
    BY <2>1 DEF FilesInv, FileForm, FilesAt, All
  <2> QED
    BY <1>0, <2>1, <2>2, DirsAre DEF FilesInv, LockedWhile
<1>2. CASE Stage \/ StageFails
  <2>1. /\ restore.at = "staging" /\ live' = live /\ aside' = aside
        /\ restore'.at \in {"replacing", "failed"} /\ restore'.dir = "palace"
    BY <1>2 DEF Stage, StageFails, Place
  <2>2. \A d \in Dirs : CopyOf(d).from = "copy" /\ "from" \in DOMAIN CopyOf(d)
    BY DirectoryFrom DEF CopyOf
  <2>3. /\ DOMAIN staged' = Dirs
        /\ \A d \in Dirs : "from" \in DOMAIN staged'[d]
        /\ restore'.at = "replacing" => \A d \in Dirs : staged'[d].from = "copy"
    <3>1. CASE Stage
      <4>1. staged' = [d \in Dirs |-> CopyOf(d)]
        BY <3>1 DEF Stage
      <4> QED
        BY <2>2, <4>1
    <3>2. CASE StageFails
      <4>1. /\ restore'.at = "failed"
            /\ \E done \in SUBSET {"palace"} :
                  staged' = [d \in Dirs |-> IF d \in done THEN CopyOf(d) ELSE NoDir]
        BY <3>2 DEF StageFails, Place
      <4> QED
        BY <2>2, <4>1, NowhereDir
    <3> QED
      BY <1>2, <3>1, <3>2
  <2>4. FileForm'
    BY <2>1, <2>3 DEF FilesInv, FileForm
  <2>5. FilesAt'
    BY <2>1, <2>3, DirsAre DEF FilesInv, FilesAt, All, Replacing
  <2> QED
    BY <1>0, <2>1, <2>4, <2>5, DirsAre DEF FilesInv, LockedWhile
<1>3. CASE MoveAside
  <2> DEFINE d == restore.dir
  <2>1. /\ restore.at = "replacing" /\ staged' = staged
        /\ aside' = [aside EXCEPT ![d] = live[d]]
        /\ live' = [live EXCEPT ![d] = NoDir]
        /\ restore'.at = "placing" /\ restore'.dir = d
    BY <1>3 DEF MoveAside, Place
  <2>2. d \in Dirs
    BY DEF FilesInv
  <2> HIDE DEF d
  <2>3. /\ DOMAIN live' = Dirs /\ DOMAIN aside' = Dirs
        /\ \A e \in Dirs : /\ live'[e] = IF e = d THEN NoDir ELSE live[e]
                           /\ aside'[e] = IF e = d THEN live[d] ELSE aside[e]
    BY <2>1 DEF FilesInv, FileForm
  <2>4. FileForm'
    BY <2>1, <2>2, <2>3, NowhereDir DEF FilesInv, FileForm
  <2>5. Replacing(d, FALSE)
    BY <2>1 DEF FilesInv, FilesAt, d
  <2>6. FilesAt'
    BY <2>1, <2>2, <2>3, <2>5, DirsAre DEF FilesAt, Replacing
  <2> QED
    BY <1>0, <2>1, <2>2, <2>4, <2>6 DEF FilesInv, LockedWhile
<1>4. CASE PutInPlace
  <2> DEFINE d == restore.dir
  <2>1. /\ restore.at = "placing" \/ (restore.at = "replacing" /\ live[d] = NoDir)
        /\ aside' = aside
        /\ live' = [live EXCEPT ![d] = staged[d]]
        /\ staged' = [staged EXCEPT ![d] = NoDir]
        /\ IF d = "palace" THEN restore'.at = "replacing" /\ restore'.dir = "ledgers"
           ELSE restore'.at = "clearing" /\ restore'.dir = "palace"
    BY <1>4 DEF PutInPlace, Place
  <2>2. d \in Dirs
    BY DEF FilesInv
  <2>a. restore.dir = d
    OBVIOUS
  <2> HIDE DEF d
  <2>3. /\ DOMAIN live' = Dirs /\ DOMAIN staged' = Dirs
        /\ \A e \in Dirs : /\ live'[e] = IF e = d THEN staged[d] ELSE live[e]
                           /\ staged'[e] = IF e = d THEN NoDir ELSE staged[e]
    BY <2>1 DEF FilesInv, FileForm
  <2>4. FileForm'
    BY <2>1, <2>2, <2>3, NowhereDir DEF FilesInv, FileForm
  <2>5. restore.at = "placing" /\ Replacing(d, TRUE)
    <3>1. restore.at = "replacing" => Replacing(d, FALSE)
      BY <2>a DEF FilesInv, FilesAt
    <3>2. restore.at # "replacing"
      BY <3>1, <2>1, NowhereDir DEF Replacing
    <3> QED
      BY <2>a, <2>1, <3>2 DEF FilesInv, FilesAt
  <2>6. FilesAt'
    <3>1. CASE d = "palace"
      BY <2>1, <2>3, <2>5, <3>1, DirsAre DEF FilesAt, Replacing
    <3>2. CASE d = "ledgers"
      BY <2>1, <2>3, <2>5, <3>2, DirsAre DEF FilesAt, Replacing, All
    <3> QED
      BY <2>2, <3>1, <3>2, DirsAre
  <2>7. restore'.dir \in Dirs /\ LockedWhile'
    BY <1>0, <2>1, <2>5, DirsAre DEF FilesInv, LockedWhile
  <2> QED
    BY <2>4, <2>6, <2>7 DEF FilesInv
<1>5. CASE RenameFails
  <2> DEFINE d == restore.dir
  <2>1. /\ restore.at \in {"replacing", "placing"}
        /\ live' = live /\ staged' = staged /\ aside' = aside
        /\ restore'.at = "removing" /\ restore'.dir = "palace"
    BY <1>5 DEF RenameFails, Place
  <2>2. d \in Dirs /\ (Replacing(d, FALSE) \/ Replacing(d, TRUE))
    BY <2>1 DEF FilesInv, FilesAt
  <2> HIDE DEF d
  <2>3. \A e \in Dirs : \/ live[e].from = "live"
                        \/ aside[e].from = "live" /\ (live[e] = NoDir \/ live[e].from = "copy")
    BY <2>2, DirsAre DEF Replacing
  <2>4. FilesAt' /\ FileForm'
    BY <2>1, <2>3 DEF FilesAt, FilesInv, FileForm
  <2> QED
    BY <1>0, <2>1, <2>4, DirsAre DEF FilesInv, LockedWhile
<1>6. CASE RemoveReplaced
  <2>1. /\ restore.at = "removing" /\ staged' = staged /\ aside' = aside
        /\ live' = [d \in Dirs |-> IF live[d] # NoDir /\ live[d].from = "copy" THEN NoDir
                                   ELSE live[d]]
        /\ restore'.at = "returning" /\ restore'.dir = "ledgers"
    BY <1>6 DEF RemoveReplaced, Place
  <2>2. /\ DOMAIN live' = Dirs
        /\ \A d \in Dirs : live'[d] = IF live[d].from = "copy" THEN NoDir ELSE live[d]
    BY <2>1, NowhereDir
  <2>3. FileForm'
    BY <2>1, <2>2, NowhereDir DEF FilesInv, FileForm
  <2>4. \A d \in Dirs : \/ live[d].from = "live"
                        \/ aside[d].from = "live" /\ (live[d] = NoDir \/ live[d].from = "copy")
    BY <2>1 DEF FilesInv, FilesAt
  <2>5. FilesAt'
    BY <2>1, <2>2, <2>4 DEF FilesAt
  <2> QED
    BY <1>0, <2>1, <2>3, <2>5, DirsAre DEF FilesInv, LockedWhile
<1>7. CASE BringBack
  <2> DEFINE d == restore.dir
             back == aside[d] # NoDir /\ live[d] = NoDir
  <2>1. /\ restore.at = "returning" /\ staged' = staged
        /\ live' = IF back THEN [live EXCEPT ![d] = aside[d]] ELSE live
        /\ aside' = IF back THEN [aside EXCEPT ![d] = NoDir] ELSE aside
        /\ restore'.dir = "palace"
        /\ restore'.at = IF d = "ledgers" THEN "returning" ELSE "dropping"
    BY <1>7 DEF BringBack, Place
  <2>2. /\ d \in Dirs
        /\ \A e \in Dirs : live[e].from = "live" \/ (aside[e].from = "live" /\ live[e] = NoDir)
        /\ d = "palace" => live["ledgers"].from = "live"
    BY <2>1 DEF FilesInv, FilesAt
  <2>3. back <=> live[d].from # "live"
    BY <2>2, NowhereDir
  <2> HIDE DEF d, back
  <2>4. /\ DOMAIN live' = Dirs /\ DOMAIN aside' = Dirs
        /\ \A e \in Dirs : /\ live'[e] = IF back /\ e = d THEN aside[d] ELSE live[e]
                           /\ aside'[e] = IF back /\ e = d THEN NoDir ELSE aside[e]
    BY <2>1 DEF FilesInv, FileForm
  <2>5. FileForm'
    BY <2>1, <2>2, <2>4, NowhereDir DEF FilesInv, FileForm
  <2>6. /\ live'[d].from = "live"
        /\ \A e \in Dirs : e # d => live'[e] = live[e] /\ aside'[e] = aside[e]
    BY <2>2, <2>3, <2>4
  <2>7. FilesAt'
    BY <2>1, <2>2, <2>6, DirsAre DEF FilesAt, All
  <2> QED
    BY <1>0, <2>1, <2>5, <2>7, DirsAre DEF FilesInv, LockedWhile
<1>8. CASE DropStaged
  <2>1. /\ restore.at = "dropping" /\ live' = live /\ aside' = aside
        /\ staged' = [d \in Dirs |-> NoDir]
        /\ restore'.at = "failed" /\ restore'.dir = "palace"
    BY <1>8 DEF DropStaged, Place
  <2>2. FileForm' /\ FilesAt'
    BY <2>1, NowhereDir DEF FilesInv, FileForm, FilesAt, All
  <2> QED
    BY <1>0, <2>1, <2>2, DirsAre DEF FilesInv, LockedWhile
<1>9. CASE ClearAside
  <2>1. /\ restore.at = "clearing" /\ live' = live /\ staged' = staged
        /\ aside' = [d \in Dirs |-> NoDir]
        /\ restore'.at = "done" /\ restore'.dir = "palace"
    BY <1>9 DEF ClearAside, Place
  <2>2. FileForm' /\ FilesAt'
    BY <2>1, NowhereDir DEF FilesInv, FileForm, FilesAt, All
  <2> QED
    BY <1>0, <2>1, <2>2, DirsAre DEF FilesInv, LockedWhile
<1> QED
  BY <1>1, <1>2, <1>3, <1>4, <1>5, <1>6, <1>7, <1>8, <1>9 DEF RestoreStep

LEMMA FilesInvInit ==
    ASSUME FilesInit
    PROVE  FilesInv
<1>1. /\ DOMAIN live = Dirs /\ \A d \in Dirs : live[d].from = "live" /\ "from" \in DOMAIN live[d]
  <2> DEFINE c(d) == IF d = "palace" THEN Old
                     ELSE [l \in Ledgers |-> [NoLedger EXCEPT !.held = {m \in Old : LedgerOf[m] = l}]]
  <2>1. live = [d \in Dirs |-> Directory(c(d), "live")]
    BY DEF FilesInit
  <2> HIDE DEF c
  <2> QED
    BY <2>1, DirectoryFrom
<1>2. /\ staged = [d \in Dirs |-> NoDir] /\ aside = [d \in Dirs |-> NoDir]
      /\ restore.at = "idle" /\ restore.dir = "palace"
  BY DEF FilesInit, Idle, Place
<1> QED
  BY <1>1, <1>2, NowhereDir, DirsAre DEF FilesInv, FileForm, FilesAt, All, LockedWhile

LEMMA RealmStep ==
    ASSUME RealmsInv, FilesInv, [ProcessStep \/ AgentStep \/ CopyStep \/ RestoreStep]_allVars
    PROVE  RealmsInv' /\ FilesInv'
<1>1. CASE ProcessStep
  BY <1>1, ProcessFiles, RealmsInvNext DEF ProcessStep
<1>2. CASE AgentStep
  <2>1. UNCHANGED vars
    BY <1>2 DEF AgentStep, Records, Erases, Materialises
  <2> QED
    BY <1>2, <2>1, AgentFiles, RealmsInvStutter
<1>3. CASE CopyStep
  BY <1>3, CopyFiles
<1>4. CASE RestoreStep
  <2>1. UNCHANGED vars
    BY <1>4 DEF RestoreStep, Verify, Stage, StageFails, MoveAside, PutInPlace, RenameFails,
                RemoveReplaced, BringBack, DropStaged, ClearAside
  <2> QED
    BY <1>4, <2>1, RestoreFiles, RealmsInvStutter
<1>5. CASE UNCHANGED allVars
  <2>1. UNCHANGED vars
    BY <1>5 DEF allVars
  <2>2. /\ live' = live /\ staged' = staged /\ aside' = aside /\ restore' = restore
        /\ req' = req
    BY <1>5 DEF allVars, fileVars, vars, taskVars
  <2>3. restore.at \notin {"idle", "done", "failed"} => req'[Restore].at = "restoring"
    BY <2>2 DEF FilesInv, LockedWhile
  <2> QED
    BY <2>1, <2>2, <2>3, FilesSame, RealmsInvStutter
<1> QED
  BY <1>1, <1>2, <1>3, <1>4, <1>5

\* The same with the files, the copy and the restore of a realm among the processes.
THEOREM RealmInvariant == RealmSpec => [](RealmsInv /\ FilesInv)
<1>1. RealmInit => RealmsInv /\ FilesInv
  BY RealmsInvInit, FilesInvInit DEF RealmInit
<1>2. /\ RealmsInv /\ FilesInv
      /\ [ProcessStep \/ AgentStep \/ CopyStep \/ RestoreStep]_allVars
      => (RealmsInv /\ FilesInv)'
  BY RealmStep
<1> QED
  BY <1>1, <1>2, PTL DEF RealmSpec

\* Wherever a restore is interrupted the disk holds all that was there or all of the
\* copy, and an agent serves one or the other, never half of each.
THEOREM RestoreIsRecoverable == RealmSpec => []Recoverable
<1>1. RealmsInv /\ FilesInv => Recoverable
  <2> SUFFICES ASSUME RealmsInv, FilesInv PROVE Recoverable
    OBVIOUS
  <2>1. FilesAt /\ restore.dir \in Dirs
    BY DEF FilesInv
  <2>2. \A d \in Dirs : \A origin \in {"live", "copy"} :
            /\ live[d].from = origin => From(d, live, origin)
            /\ aside[d].from = origin => From(d, aside, origin)
    BY NowhereDir DEF From
  <2>3. \/ \A d \in Dirs : From(d, live, "live") \/ From(d, aside, "live")
        \/ \A d \in Dirs : From(d, live, "copy")
    BY <2>1, <2>2, DirsAre DEF FilesAt, All, Replacing
  <2>4. Served => All(live, "live") \/ All(live, "copy")
    BY <2>1, ServedAtRest DEF FilesAt
  <2>5. Served => \E origin \in {"live", "copy"} : \A d \in Dirs : From(d, live, origin)
    BY <2>2, <2>4 DEF All
  <2> QED
    BY <2>3, <2>5 DEF Recoverable
<1> QED
  BY <1>1, RealmInvariant, PTL

\* The exclusion and the tracking hold among the file steps too.
THEOREM RealmIsExclusive == RealmSpec => [](RestoreExclusive /\ (~early => RunnersTracked))
<1>1. RealmsInv => RestoreExclusive /\ (~early => RunnersTracked)
  BY DEF RealmsInv, AllTracked, Tracked, RunnersTracked, Agent, Alive
<1> QED
  BY <1>1, RealmInvariant, PTL

=============================================================================
