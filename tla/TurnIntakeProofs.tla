------------------------- MODULE TurnIntakeProofs -------------------------
(***************************************************************************)
(* Proofs about TurnIntake: what is written from a turn comes from one     *)
(* decision, a redacted turn has none in the store, and a turn that is     *)
(* acknowledged or recorded is in memory - for any turns, texts, batches,  *)
(* extractor versions, answers of the steward and faults.                  *)
(***************************************************************************)
EXTENDS TurnIntake, TLAPS

Pcs ==
    {"idle", "get", "decide", "put", "register", "ingest", "mark", "resolve", "tombstone",
     "redact", "truncate", "scrub", "drawers", "own", "truncate_own", "next", "mark_synced",
     "ack"}
Task ==
    [pc : Pcs, msg : Msgs \cup {None}, pos : Nat, decision : Decision, todo : Seq(Fragments),
     batch : Seq(Fragments), found : SUBSET Fragments, sources : SUBSET Turns]
Row == [input : Nat, decision : Decision]

\* The types of all variables, those TypeOK does not speak of too.
Typed ==
    /\ version \in Versions
    /\ stored \in [Turns -> [Versions -> Row \cup {None}]]
    /\ \A t \in Turns, v \in Versions :
           stored[t][v] # None => stored[t][v].decision \in Says[t]
    /\ tomb \subseteq Turns /\ wal \subseteq Turns /\ synced \subseteq Event
    /\ fact \in [Fragments -> {"none", "active", "forgotten"}]
    /\ pending \subseteq Fragments /\ archived \subseteq drawers /\ drawers \subseteq Fragments
    /\ evidence \subseteq Turns \X Fragments
    /\ status \in [Msgs -> {"absent", "queued", "held", "acked", "dead"}]
    /\ work \in [Workers -> Task]
    /\ used \subseteq Turns \X Versions \X Decision

\* What a task that is not idle works on: a message of its own kind, and in a
\* batch one of its events.  Commands ask for no decision.
Holding(w) ==
    /\ work[w].pc # "idle" => work[w].msg \in Msgs /\ Msg(w).kind = w
    /\ w = "sync" /\ work[w].pc \notin {"idle", "next", "ack"} =>
           work[w].pos \in 1 .. Len(Msg(w).events)
    /\ work[w].pc \in {"next", "mark_synced"} => w = "sync"
    /\ work[w].pc \in {"get", "decide", "put", "register", "ingest", "mark"} => w # "cmd"
    /\ work[w].pc = "put" => work[w].decision \in Says[TurnOf(w)]
    /\ work[w].pc = "register" => work[w].todo # <<>>
    /\ work[w].pc = "mark" => work[w].batch # <<>>

\* The decision d is the one in the store, unless the turn is redacted.
Backed(t, v, d) == t \in tomb \/ (stored[t][v] # None /\ stored[t][v].decision = d)

\* A text that needs no drawer any more, and the texts a task still owes one.
Settled(f) == fact[f] = "forgotten" \/ f \in drawers
Owed(w) ==
    CASE work[w].pc = "register" -> ToSet(work[w].todo) \cup ToSet(work[w].batch)
      [] work[w].pc = "ingest" -> ToSet(work[w].batch)
      [] OTHER -> {}

\* A task that writes texts has accounted for each text of a stored decision.
Writing(w) ==
    work[w].pc \in {"register", "ingest", "mark"} =>
        LET d == work[w].decision
        IN /\ Backed(TurnOf(w), version, d) /\ d.target = {}
           /\ \A i \in 1 .. Len(d.frags) : d.frags[i] \in Owed(w) \/ Settled(d.frags[i])

\* Drawers are taken away after their texts are forgotten, and a task is
\* done with a turn when the turn is kept.
Ending(w) ==
    /\ work[w].pc \in {"redact", "truncate", "scrub", "drawers"} =>
           \A f \in work[w].found : fact[f] = "forgotten"
    /\ work[w].pc = "truncate_own" => TurnOf(w) \in tomb
    /\ work[w].pc = "mark_synced" \/ (w = "turn" /\ work[w].pc = "ack") => Kept(TurnOf(w))

TaskInv(w) == Holding(w) /\ Writing(w) /\ Ending(w)

\* What was written from a turn comes from the decision that is stored, and
\* so does what two tasks at the same turn are about to write - even when the
\* turn is redacted under them and the store no longer says which it was.
Agreeing ==
    /\ OneDecision
    /\ \A u \in used : Backed(u[1], u[2], u[3])
    /\ \A w \in Workers : At(w, "register") =>
           /\ \A u \in used :
                  u[1] = TurnOf(w) /\ u[2] = version => u[3] = work[w].decision
           /\ \A x \in Workers :
                  At(x, "register") /\ TurnOf(x) = TurnOf(w)
                      => work[x].decision = work[w].decision

\* The inductive invariant.
IntakeInv ==
    /\ Typed
    /\ \A w \in Workers : TaskInv(w)
    /\ Agreeing /\ RedactedGone /\ AbsorbedKept

----------------------------------------------------------------------------
(* What a step leaves standing.                                             *)

\* Stored decisions change only by redaction, forgotten texts stay forgotten,
\* and a drawer goes only with its text.
Onward ==
    /\ tomb \subseteq tomb'
    /\ \A t \in Turns : t \in tomb' \/
           \A v \in Versions : stored[t][v] # None => stored'[t][v] = stored[t][v]
    /\ \A f \in Fragments : fact[f] = "forgotten" => fact'[f] = "forgotten"
    /\ \A f \in Fragments : f \in drawers => f \in drawers' \/ fact'[f] = "forgotten"

\* A step of task w alone, which leaves it in order.
Stepped(w) ==
    /\ version' = version /\ Onward
    /\ \A x \in Workers : x # w => work'[x] = work[x]
    /\ TaskInv(w)'

LEMMA MessageTyped ==
    ASSUME NEW m \in Msgs
    PROVE  /\ Content[m].kind = "turn" => Content[m].turn \in Turns /\ Content[m].input \in Nat
           /\ Content[m].kind = "sync" => Content[m].events \in Seq(Event)
           /\ Content[m].kind = "cmd" => Content[m].turn \in Turns
           /\ Content[m].kind \in Workers
<1>1. Content[m] \in Body
  BY IntakeConstants
<1>2. QED
  BY <1>1 DEF Body, Workers

LEMMA EventTyped ==
    ASSUME Typed, NEW w \in Workers, Holding(w), w = "sync",
           work[w].pc \notin {"idle", "next", "ack"}
    PROVE  EventOf(w) \in Event
<1>1. Msg(w).events \in Seq(Event)
  BY MessageTyped DEF Holding, Msg
<1>2. QED
  BY <1>1 DEF Holding, EventOf

LEMMA TurnTyped ==
    ASSUME Typed, NEW w \in Workers, Holding(w), work[w].pc # "idle",
           w = "sync" => work[w].pc \notin {"next", "ack"}
    PROVE  TurnOf(w) \in Turns /\ (w # "cmd" => InputOf(w) \in Nat)
<1>1. CASE w = "sync"
  BY <1>1, EventTyped DEF TurnOf, InputOf, Event
<1>2. CASE w # "sync"
  BY <1>2, MessageTyped DEF Holding, Msg, TurnOf, InputOf, Workers
<1>3. QED
  BY <1>1, <1>2

LEMMA SameTurn ==
    ASSUME NEW w \in Workers, work'[w].msg = work[w].msg, work'[w].pos = work[w].pos
    PROVE  /\ Msg(w)' = Msg(w) /\ EventOf(w)' = EventOf(w)
           /\ TurnOf(w)' = TurnOf(w) /\ InputOf(w)' = InputOf(w)
BY DEF Msg, EventOf, TurnOf, InputOf

LEMMA DecisionTyped ==
    ASSUME NEW d \in Decision
    PROVE  /\ d.target \subseteq Fragments /\ d.frags \in Seq(Fragments)
           /\ \A i \in 1 .. Len(d.frags) : d.frags[i] \in Fragments
BY DEF Decision

\* Whatever a step does, what was kept is kept.
LEMMA StaysKept ==
    ASSUME Typed, Typed', Onward, NEW t \in Turns, Kept(t)
    PROVE  Kept(t)'
<1>1. CASE t \in tomb
  BY <1>1 DEF Onward, Kept
<1>2. CASE t \in tomb'
  BY <1>2 DEF Kept
<1>3. CASE t \notin tomb /\ t \notin tomb'
  <2> DEFINE d(v) == stored[t][v].decision
  <2>1. PICK v \in Versions :
            /\ stored[t][v] # None /\ d(v).target = {}
            /\ \A i \in 1 .. Len(d(v).frags) :
                   fact[d(v).frags[i]] = "forgotten" \/ d(v).frags[i] \in drawers
    BY <1>3 DEF Kept
  <2>2. stored'[t][v] = stored[t][v]
    BY <1>3, <2>1 DEF Onward
  <2>3. d(v) \in Decision
    BY <2>1 DEF Typed, Row
  <2>4. \A i \in 1 .. Len(d(v).frags) :
            fact'[d(v).frags[i]] = "forgotten" \/ d(v).frags[i] \in drawers'
    <3>1. SUFFICES ASSUME NEW i \in 1 .. Len(d(v).frags)
                   PROVE  fact'[d(v).frags[i]] = "forgotten" \/ d(v).frags[i] \in drawers'
      OBVIOUS
    <3>2. d(v).frags[i] \in Fragments
      BY <2>3, DecisionTyped
    <3>3. QED
      BY <2>1, <3>2 DEF Onward
  <2>5. QED
    BY <2>1, <2>2, <2>4 DEF Kept
<1>4. QED
  BY <1>1, <1>2, <1>3

LEMMA StaysBacked ==
    ASSUME Onward, NEW t \in Turns, NEW v \in Versions, NEW d, Backed(t, v, d)
    PROVE  Backed(t, v, d)'
BY DEF Onward, Backed

LEMMA StaysSettled ==
    ASSUME Onward, NEW f \in Fragments, Settled(f)
    PROVE  Settled(f)'
BY DEF Onward, Settled

\* The tasks that do not take the step are in order as they were.
LEMMA OthersKeep ==
    ASSUME Typed, Typed', Onward, version' = version,
           NEW x \in Workers, work'[x] = work[x], TaskInv(x)
    PROVE  TaskInv(x)'
<1>1. /\ Msg(x)' = Msg(x) /\ EventOf(x)' = EventOf(x) /\ TurnOf(x)' = TurnOf(x)
  BY SameTurn
<1>2. Owed(x)' = Owed(x)
  BY DEF Owed
<1>3. Holding(x)'
  BY <1>1 DEF TaskInv, Holding
<1>4. Writing(x)'
  <2>1. SUFFICES ASSUME work[x].pc \in {"register", "ingest", "mark"}
                 PROVE  Writing(x)'
    BY DEF Writing
  <2> DEFINE d == work[x].decision
  <2>2. TurnOf(x) \in Turns /\ version \in Versions /\ d \in Decision
    BY <2>1, TurnTyped DEF TaskInv, Typed, Task
  <2>3. Backed(TurnOf(x), version, d)'
    <3> DEFINE t == TurnOf(x)
    <3>1. PICK u \in Turns, v \in Versions, e \in Decision :
              u = TurnOf(x) /\ v = version /\ e = d
      BY <2>2
    <3>2. Backed(u, v, e)
      BY <2>1, <3>1 DEF TaskInv, Writing
    <3>3. Backed(u, v, e)'
      BY <3>2, StaysBacked
    <3>4. u = TurnOf(x)' /\ v = version' /\ e = d'
      BY <1>1, <3>1
    <3>5. QED
      BY <3>3, <3>4 DEF Backed
  <2>4. \A i \in 1 .. Len(d.frags) : d.frags[i] \in Owed(x) \/ Settled(d.frags[i])'
    BY <2>1, <2>2, DecisionTyped, StaysSettled DEF TaskInv, Writing
  <2>5. d.target = {}
    BY <2>1 DEF TaskInv, Writing
  <2>6. QED
    BY <1>2, <2>3, <2>4, <2>5 DEF Writing, Settled
<1>5. Ending(x)'
  <2>1. \A f \in work[x].found : f \in Fragments
    BY DEF Typed, Task
  <2>2. work[x].pc \in {"redact", "truncate", "scrub", "drawers"} =>
            \A f \in work[x].found : fact'[f] = "forgotten"
    BY <2>1 DEF TaskInv, Ending, Onward
  <2>3. work[x].pc = "truncate_own" => TurnOf(x) \in tomb'
    BY DEF TaskInv, Ending, Onward
  <2>4. work[x].pc = "mark_synced" \/ (x = "turn" /\ work[x].pc = "ack") => Kept(TurnOf(x))'
    <3>1. SUFFICES ASSUME work[x].pc = "mark_synced" \/ (x = "turn" /\ work[x].pc = "ack")
                   PROVE  Kept(TurnOf(x))'
      OBVIOUS
    <3>2. TurnOf(x) \in Turns
      BY <3>1, TurnTyped DEF TaskInv
    <3>3. PICK t \in Turns : t = TurnOf(x)
      BY <3>2
    <3>4. Kept(t)'
      BY <3>1, <3>3, StaysKept DEF TaskInv, Ending
    <3>5. QED
      BY <1>1, <3>3, <3>4
  <2>5. QED
    BY <1>1, <2>2, <2>3, <2>4 DEF Ending
<1>6. QED
  BY <1>3, <1>4, <1>5 DEF TaskInv

\* What was used agrees still, when no task starts to write and none writes.
LEMMA StillAgreeing ==
    ASSUME Typed, Typed', Agreeing, NEW w \in Workers, Stepped(w),
           \A x \in Workers : TaskInv(x), used' = used, work'[w].pc # "register"
    PROVE  Agreeing'
<1>1. OneDecision'
  BY DEF Agreeing, OneDecision
<1>2. \A u \in used' : Backed(u[1], u[2], u[3])'
  <2>1. SUFFICES ASSUME NEW u \in used
                 PROVE  Backed(u[1], u[2], u[3])'
    OBVIOUS
  <2>2. u[1] \in Turns /\ u[2] \in Versions
    BY DEF Typed
  <2>3. PICK t \in Turns, v \in Versions : t = u[1] /\ v = u[2]
    BY <2>2
  <2>4. Backed(t, v, u[3])
    BY <2>3 DEF Agreeing
  <2>5. Backed(t, v, u[3])'
    BY <2>4, StaysBacked DEF Stepped
  <2>6. QED
    BY <2>3, <2>5
<1>3. ASSUME NEW x \in Workers, At(x, "register")'
      PROVE  /\ \A u \in used' :
                    u[1] = TurnOf(x)' /\ u[2] = version' => u[3] = work'[x].decision
             /\ \A y \in Workers :
                    At(y, "register")' /\ TurnOf(y)' = TurnOf(x)'
                        => work'[y].decision = work'[x].decision
  <2>1. \A y \in Workers : At(y, "register")' =>
            /\ y # w /\ work'[y] = work[y] /\ At(y, "register") /\ TurnOf(y)' = TurnOf(y)
    BY SameTurn DEF Stepped, At
  <2>2. QED
    BY <1>3, <2>1 DEF Agreeing, Stepped
<1>4. QED
  BY <1>1, <1>2, <1>3 DEF Agreeing

LEMMA StillAbsorbed ==
    ASSUME Typed, Typed', Onward, AbsorbedKept,
           \A m \in Msgs : Content[m].kind = "turn" /\ status'[m] = "acked" =>
               status[m] = "acked" \/ Kept(Content[m].turn)',
           \A r \in synced' : r \in synced \/ Kept(r.turn)'
    PROVE  AbsorbedKept'
<1>1. ASSUME NEW m \in Msgs, Content[m].kind = "turn", status'[m] = "acked"
      PROVE  Kept(Content[m].turn)'
  <2>1. Content[m].turn \in Turns
    BY <1>1, MessageTyped
  <2>2. PICK t \in Turns : t = Content[m].turn
    BY <2>1
  <2>3. Kept(t) => Kept(t)'
    BY StaysKept
  <2>4. QED
    BY <1>1, <2>2, <2>3 DEF AbsorbedKept
<1>2. ASSUME NEW r \in synced'
      PROVE  Kept(r.turn)'
  <2>1. CASE r \in synced
    <3>1. r.turn \in Turns
      BY <2>1 DEF Typed, Event
    <3>2. PICK t \in Turns : t = r.turn
      BY <3>1
    <3>3. Kept(t)'
      BY <2>1, <3>2, StaysKept DEF AbsorbedKept
    <3>4. QED
      BY <3>2, <3>3
  <2>2. QED
    BY <1>2, <2>1
<1>3. QED
  BY <1>1, <1>2 DEF AbsorbedKept

\* Most steps: a task goes on, and neither starts to write nor writes.
LEMMA Quietly ==
    ASSUME IntakeInv, Typed', NEW w \in Workers, Stepped(w), RedactedGone',
           used' = used, work'[w].pc # "register",
           \A m \in Msgs : Content[m].kind = "turn" /\ status'[m] = "acked" =>
               status[m] = "acked" \/ Kept(Content[m].turn)',
           \A r \in synced' : r \in synced \/ Kept(r.turn)'
    PROVE  IntakeInv'
<1>1. \A x \in Workers : TaskInv(x)'
  <2>1. SUFFICES ASSUME NEW x \in Workers, x # w
                 PROVE  TaskInv(x)'
    BY DEF Stepped
  <2>2. QED
    BY <2>1, OthersKeep DEF Stepped, IntakeInv
<1>2. Agreeing'
  BY StillAgreeing DEF IntakeInv
<1>3. AbsorbedKept'
  BY StillAbsorbed DEF IntakeInv, Stepped
<1>4. QED
  BY <1>1, <1>2, <1>3 DEF IntakeInv

\* Nothing changes in the stores.
LEMMA StoresUntouched ==
    ASSUME UNCHANGED <<stored, tomb, fact, drawers>>
    PROVE  Onward /\ (RedactedGone => RedactedGone')
BY DEF Onward, RedactedGone

\* An error gives the message back, or goes on to the next event.
LEMMA RaiseEffect ==
    ASSUME Typed, NEW w \in Workers, Holding(w), work[w].pc # "idle", Raise(w)
    PROVE  /\ work' \in [Workers -> Task] /\ TaskInv(w)'
           /\ \A x \in Workers : x # w => work'[x] = work[x]
           /\ work'[w].pc \in {"next", "idle"} /\ used' = used
           /\ status' \in [Msgs -> {"absent", "queued", "held", "acked", "dead"}]
           /\ \A m \in Msgs : status'[m] = "acked" => status[m] = "acked"
<1>1. work[w] \in Task /\ Idle \in Task
  BY DEF Typed, Idle, Task, Pcs, Nothing, Decision
<1>2. CASE w = "sync"
  <2> DEFINE r == [work[w] EXCEPT !.pc = "next"]
  <2>1. work' = [work EXCEPT ![w] = r] /\ status' = status /\ used' = used
    BY <1>2 DEF Raise, Goto, Step
  <2>2. r \in Task /\ r.pc = "next" /\ r.msg = work[w].msg /\ r.pos = work[w].pos
    BY <1>1 DEF Task, Pcs
  <2> HIDE DEF r
  <2>3. work'[w] = r /\ \A x \in Workers : x # w => work'[x] = work[x]
    BY <2>1 DEF Typed
  <2>4. Msg(w)' = Msg(w)
    BY <2>2, <2>3, SameTurn
  <2>5. TaskInv(w)'
    BY <1>2, <2>2, <2>3, <2>4 DEF TaskInv, Holding, Writing, Ending
  <2>6. work' \in [Workers -> Task]
    BY <2>1, <2>2 DEF Typed
  <2>7. QED
    BY <2>1, <2>2, <2>3, <2>5, <2>6 DEF Typed
<1>3. CASE w # "sync"
  <2>1. /\ work' = [work EXCEPT ![w] = Idle] /\ used' = used
        /\ status' = [status EXCEPT ![work[w].msg] =
                 IF deliveries[work[w].msg] >= MaxDeliveries THEN "dead" ELSE "queued"]
    BY <1>3 DEF Raise, Step, historyVars
  <2>2. work'[w].pc = "idle" /\ \A x \in Workers : x # w => work'[x] = work[x]
    BY <2>1 DEF Typed, Idle
  <2>3. TaskInv(w)'
    BY <1>3, <2>2 DEF TaskInv, Holding, Writing, Ending
  <2>4. work' \in [Workers -> Task]
    BY <1>1, <2>1 DEF Typed
  <2>5. /\ status' \in [Msgs -> {"absent", "queued", "held", "acked", "dead"}]
        /\ \A m \in Msgs : status'[m] = "acked" => status[m] = "acked"
    BY <2>1 DEF Typed
  <2>6. QED
    BY <2>1, <2>2, <2>3, <2>4, <2>5
<1>4. QED
  BY <1>2, <1>3

\* An error that leaves the ledgers as they are.
LEMMA RaiseStep ==
    ASSUME IntakeInv, NEW w \in Workers, work[w].pc # "idle", Raise(w), wal' \subseteq wal,
           UNCHANGED <<version, stored, tomb, synced, ledgerVars>>
    PROVE  IntakeInv'
<1>1. Typed /\ Holding(w)
  BY DEF IntakeInv, TaskInv
<1>2. Typed'
  BY <1>1, RaiseEffect DEF Typed, ledgerVars
<1>3. Stepped(w)
  BY <1>1, RaiseEffect, StoresUntouched DEF Stepped, ledgerVars
<1>4. RedactedGone'
  BY StoresUntouched DEF ledgerVars, IntakeInv
<1>5. \A m \in Msgs : status'[m] = "acked" => status[m] = "acked"
  BY <1>1, RaiseEffect
<1>6. used' = used /\ work'[w].pc # "register"
  BY <1>1, RaiseEffect
<1>7. QED
  BY <1>2, <1>3, <1>4, <1>5, <1>6, Quietly

LEMMA ApplyFields ==
    ASSUME Typed, NEW w \in Workers, NEW d \in Decision, Apply(w, d)
    PROVE  /\ work' \in [Workers -> Task]
           /\ \A x \in Workers : x # w => work'[x] = work[x]
           /\ work'[w].msg = work[w].msg /\ work'[w].pos = work[w].pos
           /\ work'[w].decision = d /\ work'[w].todo = d.frags /\ work'[w].batch = <<>>
           /\ work'[w].pc = IF d.target # {} THEN "resolve"
                            ELSE IF d.frags # <<>> THEN "register" ELSE Done(w)
           /\ Msg(w)' = Msg(w) /\ TurnOf(w)' = TurnOf(w)
<1> DEFINE pc == IF d.target # {} THEN "resolve"
                 ELSE IF d.frags # <<>> THEN "register" ELSE Done(w)
           r == [work[w] EXCEPT !.decision = d, !.pc = pc, !.todo = d.frags, !.batch = <<>>]
<1>1. work' = [work EXCEPT ![w] = r]
  BY DEF Apply, Step
<1>2. /\ r.msg = work[w].msg /\ r.pos = work[w].pos /\ r.decision = d
      /\ r.todo = d.frags /\ r.batch = <<>> /\ r.pc = pc /\ r \in Task
  <2>1. work[w] \in Task /\ d.frags \in Seq(Fragments) /\ pc \in Pcs
    BY DecisionTyped DEF Typed, Pcs, Done
  <2>2. <<>> \in Seq(Fragments)
    OBVIOUS
  <2> HIDE DEF pc
  <2>3. /\ r.msg = work[w].msg /\ r.pos = work[w].pos /\ r.decision = d
        /\ r.todo = d.frags /\ r.batch = <<>> /\ r.pc = pc
    BY <2>1 DEF Task
  <2>4. r \in Task
    BY <2>1, <2>2 DEF Task
  <2>5. QED
    BY <2>3, <2>4
<1> HIDE DEF r
<1>3. work'[w] = r /\ \A x \in Workers : x # w => work'[x] = work[x]
  BY <1>1 DEF Typed
<1>4. Msg(w)' = Msg(w) /\ TurnOf(w)' = TurnOf(w)
  BY <1>2, <1>3, SameTurn
<1>5. work' \in [Workers -> Task]
  BY <1>1, <1>2 DEF Typed
<1>6. QED
  BY <1>2, <1>3, <1>4, <1>5

\* A decision that is backed by the store is begun: requests to forget first,
\* then texts; with neither the turn is kept already.
LEMMA ApplyEffect ==
    ASSUME Typed, NEW w \in Workers, Holding(w), work[w].pc \in {"get", "put"},
           NEW d \in Decision, Apply(w, d), version' = version,
           Backed(TurnOf(w), version, d)'
    PROVE  /\ TaskInv(w)'
           /\ work'[w].pc = "register" => d.frags # <<>>
<1> DEFINE pc == IF d.target # {} THEN "resolve"
                 ELSE IF d.frags # <<>> THEN "register" ELSE Done(w)
<1>1. /\ work'[w].msg = work[w].msg /\ work'[w].pos = work[w].pos
      /\ work'[w].decision = d /\ work'[w].todo = d.frags /\ work'[w].batch = <<>>
      /\ work'[w].pc = pc
      /\ Msg(w)' = Msg(w) /\ TurnOf(w)' = TurnOf(w)
  BY ApplyFields
<1>2. pc \in {"resolve", "register", "mark_synced", "ack"} /\ w # "cmd"
  BY DEF Done, Holding
<1>3. Holding(w)'
  <2>1. pc = "mark_synced" => w = "sync"
    BY DEF Done
  <2>2. pc = "register" => d.frags # <<>>
    BY DEF Done
  <2>3. w = "sync" => work[w].pos \in 1 .. Len(Msg(w).events)
    BY DEF Holding
  <2>4. work[w].msg \in Msgs /\ Msg(w).kind = w
    BY DEF Holding
  <2> HIDE DEF pc
  <2>5. QED
    BY <1>1, <1>2, <2>1, <2>2, <2>3, <2>4 DEF Holding
<1>4. Writing(w)'
  <2>1. SUFFICES ASSUME pc = "register"
                 PROVE  Writing(w)'
    BY <1>1, <1>2 DEF Writing
  <2>2. d.target = {}
    BY <2>1 DEF Done
  <2>3. Owed(w)' = ToSet(d.frags) \cup ToSet(<<>>)
    BY <1>1, <2>1 DEF Owed
  <2>4. \A i \in 1 .. Len(d.frags) : d.frags[i] \in ToSet(d.frags)
    BY DecisionTyped DEF ToSet
  <2>5. Backed(TurnOf(w), version, d)'
    OBVIOUS
  <2>6. \A i \in 1 .. Len(d.frags) : d.frags[i] \in Owed(w)'
    BY <2>3, <2>4
  <2> HIDE DEF pc
  <2>7. work'[w].decision = d
    BY <1>1
  <2>8. QED
    BY <1>1, <2>2, <2>5, <2>6, <2>7 DEF Writing, Backed
<1>5. Ending(w)'
  <2>1. SUFFICES ASSUME pc \in {"mark_synced", "ack"}
                 PROVE  Kept(TurnOf(w))'
    BY <1>1, <1>2 DEF Ending
  <2>2. d.target = {} /\ d.frags = <<>>
    BY <2>1 DEF Done
  <2>3. version \in Versions
    BY DEF Typed
  <2>4. QED
    BY <1>1, <2>2, <2>3 DEF Kept, Backed
<1>6. work'[w].pc = "register" => d.frags # <<>>
  BY <1>1 DEF Done
<1>7. QED
  BY <1>3, <1>4, <1>5, <1>6 DEF TaskInv

----------------------------------------------------------------------------
(* The actions.                                                             *)

LEMMA IdleTyped == Idle \in Task /\ Idle.pc = "idle"
<1>1. <<>> \in Seq(Fragments) /\ Nothing \in Decision
  BY DEF Nothing, Decision
<1>2. QED
  BY <1>1 DEF Idle, Task, Pcs

LEMMA StepEffect ==
    ASSUME Typed, NEW w \in Workers, NEW r \in Task, Step(w, r)
    PROVE  /\ work' \in [Workers -> Task] /\ work'[w] = r
           /\ \A x \in Workers : x # w => work'[x] = work[x]
BY DEF Typed, Step

LEMMA GotoEffect ==
    ASSUME Typed, NEW w \in Workers, NEW pc \in Pcs, Goto(w, pc)
    PROVE  /\ work' \in [Workers -> Task]
           /\ \A x \in Workers : x # w => work'[x] = work[x]
           /\ work'[w].pc = pc /\ work'[w].msg = work[w].msg /\ work'[w].pos = work[w].pos
           /\ work'[w].decision = work[w].decision /\ work'[w].found = work[w].found
           /\ work'[w].todo = work[w].todo /\ work'[w].batch = work[w].batch
           /\ Msg(w)' = Msg(w) /\ EventOf(w)' = EventOf(w) /\ TurnOf(w)' = TurnOf(w)
<1> DEFINE r == [work[w] EXCEPT !.pc = pc]
<1>1. /\ r \in Task /\ r.pc = pc /\ r.msg = work[w].msg /\ r.pos = work[w].pos
      /\ r.decision = work[w].decision /\ r.found = work[w].found
      /\ r.todo = work[w].todo /\ r.batch = work[w].batch
  BY DEF Typed, Task
<1>2. Step(w, r)
  BY DEF Goto
<1> HIDE DEF r
<1>3. /\ work' \in [Workers -> Task] /\ work'[w] = r
      /\ \A x \in Workers : x # w => work'[x] = work[x]
  BY <1>1, <1>2, StepEffect
<1>4. QED
  BY <1>1, <1>3, SameTurn

LEMMA TakeKeeps ==
    ASSUME IntakeInv, NEW w \in Workers, NEW m \in Msgs, Take(w, m)
    PROVE  IntakeInv'
<1> DEFINE pc == CASE w = "turn" -> "get"
                   [] w = "cmd" -> "resolve"
                   [] OTHER -> IF Content[m].valid THEN "next" ELSE "ack"
           r == [Idle EXCEPT !.msg = m, !.pc = pc]
<1>1. Typed /\ Step(w, r) /\ Content[m].kind = w
  BY DEF Take, IntakeInv
<1>2. /\ pc \in {"get", "resolve", "next", "ack"}
      /\ pc = "next" => w = "sync"
      /\ pc = "get" => w = "turn"
      /\ pc = "resolve" => w = "cmd"
      /\ pc = "ack" => w = "sync"
  BY DEF Workers
<1> HIDE DEF pc
<1>3. r \in Task /\ r.pc = pc /\ r.msg = m
  <2>1. Idle \in Task
    BY IdleTyped
  <2>2. pc \in Pcs
    BY <1>2 DEF Pcs
  <2>3. QED
    BY <2>1, <2>2 DEF Task
<1> HIDE DEF r
<1>4. /\ work' \in [Workers -> Task] /\ work'[w] = r
      /\ \A x \in Workers : x # w => work'[x] = work[x]
  BY <1>1, <1>3, StepEffect
<1>5. UNCHANGED <<version, storeVars, synced, ledgerVars, used>>
  BY DEF Take, historyVars
<1>6. /\ status' \in [Msgs -> {"absent", "queued", "held", "acked", "dead"}]
      /\ \A x \in Msgs : status'[x] = "acked" => status[x] = "acked"
  BY <1>1 DEF Take, Typed
<1>7. Typed'
  BY <1>1, <1>4, <1>5, <1>6 DEF Typed, storeVars, ledgerVars
<1>8. TaskInv(w)'
  <2>1. Msg(w)' = Content[m]
    BY <1>3, <1>4 DEF Msg
  <2>2. Holding(w)'
    BY <1>1, <1>2, <1>3, <1>4, <2>1 DEF Holding
  <2>3. Writing(w)' /\ Ending(w)'
    BY <1>2, <1>3, <1>4 DEF Writing, Ending
  <2>4. QED
    BY <2>2, <2>3 DEF TaskInv
<1>9. Stepped(w)
  BY <1>4, <1>5, <1>8, StoresUntouched DEF Stepped, storeVars, ledgerVars
<1>10. RedactedGone'
  BY <1>5, StoresUntouched DEF storeVars, ledgerVars, IntakeInv
<1>11. QED
  BY <1>2, <1>3, <1>4, <1>5, <1>6, <1>7, <1>9, <1>10, Quietly

LEMMA AckKeeps ==
    ASSUME IntakeInv, NEW w \in Workers, Ack(w)
    PROVE  IntakeInv'
<1>1. Typed /\ Step(w, Idle) /\ work[w].pc = "ack" /\ TaskInv(w)
  BY DEF Ack, At, IntakeInv
<1>2. Idle \in Task /\ Idle.pc = "idle"
  BY IdleTyped
<1>3. /\ work' \in [Workers -> Task] /\ work'[w] = Idle
      /\ \A x \in Workers : x # w => work'[x] = work[x]
  BY <1>1, <1>2, StepEffect
<1>4. UNCHANGED <<version, storeVars, synced, ledgerVars, used>>
  BY DEF Ack, historyVars
<1>5. /\ status' \in [Msgs -> {"absent", "queued", "held", "acked", "dead"}]
      /\ \A x \in Msgs : status'[x] = "acked" => status[x] = "acked" \/ x = work[w].msg
  BY <1>1 DEF Ack, Typed
<1>6. Typed'
  BY <1>1, <1>3, <1>4, <1>5 DEF Typed, storeVars, ledgerVars
<1>7. TaskInv(w)'
  BY <1>2, <1>3 DEF TaskInv, Holding, Writing, Ending
<1>8. Stepped(w)
  BY <1>3, <1>4, <1>7, StoresUntouched DEF Stepped, storeVars, ledgerVars
<1>9. RedactedGone'
  BY <1>4, StoresUntouched DEF storeVars, ledgerVars, IntakeInv
<1>10. ASSUME NEW m \in Msgs, Content[m].kind = "turn", status'[m] = "acked"
       PROVE  status[m] = "acked" \/ Kept(Content[m].turn)'
  <2>1. SUFFICES ASSUME m = work[w].msg
                 PROVE  Kept(Content[m].turn)'
    BY <1>5, <1>10
  <2>2. w = "turn" /\ TurnOf(w) = Content[m].turn
    BY <1>1, <1>10, <2>1 DEF TaskInv, Holding, Msg, TurnOf
  <2>3. Kept(Content[m].turn)
    BY <1>1, <2>2 DEF TaskInv, Ending
  <2>4. PICK t \in Turns : t = Content[m].turn
    BY <1>10, MessageTyped
  <2>5. Kept(t)'
    BY <1>1, <1>6, <1>8, <2>3, <2>4, StaysKept DEF Stepped
  <2>6. QED
    BY <2>4, <2>5
<1>11. QED
  BY <1>2, <1>3, <1>4, <1>6, <1>8, <1>9, <1>10, Quietly

\* A task that begins to write agrees with all others at its turn: they hold
\* what the store holds, and so does it.
LEMMA ApplyStep ==
    ASSUME IntakeInv, NEW w \in Workers, work[w].pc \in {"get", "put"},
           NEW d \in Decision, Apply(w, d), Typed', Onward, RedactedGone',
           Backed(TurnOf(w), version, d)', d.frags # <<>> => TurnOf(w) \notin tomb',
           UNCHANGED <<version, synced, status, used>>
    PROVE  IntakeInv'
<1>1. Typed /\ TaskInv(w) /\ Holding(w) /\ Agreeing
  BY DEF IntakeInv, TaskInv
<1>2. /\ work' \in [Workers -> Task] /\ TaskInv(w)'
      /\ \A x \in Workers : x # w => work'[x] = work[x]
      /\ work'[w].decision = d /\ TurnOf(w)' = TurnOf(w)
      /\ work'[w].pc = "register" => d.frags # <<>>
  <2>1. version' = version
    OBVIOUS
  <2>2. /\ TaskInv(w)'
        /\ work'[w].pc = "register" => d.frags # <<>>
    BY <1>1, <2>1, ApplyEffect
  <2>3. /\ work' \in [Workers -> Task]
        /\ \A x \in Workers : x # w => work'[x] = work[x]
        /\ work'[w].decision = d /\ TurnOf(w)' = TurnOf(w)
    BY <1>1, ApplyFields
  <2>4. QED
    BY <2>2, <2>3
<1>3. Stepped(w)
  BY <1>2 DEF Stepped
<1>4. CASE work'[w].pc # "register"
  BY <1>3, <1>4, Quietly
<1>5. CASE work'[w].pc = "register"
  <2>1. PICK t \in Turns, v \in Versions : t = TurnOf(w) /\ v = version
    BY <1>1, TurnTyped DEF Typed
  <2>2. t \notin tomb' /\ t \notin tomb /\ stored'[t][v].decision = d
    BY <1>2, <1>5, <2>1 DEF Backed, Onward
  <2>3. \A x \in Workers : TaskInv(x)'
    <3>1. SUFFICES ASSUME NEW x \in Workers, x # w
                   PROVE  TaskInv(x)'
      BY <1>2
    <3>2. QED
      BY <1>1, <1>2, <3>1, OthersKeep DEF IntakeInv
  <2>4. ASSUME NEW u \in used
        PROVE  Backed(u[1], u[2], u[3])'
    <3>1. PICK s \in Turns, n \in Versions : s = u[1] /\ n = u[2]
      BY <1>1 DEF Typed
    <3>2. Backed(s, n, u[3])
      BY <1>1, <3>1 DEF Agreeing
    <3>3. Backed(s, n, u[3])'
      BY <3>2, StaysBacked
    <3>4. QED
      BY <3>1, <3>3
  <2>5. ASSUME NEW u \in used, u[1] = t, u[2] = v
        PROVE  u[3] = d
    BY <2>2, <2>4, <2>5 DEF Backed
  <2>6. ASSUME NEW x \in Workers, At(x, "register")', TurnOf(x)' = t
        PROVE  work'[x].decision = d
    <3>1. Writing(x)'
      BY <2>3 DEF TaskInv
    <3>2. \/ t \in tomb'
          \/ stored'[t][version'] # None /\ stored'[t][version'].decision = work'[x].decision
      BY <2>6, <3>1 DEF Writing, At, Backed
    <3>3. QED
      BY <2>1, <2>2, <2>6, <3>2 DEF Backed
  <2>7. Agreeing'
    <3>1. OneDecision'
      BY <1>1 DEF Agreeing, OneDecision
    <3>2. ASSUME NEW x \in Workers, At(x, "register")'
          PROVE  /\ \A u \in used' :
                        u[1] = TurnOf(x)' /\ u[2] = version' => u[3] = work'[x].decision
                 /\ \A y \in Workers :
                        At(y, "register")' /\ TurnOf(y)' = TurnOf(x)'
                            => work'[y].decision = work'[x].decision
      <4>1. CASE TurnOf(x)' = t
        BY <2>1, <2>5, <2>6, <3>2, <4>1
      <4>2. CASE TurnOf(x)' # t
        <5>1. \A y \in Workers : At(y, "register")' /\ TurnOf(y)' # t =>
                  /\ y # w /\ work'[y] = work[y] /\ At(y, "register")
                  /\ TurnOf(y)' = TurnOf(y)
          BY <1>2, <2>1, SameTurn DEF At
        <5>2. x # w /\ work'[x] = work[x] /\ At(x, "register") /\ TurnOf(x)' = TurnOf(x)
          BY <3>2, <4>2, <5>1
        <5>3. QED
          BY <1>1, <4>2, <5>1, <5>2 DEF Agreeing
      <4>3. QED
        BY <4>1, <4>2
    <3>3. QED
      BY <2>4, <3>1, <3>2 DEF Agreeing
  <2>8. AbsorbedKept'
    BY <1>1, StillAbsorbed DEF IntakeInv
  <2>9. QED
    BY <2>3, <2>7, <2>8 DEF IntakeInv
<1>6. QED
  BY <1>4, <1>5

LEMMA GetDecisionKeeps ==
    ASSUME IntakeInv, NEW w \in Workers, GetDecision(w)
    PROVE  IntakeInv'
<1> DEFINE t == TurnOf(w)
           row == stored[t][version]
<1>1. Typed /\ Holding(w) /\ work[w].pc = "get" /\ RedactedGone
  BY DEF GetDecision, At, IntakeInv, TaskInv
<1>2. t \in Turns /\ version \in Versions /\ row \in Row \cup {None}
  <2>1. t \in Turns
    BY <1>1, TurnTyped DEF Holding
  <2>2. QED
    BY <1>1, <2>1 DEF Typed
<1>3. UNCHANGED <<version, storeVars, synced, ledgerVars>>
  BY DEF GetDecision
<1>4. Onward /\ RedactedGone'
  BY <1>1, <1>3, StoresUntouched DEF storeVars, ledgerVars
<1>5. CASE Raise(w)
  BY <1>1, <1>3, <1>5, RaiseStep DEF storeVars, ledgerVars
<1>6. ASSUME NEW d \in Decision, Apply(w, d), UNCHANGED <<status, historyVars>>,
             Backed(t, version, d), d.frags # <<>> => t \notin tomb
      PROVE  IntakeInv'
  <2>1. work' \in [Workers -> Task]
    BY <1>1, <1>6, ApplyFields
  <2>2. Typed'
    BY <1>1, <1>3, <1>6, <2>1 DEF Typed, storeVars, ledgerVars, historyVars
  <2>3. Backed(t, version, d)'
    <3>1. PICK s \in Turns, n \in Versions : s = t /\ n = version
      BY <1>2
    <3>2. Backed(s, n, d)'
      BY <1>4, <1>6, <3>1, StaysBacked
    <3>3. Msg(w)' = Msg(w) /\ TurnOf(w)' = TurnOf(w)
      BY <1>1, <1>6, ApplyFields
    <3>4. QED
      BY <1>3, <3>1, <3>2, <3>3
  <2>4. QED
    BY <1>1, <1>3, <1>4, <1>6, <2>2, <2>3, ApplyStep DEF storeVars, historyVars
<1>7. CASE t \in tomb
  <2>1. Nothing \in Decision /\ Nothing.frags = <<>>
    BY DEF Nothing, Decision
  <2>2. Apply(w, Nothing) /\ UNCHANGED <<status, historyVars>>
    BY <1>7 DEF GetDecision
  <2>3. QED
    BY <1>6, <1>7, <2>1, <2>2 DEF Backed
<1>8. CASE t \notin tomb /\ row = None
  <2>1. Goto(w, "decide") /\ UNCHANGED <<status, historyVars>>
    BY <1>8 DEF GetDecision
  <2>2. /\ work' \in [Workers -> Task]
        /\ \A x \in Workers : x # w => work'[x] = work[x]
        /\ work'[w].pc = "decide" /\ work'[w].msg = work[w].msg
        /\ work'[w].pos = work[w].pos /\ Msg(w)' = Msg(w)
    BY <1>1, <2>1, GotoEffect DEF Pcs
  <2>3. Typed'
    BY <1>1, <1>3, <2>1, <2>2 DEF Typed, storeVars, ledgerVars, historyVars
  <2>4. TaskInv(w)'
    BY <1>1, <2>2 DEF TaskInv, Holding, Writing, Ending
  <2>5. Stepped(w)
    BY <1>3, <1>4, <2>2, <2>4 DEF Stepped
  <2>6. QED
    BY <1>3, <1>4, <2>1, <2>2, <2>3, <2>5, Quietly DEF historyVars
<1>9. CASE t \notin tomb /\ row # None
  <2>1. CASE row.input # InputOf(w)
    BY <1>5, <1>9, <2>1 DEF GetDecision
  <2>2. CASE row.input = InputOf(w)
    <3>1. Apply(w, row.decision) /\ UNCHANGED <<status, historyVars>>
      BY <1>9, <2>2 DEF GetDecision
    <3>2. row.decision \in Decision
      BY <1>2, <1>9 DEF Row
    <3>3. QED
      BY <1>6, <1>9, <3>1, <3>2 DEF Backed
  <2>3. QED
    BY <2>1, <2>2
<1>10. QED
  BY <1>7, <1>8, <1>9

LEMMA StewardDecidesKeeps ==
    ASSUME IntakeInv, NEW w \in Workers, StewardDecides(w)
    PROVE  IntakeInv'
<1>1. Typed /\ Holding(w) /\ work[w].pc = "decide" /\ RedactedGone
  BY DEF StewardDecides, At, IntakeInv, TaskInv
<1>2. TurnOf(w) \in Turns
  BY <1>1, TurnTyped DEF Holding
<1>3. PICK d \in Says[TurnOf(w)] : Step(w, [work[w] EXCEPT !.pc = "put", !.decision = d])
  BY DEF StewardDecides
<1>4. d \in Decision
  BY <1>2, IntakeConstants
<1> DEFINE r == [work[w] EXCEPT !.pc = "put", !.decision = d]
<1>5. /\ r \in Task /\ r.pc = "put" /\ r.msg = work[w].msg /\ r.pos = work[w].pos
      /\ r.decision = d
  <2>1. "put" \in Pcs
    BY DEF Pcs
  <2>2. QED
    BY <1>1, <1>4, <2>1 DEF Typed, Task
<1>6. Step(w, r)
  BY <1>3
<1> HIDE DEF r
<1>7. /\ work' \in [Workers -> Task] /\ work'[w] = r
      /\ \A x \in Workers : x # w => work'[x] = work[x]
  BY <1>1, <1>5, <1>6, StepEffect
<1>8. UNCHANGED <<version, storeVars, synced, ledgerVars, status, used>>
  BY DEF StewardDecides, queueVars, historyVars
<1>9. Typed'
  BY <1>1, <1>7, <1>8 DEF Typed, storeVars, ledgerVars
<1>10. Msg(w)' = Msg(w) /\ TurnOf(w)' = TurnOf(w)
  BY <1>5, <1>7, SameTurn
<1>11. TaskInv(w)'
  BY <1>1, <1>3, <1>5, <1>7, <1>10 DEF TaskInv, Holding, Writing, Ending
<1>12. Stepped(w) /\ RedactedGone'
  BY <1>1, <1>7, <1>8, <1>11, StoresUntouched DEF Stepped, storeVars, ledgerVars
<1>13. QED
  BY <1>5, <1>7, <1>8, <1>9, <1>12, Quietly

LEMMA PutDecisionKeeps ==
    ASSUME IntakeInv, NEW w \in Workers, PutDecision(w)
    PROVE  IntakeInv'
<1> DEFINE t == TurnOf(w)
           r == Record(w)
           row == stored[t][version]
           put == PutIfAbsent(t, r)
<1>1. Typed /\ Holding(w) /\ work[w].pc = "put" /\ RedactedGone
  BY DEF PutDecision, At, IntakeInv, TaskInv
<1>2. /\ t \in Turns /\ version \in Versions /\ row \in Row \cup {None}
      /\ r \in Row /\ r # None /\ r.decision \in Says[t]
  <2>1. t \in Turns /\ InputOf(w) \in Nat
    BY <1>1, TurnTyped DEF Holding
  <2>2. r \in Row /\ r.decision \in Says[t]
    BY <1>1, <2>1 DEF Record, Row, Typed, Task, Holding
  <2>3. QED
    BY <1>1, <2>1, <2>2, IntakeConstants DEF Typed, Row
<1>3. /\ UNCHANGED <<version, tomb, synced, ledgerVars>> /\ stored' = put.store
      /\ wal' = IF put.store = stored THEN wal ELSE wal \cup {t}
      /\ IF put.conflict THEN Raise(w)
         ELSE Apply(w, put.result.decision) /\ UNCHANGED <<status, historyVars>>
  BY DEF PutDecision
<1>4. /\ put.store = IF t \in tomb \/ row # None THEN stored
                     ELSE [stored EXCEPT ![t][version] = r]
      /\ put.result = IF t \in tomb THEN [input |-> r.input, decision |-> Nothing]
                      ELSE IF row = None THEN r ELSE row
      /\ put.conflict <=> t \notin tomb /\ row # None /\ row.input # r.input
  BY DEF PutIfAbsent
<1> HIDE DEF put, r
<1>5. CASE put.conflict
  <2>1. stored' = stored /\ wal' = wal /\ Raise(w)
    BY <1>3, <1>4, <1>5
  <2>2. QED
    BY <1>1, <1>3, <2>1, RaiseStep
<1>6. CASE ~put.conflict
  <2>1. put.result.decision \in Decision
    <3>1. Nothing \in Decision
      BY DEF Nothing, Decision
    <3>2. QED
      BY <1>2, <1>4, <3>1 DEF Row
  <2>2. PICK d \in Decision : d = put.result.decision
    BY <2>1
  <2>3. /\ Apply(w, d)
        /\ d.frags # <<>> => t \notin tomb'
        /\ UNCHANGED <<version, tomb, synced, status, used>>
    <3>1. Apply(w, d) /\ UNCHANGED <<version, tomb, synced, status, used>>
      BY <1>3, <1>6, <2>2 DEF historyVars
    <3>2. t \in tomb => d.frags = <<>>
      BY <1>4, <2>2 DEF Nothing
    <3>3. QED
      BY <3>1, <3>2
  <2>4. /\ stored' \in [Turns -> [Versions -> Row \cup {None}]]
        /\ \A s \in Turns, v \in Versions :
               stored'[s][v] # stored[s][v] =>
                   /\ s = t /\ v = version /\ stored[s][v] = None
                   /\ stored'[s][v] = r /\ t \notin tomb
    BY <1>1, <1>2, <1>3, <1>4 DEF Typed
  <2>5. /\ \A s \in Turns, v \in Versions :
               stored'[s][v] # None => stored'[s][v].decision \in Says[s]
    <3>1. SUFFICES ASSUME NEW s \in Turns, NEW v \in Versions, stored'[s][v] # None
                   PROVE  stored'[s][v].decision \in Says[s]
      OBVIOUS
    <3>2. CASE stored'[s][v] = stored[s][v]
      BY <1>1, <3>1, <3>2 DEF Typed
    <3>3. CASE stored'[s][v] # stored[s][v]
      BY <1>2, <2>4, <3>3
    <3>4. QED
      BY <3>2, <3>3
  <2>6. wal' \subseteq Turns
    BY <1>1, <1>2, <1>3 DEF Typed
  <2>7. /\ work' \in [Workers -> Task] /\ TurnOf(w)' = TurnOf(w)
    BY <1>1, <2>3, ApplyFields
  <2>8. Typed'
    BY <1>1, <1>3, <2>3, <2>4, <2>5, <2>6, <2>7 DEF Typed, ledgerVars
  <2>9. Onward
    BY <1>3, <2>4 DEF Onward, ledgerVars
  <2>10. RedactedGone'
    BY <1>1, <1>3, <2>4 DEF RedactedGone, Typed
  <2>11. Backed(TurnOf(w), version, d)'
    <3>1. t \in tomb \/ (stored'[t][version] # None /\ stored'[t][version].decision = d)
      BY <1>1, <1>2, <1>3, <1>4, <1>6, <2>2 DEF Typed
    <3>2. QED
      BY <1>3, <2>7, <3>1 DEF Backed
  <2>12. QED
    BY <1>1, <2>3, <2>8, <2>9, <2>10, <2>11, ApplyStep
<1>7. QED
  BY <1>5, <1>6

LEMMA HeadTail ==
    ASSUME NEW S, NEW s \in Seq(S), s # <<>>
    PROVE  /\ Head(s) \in S /\ Tail(s) \in Seq(S) /\ ToSet(s) = {Head(s)} \cup ToSet(Tail(s))
           /\ Len(s) # 1 => Tail(s) # <<>>
<1>1. /\ Head(s) = s[1] /\ Head(s) \in S /\ Tail(s) \in Seq(S)
      /\ Len(s) \in Nat \ {0} /\ Len(Tail(s)) = Len(s) - 1
      /\ \A i \in 1 .. Len(s) - 1 : Tail(s)[i] = s[i + 1]
  OBVIOUS
<1>2. ASSUME NEW x \in ToSet(s)
      PROVE  x \in {Head(s)} \cup ToSet(Tail(s))
  <2>1. PICK i \in 1 .. Len(s) : x = s[i]
    BY DEF ToSet
  <2>2. CASE i = 1
    BY <1>1, <2>1, <2>2
  <2>3. CASE i # 1
    <3>1. i - 1 \in 1 .. Len(s) - 1 /\ Tail(s)[i - 1] = s[i]
      BY <1>1, <2>1, <2>3
    <3>2. i - 1 \in DOMAIN Tail(s)
      BY <1>1, <3>1
    <3>3. QED
      BY <2>1, <3>1, <3>2 DEF ToSet
  <2>4. QED
    BY <2>2, <2>3
<1>3. ASSUME NEW x \in ToSet(Tail(s))
      PROVE  x \in ToSet(s)
  <2>1. PICK i \in 1 .. Len(s) - 1 : x = Tail(s)[i]
    BY <1>1 DEF ToSet
  <2>2. i + 1 \in 1 .. Len(s) /\ x = s[i + 1]
    BY <1>1, <2>1
  <2>3. QED
    BY <2>2 DEF ToSet
<1>4. Head(s) \in ToSet(s)
  BY <1>1 DEF ToSet
<1>5. ASSUME Len(s) # 1
      PROVE  Tail(s) # <<>>
  <2>1. Len(Tail(s)) # 0
    BY <1>1, <1>5
  <2>2. PICK q \in Seq(S) : q = Tail(s)
    BY <1>1
  <2>3. Len(q) # 0
    BY <2>1, <2>2
  <2>4. QED
    BY <2>2, <2>3
<1>6. QED
  BY <1>1, <1>2, <1>3, <1>4, <1>5

LEMMA AppendToSet ==
    ASSUME NEW S, NEW s \in Seq(S), NEW e \in S
    PROVE  Append(s, e) \in Seq(S) /\ ToSet(Append(s, e)) = ToSet(s) \cup {e}
<1> DEFINE a == Append(s, e)
<1>1. /\ a \in Seq(S) /\ Len(s) \in Nat /\ Len(a) = Len(s) + 1 /\ a[Len(s) + 1] = e
      /\ \A i \in 1 .. Len(s) : a[i] = s[i]
  OBVIOUS
<1> HIDE DEF a
<1>2. ASSUME NEW x \in ToSet(a)
      PROVE  x \in ToSet(s) \cup {e}
  <2>1. PICK i \in 1 .. Len(a) : x = a[i]
    BY <1>1 DEF ToSet
  <2>2. QED
    BY <1>1, <2>1 DEF ToSet
<1>3. ASSUME NEW x \in ToSet(s)
      PROVE  x \in ToSet(a)
  <2>1. PICK i \in 1 .. Len(s) : x = s[i]
    BY DEF ToSet
  <2>2. i \in 1 .. Len(a) /\ x = a[i]
    BY <1>1, <2>1
  <2>3. QED
    BY <1>1, <2>2 DEF ToSet
<1>4. e \in ToSet(a)
  <2>1. Len(s) + 1 \in 1 .. Len(a)
    BY <1>1
  <2>2. QED
    BY <1>1, <2>1 DEF ToSet
<1>5. QED
  BY <1>1, <1>2, <1>3, <1>4 DEF a

LEMMA ToSetTyped ==
    ASSUME NEW S, NEW s \in Seq(S)
    PROVE  ToSet(s) \subseteq S /\ ToSet(<<>>) = {}
BY DEF ToSet

\* With every text of a stored decision settled, the turn is kept.
LEMMA AllSettledKept ==
    ASSUME Typed', NEW t \in Turns, NEW d \in Decision, Backed(t, version, d)', d.target = {},
           \A i \in 1 .. Len(d.frags) : Settled(d.frags[i])'
    PROVE  Kept(t)'
BY DEF Typed, Backed, Kept, Settled

LEMMA RegisterFragmentKeeps ==
    ASSUME IntakeInv, NEW w \in Workers, RegisterFragment(w)
    PROVE  IntakeInv'
<1> DEFINE f == Head(work[w].todo)
           rest == Tail(work[w].todo)
           owed == fact[f] = "none" \/ f \in pending \/ f \notin drawers
           batch == IF owed THEN Append(work[w].batch, f) ELSE work[w].batch
           pc == IF rest = <<>> THEN "ingest" ELSE "register"
           r == [work[w] EXCEPT !.todo = rest, !.batch = batch, !.pc = pc]
           d == work[w].decision
<1>1. /\ Typed /\ Holding(w) /\ Writing(w) /\ Agreeing /\ RedactedGone
      /\ work[w].pc = "register"
  BY DEF RegisterFragment, At, IntakeInv, TaskInv
<1>2. /\ f \in Fragments /\ rest \in Seq(Fragments) /\ work[w].batch \in Seq(Fragments)
      /\ ToSet(work[w].todo) = {f} \cup ToSet(rest)
  BY <1>1, HeadTail DEF Typed, Task, Holding
<1>3. /\ TurnOf(w) \in Turns /\ version \in Versions /\ d \in Decision
      /\ work[w] \in Task
  BY <1>1, TurnTyped DEF Holding, Typed, Task
<1>4. UNCHANGED <<version, storeVars, synced>>
  BY DEF RegisterFragment
<1>5. CASE fact[f] = "forgotten"
  <2>1. Raise(w) /\ UNCHANGED ledgerVars
    BY <1>5 DEF RegisterFragment
  <2>2. QED
    BY <1>1, <1>4, <2>1, RaiseStep DEF storeVars
<1>6. CASE fact[f] # "forgotten"
  <2>1. /\ fact' = [fact EXCEPT ![f] = "active"]
        /\ evidence' = evidence \cup {<<TurnOf(w), f>>}
        /\ pending' = IF owed THEN pending \cup {f} ELSE pending
        /\ Step(w, r) /\ used' = used \cup {<<TurnOf(w), version, d>>}
        /\ UNCHANGED <<drawers, archived, status>>
    BY <1>6 DEF RegisterFragment
  <2>2. /\ batch \in Seq(Fragments)
        /\ ToSet(work[w].batch) \subseteq ToSet(batch)
        /\ owed => f \in ToSet(batch)
    BY <1>2, AppendToSet
  <2> HIDE DEF batch
  <2>3. /\ r \in Task /\ r.pc = pc /\ r.msg = work[w].msg /\ r.pos = work[w].pos
        /\ r.todo = rest /\ r.batch = batch /\ r.decision = d
    BY <1>2, <1>3, <2>2 DEF Task, Pcs
  <2> HIDE DEF r
  <2>4. /\ work' \in [Workers -> Task] /\ work'[w] = r
        /\ \A x \in Workers : x # w => work'[x] = work[x]
    BY <1>1, <2>1, <2>3, StepEffect
  <2>5. Msg(w)' = Msg(w) /\ TurnOf(w)' = TurnOf(w)
    BY <2>3, <2>4, SameTurn
  <2>6. Typed'
    <3>1. /\ fact' \in [Fragments -> {"none", "active", "forgotten"}]
          /\ evidence' \subseteq Turns \X Fragments /\ pending' \subseteq Fragments
          /\ used' \subseteq Turns \X Versions \X Decision
      BY <1>1, <1>2, <1>3, <2>1 DEF Typed
    <3>2. QED
      BY <1>1, <1>4, <2>1, <2>4, <3>1 DEF Typed, storeVars
  <2>7. Onward /\ RedactedGone'
    BY <1>1, <1>2, <1>4, <1>6, <2>1 DEF Onward, RedactedGone, Typed, storeVars
  <2>8. \A i \in 1 .. Len(d.frags) :
            d.frags[i] \in ToSet(rest) \cup ToSet(batch) \/ Settled(d.frags[i])'
    <3>1. SUFFICES ASSUME NEW i \in 1 .. Len(d.frags)
                   PROVE  d.frags[i] \in ToSet(rest) \cup ToSet(batch) \/ Settled(d.frags[i])'
      OBVIOUS
    <3>2. PICK g \in Fragments : g = d.frags[i]
      BY <1>3, DecisionTyped
    <3>3. \/ g = f \/ g \in ToSet(rest) \cup ToSet(work[w].batch)
          \/ Settled(g)
      BY <1>1, <1>2, <3>2 DEF Writing, Owed
    <3>4. Settled(g) => Settled(g)'
      BY <2>7, StaysSettled
    <3>5. g = f /\ ~owed => Settled(g)'
      BY <2>1 DEF Settled
    <3>6. QED
      <4>1. g = d'.frags[i]
        BY <2>3, <2>4, <3>2
      <4>2. g \in ToSet(rest) \cup ToSet(batch) \/ Settled(g)'
        BY <2>2, <3>3, <3>4, <3>5
      <4>3. QED
        BY <3>2, <4>1, <4>2 DEF Settled
  <2>9. TaskInv(w)'
    <3>1. Holding(w)'
      BY <1>1, <2>3, <2>4, <2>5 DEF Holding
    <3>2. Backed(TurnOf(w), version, d)' /\ d' = d /\ d.target = {}
      BY <1>1, <1>4, <2>3, <2>4, <2>5 DEF Writing, Backed, storeVars
    <3>3. Owed(w)' = ToSet(rest) \cup ToSet(batch)
      <4>1. rest = <<>> => ToSet(rest) = {}
        BY DEF ToSet
      <4>2. /\ work'[w].pc = pc /\ work'[w].todo = rest /\ work'[w].batch = batch
        BY <2>3, <2>4
      <4> HIDE DEF rest
      <4>3. CASE rest = <<>>
        BY <4>1, <4>2, <4>3 DEF Owed
      <4>4. CASE rest # <<>>
        BY <4>2, <4>4 DEF Owed
      <4>5. QED
        BY <4>3, <4>4
    <3>4. Writing(w)'
      BY <2>3, <2>4, <2>8, <3>2, <3>3 DEF Writing
    <3>5. Ending(w)'
      BY <2>3, <2>4 DEF Ending
    <3>6. QED
      BY <3>1, <3>4, <3>5 DEF TaskInv
  <2>10. \A x \in Workers : TaskInv(x)'
    <3>1. SUFFICES ASSUME NEW x \in Workers, x # w
                   PROVE  TaskInv(x)'
      BY <2>9
    <3>2. QED
      BY <1>1, <1>4, <2>4, <2>6, <2>7, <3>1, OthersKeep DEF IntakeInv
  <2>11. Agreeing'
    <3>1. ASSUME NEW u \in used, u[1] = TurnOf(w), u[2] = version
          PROVE  u[3] = d
      BY <1>1, <3>1 DEF Agreeing, At
    <3>2. OneDecision'
      <4>1. SUFFICES ASSUME NEW u \in used', NEW v \in used', u[1] = v[1], u[2] = v[2]
                     PROVE  u[3] = v[3]
        BY DEF OneDecision
      <4>2. \A y \in used' : y \in used \/ y = <<TurnOf(w), version, d>>
        BY <2>1
      <4>3. CASE u \in used /\ v \in used
        BY <1>1, <4>1, <4>3 DEF Agreeing, OneDecision
      <4>4. CASE u = <<TurnOf(w), version, d>>
        BY <3>1, <4>1, <4>2, <4>4
      <4>5. CASE v = <<TurnOf(w), version, d>>
        BY <3>1, <4>1, <4>2, <4>5
      <4>6. QED
        BY <4>2, <4>3, <4>4, <4>5
    <3>3. ASSUME NEW u \in used'
          PROVE  Backed(u[1], u[2], u[3])'
      <4>1. CASE u \in used
        <5>1. PICK t \in Turns, v \in Versions : t = u[1] /\ v = u[2]
          BY <1>1, <4>1 DEF Typed
        <5>2. Backed(t, v, u[3])
          BY <1>1, <4>1, <5>1 DEF Agreeing
        <5>3. Backed(t, v, u[3])'
          BY <2>7, <5>2, StaysBacked
        <5>4. QED
          BY <5>1, <5>3
      <4>2. CASE u = <<TurnOf(w), version, d>>
        BY <1>1, <1>4, <4>2 DEF Writing, Backed, storeVars
      <4>3. QED
        BY <2>1, <4>1, <4>2
    <3>4. \A y \in Workers : At(y, "register")' =>
              /\ At(y, "register") /\ TurnOf(y)' = TurnOf(y)
              /\ work'[y].decision = work[y].decision
      <4>1. SUFFICES ASSUME NEW y \in Workers, At(y, "register")'
                     PROVE  /\ At(y, "register") /\ TurnOf(y)' = TurnOf(y)
                            /\ work'[y].decision = work[y].decision
        OBVIOUS
      <4>2. CASE y = w
        BY <1>1, <2>3, <2>4, <2>5, <4>2 DEF At
      <4>3. CASE y # w
        BY <2>4, <4>1, <4>3, SameTurn DEF At
      <4>4. QED
        BY <4>2, <4>3
    <3>5. ASSUME NEW x \in Workers, At(x, "register")'
          PROVE  /\ \A u \in used' :
                        u[1] = TurnOf(x)' /\ u[2] = version' => u[3] = work'[x].decision
                 /\ \A y \in Workers :
                        At(y, "register")' /\ TurnOf(y)' = TurnOf(x)'
                            => work'[y].decision = work'[x].decision
      <4>1. At(w, "register")
        BY <1>1 DEF At
      <4>2. ASSUME NEW u \in used', u[1] = TurnOf(x)', u[2] = version'
            PROVE  u[3] = work'[x].decision
        <5>1. CASE u \in used
          BY <1>1, <1>4, <3>4, <3>5, <4>2, <5>1 DEF Agreeing
        <5>2. CASE u = <<TurnOf(w), version, d>>
          BY <1>1, <3>4, <3>5, <4>1, <4>2, <5>2 DEF Agreeing
        <5>3. QED
          BY <2>1, <5>1, <5>2
      <4>3. QED
        BY <1>1, <3>4, <3>5, <4>2 DEF Agreeing
    <3>6. QED
      BY <3>2, <3>3, <3>5 DEF Agreeing
  <2>12. AbsorbedKept'
    BY <1>1, <1>4, <2>1, <2>6, <2>7, StillAbsorbed DEF IntakeInv
  <2>13. QED
    BY <2>6, <2>7, <2>10, <2>11, <2>12 DEF IntakeInv
<1>7. QED
  BY <1>5, <1>6

LEMMA DoneInOrder ==
    ASSUME Typed, NEW w \in Workers, Holding(w), work[w].pc \notin {"idle", "next", "ack"},
           work'[w].pc = Done(w), work'[w].msg = work[w].msg, work'[w].pos = work[w].pos,
           Kept(TurnOf(w))'
    PROVE  TaskInv(w)'
<1>1. Msg(w)' = Msg(w)
  BY SameTurn
<1>2. /\ work'[w].pc \in {"mark_synced", "ack"}
      /\ work'[w].pc = "mark_synced" => w = "sync"
  BY DEF Done
<1>3. Holding(w)' /\ Writing(w)' /\ Ending(w)'
  BY <1>1, <1>2 DEF Holding, Writing, Ending
<1>4. QED
  BY <1>3 DEF TaskInv

LEMMA IngestFragmentsKeeps ==
    ASSUME IntakeInv, NEW w \in Workers, IngestFragments(w)
    PROVE  IntakeInv'
<1> DEFINE pc == IF work[w].batch = <<>> THEN Done(w) ELSE "mark"
<1>1. /\ Typed /\ Holding(w) /\ Writing(w) /\ RedactedGone /\ work[w].pc = "ingest"
      /\ Goto(w, pc) /\ drawers' = drawers \cup ToSet(work[w].batch)
  BY DEF IngestFragments, At, IntakeInv, TaskInv
<1>2. UNCHANGED <<version, storeVars, synced, fact, pending, evidence, archived, status, used>>
  BY DEF IngestFragments, queueVars, historyVars
<1>3. pc \in {"mark_synced", "ack", "mark"} /\ pc \in Pcs
  BY DEF Done, Pcs
<1> HIDE DEF pc
<1>4. /\ work' \in [Workers -> Task]
      /\ \A x \in Workers : x # w => work'[x] = work[x]
      /\ work'[w].pc = pc /\ work'[w].msg = work[w].msg /\ work'[w].pos = work[w].pos
      /\ work'[w].decision = work[w].decision /\ work'[w].batch = work[w].batch
      /\ Msg(w)' = Msg(w) /\ TurnOf(w)' = TurnOf(w)
  BY <1>1, <1>3, GotoEffect
<1>5. ToSet(work[w].batch) \subseteq Fragments
  BY <1>1, ToSetTyped DEF Typed, Task
<1>6. Typed'
  BY <1>1, <1>2, <1>4, <1>5 DEF Typed, storeVars
<1>7. Onward /\ RedactedGone'
  BY <1>1, <1>2 DEF Onward, RedactedGone, storeVars
<1>8. PICK t \in Turns, d \in Decision : t = TurnOf(w) /\ d = work[w].decision
  BY <1>1, TurnTyped DEF Holding, Typed, Task
<1>9. /\ Backed(t, version, d)' /\ d.target = {}
      /\ \A i \in 1 .. Len(d.frags) : Settled(d.frags[i])'
  <2>1. Backed(t, version, d)
    BY <1>1, <1>8 DEF Writing
  <2>2. Backed(t, version, d)'
    BY <1>2, <2>1 DEF Backed, storeVars
  <2>3. d.target = {}
    BY <1>1, <1>8 DEF Writing
  <2>4. \A i \in 1 .. Len(d.frags) : d.frags[i] \in ToSet(work[w].batch) \/ Settled(d.frags[i])
    BY <1>1, <1>8 DEF Writing, Owed
  <2>5. QED
    BY <1>1, <1>2, <2>2, <2>3, <2>4 DEF Settled
<1>10. TaskInv(w)'
  <2>1. CASE pc = "mark"
    <3>1. Holding(w)'
      BY <1>1, <1>4, <2>1 DEF Holding, pc, Done
    <3>2. Writing(w)'
      BY <1>4, <1>8, <1>9 DEF Writing, Backed
    <3>3. Ending(w)'
      BY <1>4, <2>1 DEF Ending
    <3>4. QED
      BY <3>1, <3>2, <3>3 DEF TaskInv
  <2>2. CASE pc # "mark"
    <3>1. Kept(t)'
      BY <1>6, <1>9, AllSettledKept
    <3>2. pc = Done(w)
      BY <2>2 DEF pc
    <3>3. Kept(TurnOf(w))'
      BY <1>4, <1>8, <3>1
    <3>4. QED
      BY <1>1, <1>4, <3>2, <3>3, DoneInOrder
  <2>3. QED
    BY <2>1, <2>2
<1>11. Stepped(w)
  BY <1>2, <1>4, <1>7, <1>10 DEF Stepped
<1>12. QED
  BY <1>2, <1>3, <1>4, <1>6, <1>7, <1>11, Quietly

LEMMA MarkFragmentKeeps ==
    ASSUME IntakeInv, NEW w \in Workers, MarkFragment(w)
    PROVE  IntakeInv'
<1> DEFINE rest == Tail(work[w].batch)
           pc == IF Len(work[w].batch) = 1 THEN Done(w) ELSE "mark"
           r == [work[w] EXCEPT !.batch = rest, !.pc = pc]
<1>1. /\ Typed /\ Holding(w) /\ Writing(w) /\ RedactedGone /\ work[w].pc = "mark"
      /\ Step(w, r) /\ pending' = pending \ {Head(work[w].batch)}
  BY DEF MarkFragment, At, IntakeInv, TaskInv
<1>2. UNCHANGED <<version, storeVars, synced, fact, evidence, drawers, archived, status, used>>
  BY DEF MarkFragment, queueVars, historyVars
<1>3. pc \in {"mark_synced", "ack", "mark"} /\ pc \in Pcs
  BY DEF Done, Pcs
<1>4. rest \in Seq(Fragments) /\ (pc = "mark" => rest # <<>>)
  BY <1>1, HeadTail DEF Typed, Task, Holding, Done
<1> HIDE DEF pc, rest
<1>5. /\ r \in Task /\ r.pc = pc /\ r.msg = work[w].msg /\ r.pos = work[w].pos
      /\ r.batch = rest /\ r.decision = work[w].decision
  BY <1>1, <1>3, <1>4 DEF Typed, Task
<1> HIDE DEF r
<1>6. /\ work' \in [Workers -> Task] /\ work'[w] = r
      /\ \A x \in Workers : x # w => work'[x] = work[x]
  BY <1>1, <1>5, StepEffect
<1>7. Msg(w)' = Msg(w) /\ TurnOf(w)' = TurnOf(w)
  BY <1>5, <1>6, SameTurn
<1>8. Typed'
  BY <1>1, <1>2, <1>6 DEF Typed, storeVars
<1>9. Onward /\ RedactedGone'
  BY <1>1, <1>2, StoresUntouched DEF storeVars
<1>10. PICK t \in Turns, d \in Decision : t = TurnOf(w) /\ d = work[w].decision
  BY <1>1, TurnTyped DEF Holding, Typed, Task
<1>11. /\ Backed(t, version, d)' /\ d.target = {}
       /\ \A i \in 1 .. Len(d.frags) : Settled(d.frags[i])'
  <2>1. Backed(t, version, d) /\ d.target = {}
    BY <1>1, <1>10 DEF Writing
  <2>2. \A i \in 1 .. Len(d.frags) : Settled(d.frags[i])
    BY <1>1, <1>10 DEF Writing, Owed
  <2>3. QED
    BY <1>2, <2>1, <2>2 DEF Backed, Settled, storeVars
<1>12. TaskInv(w)'
  <2>1. CASE pc = "mark"
    <3>1. Holding(w)'
      BY <1>1, <1>4, <1>5, <1>6, <1>7, <2>1 DEF Holding
    <3>2. Writing(w)'
      BY <1>5, <1>6, <1>7, <1>10, <1>11 DEF Writing, Backed
    <3>3. Ending(w)'
      BY <1>5, <1>6, <2>1 DEF Ending
    <3>4. QED
      BY <3>1, <3>2, <3>3 DEF TaskInv
  <2>2. CASE pc # "mark"
    <3>1. Kept(t)'
      BY <1>8, <1>11, AllSettledKept
    <3>2. pc = Done(w)
      BY <2>2 DEF pc
    <3>3. Kept(TurnOf(w))'
      BY <1>7, <1>10, <3>1
    <3>4. QED
      BY <1>1, <1>5, <1>6, <3>2, <3>3, DoneInOrder
  <2>3. QED
    BY <2>1, <2>2
<1>13. Stepped(w)
  BY <1>2, <1>6, <1>9, <1>12 DEF Stepped
<1>14. QED
  BY <1>2, <1>3, <1>5, <1>6, <1>8, <1>9, <1>13, Quietly

LEMMA ResolveKeeps ==
    ASSUME IntakeInv, NEW w \in Workers, Resolve(w)
    PROVE  IntakeInv'
<1> DEFINE found == IF w = "cmd" THEN {f \in Fragments : <<Msg(w).turn, f>> \in evidence}
                    ELSE drawers \cap work[w].decision.target
           pc == IF found = {} THEN "own" ELSE "tombstone"
           r == [work[w] EXCEPT !.found = found, !.pc = pc]
<1>1. /\ Typed /\ Holding(w) /\ RedactedGone /\ work[w].pc = "resolve" /\ Step(w, r)
  BY DEF Resolve, At, IntakeInv, TaskInv
<1>2. UNCHANGED <<version, storeVars, synced, ledgerVars, status, used>>
  BY DEF Resolve, queueVars, historyVars
<1>3. found \subseteq Fragments
  BY <1>1 DEF Typed
<1>4. pc \in {"own", "tombstone"} /\ pc \in Pcs
  BY DEF Pcs
<1> HIDE DEF found, pc
<1>5. r \in Task /\ r.pc = pc /\ r.msg = work[w].msg /\ r.pos = work[w].pos
  BY <1>1, <1>3, <1>4 DEF Typed, Task
<1> HIDE DEF r
<1>6. /\ work' \in [Workers -> Task] /\ work'[w] = r
      /\ \A x \in Workers : x # w => work'[x] = work[x]
  BY <1>1, <1>5, StepEffect
<1>7. Msg(w)' = Msg(w)
  BY <1>5, <1>6, SameTurn
<1>8. Typed'
  BY <1>1, <1>2, <1>6 DEF Typed, storeVars, ledgerVars
<1>9. TaskInv(w)'
  BY <1>1, <1>4, <1>5, <1>6, <1>7 DEF TaskInv, Holding, Writing, Ending
<1>10. Stepped(w) /\ RedactedGone'
  BY <1>1, <1>2, <1>6, <1>9, StoresUntouched DEF Stepped, storeVars, ledgerVars
<1>11. QED
  BY <1>2, <1>4, <1>5, <1>6, <1>8, <1>10, Quietly

LEMMA TombstoneKeeps ==
    ASSUME IntakeInv, NEW w \in Workers, Tombstone(w)
    PROVE  IntakeInv'
<1> DEFINE F == work[w].found
           sources == {t \in Turns : \E f \in F : <<t, f>> \in evidence}
           pc == IF ~Hard(w) THEN "drawers"
                 ELSE IF sources = {} THEN "scrub" ELSE "redact"
           r == [work[w] EXCEPT !.sources = sources, !.pc = pc]
<1>1. /\ Typed /\ Holding(w) /\ RedactedGone /\ work[w].pc = "tombstone" /\ Step(w, r)
      /\ fact' = [f \in Fragments |-> IF f \in F THEN "forgotten" ELSE fact[f]]
      /\ pending' = pending \ F
  BY DEF Tombstone, At, IntakeInv, TaskInv
<1>2. UNCHANGED <<version, storeVars, synced, evidence, drawers, archived, status, used>>
  BY DEF Tombstone, queueVars, historyVars
<1>3. sources \subseteq Turns /\ F \subseteq Fragments
  BY <1>1 DEF Typed, Task
<1>4. pc \in {"drawers", "scrub", "redact"} /\ pc \in Pcs
  BY DEF Pcs
<1> HIDE DEF sources, pc
<1>5. r \in Task /\ r.pc = pc /\ r.msg = work[w].msg /\ r.pos = work[w].pos /\ r.found = F
  BY <1>1, <1>3, <1>4 DEF Typed, Task
<1> HIDE DEF r
<1>6. /\ work' \in [Workers -> Task] /\ work'[w] = r
      /\ \A x \in Workers : x # w => work'[x] = work[x]
  BY <1>1, <1>5, StepEffect
<1>7. Msg(w)' = Msg(w)
  BY <1>5, <1>6, SameTurn
<1>8. Typed'
  BY <1>1, <1>2, <1>6 DEF Typed, storeVars
<1>9. Onward /\ RedactedGone'
  BY <1>1, <1>2 DEF Onward, RedactedGone, storeVars, Typed
<1>10. TaskInv(w)'
  <2>1. \A f \in F : fact'[f] = "forgotten"
    BY <1>1, <1>3
  <2>2. Holding(w)' /\ Writing(w)'
    BY <1>1, <1>4, <1>5, <1>6, <1>7 DEF Holding, Writing
  <2>3. Ending(w)'
    BY <1>4, <1>5, <1>6, <2>1 DEF Ending
  <2>4. QED
    BY <2>2, <2>3 DEF TaskInv
<1>11. Stepped(w)
  BY <1>2, <1>6, <1>9, <1>10 DEF Stepped
<1>12. QED
  BY <1>2, <1>4, <1>5, <1>6, <1>8, <1>9, <1>11, Quietly

\* Redaction takes the decisions of whole turns, and leaves their tombstones.
LEMMA RedactKeeps ==
    ASSUME IntakeInv, NEW w \in Workers, NEW T \in SUBSET Turns, NEW pc \in Pcs,
           RedactSourceEvents(w, T, pc),
           \/ At(w, "redact") /\ pc = "truncate"
           \/ At(w, "own") /\ pc = "truncate_own" /\ TurnOf(w) \in T
    PROVE  IntakeInv'
<1>1. /\ Typed /\ Holding(w) /\ Ending(w) /\ RedactedGone /\ Goto(w, pc)
      /\ stored' = Redacted(T) /\ tomb' = tomb \cup T
  BY DEF RedactSourceEvents, IntakeInv, TaskInv
<1>2. UNCHANGED <<version, wal, synced, ledgerVars, status, used>>
  BY DEF RedactSourceEvents, queueVars, historyVars
<1>3. /\ work' \in [Workers -> Task]
      /\ \A x \in Workers : x # w => work'[x] = work[x]
      /\ work'[w].pc = pc /\ work'[w].msg = work[w].msg /\ work'[w].pos = work[w].pos
      /\ work'[w].found = work[w].found
      /\ Msg(w)' = Msg(w) /\ TurnOf(w)' = TurnOf(w)
  BY <1>1, GotoEffect
<1>4. /\ stored' \in [Turns -> [Versions -> Row \cup {None}]]
      /\ \A t \in Turns, v \in Versions :
             stored'[t][v] = IF t \in T THEN None ELSE stored[t][v]
  BY <1>1 DEF Redacted, Typed
<1>5. Typed'
  <2>1. \A t \in Turns, v \in Versions :
            stored'[t][v] # None => stored'[t][v].decision \in Says[t]
    BY <1>1, <1>4 DEF Typed
  <2>2. tomb' \subseteq Turns
    BY <1>1 DEF Typed
  <2>3. QED
    BY <1>1, <1>2, <1>3, <1>4, <2>1, <2>2 DEF Typed, ledgerVars
<1>6. Onward
  BY <1>1, <1>2, <1>4 DEF Onward, ledgerVars
<1>7. RedactedGone'
  BY <1>1, <1>4 DEF RedactedGone, Typed
<1>8. TaskInv(w)'
  <2>1. CASE At(w, "redact") /\ pc = "truncate"
    <3>1. \A f \in work[w].found : fact'[f] = "forgotten"
      BY <1>1, <1>2, <2>1 DEF Ending, At, ledgerVars
    <3>2. Holding(w)' /\ Writing(w)' /\ Ending(w)'
      BY <1>1, <1>3, <2>1, <3>1 DEF Holding, Writing, Ending, At
    <3>3. QED
      BY <3>2 DEF TaskInv
  <2>2. CASE At(w, "own") /\ pc = "truncate_own" /\ TurnOf(w) \in T
    <3>1. Holding(w)' /\ Writing(w)'
      BY <1>1, <1>3, <2>2 DEF Holding, Writing, At
    <3>2. Ending(w)'
      BY <1>1, <1>3, <2>2 DEF Ending
    <3>3. QED
      BY <3>1, <3>2 DEF TaskInv
  <2>3. QED
    BY <2>1, <2>2
<1>9. Stepped(w)
  BY <1>2, <1>3, <1>6, <1>8 DEF Stepped
<1>10. work'[w].pc # "register"
  BY <1>3
<1>11. QED
  BY <1>2, <1>5, <1>7, <1>9, <1>10, Quietly

LEMMA RedactSourcesKeeps ==
    ASSUME IntakeInv, NEW w \in Workers, RedactSources(w)
    PROVE  IntakeInv'
<1>1. work[w].sources \in SUBSET Turns
  BY DEF IntakeInv, Typed, Task
<1>2. "truncate" \in Pcs
  BY DEF Pcs
<1>3. At(w, "redact") /\ RedactSourceEvents(w, work[w].sources, "truncate")
  BY DEF RedactSources
<1>4. QED
  BY <1>1, <1>2, <1>3, RedactKeeps

LEMMA RedactOwnKeeps ==
    ASSUME IntakeInv, NEW w \in Workers, RedactOwn(w)
    PROVE  IntakeInv'
<1>1. At(w, "own") /\ RedactSourceEvents(w, {TurnOf(w)}, "truncate_own")
  BY DEF RedactOwn
<1>2. TurnOf(w) \in Turns
  BY <1>1, TurnTyped DEF At, IntakeInv, TaskInv
<1>3. {TurnOf(w)} \in SUBSET Turns /\ "truncate_own" \in Pcs
  BY <1>2 DEF Pcs
<1>4. QED
  BY <1>1, <1>3, RedactKeeps

LEMMA TruncateKeeps ==
    ASSUME IntakeInv, NEW w \in Workers, Truncate(w)
    PROVE  IntakeInv'
<1>1. /\ Typed /\ Holding(w) /\ Ending(w) /\ RedactedGone
      /\ work[w].pc \in {"truncate", "truncate_own"}
  BY DEF Truncate, IntakeInv, TaskInv
<1>2. UNCHANGED <<version, stored, tomb, synced, ledgerVars>>
  BY DEF Truncate
<1>3. CASE Raise(w) /\ UNCHANGED wal
  BY <1>1, <1>2, <1>3, RaiseStep
<1>4. CASE /\ wal' = {} /\ UNCHANGED <<status, historyVars, busy>>
           /\ Goto(w, IF At(w, "truncate") THEN "scrub" ELSE Done(w))
  <2> DEFINE pc == IF At(w, "truncate") THEN "scrub" ELSE Done(w)
  <2>1. pc \in {"scrub", "mark_synced", "ack"} /\ pc \in Pcs
    BY DEF Done, Pcs
  <2>2. /\ At(w, "truncate") => pc = "scrub"
        /\ ~At(w, "truncate") => pc = Done(w)
    OBVIOUS
  <2> HIDE DEF pc
  <2>3. /\ work' \in [Workers -> Task]
        /\ \A x \in Workers : x # w => work'[x] = work[x]
        /\ work'[w].pc = pc /\ work'[w].msg = work[w].msg /\ work'[w].pos = work[w].pos
        /\ work'[w].found = work[w].found
        /\ Msg(w)' = Msg(w) /\ TurnOf(w)' = TurnOf(w)
    BY <1>1, <1>4, <2>1, GotoEffect DEF pc
  <2>4. Typed'
    BY <1>1, <1>2, <1>4, <2>3 DEF Typed, ledgerVars, historyVars
  <2>5. Onward /\ RedactedGone'
    BY <1>1, <1>2, StoresUntouched DEF ledgerVars
  <2>6. TaskInv(w)'
    <3>1. CASE At(w, "truncate")
      <4>1. \A f \in work[w].found : fact'[f] = "forgotten"
        BY <1>1, <1>2, <3>1 DEF Ending, At, ledgerVars
      <4>2. Holding(w)' /\ Writing(w)' /\ Ending(w)'
        BY <1>1, <2>2, <2>3, <3>1, <4>1 DEF Holding, Writing, Ending, At
      <4>3. QED
        BY <4>2 DEF TaskInv
    <3>2. CASE ~At(w, "truncate")
      <4>1. Kept(TurnOf(w))'
        BY <1>1, <1>2, <2>3, <3>2 DEF Ending, At, Kept
      <4>2. QED
        BY <1>1, <2>2, <2>3, <3>2, <4>1, DoneInOrder
    <3>3. QED
      BY <3>1, <3>2
  <2>7. Stepped(w)
    BY <1>2, <2>3, <2>5, <2>6 DEF Stepped
  <2>8. work'[w].pc # "register"
    BY <2>1, <2>3
  <2>9. QED
    BY <1>2, <1>4, <2>4, <2>5, <2>7, <2>8, Quietly DEF historyVars
<1>5. QED
  BY <1>3, <1>4 DEF Truncate

LEMMA ScrubContentKeeps ==
    ASSUME IntakeInv, NEW w \in Workers, ScrubContent(w)
    PROVE  IntakeInv'
<1>1. /\ Typed /\ Holding(w) /\ Ending(w) /\ RedactedGone /\ work[w].pc = "scrub"
      /\ Goto(w, "drawers") /\ evidence' \subseteq evidence
  BY DEF ScrubContent, At, IntakeInv, TaskInv
<1>2. UNCHANGED <<version, storeVars, synced, fact, pending, drawers, archived, status, used>>
  BY DEF ScrubContent, queueVars, historyVars
<1>3. "drawers" \in Pcs
  BY DEF Pcs
<1>4. /\ work' \in [Workers -> Task]
      /\ \A x \in Workers : x # w => work'[x] = work[x]
      /\ work'[w].pc = "drawers" /\ work'[w].msg = work[w].msg
      /\ work'[w].pos = work[w].pos /\ work'[w].found = work[w].found /\ Msg(w)' = Msg(w)
  BY <1>1, <1>3, GotoEffect
<1>5. Typed'
  BY <1>1, <1>2, <1>4 DEF Typed, storeVars
<1>6. TaskInv(w)'
  BY <1>1, <1>2, <1>4 DEF TaskInv, Holding, Writing, Ending
<1>7. Stepped(w) /\ RedactedGone'
  BY <1>1, <1>2, <1>4, <1>6, StoresUntouched DEF Stepped, storeVars
<1>8. work'[w].pc # "register"
  BY <1>4
<1>9. QED
  BY <1>2, <1>5, <1>7, <1>8, Quietly

LEMMA ForgetDrawersKeeps ==
    ASSUME IntakeInv, NEW w \in Workers, ForgetDrawers(w)
    PROVE  IntakeInv'
<1>1. /\ Typed /\ Holding(w) /\ Ending(w) /\ RedactedGone /\ work[w].pc = "drawers"
      /\ Goto(w, "own")
      /\ drawers' = IF Hard(w) THEN drawers \ work[w].found ELSE drawers
      /\ archived' = IF Hard(w) THEN archived \ work[w].found
                     ELSE archived \cup (work[w].found \cap drawers)
  BY DEF ForgetDrawers, At, IntakeInv, TaskInv
<1>2. UNCHANGED <<version, storeVars, synced, fact, pending, evidence, status, used>>
  BY DEF ForgetDrawers, queueVars, historyVars
<1>3. "own" \in Pcs
  BY DEF Pcs
<1>4. /\ work' \in [Workers -> Task]
      /\ \A x \in Workers : x # w => work'[x] = work[x]
      /\ work'[w].pc = "own" /\ work'[w].msg = work[w].msg
      /\ work'[w].pos = work[w].pos /\ Msg(w)' = Msg(w)
  BY <1>1, <1>3, GotoEffect
<1>5. archived' \subseteq drawers' /\ drawers' \subseteq drawers
  BY <1>1 DEF Typed
<1>6. Typed'
  BY <1>1, <1>2, <1>4, <1>5 DEF Typed, storeVars
<1>7. TaskInv(w)'
  BY <1>1, <1>4 DEF TaskInv, Holding, Writing, Ending
<1>8. \A f \in work[w].found : fact[f] = "forgotten"
  BY <1>1 DEF Ending
<1>9. Onward /\ RedactedGone'
  BY <1>1, <1>2, <1>8 DEF Onward, RedactedGone, storeVars
<1>10. Stepped(w)
  BY <1>2, <1>4, <1>7, <1>9 DEF Stepped
<1>11. work'[w].pc # "register"
  BY <1>4
<1>12. QED
  BY <1>2, <1>6, <1>9, <1>10, <1>11, Quietly

LEMMA NextEventKeeps ==
    ASSUME IntakeInv, NEW w \in Workers, NextEvent(w)
    PROVE  IntakeInv'
<1> DEFINE pos == work[w].pos + 1
           e == Msg(w).events[pos]
           pc == IF Seen(e) \/ ~e.valid THEN "next" ELSE "get"
           r == [Idle EXCEPT !.msg = work[w].msg, !.pos = pos, !.pc = pc]
<1>1. Typed /\ Holding(w) /\ RedactedGone /\ work[w].pc = "next" /\ w = "sync"
  BY DEF NextEvent, At, IntakeInv, TaskInv, Holding
<1>2. UNCHANGED <<version, storeVars, synced, ledgerVars, status, used>>
  BY DEF NextEvent, queueVars
<1>3. Onward /\ RedactedGone'
  BY <1>1, <1>2, StoresUntouched DEF storeVars, ledgerVars
<1>4. work[w].msg \in Msgs /\ work[w].pos \in Nat /\ Msg(w).events \in Seq(Event)
  BY <1>1, MessageTyped DEF Typed, Task, Holding, Msg
<1>5. CASE pos > Len(Msg(w).events)
  <2>1. Goto(w, "ack")
    BY <1>5 DEF NextEvent
  <2>2. "ack" \in Pcs
    BY DEF Pcs
  <2>3. /\ work' \in [Workers -> Task]
        /\ \A x \in Workers : x # w => work'[x] = work[x]
        /\ work'[w].pc = "ack" /\ work'[w].msg = work[w].msg /\ Msg(w)' = Msg(w)
    BY <1>1, <2>1, <2>2, GotoEffect
  <2>4. Typed'
    BY <1>1, <1>2, <2>3 DEF Typed, storeVars, ledgerVars
  <2>5. TaskInv(w)'
    BY <1>1, <2>3 DEF TaskInv, Holding, Writing, Ending
  <2>6. Stepped(w) /\ work'[w].pc # "register"
    BY <1>2, <1>3, <2>3, <2>5 DEF Stepped
  <2>7. QED
    BY <1>2, <1>3, <2>4, <2>6, Quietly
<1>6. CASE ~(pos > Len(Msg(w).events))
  <2>1. Step(w, r)
    BY <1>6 DEF NextEvent
  <2>2. pc \in {"next", "get"} /\ pc \in Pcs /\ pos \in 1 .. Len(Msg(w).events)
    BY <1>4, <1>6 DEF Pcs
  <2> HIDE DEF pc
  <2>3. r \in Task /\ r.pc = pc /\ r.msg = work[w].msg /\ r.pos = pos
    <3>1. pos \in Nat /\ Idle \in Task
      BY <1>4, IdleTyped
    <3> HIDE DEF pos
    <3>2. QED
      BY <1>4, <2>2, <3>1 DEF Task
  <2> HIDE DEF r, pos
  <2>4. /\ work' \in [Workers -> Task] /\ work'[w] = r
        /\ \A x \in Workers : x # w => work'[x] = work[x]
    BY <1>1, <2>1, <2>3, StepEffect
  <2>5. Msg(w)' = Msg(w)
    BY <2>3, <2>4 DEF Msg
  <2>6. Typed'
    BY <1>1, <1>2, <2>4 DEF Typed, storeVars, ledgerVars
  <2>7. TaskInv(w)'
    <3>1. Holding(w)'
      BY <1>1, <1>4, <2>2, <2>3, <2>4, <2>5 DEF Holding
    <3>2. Writing(w)' /\ Ending(w)'
      BY <1>1, <2>2, <2>3, <2>4 DEF Writing, Ending
    <3>3. QED
      BY <3>1, <3>2 DEF TaskInv
  <2>8. Stepped(w) /\ work'[w].pc # "register"
    BY <1>2, <1>3, <2>2, <2>3, <2>4, <2>7 DEF Stepped
  <2>9. QED
    BY <1>2, <1>3, <2>6, <2>8, Quietly
<1>7. QED
  BY <1>5, <1>6

LEMMA MarkSyncedKeeps ==
    ASSUME IntakeInv, NEW w \in Workers, MarkSynced(w)
    PROVE  IntakeInv'
<1>1. /\ Typed /\ Holding(w) /\ Ending(w) /\ RedactedGone /\ work[w].pc = "mark_synced"
      /\ w = "sync" /\ Goto(w, "next")
      /\ synced' = IF Seen(EventOf(w)) THEN synced ELSE synced \cup {EventOf(w)}
  BY DEF MarkSynced, At, IntakeInv, TaskInv, Holding
<1>2. UNCHANGED <<version, storeVars, ledgerVars, status, used>>
  BY DEF MarkSynced, queueVars, historyVars
<1>3. "next" \in Pcs
  BY DEF Pcs
<1>4. /\ work' \in [Workers -> Task]
      /\ \A x \in Workers : x # w => work'[x] = work[x]
      /\ work'[w].pc = "next" /\ work'[w].msg = work[w].msg /\ Msg(w)' = Msg(w)
  BY <1>1, <1>3, GotoEffect
<1>5. EventOf(w) \in Event /\ TurnOf(w) = EventOf(w).turn
  BY <1>1, EventTyped DEF TurnOf
<1>6. Typed'
  BY <1>1, <1>2, <1>4, <1>5 DEF Typed, storeVars, ledgerVars
<1>7. TaskInv(w)'
  BY <1>1, <1>4 DEF TaskInv, Holding, Writing, Ending
<1>8. Onward /\ RedactedGone'
  BY <1>1, <1>2, StoresUntouched DEF storeVars, ledgerVars
<1>9. Stepped(w) /\ work'[w].pc # "register"
  BY <1>2, <1>4, <1>7, <1>8 DEF Stepped
<1>10. ASSUME NEW x \in synced'
       PROVE  x \in synced \/ Kept(x.turn)'
  <2>1. SUFFICES ASSUME x = EventOf(w)
                 PROVE  Kept(x.turn)'
    BY <1>1
  <2>2. PICK t \in Turns : t = x.turn
    BY <1>5, <2>1 DEF Event
  <2>3. Kept(t)
    BY <1>1, <1>5, <2>1, <2>2 DEF Ending
  <2>4. Kept(t)'
    BY <1>1, <1>6, <1>8, <2>3, StaysKept
  <2>5. QED
    BY <2>2, <2>4
<1>11. QED
  BY <1>2, <1>6, <1>8, <1>9, <1>10, Quietly

LEMMA FailKeeps ==
    ASSUME IntakeInv, NEW w \in Workers, Fail(w)
    PROVE  IntakeInv'
<1>1. /\ Raise(w) /\ work[w].pc # "idle"
      /\ UNCHANGED <<version, storeVars, synced, ledgerVars>>
  BY DEF Fail
<1>2. QED
  BY <1>1, RaiseStep DEF storeVars

\* A crash leaves every task idle; the next process may be another extractor.
LEMMA CrashKeeps ==
    ASSUME IntakeInv, Crash
    PROVE  IntakeInv'
<1>1. /\ Typed /\ Agreeing /\ RedactedGone /\ AbsorbedKept
      /\ version' \in {version, IF version < MaxVersion THEN version + 1 ELSE version}
      /\ status' = [m \in Msgs |-> IF status[m] = "held" THEN "queued" ELSE status[m]]
      /\ work' = [w \in Workers |-> Idle]
      /\ UNCHANGED <<storeVars, synced, ledgerVars, used>>
  BY DEF Crash, IntakeInv, historyVars
<1>2. version' \in Versions
  BY <1>1, IntakeConstants DEF Typed, Versions
<1>3. /\ status' \in [Msgs -> {"absent", "queued", "held", "acked", "dead"}]
      /\ \A m \in Msgs : status'[m] = "acked" => status[m] = "acked"
  BY <1>1 DEF Typed
<1>4. work' \in [Workers -> Task] /\ \A w \in Workers : work'[w].pc = "idle"
  BY <1>1, IdleTyped
<1>5. Typed'
  BY <1>1, <1>2, <1>3, <1>4 DEF Typed, storeVars, ledgerVars
<1>6. \A w \in Workers : TaskInv(w)'
  BY <1>4 DEF TaskInv, Holding, Writing, Ending
<1>7. Agreeing'
  BY <1>1, <1>4 DEF Agreeing, OneDecision, Backed, At, storeVars
<1>8. Onward /\ RedactedGone'
  BY <1>1, StoresUntouched DEF storeVars, ledgerVars
<1>9. AbsorbedKept'
  BY <1>1, <1>3, <1>5, <1>8, StillAbsorbed
<1>10. QED
  BY <1>5, <1>6, <1>7, <1>8, <1>9 DEF IntakeInv

----------------------------------------------------------------------------
(* The theorems.                                                            *)

LEMMA InitIntake ==
    ASSUME Init
    PROVE  IntakeInv
<1>1. PICK p \in Plans :
          /\ version = 1
          /\ stored = [t \in Turns |-> [v \in Versions |-> None]]
          /\ tomb = {} /\ wal = {} /\ synced = {}
          /\ fact = [f \in Fragments |-> "none"]
          /\ pending = {} /\ evidence = {} /\ drawers = {} /\ archived = {}
          /\ status = [m \in Msgs |-> IF m \in p.msgs THEN "queued" ELSE "absent"]
          /\ work = [w \in Workers |-> Idle]
          /\ used = {}
  BY DEF Init
<1>2. version \in Versions
  BY <1>1, IntakeConstants DEF Versions
<1>3. work \in [Workers -> Task] /\ \A w \in Workers : work[w].pc = "idle"
  BY <1>1, IdleTyped
<1>4. Typed
  BY <1>1, <1>2, <1>3 DEF Typed
<1>5. \A w \in Workers : TaskInv(w)
  BY <1>3 DEF TaskInv, Holding, Writing, Ending
<1>6. Agreeing
  BY <1>1, <1>3 DEF Agreeing, OneDecision, At
<1>7. RedactedGone /\ AbsorbedKept
  BY <1>1 DEF RedactedGone, AbsorbedKept
<1>8. QED
  BY <1>4, <1>5, <1>6, <1>7 DEF IntakeInv

LEMMA NextIntake ==
    ASSUME IntakeInv, [Next]_vars
    PROVE  IntakeInv'
<1>1. ASSUME NEW w \in Workers, NEW m \in Msgs, Take(w, m)
      PROVE  IntakeInv'
  BY <1>1, TakeKeeps
<1>2. ASSUME NEW w \in Workers, Decide(w)
      PROVE  IntakeInv'
  BY <1>2, GetDecisionKeeps, StewardDecidesKeeps, PutDecisionKeeps DEF Decide
<1>3. ASSUME NEW w \in Workers, Write(w)
      PROVE  IntakeInv'
  BY <1>3, RegisterFragmentKeeps, IngestFragmentsKeeps, MarkFragmentKeeps DEF Write
<1>4. ASSUME NEW w \in Workers, Forget(w)
      PROVE  IntakeInv'
  BY <1>4, ResolveKeeps, TombstoneKeeps, RedactSourcesKeeps, RedactOwnKeeps, TruncateKeeps,
     ScrubContentKeeps, ForgetDrawersKeeps DEF Forget
<1>5. ASSUME NEW w \in Workers, NextEvent(w) \/ MarkSynced(w) \/ Ack(w) \/ Fail(w)
      PROVE  IntakeInv'
  BY <1>5, NextEventKeeps, MarkSyncedKeeps, AckKeeps, FailKeeps
<1>6. CASE UNCHANGED vars
  <2>1. UNCHANGED <<version, storeVars, synced, ledgerVars, queueVars, work, historyVars>>
    BY <1>6 DEF vars
  <2>2. \A w \in Workers :
            /\ Msg(w)' = Msg(w) /\ EventOf(w)' = EventOf(w) /\ TurnOf(w)' = TurnOf(w)
    BY <2>1, SameTurn
  <2>3. Typed' /\ RedactedGone'
    BY <2>1 DEF IntakeInv, Typed, RedactedGone, storeVars, ledgerVars, queueVars, historyVars
  <2>4. Onward
    BY <2>1, StoresUntouched DEF storeVars, ledgerVars
  <2>5. \A w \in Workers : TaskInv(w)'
    BY <2>1, <2>3, <2>4, OthersKeep DEF IntakeInv
  <2>6. Agreeing'
    BY <2>1, <2>2 DEF IntakeInv, Agreeing, OneDecision, Backed, At, storeVars, historyVars
  <2>7. AbsorbedKept'
    BY <2>1, <2>3, <2>4, StillAbsorbed DEF IntakeInv, queueVars
  <2>8. QED
    BY <2>3, <2>5, <2>6, <2>7 DEF IntakeInv
<1>7. QED
  BY <1>1, <1>2, <1>3, <1>4, <1>5, <1>6, CrashKeeps DEF Next, Work

LEMMA IntakeInvariant == Spec => []IntakeInv
<1>1. Init => IntakeInv
  BY InitIntake
<1>2. IntakeInv /\ [Next]_vars => IntakeInv'
  BY NextIntake
<1>3. QED
  BY <1>1, <1>2, PTL DEF Spec

\* The types of the variables.
THEOREM IntakeTyped == Spec => []TypeOK
<1>1. IntakeInv => TypeOK
  BY DEF IntakeInv, Typed, TypeOK
<1>2. QED
  BY <1>1, IntakeInvariant, PTL

\* All that is written from a turn by one extractor version comes from one
\* decision, whoever delivers the turn, how often, and whatever the steward
\* answers: extraction_decisions keeps the first answer, put_if_absent returns it.
THEOREM WrittenFromOneDecision == Spec => []OneDecision
<1>1. IntakeInv => OneDecision
  BY DEF IntakeInv, Agreeing
<1>2. QED
  BY <1>1, IntakeInvariant, PTL

\* After redact_source_events no decision of the turn is in the store, of any
\* extractor version, although a task was about to store one: put_if_absent
\* reads the tombstone in the same transaction.
THEOREM RedactedStaysGone == Spec => []RedactedGone
<1>1. IntakeInv => RedactedGone
  BY DEF IntakeInv
<1>2. QED
  BY <1>1, IntakeInvariant, PTL

\* A turn that is acknowledged, or recorded as synchronised, has all the texts
\* of its decision in drawers, unless they or the turn have been forgotten -
\* through errors, crashes, another extractor and tasks that erase meanwhile.
THEOREM AcknowledgedIsKept == Spec => []AbsorbedKept
<1>1. IntakeInv => AbsorbedKept
  BY DEF IntakeInv
<1>2. QED
  BY <1>1, IntakeInvariant, PTL
=============================================================================
