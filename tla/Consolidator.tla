---------------------------- MODULE Consolidator ----------------------------
(***************************************************************************)
(* The process that distils themes.  A pass lists the drawers of a space   *)
(* page by page through the agent that owns them, groups them by audience  *)
(* and wing, asks the language model about each group - a few at a time,   *)
(* under one budget for all - and publishes what it got as commands.  The  *)
(* agent writes each as a drawer of Wing_Theme.  Meanwhile the owner's     *)
(* memory changes.                                                         *)
(***************************************************************************)
EXTENDS Naturals, Sequences, FiniteSets, SequencesExt

CONSTANTS
    Drawers,       \* memories that may be written: records, see Drawer
    Themable,      \* _THEMABLE_WINGS_DEFAULT
    Order,         \* the groups <<audience, wing>> as they are sorted
    Texts,         \* what the model may say
    PageSize, Limit, MinDrawers, MaxParallel,
    Budgets        \* changes, passes and faults of a behaviour (model only)

Wings == Themable \cup {"Wing_Theme", "Wing_Privacy"}
Groups == ToSet(Order)
Drawer == [id : STRING, aud : STRING, wing : Wings, old : BOOLEAN]

ASSUME ConsolidatorConstants ==
    /\ \A d \in Drawers : d \in Drawer
    /\ {"Wing_Theme", "Wing_Privacy"} \cap Themable = {}
    /\ \A d \in Drawers : d.wing \in Themable => <<d.aud, d.wing>> \in Groups
    /\ {PageSize, Limit, MinDrawers, MaxParallel} \subseteq Nat \ {0}
    /\ Budgets \subseteq [changes : Nat, passes : Nat, faults : Nat]

VARIABLES
    palace, archived,   \* the drawers in listing order; those a soft forget hid
    up,                 \* whether the agent answers queries
    pc, offset, out,    \* the pass: where it is, and what it has listed
    task,               \* the groups: state, records, themes kept
    todo,               \* themes still to be published
    status,             \* result of the last pass
    stream, inflight,   \* theme commands, and whether the first is being applied
    applied,            \* request ids the agent has recorded as applied
    themes,             \* theme drawers
    changes, passes, faults

passVars == <<pc, offset, out, task, todo, status, passes>>
agentVars == <<stream, inflight, applied, themes>>
vars == <<palace, archived, up, passVars, agentVars, changes, faults>>

NoTask == [st |-> "none", recs |-> <<>>, kept |-> <<>>]
Fault == faults > 0 /\ faults' = faults - 1

Init ==
    /\ palace \in {SetToSeq(Drawers), <<>>} /\ archived = {}
    /\ up = TRUE
    /\ pc = "sleep" /\ offset = 0 /\ out = <<>>
    /\ task = [g \in Groups |-> NoTask]
    /\ todo = <<>> /\ status = "none"
    /\ stream = <<>> /\ inflight = FALSE /\ applied = {} /\ themes = {}
    /\ \E b \in Budgets : changes = b.changes /\ passes = b.passes /\ faults = b.faults

----------------------------------------------------------------------------
(* The owner's memory changes; the agent comes and goes.                    *)

Change == changes > 0 /\ changes' = changes - 1
Rest == <<up, passVars, agentVars, faults>>

Remember(d) ==
    /\ Change /\ d \notin ToSet(palace)
    /\ palace' = Append(palace, d)
    /\ UNCHANGED <<archived, Rest>>

Archive(d) ==
    /\ Change /\ d \in ToSet(palace) /\ d \notin archived
    /\ archived' = archived \cup {d}
    /\ UNCHANGED <<palace, Rest>>

Erase(d) ==
    /\ Change /\ d \in ToSet(palace)
    /\ palace' = SelectSeq(palace, LAMBDA x : x # d)
    /\ archived' = archived \ {d}
    /\ UNCHANGED Rest

\* An agent that stops has its command delivered to the next one.
AgentStops ==
    /\ up /\ Fault
    /\ up' = FALSE /\ inflight' = FALSE
    /\ UNCHANGED <<palace, archived, passVars, stream, applied, themes, changes>>

AgentStarts ==
    /\ ~up
    /\ up' = TRUE
    /\ UNCHANGED <<palace, archived, passVars, agentVars, changes, faults>>

----------------------------------------------------------------------------
(* consolidate_once.                                                        *)

World == <<palace, archived, up, agentVars, changes, faults>>

StartPass ==
    /\ pc = "sleep" /\ passes > 0
    /\ passes' = passes - 1
    /\ pc' = "wait"
    /\ offset' = 0 /\ out' = <<>> /\ todo' = <<>> /\ status' = "none"
    /\ task' = [g \in Groups |-> NoTask]
    /\ UNCHANGED World

\* wait_until_ready: retried until the agent answers, or the time is up.
WaitUntilReady ==
    /\ pc = "wait"
    /\ \/ up /\ pc' = "list" /\ UNCHANGED status
       \/ ~up /\ pc' = "sleep" /\ status' = "error"
    /\ UNCHANGED <<World, offset, out, task, todo, passes>>

\* row_visible_to_listing, with include_private = False.
RowVisibleToListing(d) == d.wing # "Wing_Privacy"

Smaller(a, b) == IF a < b THEN a ELSE b

\* One request: the agent reads a page and then drops the rows that are not
\* to be listed.
Page(from, n) ==
    SelectSeq(SubSeq(palace, from + 1, Smaller(from + n, Len(palace))), RowVisibleToListing)

\* A page that is shorter than asked for is taken for the last.
ListPage ==
    /\ pc = "list" /\ up
    /\ LET take == Smaller(PageSize, Limit - Len(out))
           records == Page(offset, take)
           all == out \o records
       IN /\ out' = all
          /\ IF Len(records) < take \/ Len(all) >= Limit
             THEN pc' = "group" /\ UNCHANGED offset
             ELSE offset' = offset + take /\ UNCHANGED pc
    /\ UNCHANGED <<World, task, todo, status, passes>>

\* The request times out or the agent reports an error: the pass is over.
ListFails ==
    /\ pc = "list"
    /\ IF up THEN Fault ELSE UNCHANGED faults
    /\ pc' = "sleep" /\ status' = "error"
    /\ UNCHANGED <<palace, archived, up, agentVars, changes, offset, out, task, todo, passes>>

\* Mutant: the audience is not part of the key.
RecordsOfWing(g) ==
    SelectSeq(out, LAMBDA d : d.wing = g[2] /\ d.wing \in Themable /\ ~d.old)

\* group_drawers_by_audience_and_wing.
RecordsOf(g) ==
    SelectSeq(out, LAMBDA d : <<d.aud, d.wing>> = g /\ d.wing \in Themable /\ ~d.old)

\* Groups that are too small are skipped; the others become tasks.
GroupDrawers ==
    /\ pc = "group"
    /\ task' = [g \in Groups |->
           LET recs == RecordsOf(g)
           IN IF recs = <<>> THEN NoTask
              ELSE [st |-> IF Len(recs) < MinDrawers THEN "skipped" ELSE "waiting",
                    recs |-> recs, kept |-> <<>>]]
    /\ pc' = "synthesize"
    /\ UNCHANGED <<World, offset, out, todo, status, passes>>

In(st) == {g \in Groups : task[g].st = st}
Pending == In("waiting") \cup In("asking")

HasSlot == Cardinality(In("asking")) < MaxParallel

Ask(g) ==
    /\ pc = "synthesize" /\ task[g].st = "waiting" /\ HasSlot
    /\ task' = [task EXCEPT ![g].st = "asking"]
    /\ UNCHANGED <<World, pc, offset, out, todo, status, passes>>

\* The model answers with up to three themes; those it is not sure of, and
\* what cannot be parsed, are dropped.
Answer(g) ==
    /\ pc = "synthesize" /\ task[g].st = "asking"
    /\ \E kept \in {<<>>} \cup {<<x>> : x \in Texts}
                     \cup {<<x, y>> : x, y \in Texts} :
          task' = [task EXCEPT ![g].st = "completed", ![g].kept = kept]
    /\ UNCHANGED <<World, pc, offset, out, todo, status, passes>>

ModelFails(g) ==
    /\ pc = "synthesize" /\ task[g].st = "asking" /\ Fault
    /\ task' = [task EXCEPT ![g].st = "failed"]
    /\ UNCHANGED <<palace, archived, up, agentVars, changes, pc, offset, out, todo, status, passes>>

\* Mutant: a pass that ran out of time reports only its failures.
ConsolidationStatusNoTimeout(t) ==
    LET has(st) == \E g \in Groups : t[g].st = st
    IN IF ~has("failed") THEN "completed" ELSE IF has("completed") THEN "partial" ELSE "failed"

\* _consolidation_status.
ConsolidationStatus(t) ==
    LET has(st) == \E g \in Groups : t[g].st = st
    IN IF ~has("failed") /\ ~has("timed_out") THEN "completed"
       ELSE IF has("completed") THEN "partial" ELSE "failed"

\* idempotency_hash: the text is not part of it.
RequestId(g, recs) == [aud |-> g[1], wing |-> g[2], sources |-> ToSet(recs)]

\* The themes of the groups that completed, in the order of the groups.
ThemesOf(t) ==
    FlattenSeq([i \in DOMAIN Order |->
        LET g == Order[i]
        IN [k \in DOMAIN t[g].kept |-> [rid |-> RequestId(g, t[g].recs), text |-> t[g].kept[k]]]])

\* asyncio.wait returns: every group is done, or the budget is spent and the
\* ones that are not are cancelled.
EndSynthesis ==
    /\ pc = "synthesize"
    /\ LET t == [g \in Groups |->
                    IF g \in Pending THEN [task[g] EXCEPT !.st = "timed_out"] ELSE task[g]]
       IN /\ task' = t
          /\ todo' = ThemesOf(t)
    /\ pc' = "publish"
    /\ UNCHANGED <<World, offset, out, status, passes>>

\* A publication that fails is logged, and the next one tried.
PublishTheme ==
    /\ pc = "publish" /\ todo # <<>>
    /\ \/ stream' = Append(stream, Head(todo)) /\ UNCHANGED faults
       \/ Fault /\ UNCHANGED stream
    /\ todo' = Tail(todo)
    /\ UNCHANGED <<palace, archived, up, inflight, applied, themes, changes,
                   pc, offset, out, task, status, passes>>

EndPass ==
    /\ pc = "publish" /\ todo = <<>>
    /\ pc' = "sleep"
    /\ status' = ConsolidationStatus(task)
    /\ UNCHANGED <<World, offset, out, task, todo, passes>>

----------------------------------------------------------------------------
(* The agent's command worker, as far as themes go.                         *)

\* A request that is recorded as applied is acknowledged and no more.  The
\* drawer's id comes from the request and the text.
IngestTheme ==
    /\ up /\ stream # <<>> /\ ~inflight
    /\ LET c == Head(stream)
       IN IF c.rid \in applied
          THEN stream' = Tail(stream) /\ UNCHANGED <<inflight, themes, palace>>
          ELSE /\ themes' = themes \cup {c}
               /\ palace' = IF c \in themes THEN palace
                            ELSE Append(palace, [id |-> "theme", aud |-> c.rid.aud,
                                                 wing |-> "Wing_Theme", old |-> FALSE])
               /\ inflight' = TRUE
               /\ UNCHANGED stream
    /\ UNCHANGED <<archived, up, passVars, applied, changes, faults>>

\* Its status is recorded if that works, and it is acknowledged.
SettleTheme ==
    /\ inflight
    /\ \/ applied' = applied \cup {Head(stream).rid} /\ UNCHANGED faults
       \/ Fault /\ UNCHANGED applied
    /\ stream' = Tail(stream)
    /\ inflight' = FALSE
    /\ UNCHANGED <<palace, archived, up, passVars, themes, changes>>

----------------------------------------------------------------------------
Owner == \E d \in Drawers : Remember(d) \/ Archive(d) \/ Erase(d)

\* The steps of a pass that need nothing but the event loop.
Proceed ==
    WaitUntilReady \/ ListPage \/ ListFails \/ GroupDrawers \/ EndSynthesis
        \/ PublishTheme \/ EndPass
Model == \E g \in Groups : Ask(g) \/ Answer(g) \/ ModelFails(g)
Agent == IngestTheme \/ SettleTheme

Next == Owner \/ AgentStops \/ AgentStarts \/ StartPass \/ Proceed \/ Model \/ Agent

\* The budget runs out whatever the model does, and a request is answered or
\* times out; nothing is assumed of the model or of the agent.
Spec == Init /\ [][Next]_vars /\ WF_vars(Proceed)

----------------------------------------------------------------------------
(* Properties.                                                              *)

\* What one audience told is never distilled into another audience's theme,
\* and neither themes nor what is filed under Wing_Privacy are distilled at
\* all, although the palace changes between the pages.
ThemesApart ==
    \A c \in themes \cup ToSet(stream) \cup ToSet(todo) : \A d \in c.rid.sources :
        d.aud = c.rid.aud /\ d.wing = c.rid.wing /\ d.wing \in Themable

\* A pass that reports success has an answer for every group that was large
\* enough, and one that reports failure published nothing.
StatusHonest ==
    /\ status = "completed" => \A g \in Groups : task[g].st \in {"none", "skipped", "completed"}
    /\ status = "failed" => ThemesOf(task) = <<>>

\* Stated for the code: material that is not to be recalled is not echoed
\* into a theme.
NoForgottenThemed ==
    [][\A i \in 1 .. Len(out') :
          i > Len(out) /\ out'[i].wing \in Themable => out'[i] \notin archived]_vars
=============================================================================
