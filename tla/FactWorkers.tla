---------------------------- MODULE FactWorkers ----------------------------
(***************************************************************************)
(* The write path of one memory space: the asyncio tasks of agent_runner   *)
(* that drain the durable turn and command streams, and what their         *)
(* handlers do to the canonical ledger, the drawers of the vector store    *)
(* and the rows of the knowledge graph                                     *)
(* (application/turn_processor.py, explicit_intents.py,                    *)
(* canonical_invalidation.py, forget.py).                                  *)
(*                                                                         *)
(* A worker holds one message at a time, but the workers interleave at     *)
(* every await, so a handler is a sequence of steps, one per call that     *)
(* reads or changes a store; the ledger calls are the actions of           *)
(* CanonicalFacts.  A message leaves its stream only when it is            *)
(* acknowledged; a crash, a cancelled task or a nak brings it back.        *)
(***************************************************************************)
EXTENDS CanonicalFacts

CONSTANTS
    Msgs,           \* messages; a turn's id is also its source event
    NoMsg,
    Workers,        \* the drain tasks, e.g. {"turn", "cmd"}
    Replaceable,    \* the SINGLE slots an explicit update may supersede
    MaxDeliveries,  \* settings.nats.worker_max_deliveries
    Scenarios       \* the workloads, each with its faults (model only)

\* What a message asks for.  A turn may end one fact and assert another (a
\* change of mind); a command does one thing; "none" is a message nobody sends.
Payload ==
    [kind : {"turn", "assert", "update", "correct", "forget_drawers", "forget_source", "none"},
     worker : Workers,
     ends : Facts \cup {NoFact},      \* the invalidation of the decision
     adds : Facts \cup {NoFact},      \* the triple, or the fact to forget
     source : Msgs \cup {NoMsg},      \* the event a forget_source erases
     hard : BOOLEAN]
Content ==
    {c \in Payload :
        /\ c.kind \in {"assert", "update", "forget_drawers"} => c.adds \in Facts
        /\ c.kind = "correct" => c.ends \in Facts
        /\ c.kind = "forget_source" => c.source \in Msgs}

\* A scenario is what is said, and how many crashes and raising calls come
\* between.
ASSUME ScenarioAssumption ==
    \A s \in Scenarios :
        s.content \in [Msgs -> Content] /\ s.crashes \in Nat /\ s.fails \in Nat
ASSUME MessageIds ==
    /\ Intents = Msgs
    /\ Corrections = Msgs \X Facts
    /\ Targets = {"drawer", "kg"}
    /\ NoMsg \notin Msgs
ASSUME DeliveryBound == MaxDeliveries \in Nat \ {0}

VARIABLES
    content,     \* what each message carries; never changes
    status,      \* where each message is in its life
    deliveries,  \* JetStream's num_delivered of each message
    previewed,   \* the drawer ids a forget_drawers command was confirmed for
    drawers,     \* drawers in the vector store
    archived,    \* the drawers marked do_not_recall
    kgrows,      \* knowledge-graph statements, one per activation of a fact
    closed,      \* the statements whose interval has ended (valid_to set)
    redactedEvents, \* source events tombstoned in the decision store
    applied,     \* commands whose status ledger row says applied
    work,        \* what each worker is doing
    crashes, fails  \* how many more crashes and raising calls there may be

storeVars == <<drawers, archived, kgrows, closed>>
queueVars == <<status, deliveries, applied>>
boundVars == <<crashes, fails>>
vars == <<ledgerVars, content, queueVars, previewed, storeVars, redactedEvents, work, boundVars>>

Terminal == {"acked", "rejected", "dead"}
Status == {"unsent", "queued", "held"} \cup Terminal

\* A drawer's id hashes its room, which names the projection, and its text,
\* which is the message's own wording.
Drawer == [fact : Facts, activation : Nat, text : Msgs]
KgRow == [fact : Facts, activation : Nat]

NoReg ==
    [state |-> "active", pending |-> {}, evidence_created |-> FALSE, evidence_count |-> 0,
     activation |-> 1, reactivation_pending |-> FALSE]

Idle ==
    [pc |-> "idle", msg |-> NoMsg,
     fact |-> NoFact,      \* the fact being ended
     matched |-> FALSE,    \* the ledger knows that fact
     reg |-> NoReg,        \* the registration of the fact being asserted
     plan |-> "register",  \* how an update will register
     seen |-> {},          \* drawers found by the last read
     missing |-> {},       \* targets to be marked pending again
     recovered |-> {},     \* targets found written though not marked
     facts |-> {},         \* the assertions being forgotten
     events |-> {},        \* the source events to redact
     failed |-> FALSE]     \* a step of this delivery raised

Init ==
    \E s \in Scenarios :
    /\ LedgerInit
    /\ content = s.content
    /\ status = [m \in Msgs |->
           IF content[m].kind \in {"forget_drawers", "none"} THEN "unsent" ELSE "queued"]
    /\ deliveries = [m \in Msgs |-> 0]
    /\ previewed = [m \in Msgs |-> {}]
    /\ drawers = {} /\ archived = {} /\ kgrows = {} /\ closed = {}
    /\ redactedEvents = {} /\ applied = {}
    /\ work = [w \in Workers |-> Idle]
    /\ crashes = s.crashes /\ fails = s.fails

----------------------------------------------------------------------------
(* Stores.                                                                  *)

DrawersOf(F) == {d \in drawers : d.fact \in F}

\* get_by_source_turn_id("canonical:<projection id>"), archived or not.
ProjectionDrawers(f, a) == {d \in drawers : d.fact = f /\ d.activation = a}

\* The statements of F that are still valid; query_entity sees only these.
OpenRows(F) == {r \in kgrows \ closed : r.fact \in F}

\* Writing a drawer whose id is already present leaves it as it is, archived
\* or not.
IngestDrawer(d) ==
    /\ drawers' = drawers \cup {d}
    /\ UNCHANGED <<archived, kgrows, closed>>

ArchiveDrawers(D) ==
    /\ archived' = archived \cup (D \cap drawers)
    /\ UNCHANGED <<drawers, kgrows, closed>>

DeleteDrawers(D) ==
    /\ drawers' = drawers \ D
    /\ archived' = archived \ D
    /\ UNCHANGED <<kgrows, closed>>

\* add_triple: the projection id is the idempotency key; an identical
\* statement that is still open is the same statement.
AddTriple(f, a) ==
    /\ kgrows' = IF OpenRows({f}) = {}
                 THEN kgrows \cup {[fact |-> f, activation |-> a]} ELSE kgrows
    /\ UNCHANGED <<drawers, archived, closed>>

InvalidateTriple(F) ==
    /\ closed' = closed \cup OpenRows(F)
    /\ UNCHANGED <<drawers, archived, kgrows>>

\* forget_assertions: a soft forget ends the intervals, a hard one deletes.
ForgetAssertions(F, hard) ==
    IF hard
    THEN /\ kgrows' = {r \in kgrows : r.fact \notin F}
         /\ closed' = {r \in closed : r.fact \notin F}
         /\ UNCHANGED <<drawers, archived>>
    ELSE InvalidateTriple(F)

----------------------------------------------------------------------------
(* Worker steps.                                                            *)

Msg(w) == work[w].msg
Body(w) == content[Msg(w)]
IsTurn(w) == Body(w).kind = "turn"

At(w, pc) == work[w].pc = pc
Goto(w, pc) == work' = [work EXCEPT ![w] = [@ EXCEPT !.pc = pc]]

\* Where a turn goes once its invalidation is done with, or has failed.
AfterEnd(w) ==
    IF IsTurn(w) THEN (IF Body(w).adds = NoFact THEN "settle" ELSE "read_fact")
    ELSE IF Body(w).kind = "update" THEN work[w].plan
    ELSE "settle"

\* A step raised: a turn collects the failure and goes on with its next
\* stage; a command gives up.
Ending == {"end_register", "end_find", "end_archive", "end_kg", "end_mark"}
\* Mutant: the exception is logged and forgotten.
RaiseRecordSwallowed(w) ==
    [work[w] EXCEPT !.seen = {},
        !.pc = IF IsTurn(w) /\ @ \in Ending THEN AfterEnd(w) ELSE "settle"]

RaiseRecord(w) ==
    [work[w] EXCEPT !.failed = TRUE, !.seen = {},
        !.pc = IF IsTurn(w) /\ @ \in Ending THEN AfterEnd(w) ELSE "settle"]
Raise(w) == work' = [work EXCEPT ![w] = RaiseRecord(w)]

\* MemoryIntentRejected: recorded as failed and acknowledged.
Reject(w) == Goto(w, "reject")

ledgerOnly == <<content, queueVars, previewed, storeVars, redactedEvents, boundVars>>
storeOnly == <<ledgerVars, content, queueVars, previewed, redactedEvents, boundVars>>
localOnly == <<ledgerVars, ledgerOnly>>

\* A confirmed preview names the drawers that are recallable at that moment.
Publish(m) ==
    LET ids == DrawersOf({content[m].adds}) \ archived
    IN /\ content[m].kind = "forget_drawers" /\ status[m] = "unsent" /\ ids # {}
       /\ previewed' = [previewed EXCEPT ![m] = ids]
       /\ status' = [status EXCEPT ![m] = "queued"]
       /\ UNCHANGED <<ledgerVars, content, deliveries, applied, storeVars, redactedEvents,
                      work, boundVars>>

\* Mutant: the delivery count is not read from the message.
TakeUncounted(w, m) ==
    /\ At(w, "idle") /\ status[m] = "queued" /\ content[m].worker = w
    /\ status' = [status EXCEPT ![m] = "held"]
    /\ work' = [work EXCEPT ![w] = [Idle EXCEPT !.pc = "start", !.msg = m]]
    /\ UNCHANGED <<ledgerVars, content, deliveries, applied, previewed, storeVars,
                   redactedEvents, boundVars>>

Take(w, m) ==
    /\ At(w, "idle") /\ status[m] = "queued" /\ content[m].worker = w
    /\ status' = [status EXCEPT ![m] = "held"]
    /\ deliveries' = [deliveries EXCEPT ![m] = @ + 1]
    /\ work' = [work EXCEPT ![w] = [Idle EXCEPT !.pc = "start", !.msg = m]]
    /\ UNCHANGED <<ledgerVars, content, applied, previewed, storeVars, redactedEvents, boundVars>>

\* A turn reads its decision; a redacted source event yields an empty one.
AfterDecision(w) ==
    IF Msg(w) \in redactedEvents THEN "settle"
    ELSE IF Body(w).ends # NoFact THEN "end_register"
    ELSE AfterEnd(w)

\* A command first asks the status ledger whether it was already applied.
AfterStatus(w) ==
    IF Msg(w) \in applied THEN "ack"
    ELSE CASE Body(w).kind = "assert" -> "register"
           [] Body(w).kind = "update" -> "read_fact"
           [] Body(w).kind = "correct" -> "end_register"
           [] OTHER -> "forget_resolve"

Start(w) ==
    /\ At(w, "start")
    /\ Goto(w, IF IsTurn(w) THEN AfterDecision(w) ELSE AfterStatus(w))
    /\ UNCHANGED localOnly

----------------------------------------------------------------------------
(* invalidate_exact_canonical_fact: for a turn, a correction, or the old    *)
(* value an explicit update supersedes.                                     *)

EndFact(w) == IF Body(w).kind = "update" THEN work[w].fact ELSE Body(w).ends
EndId(w) == <<Msg(w), EndFact(w)>>
EndResult(w) == IF Body(w).kind = "update" THEN "superseded" ELSE "invalidated"

\* Mutant: an invalidation that is registered counts as applied, so a
\* redelivery skips what the crash left undone.
EndRegisterOnce(w) ==
    /\ At(w, "end_register")
    /\ LET i == EndId(w)
           f == EndFact(w)
           res == RegisterInvalidationResult(i, f)
       IN IF RegisterInvalidationRaises(i, f, EndResult(w))
          THEN Raise(w) /\ UNCHANGED ledgerVars
          ELSE /\ RegisterInvalidation(i, f, EndResult(w))
               /\ IF Exists(f) /\ invalidations[i].state # "none" THEN Goto(w, AfterEnd(w))
                  ELSE work' = [work EXCEPT ![w] = [@ EXCEPT
                           !.pc = "end_find", !.fact = f, !.matched = res.matched,
                           !.reg = [NoReg EXCEPT !.activation = res.activation]]]
    /\ UNCHANGED ledgerOnly

EndRegister(w) ==
    /\ At(w, "end_register")
    /\ LET i == EndId(w)
           f == EndFact(w)
           res == RegisterInvalidationResult(i, f)
       IN IF RegisterInvalidationRaises(i, f, EndResult(w))
          THEN Raise(w) /\ UNCHANGED ledgerVars
          ELSE /\ RegisterInvalidation(i, f, EndResult(w))
               /\ IF res.applied THEN Goto(w, AfterEnd(w))
                  ELSE work' = [work EXCEPT ![w] = [@ EXCEPT
                           !.pc = "end_find", !.fact = f, !.matched = res.matched,
                           !.reg = [NoReg EXCEPT !.activation = res.activation]]]
    /\ UNCHANGED ledgerOnly

\* The lookup is limited to one drawer of the projection.
EndFind(w) ==
    /\ At(w, "end_find")
    /\ LET found == ProjectionDrawers(work[w].fact, work[w].reg.activation)
       IN \/ /\ found = {}
             /\ Goto(w, "end_kg")
          \/ \E d \in found :
                 work' = [work EXCEPT ![w] = [@ EXCEPT
                     !.pc = IF d \in archived THEN "end_kg" ELSE "end_archive",
                     !.seen = {d}]]
    /\ UNCHANGED localOnly

\* "canonical drawer archive was not verified" if it is gone by now.
EndArchive(w) ==
    /\ At(w, "end_archive")
    /\ ArchiveDrawers(work[w].seen)
    /\ IF work[w].seen \subseteq drawers THEN Goto(w, "end_kg") ELSE Raise(w)
    /\ UNCHANGED storeOnly

EndKg(w) ==
    /\ At(w, "end_kg")
    /\ InvalidateTriple({work[w].fact})
    /\ IF work[w].matched THEN Goto(w, "end_mark")
       ELSE IF IsTurn(w) THEN Goto(w, AfterEnd(w))
       ELSE Reject(w)
    /\ UNCHANGED storeOnly

\* Mutant: the fact is marked although its invalidation row was scrubbed.
EndMarkBlind(w) ==
    /\ At(w, "end_mark")
    /\ asrt' = [asrt EXCEPT ![work[w].fact] =
           [asrt[work[w].fact] EXCEPT !.state = EndResult(w)]]
    /\ invalidations' = [invalidations EXCEPT ![EndId(w)] =
           IF @.state = "none" THEN @ ELSE [@ EXCEPT !.state = "applied"]]
    /\ work' = [work EXCEPT ![w] =
           [@ EXCEPT !.pc = AfterEnd(w), !.fact = NoFact, !.matched = FALSE,
                     !.seen = {}, !.reg = NoReg]]
    /\ UNCHANGED <<evidence, reactivations, forgets, ledgerOnly>>

EndMark(w) ==
    /\ At(w, "end_mark")
    /\ IF invalidations[EndId(w)].state = "none"        \* scrubbed meanwhile
       THEN Raise(w) /\ UNCHANGED ledgerVars
       ELSE /\ MarkInvalidated(EndId(w))
            /\ work' = [work EXCEPT ![w] =
                   [@ EXCEPT !.pc = AfterEnd(w), !.fact = NoFact, !.matched = FALSE,
                             !.seen = {}, !.reg = NoReg]]
    /\ UNCHANGED ledgerOnly

----------------------------------------------------------------------------
(* Asserting a fact.                                                        *)

\* get_fact, and for an update the slot it would replace.
ReadFact(w) ==
    /\ At(w, "read_fact")
    /\ LET f == Body(w).adds
           inactive == Exists(f) /\ asrt[f].state # "active"
           plan == IF inactive THEN "reactivate" ELSE "register"
           single == SlotOf[f] \in Single
           next == IF IsTurn(w) \/ asrt[f].state = "active" THEN plan
                   ELSE IF inactive THEN (IF single THEN "supersede" ELSE plan)
                   ELSE IF SlotOf[f] \in Replaceable THEN "supersede"
                   ELSE "reject"
       IN work' = [work EXCEPT ![w] = [@ EXCEPT !.plan = plan, !.pc = next]]
    /\ UNCHANGED localOnly

\* _supersede_explicit_single_slot: choose the one old value to end.
Supersede(w) ==
    /\ At(w, "supersede")
    /\ LET f == Body(w).adds
           different == ActiveForSlot(f) \ {f}
       IN \/ /\ different = {}
             /\ Goto(w, work[w].plan)
          \/ \E old \in different :
                 /\ SlotOf[f] \in Replaceable /\ different = {old} /\ f \notin ActiveForSlot(f)
                 /\ work' = [work EXCEPT ![w] = [@ EXCEPT !.fact = old, !.pc = "end_register"]]
          \/ /\ different # {}
             /\ \/ SlotOf[f] \notin Replaceable
                \/ Cardinality(different) > 1
                \/ f \in ActiveForSlot(f)
             /\ Reject(w)
    /\ UNCHANGED localOnly

\* Where a registration leads: nothing to do for a fact that has ended; a
\* turn checks or writes the drawer, a command first reads what is visible.
AfterRegister(w, reg) ==
    IF reg.state # "active" /\ ~reg.reactivation_pending THEN "settle"
    ELSE IF ~IsTurn(w)
         THEN IF reg.pending # Targets \/ ~reg.evidence_created \/ reg.evidence_count > 1
              THEN "look" ELSE "put_drawer"
    ELSE IF "drawer" \notin reg.pending \/ ~reg.evidence_created THEN "check_drawer"
    ELSE "put_drawer"

RegisterFact(w) ==
    /\ At(w, "register")
    /\ LET f == Body(w).adds
           reg == RegisterResult(Msg(w), f, Targets)
       IN IF RegisterRaises(Msg(w), f)
          THEN Raise(w) /\ UNCHANGED ledgerVars
          ELSE /\ Register(Msg(w), f, Targets)
               /\ work' = [work EXCEPT ![w] =
                      [@ EXCEPT !.reg = reg, !.pc = AfterRegister(w, reg)]]
    /\ UNCHANGED ledgerOnly

ReactivateFact(w) ==
    /\ At(w, "reactivate")
    /\ LET f == Body(w).adds
           reg == RegisterReactivationResult(Msg(w), f, Targets)
       IN IF RegisterReactivationRaises(Msg(w), f)
          THEN Raise(w) /\ UNCHANGED ledgerVars
          ELSE /\ RegisterReactivation(Msg(w), f, Targets)
               /\ work' = [work EXCEPT ![w] =
                      [@ EXCEPT !.reg = reg, !.pc = AfterRegister(w, reg)]]
    /\ UNCHANGED ledgerOnly

\* The step after the drawer is settled: a turn verifies the graph row unless
\* this is the first evidence of a fact not projected yet.
ToKg(w, reg) ==
    IF ~IsTurn(w) THEN (IF "kg" \in reg.pending THEN "put_kg"
                        ELSE IF reg.reactivation_pending THEN "finish_reactivation" ELSE "settle")
    ELSE IF "kg" \notin reg.pending \/ ~reg.evidence_created \/ reg.evidence_count > 1
         THEN "check_kg" ELSE "put_kg"

AfterKg(w) == IF work[w].reg.reactivation_pending THEN "finish_reactivation" ELSE "settle"

\* A turn's drawer check: present -> nothing to write; missing -> rewrite.
CheckDrawer(w) ==
    /\ At(w, "check_drawer")
    /\ LET found == ProjectionDrawers(Body(w).adds, work[w].reg.activation)
           pending == "drawer" \in work[w].reg.pending
       IN Goto(w, CASE found # {} /\ pending -> "mark_drawer"
                    [] found # {} /\ ~pending -> ToKg(w, work[w].reg)
                    [] found = {} /\ ~pending -> "reopen_drawer"
                    [] OTHER -> "put_drawer")
    /\ UNCHANGED localOnly

ReopenDrawer(w) ==
    /\ At(w, "reopen_drawer")
    /\ MarkProjectionPending(Body(w).adds, {"drawer"})
    /\ Goto(w, "put_drawer")
    /\ UNCHANGED ledgerOnly

\* A command's look at both projections, and what it does about them.
Look(w) ==
    /\ At(w, "look")
    /\ LET reg == work[w].reg
           f == Body(w).adds
           projected == Targets \ reg.pending
           asked == projected \cup (IF ~reg.evidence_created \/ reg.evidence_count > 1
                                    THEN reg.pending ELSE {})
           visible == {t \in asked : \/ t = "drawer" /\ ProjectionDrawers(f, reg.activation) # {}
                                     \/ t = "kg" /\ OpenRows({f}) # {}}
           missing == projected \ visible
       IN work' = [work EXCEPT ![w] = [@ EXCEPT
              !.reg = [reg EXCEPT !.pending = (reg.pending \cup missing) \ visible],
              !.missing = missing,
              !.recovered = visible \cap reg.pending,
              !.pc = "relook"]]
    /\ UNCHANGED localOnly

\* mark_projection_pending(missing), then mark_projected(recovered).
Relook(w) ==
    LET reg == work[w].reg
        f == Body(w).adds
        rest == IF "drawer" \in reg.pending THEN "put_drawer" ELSE ToKg(w, reg)
    IN /\ At(w, "relook")
       /\ IF work[w].missing # {}
          THEN /\ MarkProjectionPending(f, work[w].missing)
               /\ work' = [work EXCEPT ![w] = [@ EXCEPT !.missing = {}]]
          ELSE /\ IF work[w].recovered # {} THEN MarkProjected(f, work[w].recovered)
                  ELSE UNCHANGED ledgerVars
               /\ work' = [work EXCEPT ![w] = [@ EXCEPT !.recovered = {}, !.pc = rest]]
       /\ UNCHANGED ledgerOnly

\* Mutant: the drawer is bound to the assertion, not to this activation of it.
PutDrawerOfAssertion(w) ==
    /\ At(w, "put_drawer")
    /\ IngestDrawer([fact |-> Body(w).adds, activation |-> 1, text |-> Msg(w)])
    /\ Goto(w, "mark_drawer")
    /\ UNCHANGED storeOnly

PutDrawer(w) ==
    /\ At(w, "put_drawer")
    /\ IngestDrawer([fact |-> Body(w).adds, activation |-> work[w].reg.activation,
                     text |-> Msg(w)])
    /\ Goto(w, "mark_drawer")
    /\ UNCHANGED storeOnly

MarkDrawer(w) ==
    /\ At(w, "mark_drawer")
    /\ MarkProjected(Body(w).adds, {"drawer"})
    /\ Goto(w, ToKg(w, work[w].reg))
    /\ UNCHANGED ledgerOnly

\* _canonical_kg_visible: a turn's check of the graph row.
CheckKg(w) ==
    /\ At(w, "check_kg")
    /\ LET visible == OpenRows({Body(w).adds}) # {}
           pending == "kg" \in work[w].reg.pending
       IN Goto(w, CASE visible /\ pending -> "mark_kg"
                    [] visible /\ ~pending -> AfterKg(w)
                    [] ~visible /\ ~pending -> "reopen_kg"
                    [] OTHER -> "put_kg")
    /\ UNCHANGED localOnly

ReopenKg(w) ==
    /\ At(w, "reopen_kg")
    /\ MarkProjectionPending(Body(w).adds, {"kg"})
    /\ Goto(w, "put_kg")
    /\ UNCHANGED ledgerOnly

PutKg(w) ==
    /\ At(w, "put_kg")
    /\ AddTriple(Body(w).adds, work[w].reg.activation)
    /\ Goto(w, "mark_kg")
    /\ UNCHANGED storeOnly

MarkKg(w) ==
    /\ At(w, "mark_kg")
    /\ MarkProjected(Body(w).adds, {"kg"})
    /\ Goto(w, AfterKg(w))
    /\ UNCHANGED ledgerOnly

FinishReactivation(w) ==
    /\ At(w, "finish_reactivation")
    /\ IF MarkReactivatedRaises(Msg(w), Targets)
       THEN Raise(w) /\ UNCHANGED ledgerVars
       ELSE MarkReactivated(Msg(w), Targets) /\ Goto(w, "settle")
    /\ UNCHANGED ledgerOnly

----------------------------------------------------------------------------
(* forget_resolved_projections / forget_canonical_assertions.               *)

\* Drawer ids are resolved through the drawers that carry them, a source
\* event through the event tables of the ledger.
Resolved(w) ==
    IF Body(w).kind = "forget_drawers"
    THEN {d.fact : d \in previewed[Msg(w)] \cap drawers}
    ELSE {f \in Facts : \/ evidence[Body(w).source] = f
                        \/ reactivations[Body(w).source].fact = f
                        \/ invalidations[<<Body(w).source, f>>].fact = f}

ForgetResolve(w) ==
    /\ At(w, "forget_resolve")
    /\ IF Resolved(w) = {}
       THEN IF Body(w).kind = "forget_drawers" THEN Raise(w)  \* non-canonical drawer
            ELSE Goto(w, "forget_source")
       ELSE work' = [work EXCEPT ![w] =
                [@ EXCEPT !.facts = Resolved(w), !.pc = "forget_scan"]]
    /\ UNCHANGED localOnly

\* Every drawer of the assertions is listed before the tombstone is written.
ForgetScan(w) ==
    /\ At(w, "forget_scan")
    /\ work' = [work EXCEPT ![w] = [@ EXCEPT
           !.seen = DrawersOf(work[w].facts) \cup previewed[Msg(w)],
           !.pc = "forget_begin"]]
    /\ UNCHANGED localOnly

EventOf(i) == IF i \in Msgs THEN i ELSE i[1]

ForgetBegin(w) ==
    /\ At(w, "forget_begin")
    /\ BeginForget(work[w].facts, Body(w).hard, Targets)
    /\ work' = [work EXCEPT ![w] = [@ EXCEPT
           !.events = IF Body(w).hard THEN {EventOf(i) : i \in SourceIntents(work[w].facts)} ELSE {},
           !.pc = IF Body(w).hard THEN "forget_redact" ELSE "forget_kg"]]
    /\ UNCHANGED ledgerOnly

ForgetRedact(w) ==
    /\ At(w, "forget_redact")
    /\ redactedEvents' = redactedEvents \cup work[w].events
    /\ work' = [work EXCEPT ![w] = [@ EXCEPT !.events = {}, !.pc = "forget_scrub"]]
    /\ UNCHANGED <<ledgerVars, content, queueVars, previewed, storeVars, boundVars>>

ForgetScrub(w) ==
    /\ At(w, "forget_scrub")
    /\ ScrubForgottenContent(work[w].facts)
    /\ Goto(w, "forget_kg")
    /\ UNCHANGED ledgerOnly

ForgetKg(w) ==
    /\ At(w, "forget_kg")
    /\ ForgetAssertions(work[w].facts, Body(w).hard)
    /\ Goto(w, "forget_kg_mark")
    /\ UNCHANGED storeOnly

ForgetKgMark(w) ==
    /\ At(w, "forget_kg_mark")
    /\ MarkForgetProjected(work[w].facts, {"kg"})
    /\ Goto(w, "forget_drawers")
    /\ UNCHANGED ledgerOnly

ForgetDrawers(w) ==
    /\ At(w, "forget_drawers")
    /\ IF Body(w).hard THEN DeleteDrawers(work[w].seen) ELSE ArchiveDrawers(work[w].seen)
    /\ Goto(w, "forget_drawer_mark")
    /\ UNCHANGED storeOnly

ForgetDrawerMark(w) ==
    /\ At(w, "forget_drawer_mark")
    /\ MarkForgetProjected(work[w].facts, {"drawer"})
    /\ Goto(w, IF Body(w).kind = "forget_source" THEN "forget_source" ELSE "settle")
    /\ UNCHANGED ledgerOnly

\* redact_source_events of the erased events themselves.
ForgetSource(w) ==
    /\ At(w, "forget_source")
    /\ redactedEvents' = redactedEvents \cup {Body(w).source}
    /\ Goto(w, "settle")
    /\ UNCHANGED <<ledgerVars, content, queueVars, previewed, storeVars, boundVars>>

----------------------------------------------------------------------------
(* Settling a delivery.                                                     *)

\* Recording the status of a command is best effort: its errors are
\* swallowed, so the row may be missing afterwards.
Settle(w) ==
    /\ At(w, "settle")
    /\ IF work[w].failed
       THEN /\ status' = [status EXCEPT ![Msg(w)] =
                   IF deliveries[Msg(w)] >= MaxDeliveries THEN "dead" ELSE "queued"]
            /\ work' = [work EXCEPT ![w] = Idle]
            /\ UNCHANGED applied
       ELSE /\ IF IsTurn(w) THEN UNCHANGED applied
               ELSE applied' \in {applied, applied \cup {Msg(w)}}
            /\ Goto(w, "ack")
            /\ UNCHANGED status
    /\ UNCHANGED <<ledgerVars, content, deliveries, previewed, storeVars, redactedEvents, boundVars>>

Finish(w, pc, outcome) ==
    /\ At(w, pc)
    /\ status' = [status EXCEPT ![Msg(w)] = outcome]
    /\ work' = [work EXCEPT ![w] = Idle]
    /\ UNCHANGED <<ledgerVars, content, deliveries, applied, previewed, storeVars,
                   redactedEvents, boundVars>>

Ack(w) == Finish(w, "ack", "acked")
RejectAck(w) == Finish(w, "reject", "rejected")

\* A store call raises: SQLite busy, a failed vector write, an embedder or
\* LLM error.  The status read a command starts with is outside its try: if
\* that raises, the worker dies (Crash).
Fail(w) ==
    /\ work[w].pc \notin {"idle", "settle", "ack", "reject"}
    /\ At(w, "start") => IsTurn(w)
    /\ fails > 0
    /\ fails' = fails - 1
    /\ Raise(w)
    /\ UNCHANGED <<ledgerVars, content, queueVars, previewed, storeVars, redactedEvents, crashes>>

\* The process dies, or the subscriber loop cancels every worker to
\* reconnect: all local state is gone, held messages are redelivered.  The
\* messages fetched in the same batches were delivered once for nothing.
Crash ==
    /\ crashes > 0
    /\ \E w \in Workers : ~At(w, "idle")
    /\ crashes' = crashes - 1
    /\ work' = [w \in Workers |-> Idle]
    /\ status' = [m \in Msgs |-> IF status[m] = "held" THEN "queued" ELSE status[m]]
    /\ \E batch \in SUBSET {m \in Msgs : status[m] = "queued"} :
           deliveries' = [m \in Msgs |-> deliveries[m] + (IF m \in batch THEN 1 ELSE 0)]
    /\ UNCHANGED <<ledgerVars, content, applied, previewed, storeVars, redactedEvents, fails>>

\* Every stream is empty: the fetch times out and is issued again.
Quiet == \A m \in Msgs : status[m] \in Terminal \cup {"unsent"}
IdlePoll == Quiet /\ UNCHANGED vars

EndSteps(w) == EndRegister(w) \/ EndFind(w) \/ EndArchive(w) \/ EndKg(w) \/ EndMark(w)
AssertSteps(w) ==
    \/ ReadFact(w) \/ Supersede(w) \/ RegisterFact(w) \/ ReactivateFact(w)
    \/ CheckDrawer(w) \/ ReopenDrawer(w) \/ Look(w) \/ Relook(w) \/ PutDrawer(w) \/ MarkDrawer(w)
    \/ CheckKg(w) \/ ReopenKg(w) \/ PutKg(w) \/ MarkKg(w) \/ FinishReactivation(w)
ForgetSteps(w) ==
    \/ ForgetResolve(w) \/ ForgetScan(w) \/ ForgetBegin(w) \/ ForgetRedact(w) \/ ForgetScrub(w)
    \/ ForgetKg(w) \/ ForgetKgMark(w) \/ ForgetDrawers(w) \/ ForgetDrawerMark(w) \/ ForgetSource(w)

Step(w) ==
    \/ \E m \in Msgs : Take(w, m)
    \/ Start(w)
    \/ EndSteps(w)
    \/ AssertSteps(w)
    \/ ForgetSteps(w)
    \/ Settle(w) \/ Ack(w) \/ RejectAck(w)

Next ==
    \/ \E m \in Msgs : Publish(m)
    \/ \E w \in Workers : Step(w) \/ Fail(w)
    \/ Crash
    \/ IdlePoll

Fairness == \A w \in Workers : WF_vars(Step(w))

Spec == Init /\ [][Next]_vars /\ Fairness

----------------------------------------------------------------------------
(* Properties.                                                              *)

\* The stores hold what they may hold, an archived drawer or a closed row is
\* one that exists, and a message is held exactly while a worker works on it.
TypeOK ==
    /\ LedgerTypeOK
    /\ content \in [Msgs -> Content]
    /\ status \in [Msgs -> Status]
    /\ deliveries \in [Msgs -> Nat]
    /\ previewed \in [Msgs -> SUBSET Drawer]
    /\ drawers \subseteq Drawer /\ archived \subseteq drawers
    /\ kgrows \subseteq KgRow /\ closed \subseteq kgrows
    /\ redactedEvents \subseteq Msgs /\ applied \subseteq Msgs
    /\ \A w \in Workers : /\ Msg(w) \in Msgs \cup {NoMsg}
                          /\ work[w].pc = "idle" <=> Msg(w) = NoMsg
                          /\ Msg(w) # NoMsg => status[Msg(w)] = "held"

\* Every step of every worker is, on the ledger's tables, one ledger call or
\* none: what is proved of the ledger for any callers holds for the workers.
ImplementsLedger == LedgerSpec

\* inspect_materialization: what the ledger counts as not yet carried out.
Outstanding ==
    [projections |-> {f \in Facts : asrt[f].state = "active" /\ \E t \in Targets : asrt[f].proj[t] = "pending"},
     endings |-> {i \in DOMAIN invalidations : invalidations[i].state = "pending"},
     revivals |-> {i \in DOMAIN reactivations : reactivations[i].state = "pending"},
     forgets |-> {f \in Facts : \E t \in Targets : forgets[f].present /\ forgets[f].proj[t] = "pending"}]

\* What recall can still return of a fact.
Visible(f) == DrawersOf({f}) \ archived # {} \/ OpenRows({f}) # {}

\* No assertion is lost: an acknowledged turn or command that asserts a fact
\* has left its evidence, unless the fact or the turn itself was erased by a
\* hard forget.
AckedRecorded ==
    \A m \in Msgs :
        /\ status[m] = "acked"
        /\ content[m].kind \in {"turn", "assert", "update"} /\ content[m].adds # NoFact
        => \/ evidence[m] = content[m].adds
           \/ m \in redactedEvents
           \/ forgets[content[m].adds].hard

\* A fact is advertised as current and projected only when the projections of
\* its current life exist: whatever the workers interleave, a projected mark
\* of an active fact no privacy request has touched is backed by a drawer of
\* this activation and by a graph row of the fact.
ActiveBacked ==
    \A f \in Facts :
        asrt[f].state = "active" /\ ~forgets[f].present =>
            /\ asrt[f].proj["drawer"] = "projected"
               => ProjectionDrawers(f, asrt[f].activation_count) # {}
            /\ asrt[f].proj["kg"] = "projected"
               => \E r \in kgrows : r.fact = f

\* All that is said is said to one worker.
OneWorker ==
    \A m, n \in Msgs :
        content[m].kind # "none" /\ content[n].kind # "none" =>
            content[m].worker = content[n].worker

\* The status surface reports work outstanding for f.
Owed(f) ==
    \/ f \in Outstanding.projections \cup Outstanding.forgets
    \/ \E m \in Msgs : <<m, f>> \in Outstanding.endings
    \/ \E m \in Outstanding.revivals : reactivations[m].fact = f

\* Every message has been handled.  An update whose redelivery took another
\* way may have left its own ending or revival of f behind.
Handled(f) ==
    /\ \A m \in Msgs : status[m] \in {"acked", "rejected", "unsent"}
    /\ \A m \in Msgs : content[m].kind = "update" =>
           /\ <<m, f>> \notin Outstanding.endings
           /\ m \in Outstanding.revivals => reactivations[m].fact # f

\* No privacy request has touched f, or a message that spoke of it.
Spared(f) ==
    /\ ~forgets[f].present
    /\ \A m \in redactedEvents : evidence[m] # f /\ invalidations[<<m, f>>].state = "none"

\* No two messages brought f back into the same life.
RevivedApart(f) ==
    \A m, n \in Msgs :
        m # n /\ reactivations[m].fact = f /\ reactivations[n].fact = f =>
            reactivations[m].activation_number # reactivations[n].activation_number

\* No life of f has two drawers.
OneDrawer(f) == \A d, e \in DrawersOf({f}) : d.activation = e.activation => d = e

\* The messages that have ended f.
EndedBy(f) == {m \in Msgs : invalidations[<<m, f>>].state = "applied"}

\* Redelivery repairs every half-done write, and the status surface knows when:
\* when one worker handles the messages, what recall can return of a fact is
\* what the ledger says of it, both once every message has been handled and
\* whenever nothing about the fact is reported as outstanding.  Exactly the
\* active facts can be recalled, from both stores.  A fact that is current must
\* have been ended no more often than it came back, and one that is not must
\* not have two drawers of one life: README, section 7, tells what happens to
\* the others.
Converged ==
    OneWorker =>
        \A f \in Facts :
            Spared(f) /\ RevivedApart(f) /\ (~Owed(f) \/ Handled(f)) =>
                IF asrt[f].state = "active"
                THEN Cardinality(EndedBy(f)) < asrt[f].activation_count
                     => DrawersOf({f}) \ archived # {} /\ OpenRows({f}) # {}
                ELSE OneDrawer(f) => ~Visible(f)

\* Every message that reached a stream is eventually acknowledged, rejected or
\* dead-lettered, whatever crashes and raises on the way.
Settles == []<>Quiet

\* forget_canonical_assertions promises that a forgotten assertion cannot be
\* revived: once its tombstone is written, the assertion stays forgotten.
ForgottenStaysForgotten ==
    \A f \in Facts : forgets[f].present => asrt[f].state = "forgotten"

\* The ledger promises one active value per SINGLE slot, whatever order the
\* workers register and reactivate in.
SlotExclusive ==
    \A f, g \in Facts :
        /\ f # g /\ SlotOf[f] = SlotOf[g] /\ SlotOf[f] \in Single
        => ~(asrt[f].state = "active" /\ asrt[g].state = "active")

\* When every message is settled, nothing of a forgotten fact is recalled:
\* a redelivered privacy command resumes its outbox until both stores agree.
ForgottenInvisible ==
    Quiet => \A f \in Facts : asrt[f].state = "forgotten" => ~Visible(f)

=============================================================================
