----------------------------- MODULE TurnIntake -----------------------------
(***************************************************************************)
(* How a turn gets in: live, or in a batch a device sends after it was     *)
(* offline.  Both ways share the steward's decision, which is stored once  *)
(* per turn and extractor version before anything is written from it; a    *)
(* privacy request redacts it.  Three tasks of one process take the        *)
(* messages: turns, sync batches, and the commands that erase a source.    *)
(*                                                                         *)
(* Here a decision carries texts (fragments) or a request to forget; what  *)
(* happens to structured facts, step by step, is in FactWorkers.  The      *)
(* steward is a language model: it may answer the same turn differently.   *)
(***************************************************************************)
EXTENDS Naturals, Sequences, FiniteSets, SequencesExt

CONSTANTS
    Turns, Fragments,
    Msgs, Content,   \* the messages, and what each of them says
    Says,            \* the decisions the steward may make of each turn
    MaxVersion,      \* extractor versions: a restart may bring the next one
    MaxDeliveries,   \* worker_max_deliveries
    None,
    Plans            \* messages that are published, and faults (model only)

Versions == 1 .. MaxVersion
Workers == {"turn", "sync", "cmd"}

\* target: the texts a request to forget matches.
Decision == [frags : Seq(Fragments), target : SUBSET Fragments]
Nothing == [frags |-> <<>>, target |-> {}]

Event == [id : Nat, hash : Nat, turn : Turns, input : Nat, valid : BOOLEAN]
Body ==
    [kind : {"turn"}, turn : Turns, input : Nat]
    \cup [kind : {"sync"}, events : Seq(Event), valid : BOOLEAN]
    \cup [kind : {"cmd"}, turn : Turns]
Plan == [msgs : SUBSET Msgs, crashes : Nat, fails : Nat, busy : Nat]

ASSUME IntakeConstants ==
    /\ \A m \in Msgs : Content[m] \in Body
    /\ \A t \in Turns : Says[t] # {} /\ Says[t] \subseteq Decision
    /\ MaxVersion \in Nat \ {0} /\ MaxDeliveries \in Nat \ {0}
    /\ Plans \subseteq Plan
    /\ None \notin [input : Nat, decision : Decision]

VARIABLES
    version,            \* extraction_version of the running steward
    stored, tomb,       \* extraction_decisions, extraction_privacy_tombstones
    wal,                \* turns whose decision may still be read in the WAL
    synced,             \* sync_events
    fact, pending,      \* the canonical ledger: states, and drawers owed
    evidence,           \* which turn supports which text
    drawers, archived,
    status, deliveries, \* the stream
    work,               \* what each task is doing
    used,               \* history: the decisions that texts were written from
    lost,               \* history: offline events that failed in a batch
    crashes, fails, busy

storeVars == <<stored, tomb, wal>>
ledgerVars == <<fact, pending, evidence, drawers, archived>>
queueVars == <<status, deliveries>>
historyVars == <<used, lost>>
budgetVars == <<crashes, fails, busy>>
vars == <<version, storeVars, synced, ledgerVars, queueVars, work, historyVars, budgetVars>>

Idle ==
    [pc |-> "idle", msg |-> None, pos |-> 0, decision |-> Nothing,
     todo |-> <<>>, batch |-> <<>>, found |-> {}, sources |-> {}]

Init ==
    \E p \in Plans :
        /\ version = 1
        /\ stored = [t \in Turns |-> [v \in Versions |-> None]]
        /\ tomb = {} /\ wal = {} /\ synced = {}
        /\ fact = [f \in Fragments |-> "none"]
        /\ pending = {} /\ evidence = {} /\ drawers = {} /\ archived = {}
        /\ status = [m \in Msgs |-> IF m \in p.msgs THEN "queued" ELSE "absent"]
        /\ deliveries = [m \in Msgs |-> 0]
        /\ work = [w \in Workers |-> Idle]
        /\ used = {} /\ lost = {}
        /\ crashes = p.crashes /\ fails = p.fails /\ busy = p.busy

----------------------------------------------------------------------------
(* Delivery.                                                                *)

Msg(w) == Content[work[w].msg]
EventOf(w) == Msg(w).events[work[w].pos]
TurnOf(w) == IF w = "sync" THEN EventOf(w).turn ELSE Msg(w).turn
InputOf(w) == IF w = "sync" THEN EventOf(w).input ELSE Msg(w).input

At(w, pc) == work[w].pc = pc
Step(w, r) == work' = [work EXCEPT ![w] = r]
Goto(w, pc) == Step(w, [work[w] EXCEPT !.pc = pc])

\* A sync batch starts before its first event.  One that does not parse, or
\* is another space's, is acknowledged.
Take(w, m) ==
    /\ At(w, "idle") /\ status[m] = "queued" /\ Content[m].kind = w
    /\ status' = [status EXCEPT ![m] = "held"]
    /\ deliveries' = [deliveries EXCEPT ![m] = @ + 1]
    /\ Step(w, [Idle EXCEPT !.msg = m,
            !.pc = CASE w = "turn" -> "get"
                     [] w = "cmd" -> "resolve"
                     [] OTHER -> IF Content[m].valid THEN "next" ELSE "ack"])
    /\ UNCHANGED <<version, storeVars, synced, ledgerVars, historyVars, budgetVars>>

Ack(w) ==
    /\ At(w, "ack")
    /\ status' = [status EXCEPT ![work[w].msg] = "acked"]
    /\ Step(w, Idle)
    /\ UNCHANGED <<version, storeVars, synced, ledgerVars, deliveries, historyVars, budgetVars>>

\* Mutant: a turn that was not absorbed is recorded all the same.
RaiseIgnored(w) ==
    IF w = "sync"
    THEN Goto(w, "mark_synced") /\ UNCHANGED <<status, historyVars>>
    ELSE /\ status' = [status EXCEPT ![work[w].msg] =
                 IF deliveries[work[w].msg] >= MaxDeliveries THEN "dead" ELSE "queued"]
         /\ Step(w, Idle)
         /\ UNCHANGED historyVars

\* An error: the turn or command is delivered again until the last time,
\* when it is a dead letter; an offline event is counted as failed and the
\* batch goes on, because the message that stands for its turn is delivered
\* once and nobody reads its NAK.
Raise(w) ==
    IF w = "sync"
    THEN /\ lost' = lost \cup {EventOf(w)}
         /\ Goto(w, "next")
         /\ UNCHANGED <<status, used>>
    ELSE /\ status' = [status EXCEPT ![work[w].msg] =
                 IF deliveries[work[w].msg] >= MaxDeliveries THEN "dead" ELSE "queued"]
         /\ Step(w, Idle)
         /\ UNCHANGED historyVars

----------------------------------------------------------------------------
(* _decide_once: read the store, ask the steward, store, and go on with     *)
(* what the store has.                                                      *)

Done(w) == IF w = "sync" THEN "mark_synced" ELSE "ack"

\* Privacy actions first; they leave nothing else to write.
Apply(w, d) ==
    Step(w, [work[w] EXCEPT
               !.decision = d,
               !.pc = IF d.target # {} THEN "resolve"
                      ELSE IF d.frags # <<>> THEN "register" ELSE Done(w),
               !.todo = d.frags, !.batch = <<>>])

GetDecision(w) ==
    /\ At(w, "get")
    /\ LET t == TurnOf(w)
           row == stored[t][version]
       IN CASE t \in tomb ->
                 /\ Apply(w, Nothing)
                 /\ UNCHANGED <<status, historyVars>>
            [] t \notin tomb /\ row = None ->
                 /\ Goto(w, "decide")
                 /\ UNCHANGED <<status, historyVars>>
            [] t \notin tomb /\ row # None ->
                 IF row.input # InputOf(w) THEN Raise(w)     \* ExtractionDecisionConflict
                 ELSE /\ Apply(w, row.decision)
                      /\ UNCHANGED <<status, historyVars>>
    /\ UNCHANGED <<version, storeVars, synced, ledgerVars, deliveries, budgetVars>>

StewardDecides(w) ==
    /\ At(w, "decide")
    /\ \E d \in Says[TurnOf(w)] : Step(w, [work[w] EXCEPT !.pc = "put", !.decision = d])
    /\ UNCHANGED <<version, storeVars, synced, ledgerVars, queueVars, historyVars, budgetVars>>

Record(w) == [input |-> InputOf(w), decision |-> work[w].decision]

\* Mutant: a row that is there is replaced by the newer answer.
PutIfAbsentUpsert(t, r) ==
    [store |-> IF t \in tomb THEN stored ELSE [stored EXCEPT ![t][version] = r],
     result |-> IF t \in tomb THEN [input |-> r.input, decision |-> Nothing] ELSE r,
     conflict |-> FALSE]

\* put_if_absent, one transaction: a tombstone yields an empty decision, a
\* row that is there is the answer, whoever stored it.
PutIfAbsent(t, r) ==
    LET row == stored[t][version]
        redacted == t \in tomb
    IN [store |-> IF redacted \/ row # None THEN stored
                  ELSE [stored EXCEPT ![t][version] = r],
        result |-> IF redacted THEN [input |-> r.input, decision |-> Nothing]
                   ELSE IF row = None THEN r ELSE row,
        conflict |-> ~redacted /\ row # None /\ row.input # r.input]

PutDecision(w) ==
    /\ At(w, "put")
    /\ LET put == PutIfAbsent(TurnOf(w), Record(w))
       IN /\ stored' = put.store
          /\ wal' = IF put.store = stored THEN wal ELSE wal \cup {TurnOf(w)}
          /\ IF put.conflict THEN Raise(w)
             ELSE /\ Apply(w, put.result.decision)
                  /\ UNCHANGED <<status, historyVars>>
    /\ UNCHANGED <<version, tomb, synced, ledgerVars, deliveries, budgetVars>>

----------------------------------------------------------------------------
(* Fragments: register all of them, write their drawers at once, and mark   *)
(* them one by one.                                                         *)

\* A text that was forgotten is refused, and the turn with it.  One that is
\* registered already needs its drawer only if that is owed or missing.
RegisterFragment(w) ==
    /\ At(w, "register")
    /\ LET f == Head(work[w].todo)
           rest == Tail(work[w].todo)
           owed == fact[f] = "none" \/ f \in pending \/ f \notin drawers
       IN IF fact[f] = "forgotten"
          THEN Raise(w) /\ UNCHANGED ledgerVars
          ELSE /\ fact' = [fact EXCEPT ![f] = "active"]
               /\ evidence' = evidence \cup {<<TurnOf(w), f>>}
               /\ pending' = IF owed THEN pending \cup {f} ELSE pending
               /\ Step(w, [work[w] EXCEPT !.todo = rest,
                             !.batch = IF owed THEN Append(@, f) ELSE @,
                             !.pc = IF rest = <<>> THEN "ingest" ELSE "register"])
               /\ used' = used \cup {<<TurnOf(w), version, work[w].decision>>}
               /\ UNCHANGED <<drawers, archived, status, lost>>
    /\ UNCHANGED <<version, storeVars, synced, deliveries, budgetVars>>

\* A drawer that is there already, archived or not, stays as it is.
IngestFragments(w) ==
    /\ At(w, "ingest")
    /\ drawers' = drawers \cup ToSet(work[w].batch)
    /\ Goto(w, IF work[w].batch = <<>> THEN Done(w) ELSE "mark")
    /\ UNCHANGED <<version, storeVars, synced, fact, pending, evidence, archived, queueVars,
                   historyVars, budgetVars>>

MarkFragment(w) ==
    /\ At(w, "mark")
    /\ pending' = pending \ {Head(work[w].batch)}
    /\ Step(w, [work[w] EXCEPT !.batch = Tail(@),
                               !.pc = IF Len(work[w].batch) = 1 THEN Done(w) ELSE "mark"])
    /\ UNCHANGED <<version, storeVars, synced, fact, evidence, drawers, archived, queueVars,
                   historyVars, budgetVars>>

----------------------------------------------------------------------------
(* Forgetting: what a turn asks for, and the erasure of a source event.     *)

\* A turn's target is looked up in the drawers; one match is deleted, more
\* are archived.  A source event is looked up in the evidence and deleted.
Resolve(w) ==
    /\ At(w, "resolve")
    /\ LET found == IF w = "cmd" THEN {f \in Fragments : <<Msg(w).turn, f>> \in evidence}
                    ELSE drawers \cap work[w].decision.target
       IN Step(w, [work[w] EXCEPT !.found = found,
                                  !.pc = IF found = {} THEN "own" ELSE "tombstone"])
    /\ UNCHANGED <<version, storeVars, synced, ledgerVars, queueVars, historyVars, budgetVars>>

Hard(w) == w = "cmd" \/ Cardinality(work[w].found) = 1

\* begin_forget; its plan names the turns behind the texts.
Tombstone(w) ==
    /\ At(w, "tombstone")
    /\ LET F == work[w].found
           sources == {t \in Turns : \E f \in F : <<t, f>> \in evidence}
       IN /\ fact' = [f \in Fragments |-> IF f \in F THEN "forgotten" ELSE fact[f]]
          /\ pending' = pending \ F
          /\ Step(w, [work[w] EXCEPT !.sources = sources,
                        !.pc = IF ~Hard(w) THEN "drawers"
                               ELSE IF sources = {} THEN "scrub" ELSE "redact"])
    /\ UNCHANGED <<version, storeVars, synced, evidence, drawers, archived, queueVars,
                   historyVars, budgetVars>>

\* Mutant: only the rows of the running extractor version are deleted.
RedactedCurrentVersion(T) ==
    [t \in Turns |-> IF t \in T THEN [stored[t] EXCEPT ![version] = None] ELSE stored[t]]

Redacted(T) == [t \in Turns |-> IF t \in T THEN [v \in Versions |-> None] ELSE stored[t]]

\* redact_source_events: the tombstones and the deletions in one transaction,
\* then the checkpoint that empties the WAL, which a reader can hold up.
RedactSourceEvents(w, T, pc) ==
    /\ stored' = Redacted(T)
    /\ tomb' = tomb \cup T
    /\ Goto(w, pc)
    /\ UNCHANGED <<version, wal, synced, ledgerVars, queueVars, historyVars, budgetVars>>

RedactSources(w) == At(w, "redact") /\ RedactSourceEvents(w, work[w].sources, "truncate")
RedactOwn(w) == At(w, "own") /\ RedactSourceEvents(w, {TurnOf(w)}, "truncate_own")

Truncate(w) ==
    /\ work[w].pc \in {"truncate", "truncate_own"}
    /\ \/ /\ wal' = {}
          /\ Goto(w, IF At(w, "truncate") THEN "scrub"
                     ELSE Done(w))
          /\ UNCHANGED <<status, historyVars, busy>>
       \/ /\ busy > 0
          /\ busy' = busy - 1
          /\ Raise(w)                       \* the checkpoint remained busy
          /\ UNCHANGED wal
    /\ UNCHANGED <<version, stored, tomb, synced, ledgerVars, deliveries, crashes, fails>>

ScrubContent(w) ==
    /\ At(w, "scrub")
    /\ evidence' = {e \in evidence : e[2] \notin work[w].found}
    /\ Goto(w, "drawers")
    /\ UNCHANGED <<version, storeVars, synced, fact, pending, drawers, archived, queueVars,
                   historyVars, budgetVars>>

ForgetDrawers(w) ==
    /\ At(w, "drawers")
    /\ drawers' = IF Hard(w) THEN drawers \ work[w].found ELSE drawers
    /\ archived' = IF Hard(w) THEN archived \ work[w].found
                   ELSE archived \cup (work[w].found \cap drawers)
    /\ Goto(w, "own")
    /\ UNCHANGED <<version, storeVars, synced, fact, pending, evidence, queueVars,
                   historyVars, budgetVars>>

----------------------------------------------------------------------------
(* process_sync_message and the sync ledger.                                *)

\* This event, or an identical payload, was applied.
Seen(e) == \E r \in synced : r.id = e.id \/ r.hash = e.hash

\* The next event of the batch.  The ledger is read outside the try.
NextEvent(w) ==
    /\ At(w, "next")
    /\ LET pos == work[w].pos + 1
           e == Msg(w).events[pos]
       IN IF pos > Len(Msg(w).events)
          THEN Goto(w, "ack") /\ UNCHANGED lost
          ELSE /\ lost' = IF Seen(e) \/ e.valid THEN lost ELSE lost \cup {e}
               /\ Step(w, [Idle EXCEPT !.msg = work[w].msg, !.pos = pos,
                             !.pc = IF Seen(e) \/ ~e.valid THEN "next" ELSE "get"])
    /\ UNCHANGED <<version, storeVars, synced, ledgerVars, queueVars, used, budgetVars>>

\* A row with the same event or the same payload is as good.
MarkSynced(w) ==
    /\ At(w, "mark_synced")
    /\ LET e == EventOf(w)
       IN synced' = IF Seen(e) THEN synced ELSE synced \cup {e}
    /\ Goto(w, "next")
    /\ UNCHANGED <<version, storeVars, ledgerVars, queueVars, historyVars, budgetVars>>

----------------------------------------------------------------------------
(* Faults.                                                                  *)

\* A store call or the steward raises.
Fail(w) ==
    /\ work[w].pc \notin {"idle", "next", "ack"}
    /\ fails > 0
    /\ fails' = fails - 1
    /\ Raise(w)
    /\ UNCHANGED <<version, storeVars, synced, ledgerVars, deliveries, crashes, busy>>

\* The process dies or reconnects: the tasks are gone, and what they held is
\* delivered again.  The next process may have the next extractor.
Crash ==
    /\ crashes > 0
    /\ crashes' = crashes - 1
    /\ version' \in {version, IF version < MaxVersion THEN version + 1 ELSE version}
    /\ status' = [m \in Msgs |-> IF status[m] = "held" THEN "queued" ELSE status[m]]
    /\ work' = [w \in Workers |-> Idle]
    /\ UNCHANGED <<storeVars, synced, ledgerVars, deliveries, historyVars, fails, busy>>

Decide(w) == GetDecision(w) \/ StewardDecides(w) \/ PutDecision(w)
Write(w) == RegisterFragment(w) \/ IngestFragments(w) \/ MarkFragment(w)
Forget(w) ==
    \/ Resolve(w) \/ Tombstone(w) \/ RedactSources(w) \/ RedactOwn(w) \/ Truncate(w)
    \/ ScrubContent(w) \/ ForgetDrawers(w)
Work(w) == Decide(w) \/ Write(w) \/ Forget(w) \/ NextEvent(w) \/ MarkSynced(w) \/ Ack(w)

Next ==
    \/ \E w \in Workers : (\E m \in Msgs : Take(w, m)) \/ Work(w) \/ Fail(w)
    \/ Crash

\* A task that has something to do goes on with it, and fetches.
Fairness ==
    \A w \in Workers : WF_vars(Work(w)) /\ \A m \in Msgs : WF_vars(Take(w, m))

Spec == Init /\ [][Next]_vars /\ Fairness

----------------------------------------------------------------------------
(* Properties.                                                              *)

TypeOK ==
    /\ version \in Versions
    /\ \A t \in Turns, v \in Versions :
          stored[t][v] # None => stored[t][v].decision \in Says[t]
    /\ tomb \subseteq Turns /\ wal \subseteq Turns
    /\ fact \in [Fragments -> {"none", "active", "forgotten"}]
    /\ pending \subseteq Fragments /\ archived \subseteq drawers /\ drawers \subseteq Fragments
    /\ evidence \subseteq Turns \X Fragments
    /\ status \in [Msgs -> {"absent", "queued", "held", "acked", "dead"}]

\* What is written from a turn comes from one decision for each extractor
\* version, however often the turn is delivered, live and in batches, at the
\* same time or after a crash, and whatever the steward answers each time.
OneDecision ==
    \A x, y \in used : x[1] = y[1] /\ x[2] = y[2] => x[3] = y[3]

\* Of a turn that is redacted no decision is in the store, of any extractor
\* version, although a worker may be storing one while it is redacted.
RedactedGone == \A t \in tomb, v \in Versions : stored[t][v] = None

\* The texts of the turn that were written and still count are in a drawer.
Kept(t) ==
    \/ t \in tomb
    \/ \E v \in Versions : stored[t][v] # None /\
          LET d == stored[t][v].decision
          IN d.target = {} /\ \A i \in 1 .. Len(d.frags) :
                fact[d.frags[i]] = "forgotten" \/ d.frags[i] \in drawers

\* A turn that is acknowledged, or an offline event that is recorded as
\* applied, is in memory: its texts have drawers, unless they or the turn
\* have been forgotten.
AbsorbedKept ==
    /\ \A m \in Msgs : Content[m].kind = "turn" /\ status[m] = "acked" => Kept(Content[m].turn)
    /\ \A r \in synced : Kept(r.turn)

\* Stated for the code: a redelivery finishes erasing the bytes.
WalErased ==
    \A m \in Msgs :
        status[m] = "acked" /\ Content[m].kind \in {"turn", "cmd"} /\ Content[m].turn \in tomb
            => Content[m].turn \notin wal

\* Stated for the code: an offline turn goes the way of any other, so one
\* that fails is delivered again or kept as a dead letter.
NoneLost ==
    \A m \in Msgs :
        Content[m].kind = "sync" /\ status[m] = "acked" =>
            \A e \in lost : e \notin ToSet(Content[m].events) \/ Seen(e)
=============================================================================
