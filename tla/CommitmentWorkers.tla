------------------------- MODULE CommitmentWorkers -------------------------
(***************************************************************************)
(* Commitments on their way through the workers: the command worker        *)
(* applies explicit commitment intents (application/commitments.py) and    *)
(* privacy commands, the turn worker the privacy requests of a             *)
(* conversation (application/steward/common.py); both run                  *)
(* forget_commitment_projections (application/forget.py).  The ledger      *)
(* calls are the actions of Commitments; the workers interleave at every   *)
(* await, and messages come back after a nak, a crash or a reconnect.      *)
(***************************************************************************)
EXTENDS Commitments

CONSTANTS
    Forgets,        \* privacy messages
    ForgetOf,       \* what each asks for
    NoMsg,
    Workers,        \* {"cmd", "turn"}
    TripleOf,       \* the graph statement a commitment is rendered as
    MaxDeliveries,  \* settings.nats.worker_max_deliveries
    Scenarios       \* which messages are sent, and with which faults (model only)

Msgs == Intents \cup Forgets

\* A forget names the commitment, one of its source events, or - said in a
\* turn - what the commitment is about, in words that also name its statement
\* in the graph or only part of it.
Forget ==
    [cid : Cids, hard : BOOLEAN, by : {"id", "source", "turn"}, source : Intents \cup {NoMsg},
     named : BOOLEAN]

ASSUME WorkerConstants ==
    /\ ForgetOf \in [Forgets -> Forget]
    /\ \A m \in Forgets : ForgetOf[m].by = "source" => ForgetOf[m].source \in Intents /\ ForgetOf[m].hard
    /\ Forgets \cap Intents = {} /\ NoMsg \notin Msgs
    /\ MaxDeliveries \in Nat \ {0}
    /\ Scenarios \subseteq [said : SUBSET Msgs, crashes : Nat, fails : Nat]

VARIABLES
    said,                   \* the messages that are sent; never changes
    status, deliveries,     \* of each message
    applied,                \* commands whose status row says applied
    drawers, archived,      \* drawers, and those marked do_not_recall
    rows, closed,           \* graph statements by commitment, and the ended ones
    redacted,               \* source events tombstoned in the decision store
    work,                   \* what each worker is doing
    crashes, fails          \* how many more crashes and raising calls there may be

queueVars == <<status, deliveries, applied>>
storeVars == <<drawers, archived, rows, closed>>
boundVars == <<said, crashes, fails>>
vars == <<ledgerVars, queueVars, storeVars, redacted, work, boundVars>>

MsgTerminal == {"acked", "rejected", "dead"}

\* text: the intent whose words the drawer holds.
Drawer == [cid : Cids, revision : Nat, text : Intents]

Idle ==
    [pc |-> "idle", msg |-> NoMsg,
     row |-> NoRecord,      \* the record apply returned
     cids |-> {},           \* the commitments being forgotten
     named |-> FALSE,       \* the phrase of a turn found a statement too
     count |-> 0,           \* the plan's revision_count
     sources |-> {},        \* the plan's source events
     seen |-> {},           \* drawers found by the last read
     failed |-> FALSE]

OnTurn(m) == m \in Forgets /\ ForgetOf[m].by = "turn"
WorkerOf(m) == IF OnTurn(m) THEN "turn" ELSE "cmd"

Init ==
    \E s \in Scenarios :
    /\ LedgerInit
    /\ said = s.said
    /\ status = [m \in Msgs |->
           IF m \notin said \/ (m \in Forgets /\ ForgetOf[m].by = "id") THEN "unsent" ELSE "queued"]
    /\ deliveries = [m \in Msgs |-> 0]
    /\ applied = {} /\ drawers = {} /\ archived = {} /\ rows = {} /\ closed = {}
    /\ redacted = {}
    /\ work = [w \in Workers |-> Idle]
    /\ crashes = s.crashes /\ fails = s.fails

----------------------------------------------------------------------------
(* Stores.                                                                  *)

RevisionDrawers(c, n) == {d \in drawers : d.cid = c /\ d.revision = n}

ArchiveDrawers(D) == archived' = archived \cup (D \cap drawers) /\ UNCHANGED drawers
DeleteDrawers(D) == drawers' = drawers \ D /\ archived' = archived \ D

\* The open statements that read like the one of c, whoever wrote them.
OpenLike(c) == {d \in rows \ closed : TripleOf[d] = TripleOf[c]}

\* add_triple with the commitment as its source: one statement per source,
\* and an identical open one is the same statement.
AddTriple(c) == rows' = IF OpenLike(c) = {} THEN rows \cup {c} ELSE rows

----------------------------------------------------------------------------
(* Worker steps.                                                            *)

Msg(w) == work[w].msg
Cid(w) == IntentOf[Msg(w)].cid
Row(w) == work[w].row
RowActive(w) == Row(w).status \in ActiveStatus

At(w, pc) == work[w].pc = pc
Goto(w, pc) == work' = [work EXCEPT ![w] = [@ EXCEPT !.pc = pc]]
Raise(w) == work' = [work EXCEPT ![w] = [@ EXCEPT !.pc = "settle", !.failed = TRUE]]

\* CommitmentConflict becomes MemoryIntentRejected.
Reject(w) == Goto(w, "reject")

ledgerOnly == <<queueVars, storeVars, redacted, boundVars>>
storeOnly == <<ledgerVars, queueVars, redacted, boundVars>>
localOnly == <<ledgerVars, ledgerOnly>>

\* list_for_privacy: a commitment under deletion is not offered again.
Listed(c) == Exists(c) /\ tombstones[c].action # "delete"

\* A privacy command is published for what its preview listed.
Publish(m) ==
    /\ m \in Forgets \cap said /\ status[m] = "unsent" /\ Listed(ForgetOf[m].cid)
    /\ status' = [status EXCEPT ![m] = "queued"]
    /\ UNCHANGED <<ledgerVars, deliveries, applied, storeVars, redacted, work, boundVars>>

Take(w, m) ==
    /\ At(w, "idle") /\ status[m] = "queued" /\ WorkerOf(m) = w
    /\ status' = [status EXCEPT ![m] = "held"]
    /\ deliveries' = [deliveries EXCEPT ![m] = @ + 1]
    /\ work' = [work EXCEPT ![w] = [Idle EXCEPT !.pc = "start", !.msg = m]]
    /\ UNCHANGED <<ledgerVars, applied, storeVars, redacted, boundVars>>

\* A command that was applied, and a turn whose event is redacted, are done.
Start(w) ==
    /\ At(w, "start")
    /\ Goto(w, CASE OnTurn(Msg(w)) /\ Msg(w) \in redacted -> "settle"
                 [] ~OnTurn(Msg(w)) /\ Msg(w) \in applied -> "ack"
                 [] Msg(w) \in Intents \ applied -> "apply"
                 [] OTHER -> "resolve")
    /\ UNCHANGED localOnly

----------------------------------------------------------------------------
(* apply_explicit_commitment                                                *)

\* A replay returns the current record, whatever revision it has reached.
ApplyIntent(w) ==
    /\ At(w, "apply")
    /\ IF ApplyRaises(Msg(w))
       THEN Reject(w) /\ UNCHANGED ledgerVars
       ELSE /\ Apply(Msg(w))
            /\ work' = [work EXCEPT ![w] = [@ EXCEPT !.row = commitments'[Cid(w)],
                   !.pc = IF commitments'[Cid(w)].revision > 1 THEN "previous"
                          ELSE "current"]]
    /\ UNCHANGED ledgerOnly

AfterPrevious(w) == IF RowActive(w) THEN "current" ELSE "look_kg"

\* Mutant: the previous rendering is left alone.
FindPreviousSkipped(w) ==
    /\ At(w, "previous")
    /\ Goto(w, AfterPrevious(w))
    /\ UNCHANGED localOnly

\* The rendering of the revision before this one is to be archived.
FindPrevious(w) ==
    /\ At(w, "previous")
    /\ LET found == RevisionDrawers(Cid(w), Row(w).revision - 1)
       IN \/ found = {} /\ Goto(w, AfterPrevious(w))
          \/ \E d \in found :
                 work' = [work EXCEPT ![w] = [@ EXCEPT !.seen = {d},
                     !.pc = IF d \in archived THEN AfterPrevious(w) ELSE "archive"]]
    /\ UNCHANGED localOnly

ArchivePrevious(w) ==
    /\ At(w, "archive")
    /\ ArchiveDrawers(work[w].seen)
    /\ IF work[w].seen \subseteq drawers THEN Goto(w, AfterPrevious(w)) ELSE Raise(w)
    /\ UNCHANGED <<rows, closed, storeOnly>>

FindCurrent(w) ==
    /\ At(w, "current")
    /\ Goto(w, IF RevisionDrawers(Cid(w), Row(w).revision) = {} THEN "put_drawer"
               ELSE "mark_drawer")
    /\ UNCHANGED localOnly

PutDrawer(w) ==
    /\ At(w, "put_drawer")
    /\ drawers' = drawers \cup
           {[cid |-> Cid(w), revision |-> Row(w).revision, text |-> Msg(w)]}
    /\ Goto(w, "mark_drawer")
    /\ UNCHANGED <<archived, rows, closed, storeOnly>>

Mark(w, pc, T, next) ==
    /\ At(w, pc)
    /\ IF MarkProjectedRaises(Cid(w), Row(w).revision)
       THEN Reject(w) /\ UNCHANGED ledgerVars
       ELSE MarkProjected(Cid(w), Row(w).revision, T) /\ Goto(w, next)
    /\ UNCHANGED ledgerOnly

MarkDrawer(w) == Mark(w, "mark_drawer", {"drawer"}, "look_kg")

LookKg(w) ==
    /\ At(w, "look_kg")
    /\ LET visible == OpenLike(Cid(w)) # {}
       IN Goto(w, CASE RowActive(w) /\ ~visible -> "add_kg"
                    [] ~RowActive(w) /\ visible -> "end_kg"
                    [] OTHER -> "mark_kg")
    /\ UNCHANGED localOnly

AddKg(w) ==
    /\ At(w, "add_kg")
    /\ AddTriple(Cid(w))
    /\ Goto(w, "mark_kg")
    /\ UNCHANGED <<drawers, archived, closed, storeOnly>>

EndKg(w) ==
    /\ At(w, "end_kg")
    /\ closed' = closed \cup OpenLike(Cid(w))
    /\ Goto(w, "mark_kg")
    /\ UNCHANGED <<drawers, archived, rows, storeOnly>>

MarkKg(w) == Mark(w, "mark_kg", {"kg"}, IF RowActive(w) THEN "settle" ELSE "mark_ended")
MarkEnded(w) == Mark(w, "mark_ended", {"drawer"}, "settle")

----------------------------------------------------------------------------
(* forget_resolved_projections, for commitments.                            *)

Hard(w) == ForgetOf[Msg(w)].hard

Resolved(w) ==
    LET f == ForgetOf[Msg(w)]
    IN CASE f.by = "id" -> {f.cid}
         [] f.by = "source" -> {revisions[f.source].cid} \ {NoCid}
         [] f.by = "turn" -> {c \in {f.cid} : Listed(c)}

ForgetResolve(w) ==
    /\ At(w, "resolve")
    /\ work' = [work EXCEPT ![w] = [@ EXCEPT !.cids = Resolved(w),
           !.pc = CASE OnTurn(Msg(w)) -> "statements"
                    [] ~OnTurn(Msg(w)) /\ Resolved(w) = {} -> "redact_event"
                    [] OTHER -> "begin"]]
    /\ UNCHANGED localOnly

\* A turn asks the graph too.  The statement of a commitment carries no
\* assertion id, so alone it is refused.
ForgetStatements(w) ==
    /\ At(w, "statements")
    /\ LET named == ForgetOf[Msg(w)].named /\ OpenLike(ForgetOf[Msg(w)].cid) # {}
       IN IF work[w].cids = {}
          THEN IF named THEN Raise(w) ELSE Goto(w, "redact_event")
          ELSE work' = [work EXCEPT ![w] = [@ EXCEPT !.named = named, !.pc = "begin"]]
    /\ UNCHANGED localOnly

\* Mutant: only this request decides whether the source events are redacted.
ForgetBeginOwnRequest(w) ==
    /\ At(w, "begin")
    /\ IF BeginForgetRaises(work[w].cids)
       THEN Raise(w) /\ UNCHANGED ledgerVars
       ELSE /\ BeginForget(work[w].cids, Hard(w))
            /\ \E c \in work[w].cids :
                   work' = [work EXCEPT ![w] = [@ EXCEPT
                       !.count = tombstones'[c].revision_count,
                       !.sources = IF Hard(w) THEN RevisionsOf(c) ELSE {},
                       !.pc = IF Hard(w) /\ RevisionsOf(c) # {} THEN "redact" ELSE "forget_kg"]]
    /\ UNCHANGED ledgerOnly

\* The plan of a delete, now or earlier, names the source events to redact.
ForgetBegin(w) ==
    /\ At(w, "begin")
    /\ IF BeginForgetRaises(work[w].cids)
       THEN Raise(w) /\ UNCHANGED ledgerVars
       ELSE /\ BeginForget(work[w].cids, Hard(w))
            /\ \E c \in work[w].cids :
                   LET sources == IF tombstones'[c].action = "delete" THEN RevisionsOf(c) ELSE {}
                   IN work' = [work EXCEPT ![w] = [@ EXCEPT
                          !.count = tombstones'[c].revision_count, !.sources = sources,
                          !.pc = IF sources = {} THEN "forget_kg" ELSE "redact"]]
    /\ UNCHANGED ledgerOnly

ForgetRedact(w) ==
    /\ At(w, "redact")
    /\ redacted' = redacted \cup work[w].sources
    /\ Goto(w, "forget_kg")
    /\ UNCHANGED <<ledgerVars, queueVars, storeVars, boundVars>>

\* forget_source_turns
ForgetKg(w) ==
    /\ At(w, "forget_kg")
    /\ IF Hard(w)
       THEN rows' = rows \ work[w].cids /\ closed' = closed \ work[w].cids
       ELSE closed' = closed \cup (rows \cap work[w].cids) /\ UNCHANGED rows
    /\ Goto(w, "forget_kg_mark")
    /\ UNCHANGED <<drawers, archived, storeOnly>>

ForgetKgMark(w) ==
    /\ At(w, "forget_kg_mark")
    /\ MarkForgetProjected(work[w].cids, {"kg"})
    /\ Goto(w, "scan")
    /\ UNCHANGED ledgerOnly

\* The revisions whose drawers are looked up, and the drawers there are.
Scanned(w) == 1 .. work[w].count
Findable(w) == {d \in drawers : d.cid \in work[w].cids /\ d.revision \in Scanned(w)}

\* One drawer is found for each revision that has any.
ForgetScan(w) ==
    /\ At(w, "scan")
    /\ \E D \in SUBSET Findable(w) :
           /\ \A d \in Findable(w) : Cardinality(D \cap RevisionDrawers(d.cid, d.revision)) = 1
           /\ work' = [work EXCEPT ![w] = [@ EXCEPT !.seen = D, !.pc = "forget_drawers"]]
    /\ UNCHANGED localOnly

ForgetDrawers(w) ==
    /\ At(w, "forget_drawers")
    /\ IF Hard(w) THEN DeleteDrawers(work[w].seen) ELSE ArchiveDrawers(work[w].seen)
    /\ Goto(w, "forget_drawer_mark")
    /\ UNCHANGED <<rows, closed, storeOnly>>

ForgetDrawerMark(w) ==
    /\ At(w, "forget_drawer_mark")
    /\ MarkForgetProjected(work[w].cids, {"drawer"})
    /\ Goto(w, "finalize")
    /\ UNCHANGED ledgerOnly

ForgetFinalize(w) ==
    /\ At(w, "finalize")
    /\ FinalizeForget(work[w].cids)
    /\ Goto(w, "checkpoint")
    /\ UNCHANGED ledgerOnly

\* The WAL checkpoint after the commit (it may raise because it is busy), and
\* the refusal of the statement that a turn found beside the commitment.
Checkpoint(w) ==
    /\ At(w, "checkpoint")
    /\ IF work[w].named THEN Raise(w)
       ELSE Goto(w, IF ForgetOf[Msg(w)].by = "id" THEN "settle" ELSE "redact_event")
    /\ UNCHANGED localOnly

\* The source event named by the command, or the turn itself.
RedactEvent(w) ==
    /\ At(w, "redact_event")
    /\ redacted' = redacted \cup
           {IF OnTurn(Msg(w)) THEN Msg(w) ELSE ForgetOf[Msg(w)].source}
    /\ Goto(w, "settle")
    /\ UNCHANGED <<ledgerVars, queueVars, storeVars, boundVars>>

----------------------------------------------------------------------------
(* Settling a delivery, as for facts.                                       *)

Settle(w) ==
    /\ At(w, "settle")
    /\ IF work[w].failed
       THEN /\ status' = [status EXCEPT ![Msg(w)] =
                   IF deliveries[Msg(w)] >= MaxDeliveries THEN "dead" ELSE "queued"]
            /\ work' = [work EXCEPT ![w] = Idle]
            /\ UNCHANGED applied
       ELSE /\ IF OnTurn(Msg(w)) THEN UNCHANGED applied
               ELSE applied' \in {applied, applied \cup {Msg(w)}}
            /\ Goto(w, "ack")
            /\ UNCHANGED status
    /\ UNCHANGED <<ledgerVars, deliveries, storeVars, redacted, boundVars>>

Finish(w, pc, outcome) ==
    /\ At(w, pc)
    /\ status' = [status EXCEPT ![Msg(w)] = outcome]
    /\ work' = [work EXCEPT ![w] = Idle]
    /\ UNCHANGED <<ledgerVars, deliveries, applied, storeVars, redacted, boundVars>>

Ack(w) == Finish(w, "ack", "acked")
RejectAck(w) == Finish(w, "reject", "rejected")

\* A store call raises something other than a conflict.
Fail(w) ==
    /\ work[w].pc \notin {"idle", "start", "settle", "ack", "reject"}
    /\ fails > 0
    /\ fails' = fails - 1
    /\ Raise(w)
    /\ UNCHANGED <<ledgerVars, queueVars, storeVars, redacted, said, crashes>>

\* The process dies or the subscriber loop reconnects: every worker is gone
\* and the messages they held come back.
Crash ==
    /\ crashes > 0
    /\ \E w \in Workers : ~At(w, "idle")
    /\ crashes' = crashes - 1
    /\ work' = [w \in Workers |-> Idle]
    /\ status' = [m \in Msgs |-> IF status[m] = "held" THEN "queued" ELSE status[m]]
    /\ UNCHANGED <<ledgerVars, deliveries, applied, storeVars, redacted, said, fails>>

Quiet == \A m \in Msgs : status[m] \in MsgTerminal \cup {"unsent"}
IdlePoll == Quiet /\ UNCHANGED vars

ApplySteps(w) ==
    \/ ApplyIntent(w) \/ FindPrevious(w) \/ ArchivePrevious(w) \/ FindCurrent(w) \/ PutDrawer(w)
    \/ MarkDrawer(w) \/ LookKg(w) \/ AddKg(w) \/ EndKg(w) \/ MarkKg(w) \/ MarkEnded(w)
ForgetSteps(w) ==
    \/ ForgetResolve(w) \/ ForgetStatements(w) \/ ForgetBegin(w) \/ ForgetRedact(w)
    \/ ForgetKg(w) \/ ForgetKgMark(w) \/ ForgetScan(w) \/ ForgetDrawers(w) \/ ForgetDrawerMark(w) \/ ForgetFinalize(w)
    \/ Checkpoint(w) \/ RedactEvent(w)

Step(w) ==
    \/ \E m \in Msgs : Take(w, m)
    \/ Start(w) \/ ApplySteps(w) \/ ForgetSteps(w)
    \/ Settle(w) \/ Ack(w) \/ RejectAck(w)

Next ==
    \/ \E m \in Msgs : Publish(m)
    \/ \E w \in Workers : Step(w) \/ Fail(w)
    \/ Crash
    \/ IdlePoll

Spec == Init /\ [][Next]_vars

----------------------------------------------------------------------------
(* Properties.                                                              *)

\* The stores hold what they may hold and a message is held exactly while a
\* worker works on it.
TypeOK ==
    /\ LedgerTypeOK
    /\ said \subseteq Msgs
    /\ status \in [Msgs -> {"unsent", "queued", "held"} \cup MsgTerminal]
    /\ deliveries \in [Msgs -> Nat]
    /\ applied \subseteq Msgs /\ redacted \subseteq Msgs
    /\ drawers \subseteq Drawer /\ archived \subseteq drawers
    /\ rows \subseteq Cids /\ closed \subseteq rows
    /\ \A w \in Workers : /\ Msg(w) \in Msgs \cup {NoMsg}
                          /\ At(w, "idle") <=> Msg(w) = NoMsg
                          /\ Msg(w) # NoMsg => status[Msg(w)] = "held"

Recallable(c) == {d \in drawers \ archived : d.cid = c}

\* No other commitment is rendered as the same statement.
ReadsApart(c) == \A d \in Cids : TripleOf[d] = TripleOf[c] => d = c

\* A commitment is never answered from a stale rendering: a projected mark of
\* an open commitment nobody has asked to forget is backed by a recallable
\* drawer of its current revision and, unless it shares its statement with
\* another, by its open statement.
CurrentBacked ==
    \A c \in Cids : Active(c) /\ ~Forgotten(c) =>
        /\ commitments[c].proj["drawer"] = "projected"
           => \E d \in Recallable(c) : d.revision = commitments[c].revision
        /\ commitments[c].proj["kg"] = "projected" /\ ReadsApart(c) => c \in rows \ closed

\* All that is said is said to one worker.
OneWorker == \A m, n \in said : WorkerOf(m) = WorkerOf(n)

\* Every message was handled, and none dead-lettered.
AllHandled == \A m \in Msgs : status[m] \in {"acked", "rejected", "unsent"}

\* What is to be recalled of a commitment, and what is not: an open one as it
\* now stands, a closed one not in its last words, a forgotten one not at all.
Shown(c) ==
    /\ \E d \in Recallable(c) : d.revision = commitments[c].revision
    /\ ReadsApart(c) => c \in rows \ closed
Ended(c) ==
    /\ \A d \in Recallable(c) : d.revision < commitments[c].revision
    /\ ReadsApart(c) => c \notin rows \ closed
Hidden(c) == Recallable(c) = {} /\ c \notin rows \ closed

\* Redelivery repairs every half-done write of the current revision: when
\* every message has been handled, an open commitment can be recalled from
\* both stores as it now stands, a closed one from neither, and the rendering
\* before the current one is archived; what one worker has forgotten can be
\* recalled from neither.
Converged ==
    AllHandled =>
        \A c \in Cids :
            IF Forgotten(c) THEN OneWorker => Hidden(c)
            ELSE /\ IF Active(c) THEN Shown(c) ELSE Ended(c)
                 /\ \A d \in Recallable(c) : d.revision + 1 # commitments[c].revision

\* What the repository says of a redelivery: nothing of an earlier revision is
\* left to recall (not checked: a revision that a crash skipped leaves one).
OnlyCurrent ==
    AllHandled => \A c \in Cids : ~Forgotten(c) =>
        \A d \in Recallable(c) : d.revision = commitments[c].revision

\* Nothing of a commitment remains but its tombstone, and the events it was
\* extracted from are redacted.
Erased(c) ==
    /\ ~Exists(c) /\ c \notin rows
    /\ \A d \in drawers : d.cid # c
    /\ \A i \in Intents : IntentOf[i].cid = c /\ status[i] = "acked" => i \in redacted

\* An interrupted delete is resumed to its end, when every message has been
\* handled.
EraseCompletes ==
    AllHandled => \A c \in Cids : tombstones[c].action = "delete" => Erased(c)

\* An archive of c that may run while the erasure of a source event of c waits
\* for its redelivery: it carries the delete to its end without deleting.
Softened(c) ==
    \E m, n \in said \cap Forgets :
        /\ ForgetOf[m].cid = c /\ ~ForgetOf[m].hard
        /\ ForgetOf[n].by = "source" /\ IntentOf[ForgetOf[n].source].cid = c

\* The same of the deletes that are asked for by command, when one worker
\* handles the commands of the space: by id, by source event, and after an
\* archive that has already closed both projections.
CommandEraseCompletes ==
    OneWorker /\ AllHandled =>
        \A c \in Cids : tombstones[c].action = "delete" /\ ~Softened(c) => Erased(c)

=============================================================================
