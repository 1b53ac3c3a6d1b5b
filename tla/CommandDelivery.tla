-------------------------- MODULE CommandDelivery --------------------------
(***************************************************************************)
(* The way of a command from the caller who publishes it to the answer the *)
(* caller gets: publish_with_status (application/command_delivery.py), the *)
(* command worker (process_command_message in turn_processor.py), the      *)
(* status projection (infrastructure/command_status.py) with the waiters   *)
(* on it, and the dead letters an operator replays or resolves             *)
(* (infrastructure/dlq.py, the dlq tools of entrypoints/mcp_server.py).    *)
(* What a command does to the memory is one step here; FactWorkers and     *)
(* CommitmentWorkers open it.                                              *)
(***************************************************************************)
EXTENDS Integers, FiniteSets, Sequences

CONSTANTS
    Commands,       \* request ids; each is published by one caller
    Askers,         \* other callers, who ask for the status of a command
    Operators,      \* callers of the dead-letter tools
    MaxDeliveries,  \* settings.nats.worker_max_deliveries
    PruneEvery,     \* prune_every_writes
    MaxRecords,     \* max_records
    MaxCopies,      \* bound on messages the broker stores (model only)
    MaxEntries,     \* bound on dead letters (model only)
    Scenarios       \* who takes part, and how many calls may fail (model only)

\* callers publish or ask, operators look after dead letters; faults bounds
\* the failing calls, reconnects and restarts.
Scenario == [callers : SUBSET (Commands \cup Askers), operators : SUBSET Operators, faults : Nat]

ASSUME DeliveryConstants ==
    /\ IsFiniteSet(Commands) /\ IsFiniteSet(Askers)
    /\ Commands \cap Askers = {}
    /\ MaxDeliveries \in Nat \ {0} /\ PruneEvery \in Nat \ {0} /\ MaxRecords \in Nat \ {0}
    /\ MaxCopies \in Nat /\ MaxEntries \in Nat
    /\ Scenarios \subseteq Scenario

VARIABLES
    row,        \* command_status: the status of each command, or "none"
    writes,     \* _writes_since_prune
    event,      \* _terminal_events
    late,       \* status writes whose task was cancelled and whose thread runs on
    copies,     \* messages on the broker
    done,       \* commands whose effect is in the memory
    refused,    \* commands the handler rejected
    dlq,        \* dead letters
    task,       \* the callers
    worker,     \* the command worker
    operator,
    faults, cut \* faults left, and whether one of them cancelled the worker

statusVars == <<row, writes>>
memoryVars == <<done, refused>>
faultVars == <<faults, cut>>
vars == <<statusVars, event, late, copies, memoryVars, dlq, task, worker, operator, faultVars>>

Terminal == {"applied", "failed"}
Status == {"accepted", "retrying"} \cup Terminal
Tasks == Commands \cup Askers

Copies == DOMAIN copies
Entries == DOMAIN dlq

IdleWorker == [pc |-> "idle", copy |-> 0, status |-> "none", next |-> "none"]
IdleOperator == [pc |-> "idle", entry |-> 0]

Init ==
    \E s \in Scenarios :
    /\ row = [c \in Commands |-> "none"] /\ writes = 0
    /\ event = [c \in Commands |-> "none"]
    /\ late = {} /\ done = {} /\ refused = {}
    /\ copies = <<>> /\ dlq = <<>>
    /\ \E asked \in [Askers \cap s.callers -> Commands] :
           task = [t \in Tasks |->
               [pc |-> IF t \in s.callers THEN "new" ELSE "done",
                of |-> IF t \in Commands THEN t     \* a publisher waits for its own command
                       ELSE IF t \in s.callers THEN asked[t] ELSE CHOOSE c \in Commands : TRUE,
                seen |-> "none", told |-> "none"]]
    /\ worker = IdleWorker
    /\ operator = [o \in Operators |->
           IF o \in s.operators THEN IdleOperator ELSE [IdleOperator EXCEPT !.pc = "away"]]
    /\ faults = s.faults /\ cut = FALSE

----------------------------------------------------------------------------
(* The status projection.                                                   *)

TerminalRows(r) == {c \in Commands : r[c] \in Terminal}

\* _prune_sync: expired terminal rows go (not the one just written), then the
\* oldest terminal rows over max_records.
Pruned(r, fresh) ==
    LET Without(S) == [c \in Commands |-> IF c \in S THEN "none" ELSE r[c]]
        Over(q) == Cardinality({c \in Commands : q[c] # "none"}) - MaxRecords
        Oldest(q, S) == /\ Cardinality(S) = Cardinality(TerminalRows(q)) \/ S \cap fresh = {}
                        /\ \/ Cardinality(S) = Over(q)
                           \/ S = TerminalRows(q) /\ Cardinality(S) < Over(q)
                           \/ S = {} /\ Over(q) <= 0
    IN UNION {{[c \in Commands |-> IF c \in S THEN "none" ELSE Without(expired)[c]] :
                   S \in {X \in SUBSET TerminalRows(Without(expired)) :
                              Oldest(Without(expired), X)}} :
              expired \in SUBSET (TerminalRows(r) \ fresh)}

\* A terminal outcome is not downgraded; a failed command may still be applied.
Keeps(c, status) ==
    \/ row[c] = "applied"
    \/ row[c] = "failed" /\ status # "applied"
    \/ status = "accepted" /\ row[c] \notin {"none", "accepted"}

\* _transition and the prune it may bring about.
Transition(c, status) ==
    IF Keeps(c, status) THEN UNCHANGED statusVars
    ELSE LET written == [row EXCEPT ![c] = status]
         IN IF writes + 1 >= PruneEvery
            THEN row' \in Pruned(written, {c}) /\ writes' = 0
            ELSE row' = written /\ writes' = writes + 1

\* _notify_terminal
Notify(c) == event' = [event EXCEPT ![c] = IF @ = "none" THEN @ ELSE "set"]

CanFault == faults > 0
Fault == CanFault /\ faults' = faults - 1 /\ UNCHANGED cut

\* A cancelled write commits in its thread, and nobody is notified.
LateCommit ==
    \E w \in late :
        /\ Transition(w.of, w.status)
        /\ late' = late \ {w}
        /\ UNCHANGED <<event, copies, memoryVars, dlq, task, worker, operator, faultVars>>

----------------------------------------------------------------------------
(* The broker.                                                              *)

Store(c) ==
    /\ Len(copies) < MaxCopies
    /\ copies' = Append(copies, [of |-> c, state |-> "queued", deliveries |-> 0])

\* A publish that raises: the broker may have stored the message or not.
PublishOutcome(c, raised) ==
    \/ Store(c)
    \/ raised /\ UNCHANGED copies

----------------------------------------------------------------------------
(* Callers: publish_with_status and wait_terminal.                          *)

At(t, pc) == task[t].pc = pc
Waiting == {"reread", "check", "wait", "last"}
Waiters(c) == {t \in Tasks : task[t].of = c /\ task[t].pc \in Waiting}

Goto(t, pc) == task' = [task EXCEPT ![t] = [@ EXCEPT !.pc = pc]]
Told(t, answer) ==
    task' = [task EXCEPT ![t] = [@ EXCEPT !.pc = "done", !.seen = "none", !.told = answer]]
See(t, pc) == task' = [task EXCEPT ![t] = [@ EXCEPT !.pc = pc, !.seen = row[task[t].of]]]

\* Nothing known: the publisher knows that its command was accepted.
Unrecorded(t) == IF t \in Commands THEN "accepted" ELSE "unknown"
Answer(t, status) == IF status = "none" THEN Unrecorded(t) ELSE status

\* The finally of wait_terminal: the last waiter removes the event.
Leave(t) ==
    event' = [event EXCEPT ![task[t].of] = IF Waiters(task[t].of) = {t} THEN "none" ELSE @]

callerOnly == <<late, memoryVars, dlq, worker, operator>>
untouched == <<statusVars, copies, faultVars, callerOnly>>

Publish(t) ==
    /\ At(t, "new") /\ t \in Commands
    /\ \E raised \in BOOLEAN :
           /\ PublishOutcome(t, raised)
           /\ IF raised THEN Fault /\ Goto(t, "fail") ELSE UNCHANGED faultVars /\ Goto(t, "accept")
    /\ UNCHANGED <<statusVars, event, callerOnly>>

RecordPublishFailed(t) ==
    /\ At(t, "fail")
    /\ \/ Transition(t, "failed") /\ Goto(t, "fail_notify") /\ UNCHANGED faultVars
       \/ Fault /\ Told(t, "publish_failed") /\ UNCHANGED statusVars
    /\ UNCHANGED <<event, copies, callerOnly>>

NotifyPublishFailed(t) ==
    /\ At(t, "fail_notify")
    /\ Notify(t)
    /\ Told(t, "publish_failed")
    /\ UNCHANGED untouched

\* record_accepted, best effort: the publish itself is durable.
RecordAccepted(t) ==
    /\ At(t, "accept")
    /\ \/ Transition(t, "accepted") /\ Goto(t, "read") /\ UNCHANGED faultVars
       \/ Fault /\ Told(t, "accepted") /\ UNCHANGED statusVars
    /\ UNCHANGED <<event, copies, callerOnly>>

\* command_status asks about an earlier command.
Ask(t) ==
    /\ At(t, "new") /\ t \in Askers
    /\ Goto(t, "read")
    /\ UNCHANGED <<event, untouched>>

Read(t) ==
    /\ At(t, "read")
    /\ See(t, "install")
    /\ UNCHANGED <<event, untouched>>

\* Mutant: the caller goes to wait without reading again.
InstallAndWait(t) ==
    /\ At(t, "install")
    /\ IF task[t].seen \in Terminal
       THEN Told(t, task[t].seen) /\ UNCHANGED event
       ELSE /\ Goto(t, "wait")
            /\ event' = [event EXCEPT ![task[t].of] = IF @ = "none" THEN "clear" ELSE @]
    /\ UNCHANGED untouched

\* With no time to wait the answer is what was read first.
Install(t) ==
    /\ At(t, "install")
    /\ \/ Told(t, Answer(t, task[t].seen)) /\ UNCHANGED event
       \/ /\ task[t].seen \notin Terminal
          /\ Goto(t, "reread")
          /\ event' = [event EXCEPT ![task[t].of] = IF @ = "none" THEN "clear" ELSE @]
    /\ UNCHANGED untouched

Reread(t) ==
    /\ At(t, "reread")
    /\ See(t, "check")
    /\ UNCHANGED <<event, untouched>>

Check(t) ==
    /\ At(t, "check")
    /\ IF task[t].seen \in Terminal
       THEN Told(t, task[t].seen) /\ Leave(t)
       ELSE Goto(t, "wait") /\ UNCHANGED event
    /\ UNCHANGED untouched

\* Woken, or out of time.
Wake(t) ==
    /\ At(t, "wait")
    /\ Goto(t, "last")
    /\ UNCHANGED <<event, untouched>>

LastRead(t) ==
    /\ At(t, "last")
    /\ Told(t, Answer(t, row[task[t].of]))
    /\ Leave(t)
    /\ UNCHANGED untouched

\* A read that raises.
ReadFails(t) ==
    /\ task[t].pc \in {"read", "reread", "last"}
    /\ Fault
    /\ Told(t, Unrecorded(t))
    /\ IF task[t].pc = "read" THEN UNCHANGED event ELSE Leave(t)
    /\ UNCHANGED <<statusVars, copies, callerOnly>>

----------------------------------------------------------------------------
(* The command worker.                                                      *)

Doing(pc) == worker.pc = pc
Copy == copies[worker.copy]
Go(pc) == worker' = [worker EXCEPT !.pc = pc]
SetCopy(state) == copies' = [copies EXCEPT ![worker.copy] = [@ EXCEPT !.state = state]]

workerOnly == <<late, dlq, task, operator>>

Take ==
    /\ Doing("idle")
    /\ \E m \in Copies :
           /\ copies[m].state = "queued"
           /\ copies' = [copies EXCEPT ![m] =
                  [copies[m] EXCEPT !.state = "held", !.deliveries = @ + 1]]
           /\ worker' = [IdleWorker EXCEPT !.pc = "look", !.copy = m]
    /\ UNCHANGED <<statusVars, event, memoryVars, faultVars, workerOnly>>

\* A redelivered command that was applied is acknowledged.
Look ==
    /\ Doing("look")
    /\ Go(IF row[Copy.of] = "applied" THEN "ack" ELSE "apply")
    /\ UNCHANGED <<statusVars, event, copies, memoryVars, faultVars, workerOnly>>

Record(status, next) ==
    worker' = [worker EXCEPT !.pc = "record", !.status = status, !.next = next]

\* Mutant: the status is reported before the handler has run.
ApplyReportsFirst ==
    /\ Doing("apply")
    /\ Record("applied", "ack")
    /\ UNCHANGED <<statusVars, event, copies, memoryVars, faultVars, workerOnly>>

\* Mutant: a delivery that is one too many is acknowledged with the others.
ApplyGivesUp ==
    /\ Doing("apply")
    /\ \/ /\ done' = done \cup {Copy.of}
          /\ Record("applied", "ack")
          /\ UNCHANGED <<refused, faultVars>>
       \/ /\ refused' = refused \cup {Copy.of}
          /\ Record("failed", "ack")
          /\ UNCHANGED <<done, faultVars>>
       \/ /\ Fault
          /\ IF Copy.deliveries >= MaxDeliveries THEN Record("failed", "ack")
             ELSE Record("retrying", "nak")
          /\ UNCHANGED memoryVars
    /\ UNCHANGED <<statusVars, event, copies, workerOnly>>

\* The command is carried out, rejected, or fails before or after its effect.
Apply ==
    /\ Doing("apply")
    /\ \/ /\ done' = done \cup {Copy.of}
          /\ Record("applied", "ack")
          /\ UNCHANGED <<refused, faultVars>>
       \/ /\ refused' = refused \cup {Copy.of}
          /\ Record("failed", "ack")
          /\ UNCHANGED <<done, faultVars>>
       \/ /\ Fault
          /\ done' \in {done, done \cup {Copy.of}}
          /\ IF Copy.deliveries >= MaxDeliveries THEN Record("failed", "dead")
             ELSE Record("retrying", "nak")
          /\ UNCHANGED refused
    /\ UNCHANGED <<statusVars, event, copies, workerOnly>>

\* _record_command_status: best effort, a write that raises is only logged.
RecordStatus ==
    /\ Doing("record")
    /\ \/ /\ Transition(Copy.of, worker.status)
          /\ Go(IF worker.status \in Terminal THEN "notify" ELSE worker.next)
          /\ UNCHANGED faultVars
       \/ Fault /\ Go(worker.next) /\ UNCHANGED statusVars
    /\ UNCHANGED <<event, copies, memoryVars, workerOnly>>

NotifyStatus ==
    /\ Doing("notify")
    /\ Notify(Copy.of)
    /\ Go(worker.next)
    /\ UNCHANGED <<statusVars, copies, memoryVars, faultVars, workerOnly>>

\* _record_dlq
DeadLetter ==
    /\ Doing("dead")
    /\ Len(dlq) < MaxEntries
    /\ dlq' = Append(dlq, [of |-> Copy.of, state |-> "unresolved"])
    /\ Go("ack")
    /\ UNCHANGED <<statusVars, event, copies, memoryVars, faultVars, late, task, operator>>

Ack ==
    /\ Doing("ack")
    /\ SetCopy("gone")
    /\ worker' = IdleWorker
    /\ UNCHANGED <<statusVars, event, memoryVars, faultVars, workerOnly>>

Nak ==
    /\ Doing("nak")
    /\ SetCopy("queued")
    /\ worker' = IdleWorker
    /\ UNCHANGED <<statusVars, event, memoryVars, faultVars, workerOnly>>

\* The subscriber loop loses its connection: the worker is cancelled where it
\* is, a status write it waits for goes on in its thread, the message is
\* delivered again.
Reconnect ==
    /\ ~Doing("idle")
    /\ CanFault /\ faults' = faults - 1 /\ cut' = TRUE
    /\ SetCopy("queued")
    /\ worker' = IdleWorker
    /\ late' = IF Doing("record") THEN late \cup {[of |-> Copy.of, status |-> worker.status]}
               ELSE late
    /\ UNCHANGED <<statusVars, event, memoryVars, dlq, task, operator>>

----------------------------------------------------------------------------
(* Dead letters.                                                            *)

SetEntry(e, state) == dlq' = [dlq EXCEPT ![e] = [@ EXCEPT !.state = state]]
Operating(o, pc) == operator[o].pc = pc
Then(o, pc) == operator' = [operator EXCEPT ![o] = [@ EXCEPT !.pc = pc]]
operatorOnly == <<statusVars, event, late, memoryVars, task, worker>>

\* Mutant: the entry is read first and claimed later.
ClaimRead(o) ==
    /\ Operating(o, "idle")
    /\ \E e \in Entries :
           /\ dlq[e].state \in {"unresolved", "replaying"}
           /\ SetEntry(e, "replaying")
           /\ operator' = [operator EXCEPT ![o] = [pc |-> "publish", entry |-> e]]
    /\ UNCHANGED <<copies, faultVars, operatorOnly>>

\* claim_replay: one conditional update.
Claim(o) ==
    /\ Operating(o, "idle")
    /\ \E e \in Entries :
           /\ dlq[e].state = "unresolved"
           /\ SetEntry(e, "replaying")
           /\ operator' = [operator EXCEPT ![o] = [pc |-> "publish", entry |-> e]]
    /\ UNCHANGED <<copies, faultVars, operatorOnly>>

Replay(o) ==
    /\ Operating(o, "publish")
    /\ \E raised \in BOOLEAN :
           /\ PublishOutcome(dlq[operator[o].entry].of, raised)
           /\ IF raised THEN Fault /\ Then(o, "release") ELSE UNCHANGED faultVars /\ Then(o, "mark")
    /\ UNCHANGED <<dlq, operatorOnly>>

\* mark_replayed and release_replay
FinishReplay(o, pc, state) ==
    /\ Operating(o, pc)
    /\ dlq[operator[o].entry].state = "replaying"
    /\ SetEntry(operator[o].entry, state)
    /\ operator' = [operator EXCEPT ![o] = IdleOperator]
    /\ UNCHANGED <<copies, faultVars, operatorOnly>>

MarkReplayed(o) == FinishReplay(o, "mark", "replayed")
ReleaseReplay(o) == FinishReplay(o, "release", "unresolved")

Resolve(e) ==
    /\ dlq[e].state # "replaying"
    /\ SetEntry(e, "resolved")
    /\ UNCHANGED <<copies, operator, faultVars, operatorOnly>>

----------------------------------------------------------------------------
\* The process dies and starts again: callers and threads are gone, claims
\* that were left behind are released, and terminal rows may be pruned.
Restart ==
    /\ CanFault /\ faults' = faults - 1 /\ cut' = TRUE
    /\ row' \in Pruned(row, {}) /\ writes' = 0
    /\ event' = [c \in Commands |-> "none"] /\ late' = {}
    /\ copies' = [m \in Copies |->
           IF copies[m].state = "held" THEN [copies[m] EXCEPT !.state = "queued"] ELSE copies[m]]
    /\ task' = [t \in Tasks |->
           [task[t] EXCEPT !.pc = "done", !.seen = "none"]]
    /\ worker' = IdleWorker
    /\ operator' = [o \in Operators |->
           IF Operating(o, "away") THEN operator[o] ELSE IdleOperator]
    /\ dlq' = [e \in Entries |->
           IF dlq[e].state = "replaying" THEN [dlq[e] EXCEPT !.state = "unresolved"] ELSE dlq[e]]
    /\ UNCHANGED memoryVars

CallerSteps(t) ==
    \/ Publish(t) \/ RecordPublishFailed(t) \/ NotifyPublishFailed(t) \/ RecordAccepted(t)
    \/ Ask(t) \/ Read(t) \/ Install(t) \/ Reread(t) \/ Check(t) \/ Wake(t) \/ LastRead(t)
    \/ ReadFails(t)
WorkerSteps ==
    \/ Take \/ Look \/ Apply \/ RecordStatus \/ NotifyStatus \/ DeadLetter \/ Ack \/ Nak
    \/ Reconnect
OperatorSteps(o) == Claim(o) \/ Replay(o) \/ MarkReplayed(o) \/ ReleaseReplay(o)

Next ==
    \/ \E t \in Tasks : CallerSteps(t)
    \/ WorkerSteps
    \/ \E o \in Operators : OperatorSteps(o)
    \/ \E e \in Entries : Resolve(e)
    \/ LateCommit
    \/ Restart

Spec == Init /\ [][Next]_vars

----------------------------------------------------------------------------
(* Properties.                                                              *)

\* Every variable holds a value of its type.
TypeOK ==
    /\ row \in [Commands -> Status \cup {"none"}] /\ writes \in 0 .. PruneEvery - 1
    /\ event \in [Commands -> {"none", "clear", "set"}]
    /\ late \subseteq [of : Commands, status : Status]
    /\ copies \in Seq([of : Commands, state : {"queued", "held", "gone"}, deliveries : Nat])
    /\ done \subseteq Commands /\ refused \subseteq Commands
    /\ dlq \in Seq([of : Commands,
                    state : {"unresolved", "replaying", "replayed", "resolved"}])
    /\ \A c \in Commands : event[c] # "none" <=> Waiters(c) # {}

\* A status can be lost but never claims too much: a command that is reported
\* as applied, in the projection or to a caller, has been applied.
AppliedTrue ==
    /\ \A c \in Commands : row[c] = "applied" => c \in done
    /\ \A t \in Tasks : task[t].told = "applied" => task[t].of \in done

CopiesOf(c, states) == {m \in Copies : copies[m].of = c /\ copies[m].state \in states}
EntriesOf(c, states) == {e \in Entries : dlq[e].of = c /\ dlq[e].state \in states}

\* No command the broker took is lost: it is applied, rejected, waiting on the
\* broker, or kept as a dead letter that an operator has not yet replayed.
NothingLost ==
    \A c \in Commands : (\E m \in Copies : copies[m].of = c) =>
        \/ c \in done \cup refused
        \/ CopiesOf(c, {"queued", "held"}) # {}
        \/ EntriesOf(c, {"unresolved", "replaying", "resolved"}) # {}

\* A caller does not sleep through the outcome it waits for: if it waits and
\* the outcome is recorded, it has been woken or somebody is about to wake it -
\* unless the worker was cancelled between the record and the wake-up, which
\* the caller's time limit makes good.
NoLostWakeup ==
    \A t \in Tasks : At(t, "wait") /\ row[task[t].of] \in Terminal /\ ~cut =>
        \/ event[task[t].of] = "set"
        \/ Doing("notify") /\ Copy.of = task[t].of
        \/ At(task[t].of, "fail_notify")

\* A dead letter is replayed by one operator at a time, and what an operator
\* has claimed nobody else finishes or resolves.
ClaimHeld ==
    \A o \in Operators : operator[o].entry # 0 =>
        /\ dlq[operator[o].entry].state = "replaying"
        /\ \A p \in Operators \ {o} : operator[p].entry # operator[o].entry

=============================================================================
