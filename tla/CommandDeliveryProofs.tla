----------------------- MODULE CommandDeliveryProofs -----------------------
(***************************************************************************)
(* Proofs about CommandDelivery: no status claims too much, no command is  *)
(* lost, no caller sleeps through its outcome, no dead letter is replayed  *)
(* by two operators - for any callers, operators, limits and faults.       *)
(***************************************************************************)
EXTENDS CommandDelivery, SequenceTheorems, TLAPS

\* What a caller that takes no part asks about.
Nobody == CHOOSE c \in Commands : TRUE
MaybeStatus == Status \cup {"none"}
TaskPc == {"new", "fail", "fail_notify", "accept", "read", "install", "reread", "check", "wait",
           "last", "done"}
Replaying == {"publish", "mark", "release"}

Task == [pc : TaskPc, of : Commands \cup {Nobody}, seen : MaybeStatus,
         told : MaybeStatus \cup {"unknown", "publish_failed"}]
Worker == [pc : {"idle", "look", "apply", "record", "notify", "dead", "ack", "nak"}, copy : Nat,
           status : MaybeStatus, next : {"none", "ack", "nak", "dead"}]
Operator == [pc : {"idle", "away"} \cup Replaying, entry : Nat]
CopyOf == [of : Commands, state : {"queued", "held", "gone"}, deliveries : Nat]
Entry == [of : Commands, state : {"unresolved", "replaying", "replayed", "resolved"}]

\* The types of all variables, those TypeOK does not speak of too.
Typed ==
    /\ row \in [Commands -> MaybeStatus] /\ writes \in 0 .. PruneEvery - 1
    /\ event \in [Commands -> {"none", "clear", "set"}]
    /\ late \subseteq [of : Commands, status : Status]
    /\ copies \in Seq(CopyOf) /\ dlq \in Seq(Entry)
    /\ done \subseteq Commands /\ refused \subseteq Commands
    /\ task \in [Tasks -> Task] /\ worker \in Worker /\ operator \in [Operators -> Operator]
    /\ faults \in Nat /\ cut \in BOOLEAN

\* A caller that is under way asks about a command; publishers about their own.
Callers ==
    /\ \A t \in Tasks : task[t].pc # "done" => task[t].of \in Commands
    /\ \A c \in Commands : task[c].of = c
    /\ \A t \in Tasks : task[t].pc \in {"fail", "fail_notify", "accept"} => t \in Commands

\* The event of a command exists while somebody waits on it.
Events == \A c \in Commands : event[c] # "none" <=> Waiters(c) # {}

\* A worker that is not idle holds a message, and has something to record.
Held ==
    worker.pc # "idle" =>
        /\ worker.copy \in Copies /\ Copy.state = "held"
        /\ worker.pc \in {"record", "notify"} => worker.status \in Status /\ worker.next # "none"

\* An operator between claim and finish has a dead letter of its own.
Claims ==
    /\ \A o \in Operators :
           /\ operator[o].pc \in Replaying => operator[o].entry \in Entries
           /\ operator[o].pc \notin Replaying => operator[o].entry = 0
    /\ ClaimHeld

\* Whoever says "applied", or is about to, can point to the effect.
Applied ==
    /\ AppliedTrue
    /\ \A w \in late : w.status = "applied" => w.of \in done
    /\ \A t \in Tasks : task[t].seen = "applied" => task[t].of \in done
    /\ worker.pc \in {"record", "notify"} /\ worker.status = "applied" => Copy.of \in done

\* What keeps a command of which message x is settled: its outcome, another
\* message, or a dead letter that is not about to be marked as replayed.
Settled(c) == c \in done \cup refused
Stored(c, x) ==
    \E m \in Copies : m # x /\ copies[m].of = c /\ copies[m].state \in {"queued", "held"}
Marking(e) == \E o \in Operators : operator[o].pc = "mark" /\ operator[o].entry = e
Filed(c) ==
    \E e \in Entries :
        /\ dlq[e].of = c /\ dlq[e].state \in {"unresolved", "replaying", "resolved"}
        /\ ~Marking(e)
Safe(c, x) == Settled(c) \/ Stored(c, x) \/ Filed(c)

Accounted ==
    /\ \A m \in Copies, c \in Commands : copies[m].of = c => Safe(c, 0)
    /\ \A x \in Copies, c \in Commands :
           worker.pc = "ack" /\ worker.copy = x /\ Copy.of = c => Safe(c, x)
    /\ worker.pc \in {"record", "notify"} /\ worker.next = "ack" => Copy.of \in done \cup refused

\* Somebody has woken, or is about to wake, those who wait for command c.
Woken(c) ==
    \/ event[c] = "set"
    \/ Doing("notify") /\ Copy.of = c
    \/ At(c, "fail_notify")

\* A caller that has read too early, and has not yet gone to sleep, is woken too.
Awake ==
    ~cut =>
        /\ late = {}
        /\ \A t \in Tasks :
               /\ \/ At(t, "wait")
                  \/ At(t, "check") /\ task[t].seen \notin Terminal
               /\ row[task[t].of] \in Terminal
               => Woken(task[t].of)

\* The inductive invariant.
DeliveryInv ==
    Typed /\ Callers /\ Events /\ Held /\ Claims /\ Applied /\ Accounted /\ Awake

----------------------------------------------------------------------------
(* The operators of the model.                                              *)

\* Pruning removes rows and changes none.
LEMMA PrunedOnlyRemoves ==
    ASSUME NEW r \in [Commands -> MaybeStatus], NEW fresh, NEW q \in Pruned(r, fresh)
    PROVE  /\ q \in [Commands -> MaybeStatus]
           /\ \A c \in Commands : q[c] \in {r[c], "none"}
<1> DEFINE Without(S) == [c \in Commands |-> IF c \in S THEN "none" ELSE r[c]]
          Left(expired, S) == [c \in Commands |-> IF c \in S THEN "none" ELSE Without(expired)[c]]
          Over(p) == Cardinality({c \in Commands : p[c] # "none"}) - MaxRecords
          Oldest(p, S) == /\ Cardinality(S) = Cardinality(TerminalRows(p)) \/ S \cap fresh = {}
                          /\ \/ Cardinality(S) = Over(p)
                             \/ S = TerminalRows(p) /\ Cardinality(S) < Over(p)
                             \/ S = {} /\ Over(p) <= 0
          Choices(expired) ==
              {X \in SUBSET TerminalRows(Without(expired)) : Oldest(Without(expired), X)}
          Outcomes(expired) == {Left(expired, S) : S \in Choices(expired)}
<1>1. q \in UNION {Outcomes(expired) : expired \in SUBSET (TerminalRows(r) \ fresh)}
  BY DEF Pruned
<1> HIDE DEF Choices
<1>2. PICK expired \in SUBSET (TerminalRows(r) \ fresh) : q \in Outcomes(expired)
  BY <1>1
<1>3. PICK S \in Choices(expired) : q = Left(expired, S)
  BY <1>2
<1>4. \A c \in Commands : q[c] \in {r[c], "none"}
  BY <1>3
<1>5. q \in [Commands -> MaybeStatus]
  BY <1>3 DEF MaybeStatus
<1>6. QED
  BY <1>4, <1>5

\* A status write touches the row of its command; other rows may be pruned.
LEMMA TransitionEffect ==
    ASSUME row \in [Commands -> MaybeStatus], writes \in 0 .. PruneEvery - 1,
           NEW c \in Commands, NEW status \in Status, Transition(c, status)
    PROVE  /\ row' \in [Commands -> MaybeStatus] /\ writes' \in 0 .. PruneEvery - 1
           /\ \A d \in Commands : row'[d] \in {row[d], "none"} \/ (d = c /\ row'[d] = status)
<1> DEFINE written == [row EXCEPT ![c] = status]
<1>1. written \in [Commands -> MaybeStatus]
  BY DEF MaybeStatus
<1>2. \A d \in Commands : written[d] = row[d] \/ (d = c /\ written[d] = status)
  OBVIOUS
<1>3. CASE Keeps(c, status)
  BY <1>3 DEF Transition, statusVars
<1>4. CASE ~Keeps(c, status) /\ writes + 1 >= PruneEvery
  <2>1. row' \in Pruned(written, {c}) /\ writes' = 0
    BY <1>4 DEF Transition
  <2> HIDE DEF written
  <2>2. /\ row' \in [Commands -> MaybeStatus]
        /\ \A d \in Commands : row'[d] \in {written[d], "none"}
    BY <1>1, <2>1, PrunedOnlyRemoves
  <2>3. QED
    BY <1>2, <2>1, <2>2, DeliveryConstants
<1>5. CASE ~Keeps(c, status) /\ ~(writes + 1 >= PruneEvery)
  <2>1. row' = written /\ writes' = writes + 1
    BY <1>5 DEF Transition
  <2> HIDE DEF written
  <2>2. QED
    BY <1>1, <1>2, <1>5, <2>1, DeliveryConstants
<1>6. QED
  BY <1>3, <1>4, <1>5

\* A stored message comes after those there are.
LEMMA StoreEffect ==
    ASSUME copies \in Seq(CopyOf), NEW c \in Commands, Store(c)
    PROVE  /\ copies' \in Seq(CopyOf)
           /\ DOMAIN copies' = Copies \cup {Len(copies) + 1} /\ Len(copies) + 1 \notin Copies
           /\ Len(copies) + 1 # 0
           /\ copies'[Len(copies) + 1].of = c /\ copies'[Len(copies) + 1].state = "queued"
           /\ \A m \in Copies : copies'[m] = copies[m]
<1> DEFINE new == [of |-> c, state |-> "queued", deliveries |-> 0]
<1>1. new \in CopyOf
  BY DEF CopyOf
<1>2. copies' = Append(copies, new)
  BY DEF Store
<1>3. QED
  BY <1>1, <1>2, AppendProperties DEF Copies

\* The message the worker holds changes its state, and nothing else changes.
LEMMA SetCopyEffect ==
    ASSUME copies \in Seq(CopyOf), worker.copy \in Copies,
           NEW s \in {"queued", "held", "gone"}, SetCopy(s)
    PROVE  /\ copies' \in Seq(CopyOf) /\ DOMAIN copies' = Copies
           /\ copies'[worker.copy].of = Copy.of /\ copies'[worker.copy].state = s
           /\ \A m \in Copies : m # worker.copy => copies'[m] = copies[m]
           /\ \A m \in Copies : copies'[m].of = copies[m].of
<1>1. Copy \in CopyOf /\ worker.copy \in 1 .. Len(copies)
  BY DEF Copy, Copies
<1>2. [Copy EXCEPT !.state = s] \in CopyOf
  BY <1>1 DEF CopyOf
<1>3. copies' = [copies EXCEPT ![worker.copy] = [Copy EXCEPT !.state = s]]
  BY DEF SetCopy, Copy
<1>4. [Copy EXCEPT !.state = s].of = Copy.of /\ [Copy EXCEPT !.state = s].state = s
  BY <1>1 DEF CopyOf
<1> DEFINE changed == [Copy EXCEPT !.state = s]
<1>5. copies' = [copies EXCEPT ![worker.copy] = changed] /\ changed \in CopyOf
      /\ changed.of = Copy.of /\ changed.state = s
  BY <1>2, <1>3, <1>4
<1> HIDE DEF changed
<1>6. /\ copies' \in Seq(CopyOf) /\ Len(copies') = Len(copies)
      /\ \A m \in Copies : copies'[m] = IF m = worker.copy THEN changed ELSE copies[m]
  BY <1>1, <1>5, ExceptSeq DEF Copies
<1>7. QED
  BY <1>1, <1>5, <1>6 DEF Copies, Copy

\* A dead letter changes its state, and nothing else changes.
LEMMA SetEntryEffect ==
    ASSUME dlq \in Seq(Entry), NEW e \in Entries,
           NEW s \in {"unresolved", "replaying", "replayed", "resolved"}, SetEntry(e, s)
    PROVE  /\ dlq' \in Seq(Entry) /\ DOMAIN dlq' = Entries
           /\ dlq'[e].of = dlq[e].of /\ dlq'[e].state = s
           /\ \A d \in Entries : d # e => dlq'[d] = dlq[d]
<1>1. dlq[e] \in Entry /\ e \in 1 .. Len(dlq)
  BY DEF Entries
<1>2. [dlq[e] EXCEPT !.state = s] \in Entry
  BY <1>1 DEF Entry
<1>3. dlq' = [dlq EXCEPT ![e] = [dlq[e] EXCEPT !.state = s]]
  BY DEF SetEntry
<1>4. [dlq[e] EXCEPT !.state = s].of = dlq[e].of /\ [dlq[e] EXCEPT !.state = s].state = s
  BY <1>1 DEF Entry
<1> DEFINE changed == [dlq[e] EXCEPT !.state = s]
<1>5. changed \in Entry /\ dlq' = [dlq EXCEPT ![e] = changed]
      /\ changed.of = dlq[e].of /\ changed.state = s
  BY <1>2, <1>3, <1>4
<1> HIDE DEF changed
<1>6. /\ dlq' \in Seq(Entry) /\ Len(dlq') = Len(dlq)
      /\ \A d \in Entries : dlq'[d] = IF d = e THEN changed ELSE dlq[d]
  BY <1>1, <1>5, ExceptSeq DEF Entries
<1>7. QED
  BY <1>1, <1>5, <1>6 DEF Entries

\* Every message and every dead letter is about a command.
LEMMA OfCommand ==
    ASSUME Typed
    PROVE  /\ \A m \in Copies : copies[m] \in CopyOf /\ copies[m].of \in Commands
           /\ \A e \in Entries : dlq[e] \in Entry /\ dlq[e].of \in Commands
           /\ \A m \in Copies : m \in Nat /\ m # 0
           /\ \A e \in Entries : e \in Nat /\ e # 0
<1>1. copies \in Seq(CopyOf) /\ dlq \in Seq(Entry)
  BY DEF Typed
<1>2. /\ \A m \in Copies : copies[m] \in CopyOf /\ m \in Nat /\ m # 0
      /\ \A e \in Entries : dlq[e] \in Entry /\ e \in Nat /\ e # 0
  BY <1>1 DEF Copies, Entries
<1>3. QED
  BY <1>2 DEF CopyOf, Entry

----------------------------------------------------------------------------
(* What the callers may do.                                                 *)

\* What a caller may be told.
Answers == MaybeStatus \cup {"unknown", "publish_failed"}

\* Caller t goes to p and the others stay where they are.
Moves(t, p) ==
    /\ task' \in [Tasks -> Task]
    /\ task'[t].pc = p /\ task'[t].of = task[t].of
    /\ \A u \in Tasks \ {t} : task'[u] = task[u]

\* A caller goes on, and keeps what it has read.
LEMMA GotoEffect ==
    ASSUME task \in [Tasks -> Task], NEW t \in Tasks, NEW p \in TaskPc, Goto(t, p)
    PROVE  Moves(t, p) /\ task'[t].seen = task[t].seen /\ task'[t].told = task[t].told
<1> DEFINE r == [task[t] EXCEPT !.pc = p]
<1>1. /\ r \in Task /\ r.pc = p /\ r.of = task[t].of /\ r.seen = task[t].seen
      /\ r.told = task[t].told
  BY DEF Task
<1>2. task' = [task EXCEPT ![t] = r]
  BY DEF Goto
<1> HIDE DEF r
<1>3. QED
  BY <1>1, <1>2 DEF Moves

\* A caller has its answer.
LEMMA ToldEffect ==
    ASSUME task \in [Tasks -> Task], NEW t \in Tasks, NEW answer \in Answers, Told(t, answer)
    PROVE  Moves(t, "done") /\ task'[t].seen = "none" /\ task'[t].told = answer
<1> DEFINE r == [task[t] EXCEPT !.pc = "done", !.seen = "none", !.told = answer]
<1>1. /\ r \in Task /\ r.pc = "done" /\ r.of = task[t].of /\ r.seen = "none"
      /\ r.told = answer
  BY DEF Task, TaskPc, MaybeStatus, Answers
<1>2. task' = [task EXCEPT ![t] = r]
  BY DEF Told
<1> HIDE DEF r
<1>3. QED
  BY <1>1, <1>2 DEF Moves

\* A caller reads the row of its command.
LEMMA SeeEffect ==
    ASSUME task \in [Tasks -> Task], row \in [Commands -> MaybeStatus],
           NEW t \in Tasks, task[t].of \in Commands, NEW p \in TaskPc, See(t, p)
    PROVE  Moves(t, p) /\ task'[t].seen = row[task[t].of] /\ task'[t].told = task[t].told
<1> DEFINE r == [task[t] EXCEPT !.pc = p, !.seen = row[task[t].of]]
<1>1. /\ r \in Task /\ r.pc = p /\ r.of = task[t].of /\ r.seen = row[task[t].of]
      /\ r.told = task[t].told
  BY DEF Task
<1>2. task' = [task EXCEPT ![t] = r]
  BY DEF See
<1> HIDE DEF r
<1>3. QED
  BY <1>1, <1>2 DEF Moves

\* A step of caller t: it records at most its own outcome, stores at most one
\* message, repeats only what it has read, and goes to sleep only after a
\* second look that found nothing.
CallerMove(t) ==
    /\ UNCHANGED callerOnly /\ cut' = cut
    /\ task[t].pc # "done" /\ Moves(t, task'[t].pc)
    /\ task'[t].pc \in {"fail", "fail_notify", "accept"} => t \in Commands
    /\ copies' = copies \/ (task[t].pc = "new" /\ \E c \in Commands : Store(c))
    /\ \A d \in Commands :
           \/ row'[d] \in {row[d], "none", "accepted"}
           \/ d = t /\ row'[d] = "failed" /\ task'[t].pc = "fail_notify"
    /\ \/ task'[t].seen \in {task[t].seen, "none"}
       \/ task'[t].seen = row[task[t].of]
    /\ task'[t].told \in {task[t].told, task[t].seen, row[task[t].of],
                          "accepted", "unknown", "publish_failed"}
    /\ task'[t].pc = "check" => row' = row /\ task'[t].seen = row[task[t].of]
    /\ task'[t].pc = "wait" =>
           task[t].pc = "check" /\ task[t].seen \notin Terminal /\ row' = row

\* What a step of caller t does to the events.
CallerEvents(t) ==
    \/ /\ event' = event /\ (task[t].pc \in Waiting <=> task'[t].pc \in Waiting)
       /\ task[t].pc # "fail_notify"
    \/ /\ event' = [event EXCEPT ![task[t].of] = IF @ = "none" THEN "clear" ELSE @]
       /\ task[t].pc \notin Waiting /\ task'[t].pc \in Waiting
       /\ task[t].pc # "fail_notify"
    \/ Leave(t) /\ task[t].pc \in Waiting /\ task'[t].pc \notin Waiting
    \/ /\ task[t].pc = "fail_notify" /\ Notify(t)
       /\ task[t].pc \notin Waiting /\ task'[t].pc \notin Waiting

\* The variables a caller's step may change.
CallerTyped ==
    /\ row \in [Commands -> MaybeStatus] /\ writes \in 0 .. PruneEvery - 1
    /\ event \in [Commands -> {"none", "clear", "set"}]
    /\ copies \in Seq(CopyOf) /\ faults \in Nat /\ cut \in BOOLEAN

\* Every step of a caller is of that kind.
LEMMA CallerEffect ==
    ASSUME DeliveryInv, NEW t \in Tasks, CallerSteps(t)
    PROVE  Typed' /\ CallerMove(t) /\ CallerEvents(t)
<1> DEFINE Did == CallerTyped' /\ CallerMove(t) /\ CallerEvents(t)
<1>a. /\ task \in [Tasks -> Task] /\ CallerTyped
      /\ row \in [Commands -> MaybeStatus] /\ writes \in 0 .. PruneEvery - 1
      /\ event \in [Commands -> {"none", "clear", "set"}]
      /\ copies \in Seq(CopyOf) /\ faults \in Nat /\ cut \in BOOLEAN
  BY DEF DeliveryInv, Typed, CallerTyped
<1>b. /\ task[t].pc # "done" => task[t].of \in Commands
      /\ t \in Commands => task[t].of = t
      /\ task[t].pc \in {"fail", "fail_notify", "accept"} => t \in Commands
  BY DEF DeliveryInv, Callers
<1>c. \A p \in TaskPc : Goto(t, p) =>
          Moves(t, p) /\ task'[t].seen = task[t].seen /\ task'[t].told = task[t].told
  BY <1>a, GotoEffect
<1>d. \A x \in Answers : Told(t, x) =>
          Moves(t, "done") /\ task'[t].seen = "none" /\ task'[t].told = x
  BY <1>a, ToldEffect
<1>e. task[t].pc # "done" => \A p \in TaskPc : See(t, p) =>
          Moves(t, p) /\ task'[t].seen = row[task[t].of] /\ task'[t].told = task[t].told
  BY <1>a, <1>b, SeeEffect
<1>f. \A s \in Status : t \in Commands /\ Transition(t, s) =>
          /\ row' \in [Commands -> MaybeStatus] /\ writes' \in 0 .. PruneEvery - 1
          /\ \A d \in Commands : row'[d] \in {row[d], "none"} \/ (d = t /\ row'[d] = s)
  BY <1>a, TransitionEffect
<1>g. Fault => faults' \in Nat /\ cut' = cut
  BY <1>a DEF Fault, CanFault
<1>h. /\ \A c \in Commands : Notify(c) => event' \in [Commands -> {"none", "clear", "set"}]
      /\ task[t].pc # "done" /\ Leave(t) => event' \in [Commands -> {"none", "clear", "set"}]
  BY <1>a, <1>b DEF Notify, Leave
<1>i. \A c \in Commands : Store(c) => copies' \in Seq(CopyOf)
  BY <1>a, StoreEffect
<1> USE <1>a, <1>b, <1>c, <1>d, <1>e, <1>f, <1>g, <1>h, <1>i
    DEF At, untouched, callerOnly, statusVars, faultVars, memoryVars, CallerMove,
        CallerEvents, CallerTyped, Moves, TaskPc, Answers, Waiting, MaybeStatus, Status,
        Terminal, Answer, Unrecorded
<1>1. ASSUME Publish(t) PROVE Did
  BY <1>1 DEF Publish, PublishOutcome
<1>2. ASSUME RecordPublishFailed(t) PROVE Did
  BY <1>2 DEF RecordPublishFailed
<1>3. ASSUME NotifyPublishFailed(t) PROVE Did
  BY <1>3 DEF NotifyPublishFailed
<1>4. ASSUME RecordAccepted(t) PROVE Did
  BY <1>4 DEF RecordAccepted
<1>5. ASSUME Ask(t) PROVE Did
  BY <1>5 DEF Ask
<1>6. ASSUME Read(t) PROVE Did
  BY <1>6 DEF Read
<1>7. ASSUME Install(t) PROVE Did
  <2>1. CASE Told(t, Answer(t, task[t].seen)) /\ UNCHANGED event
    <3>1. task[t].seen \in MaybeStatus /\ Answer(t, task[t].seen) \in Answers
      BY <1>a DEF Task, Answer, Unrecorded, Answers, MaybeStatus, Status
    <3>2. QED
      BY <1>7, <2>1, <3>1 DEF Install
  <2>2. CASE Goto(t, "reread") /\ event' = [event EXCEPT ![task[t].of] = IF @ = "none" THEN "clear" ELSE @]
    <3>1. task[t].pc # "done" => event' \in [Commands -> {"none", "clear", "set"}]
      BY <1>a, <1>b, <2>2
    <3>2. QED
      BY <1>7, <2>2, <3>1 DEF Install
  <2>3. QED
    BY <1>7, <2>1, <2>2 DEF Install
<1>8. ASSUME Reread(t) PROVE Did
  BY <1>8 DEF Reread
<1>9. ASSUME Check(t) PROVE Did
  BY <1>9 DEF Check
<1>10. ASSUME Wake(t) PROVE Did
  BY <1>10 DEF Wake
<1>11. ASSUME LastRead(t) PROVE Did
  BY <1>11 DEF LastRead
<1>12. ASSUME ReadFails(t) PROVE Did
  BY <1>12 DEF ReadFails
<1>13. Did
  BY <1>1, <1>2, <1>3, <1>4, <1>5, <1>6, <1>7, <1>8, <1>9, <1>10, <1>11, <1>12 DEF CallerSteps
<1>14. Typed'
  BY <1>13, <1>a DEF DeliveryInv, Typed, CallerTyped, CallerMove, Moves, callerOnly, memoryVars
<1>15. QED
  BY <1>13, <1>14

----------------------------------------------------------------------------
(* What the worker may do.                                                  *)

WorkerPc == {"idle", "look", "apply", "record", "notify", "dead", "ack", "nak"}
NextPcs == {"none", "ack", "nak", "dead"}

\* The worker goes on with the message it holds.
LEMMA GoEffect ==
    ASSUME worker \in Worker, NEW p \in WorkerPc, Go(p)
    PROVE  /\ worker' \in Worker /\ worker'.pc = p /\ worker'.copy = worker.copy
           /\ worker'.status = worker.status /\ worker'.next = worker.next
<1>1. worker' = [worker EXCEPT !.pc = p]
  BY DEF Go
<1>2. QED
  BY <1>1 DEF Worker, WorkerPc

\* The worker goes to record a status, and knows what to do after that.
LEMMA RecordEffect ==
    ASSUME worker \in Worker, NEW s \in Status, NEW n \in NextPcs, Record(s, n)
    PROVE  /\ worker' \in Worker /\ worker'.pc = "record" /\ worker'.copy = worker.copy
           /\ worker'.status = s /\ worker'.next = n
<1>1. worker' = [worker EXCEPT !.pc = "record", !.status = s, !.next = n]
  BY DEF Record
<1>2. QED
  BY <1>1 DEF Worker, NextPcs, MaybeStatus

\* A message is taken: it is held, and the worker looks up its command.
LEMMA TakeEffect ==
    ASSUME copies \in Seq(CopyOf), Take
    PROVE  /\ copies' \in Seq(CopyOf) /\ DOMAIN copies' = Copies
           /\ worker' \in Worker /\ worker'.pc = "look" /\ worker'.copy \in Copies
           /\ copies'[worker'.copy].state = "held"
           /\ \A m \in Copies : copies'[m].of = copies[m].of
           /\ \A m \in Copies : copies'[m].state = copies[m].state
                                \/ (copies[m].state = "queued" /\ copies'[m].state = "held")
<1>1. PICK m \in Copies :
          /\ copies[m].state = "queued"
          /\ copies' = [copies EXCEPT ![m] =
                 [copies[m] EXCEPT !.state = "held", !.deliveries = copies[m].deliveries + 1]]
          /\ worker' = [IdleWorker EXCEPT !.pc = "look", !.copy = m]
  BY DEF Take
<1>2. m \in 1 .. Len(copies) /\ copies[m] \in CopyOf
  BY DEF Copies
<1> DEFINE n == copies[m].deliveries + 1
          r == [copies[m] EXCEPT !.state = "held", !.deliveries = n]
<1>3. r \in CopyOf /\ r.of = copies[m].of /\ r.state = "held"
  <2>1. n \in Nat
    BY <1>2 DEF CopyOf
  <2> HIDE DEF n
  <2>2. QED
    BY <1>2, <2>1 DEF CopyOf
<1>4. copies' = [copies EXCEPT ![m] = r]
  BY <1>1
<1> HIDE DEF r
<1>5. /\ copies' \in Seq(CopyOf) /\ Len(copies') = Len(copies)
      /\ \A k \in Copies : copies'[k] = IF k = m THEN r ELSE copies[k]
  BY <1>2, <1>3, <1>4, ExceptSeq DEF Copies
<1>6. worker' \in Worker /\ worker'.pc = "look" /\ worker'.copy = m
  <2>1. worker' = [pc |-> "look", copy |-> m, status |-> "none", next |-> "none"]
    BY <1>1 DEF IdleWorker
  <2>2. m \in Nat
    BY <1>2
  <2>3. QED
    BY <2>1, <2>2 DEF Worker, MaybeStatus
<1>7. QED
  BY <1>1, <1>2, <1>3, <1>5, <1>6 DEF Copies

\* The variables the worker changes keep their types, and it goes on holding
\* the message it works on.
WorkerTyped ==
    /\ CallerTyped
    /\ late \subseteq [of : Commands, status : Status] /\ dlq \in Seq(Entry)
    /\ done \subseteq Commands /\ refused \subseteq Commands
    /\ worker \in Worker

\* A step of the worker leaves it idle or with a message it holds, and callers
\* and operators alone.
LEMMA WorkerEffect ==
    ASSUME DeliveryInv, WorkerSteps
    PROVE  Typed' /\ Held' /\ UNCHANGED <<task, operator>>
<1> DEFINE Did == WorkerTyped' /\ Held' /\ UNCHANGED <<task, operator>>
<1>a. /\ worker \in Worker /\ WorkerTyped
      /\ row \in [Commands -> MaybeStatus] /\ writes \in 0 .. PruneEvery - 1
      /\ event \in [Commands -> {"none", "clear", "set"}]
      /\ copies \in Seq(CopyOf) /\ faults \in Nat /\ cut \in BOOLEAN
      /\ late \subseteq [of : Commands, status : Status] /\ dlq \in Seq(Entry)
      /\ done \subseteq Commands /\ refused \subseteq Commands
  BY DEF DeliveryInv, Typed, CallerTyped, WorkerTyped
<1>b. worker.pc # "idle" =>
          /\ worker.copy \in Copies /\ Copy.state = "held" /\ Copy.of \in Commands
          /\ worker.pc \in {"record", "notify"} => worker.status \in Status /\ worker.next # "none"
  BY OfCommand DEF DeliveryInv, Held, Copy
<1>c. \A p \in WorkerPc : Go(p) =>
          /\ worker' \in Worker /\ worker'.pc = p /\ worker'.copy = worker.copy
          /\ worker'.status = worker.status /\ worker'.next = worker.next
  BY <1>a, GoEffect
<1>d. \A s \in Status : \A n \in NextPcs : Record(s, n) =>
          /\ worker' \in Worker /\ worker'.pc = "record" /\ worker'.copy = worker.copy
          /\ worker'.status = s /\ worker'.next = n
  BY <1>a, RecordEffect
<1>e. \A s \in {"queued", "held", "gone"} : worker.pc # "idle" /\ SetCopy(s) =>
          copies' \in Seq(CopyOf)
  BY <1>a, <1>b, SetCopyEffect
<1>f. \A c \in Commands, s \in Status : Transition(c, s) =>
          row' \in [Commands -> MaybeStatus] /\ writes' \in 0 .. PruneEvery - 1
  BY <1>a, TransitionEffect
<1>g. Fault => faults' \in Nat /\ cut' = cut
  BY <1>a DEF Fault, CanFault
<1>h. \A c \in Commands : Notify(c) => event' \in [Commands -> {"none", "clear", "set"}]
  BY <1>a DEF Notify
<1>i. worker' = IdleWorker => worker' \in Worker /\ worker'.pc = "idle"
  BY DEF IdleWorker, Worker, MaybeStatus, Status
<1>j. worker.next \in NextPcs
  BY <1>a DEF Worker, NextPcs
<1> USE <1>a, <1>b, <1>c, <1>d, <1>e, <1>f, <1>g, <1>h, <1>i, <1>j
    DEF Doing, workerOnly, statusVars, faultVars, memoryVars, WorkerTyped, CallerTyped, Held,
        Copy, Copies, WorkerPc, NextPcs, Status, Terminal
<1>1. ASSUME Take PROVE Did
  BY <1>1, TakeEffect DEF Take
<1>2. ASSUME Look PROVE Did
  BY <1>2 DEF Look
<1>3. ASSUME Apply PROVE Did
  BY <1>3 DEF Apply
<1>4. ASSUME RecordStatus PROVE Did
  BY <1>4 DEF RecordStatus
<1>5. ASSUME NotifyStatus PROVE Did
  BY <1>5 DEF NotifyStatus
<1>6. ASSUME DeadLetter PROVE Did
  <2>1. [of |-> Copy.of, state |-> "unresolved"] \in Entry
    BY <1>6, <1>b DEF DeadLetter, Doing, Entry
  <2>2. dlq' \in Seq(Entry)
    BY <1>6, <1>a, <2>1, AppendProperties DEF DeadLetter
  <2>3. QED
    BY <1>6, <2>2 DEF DeadLetter
<1>7. ASSUME Ack PROVE Did
  BY <1>7 DEF Ack
<1>8. ASSUME Nak PROVE Did
  BY <1>8 DEF Nak
<1>9. ASSUME Reconnect PROVE Did
  <2>1. late' \subseteq [of : Commands, status : Status]
    BY <1>9, <1>a, <1>b DEF Reconnect, Doing
  <2>2. faults' \in Nat /\ cut' \in BOOLEAN
    BY <1>9, <1>a DEF Reconnect, CanFault
  <2>3. QED
    BY <1>9, <2>1, <2>2 DEF Reconnect
<1>10. Did
  BY <1>1, <1>2, <1>3, <1>4, <1>5, <1>6, <1>7, <1>8, <1>9 DEF WorkerSteps
<1>11. QED
  BY <1>10 DEF DeliveryInv, Typed, WorkerTyped, CallerTyped

----------------------------------------------------------------------------
(* What the operators, late writes and a restart may do.                    *)

\* Operator o goes to p with dead letter e, the others stay where they are.
OperatorMoves(o, p, e) ==
    /\ operator' \in [Operators -> Operator]
    /\ operator'[o].pc = p /\ operator'[o].entry = e
    /\ \A q \in Operators \ {o} : operator'[q] = operator[q]

\* An operator goes on with the dead letter it has claimed.
LEMMA ThenEffect ==
    ASSUME operator \in [Operators -> Operator], NEW o \in Operators, NEW p \in Replaying,
           Then(o, p)
    PROVE  OperatorMoves(o, p, operator[o].entry)
<1> DEFINE r == [operator[o] EXCEPT !.pc = p]
<1>1. r \in Operator /\ r.pc = p /\ r.entry = operator[o].entry
  BY DEF Operator
<1>2. operator' = [operator EXCEPT ![o] = r]
  BY DEF Then
<1> HIDE DEF r
<1>3. QED
  BY <1>1, <1>2 DEF OperatorMoves

\* A step of operator o on dead letter e, which nobody else has claimed.
OperatorMove(o, e) ==
    /\ e \in Entries /\ dlq' \in Seq(Entry) /\ DOMAIN dlq' = Entries
    /\ dlq'[e].of = dlq[e].of
    /\ \A d \in Entries \ {e} : dlq'[d] = dlq[d]
    /\ \A q \in Operators \ {o} : operator[q].entry # e
    /\ operator' \in [Operators -> Operator]
    /\ \A q \in Operators \ {o} : operator'[q] = operator[q]
    /\ UNCHANGED operatorOnly /\ cut' = cut /\ faults' \in Nat /\ copies' \in Seq(CopyOf)
    /\ \/ \* claimed
          /\ operator[o].pc = "idle" /\ dlq[e].state = "unresolved"
          /\ operator'[o] = [pc |-> "publish", entry |-> e] /\ dlq'[e].state = "replaying"
          /\ copies' = copies
       \/ \* published, or not
          /\ operator[o].pc = "publish" /\ operator[o].entry = e /\ dlq' = dlq
          /\ operator'[o].entry = e
          /\ \/ operator'[o].pc = "mark" /\ Store(dlq[e].of)
             \/ operator'[o].pc = "release" /\ (Store(dlq[e].of) \/ copies' = copies)
       \/ \* finished
          /\ operator[o].pc \in {"mark", "release"} /\ operator[o].entry = e
          /\ operator'[o] = IdleOperator /\ copies' = copies
          /\ dlq'[e].state = IF operator[o].pc = "mark" THEN "replayed" ELSE "unresolved"

\* Every step of an operator is of that kind.
LEMMA OperatorEffect ==
    ASSUME DeliveryInv, NEW o \in Operators, OperatorSteps(o)
    PROVE  \E e \in Entries : OperatorMove(o, e)
<1>a. /\ operator \in [Operators -> Operator] /\ dlq \in Seq(Entry) /\ copies \in Seq(CopyOf)
      /\ faults \in Nat
  BY DEF DeliveryInv, Typed
<1>b. /\ operator[o].pc \in Replaying => operator[o].entry \in Entries
      /\ \A q \in Operators :
             /\ operator[q].entry # 0 => dlq[operator[q].entry].state = "replaying"
             /\ \A p \in Operators \ {q} : operator[q].entry # 0 => operator[p].entry # operator[q].entry
      /\ \A e \in Entries : e # 0 /\ dlq[e].of \in Commands
  BY OfCommand DEF DeliveryInv, Claims, ClaimHeld
<1>1. ASSUME Claim(o) PROVE \E e \in Entries : OperatorMove(o, e)
  <2>1. PICK e \in Entries :
            /\ dlq[e].state = "unresolved" /\ SetEntry(e, "replaying")
            /\ operator' = [operator EXCEPT ![o] = [pc |-> "publish", entry |-> e]]
    BY <1>1 DEF Claim
  <2> DEFINE r == [pc |-> "publish", entry |-> e]
  <2>2. r \in Operator
    BY <1>a DEF Operator, Replaying, Entries
  <2>3. operator' = [operator EXCEPT ![o] = r]
    BY <2>1
  <2> HIDE DEF r
  <2>4. /\ operator' \in [Operators -> Operator] /\ operator'[o] = r
        /\ \A q \in Operators \ {o} : operator'[q] = operator[q]
    BY <1>a, <2>2, <2>3
  <2>5. /\ dlq' \in Seq(Entry) /\ DOMAIN dlq' = Entries
        /\ dlq'[e].of = dlq[e].of /\ dlq'[e].state = "replaying"
        /\ \A d \in Entries : d # e => dlq'[d] = dlq[d]
    BY <1>a, <2>1, SetEntryEffect
  <2>6. \A q \in Operators \ {o} : operator[q].entry # e
    BY <1>b, <2>1
  <2>7. operator'[o] = [pc |-> "publish", entry |-> e]
    BY <2>4 DEF r
  <2>8. OperatorMove(o, e)
    BY <1>1, <1>a, <2>1, <2>4, <2>5, <2>6, <2>7 DEF Claim, OperatorMove, Operating, faultVars
  <2>9. QED
    BY <2>8
<1>2. ASSUME Replay(o) PROVE \E e \in Entries : OperatorMove(o, e)
  <2> DEFINE e == operator[o].entry
  <2>1. /\ operator[o].pc = "publish" /\ e \in Entries /\ dlq' = dlq /\ UNCHANGED operatorOnly
        /\ \A q \in Operators \ {o} : operator[q].entry # e
    BY <1>2, <1>b DEF Replay, Operating, Replaying
  <2>2. \A p \in Replaying : Then(o, p) => OperatorMoves(o, p, e)
    BY <1>a, ThenEffect
  <2>3. Store(dlq[e].of) => copies' \in Seq(CopyOf)
    BY <1>a, <1>b, <2>1, StoreEffect
  <2>4. PICK raised \in BOOLEAN :
            /\ PublishOutcome(dlq[e].of, raised)
            /\ IF raised THEN Fault /\ Then(o, "release") ELSE UNCHANGED faultVars /\ Then(o, "mark")
    BY <1>2 DEF Replay
  <2>5. Fault => faults' \in Nat /\ cut' = cut
    BY <1>a DEF Fault, CanFault
  <2> HIDE DEF e
  <2>6. OperatorMoves(o, operator'[o].pc, e) /\ faults' \in Nat /\ cut' = cut /\ copies' \in Seq(CopyOf)
    BY <1>a, <2>2, <2>3, <2>4, <2>5
       DEF OperatorMoves, PublishOutcome, faultVars, Replaying
  <2>7. \/ operator'[o].pc = "mark" /\ Store(dlq[e].of)
        \/ operator'[o].pc = "release" /\ (Store(dlq[e].of) \/ copies' = copies)
    BY <2>2, <2>4 DEF OperatorMoves, PublishOutcome, Replaying
  <2>8. OperatorMove(o, e)
    BY <1>a, <2>1, <2>6, <2>7 DEF OperatorMove, OperatorMoves, Entries, e
  <2>9. QED
    BY <2>1, <2>8
<1>3. ASSUME NEW p \in {"mark", "release"}, NEW s \in {"replayed", "unresolved"},
             s = (IF p = "mark" THEN "replayed" ELSE "unresolved"), FinishReplay(o, p, s)
      PROVE \E e \in Entries : OperatorMove(o, e)
  <2> DEFINE e == operator[o].entry
  <2>1. /\ operator[o].pc = p /\ e \in Entries /\ UNCHANGED operatorOnly
        /\ copies' = copies /\ UNCHANGED faultVars
        /\ SetEntry(e, s) /\ operator' = [operator EXCEPT ![o] = IdleOperator]
        /\ \A q \in Operators \ {o} : operator[q].entry # e
    BY <1>3, <1>b DEF FinishReplay, Operating, Replaying
  <2> HIDE DEF e
  <2>2. /\ dlq' \in Seq(Entry) /\ DOMAIN dlq' = Entries
        /\ dlq'[e].of = dlq[e].of /\ dlq'[e].state = s
        /\ \A d \in Entries : d # e => dlq'[d] = dlq[d]
    BY <1>a, <2>1, SetEntryEffect
  <2>3. IdleOperator \in Operator
    BY DEF IdleOperator, Operator
  <2>4. /\ operator' \in [Operators -> Operator] /\ operator'[o] = IdleOperator
        /\ \A q \in Operators \ {o} : operator'[q] = operator[q]
    BY <1>a, <2>1, <2>3
  <2>5. OperatorMove(o, e)
    BY <1>a, <1>3, <2>1, <2>2, <2>4 DEF OperatorMove, faultVars, e
  <2>6. QED
    BY <2>1, <2>5
<1>4. QED
  BY <1>1, <1>2, <1>3 DEF OperatorSteps, MarkReplayed, ReleaseReplay

\* An entry is resolved only while nobody replays it.
LEMMA ResolveEffect ==
    ASSUME DeliveryInv, NEW e \in Entries, Resolve(e)
    PROVE  /\ dlq' \in Seq(Entry) /\ DOMAIN dlq' = Entries
           /\ dlq'[e].of = dlq[e].of /\ dlq'[e].state = "resolved"
           /\ \A d \in Entries : d # e => dlq'[d] = dlq[d]
           /\ \A o \in Operators : operator[o].entry # e
           /\ UNCHANGED <<copies, operator, faults, cut, operatorOnly>>
<1>1. /\ dlq \in Seq(Entry) /\ SetEntry(e, "resolved") /\ dlq[e].state # "replaying" /\ e # 0
      /\ UNCHANGED <<copies, operator, faults, cut, operatorOnly>>
  BY OfCommand DEF DeliveryInv, Typed, Resolve, faultVars
<1>2. \A o \in Operators : operator[o].entry # e
  BY <1>1 DEF DeliveryInv, Claims, ClaimHeld
<1>3. QED
  BY <1>1, <1>2, SetEntryEffect

\* A late write changes the rows as its worker would have.
LEMMA LateEffect ==
    ASSUME DeliveryInv, LateCommit
    PROVE  /\ row' \in [Commands -> MaybeStatus] /\ writes' \in 0 .. PruneEvery - 1
           /\ late' \subseteq late /\ late # {}
           /\ \E w \in late : \A d \in Commands :
                  row'[d] \in {row[d], "none"} \/ (d = w.of /\ row'[d] = w.status)
           /\ UNCHANGED <<event, copies, memoryVars, dlq, task, worker, operator, faultVars>>
<1>1. PICK w \in late :
          /\ Transition(w.of, w.status) /\ late' = late \ {w}
          /\ UNCHANGED <<event, copies, memoryVars, dlq, task, worker, operator, faultVars>>
  BY DEF LateCommit
<1>2. /\ w.of \in Commands /\ w.status \in Status
      /\ row \in [Commands -> MaybeStatus] /\ writes \in 0 .. PruneEvery - 1
  BY DEF DeliveryInv, Typed
<1>3. /\ row' \in [Commands -> MaybeStatus] /\ writes' \in 0 .. PruneEvery - 1
      /\ \A d \in Commands : row'[d] \in {row[d], "none"} \/ (d = w.of /\ row'[d] = w.status)
  BY <1>1, <1>2, TransitionEffect
<1>4. QED
  BY <1>1, <1>3

\* A restart leaves the memory, the messages and the dead letters.
LEMMA RestartEffect ==
    ASSUME DeliveryInv, Restart
    PROVE  /\ Typed' /\ cut' = TRUE /\ UNCHANGED memoryVars
           /\ \A d \in Commands : row'[d] \in {row[d], "none"} /\ event'[d] = "none"
           /\ late' = {} /\ worker' = IdleWorker
           /\ DOMAIN copies' = Copies /\ DOMAIN dlq' = Entries
           /\ \A m \in Copies :
                  /\ copies'[m].of = copies[m].of
                  /\ copies'[m].state = IF copies[m].state = "held" THEN "queued" ELSE copies[m].state
           /\ \A e \in Entries :
                  /\ dlq'[e].of = dlq[e].of
                  /\ dlq'[e].state = IF dlq[e].state = "replaying" THEN "unresolved" ELSE dlq[e].state
           /\ \A t \in Tasks : /\ task'[t].pc = "done" /\ task'[t].of = task[t].of
                               /\ task'[t].seen = "none" /\ task'[t].told = task[t].told
           /\ \A o \in Operators : operator'[o].pc \in {"idle", "away"} /\ operator'[o].entry = 0
<1>a. /\ row \in [Commands -> MaybeStatus] /\ copies \in Seq(CopyOf) /\ dlq \in Seq(Entry)
      /\ task \in [Tasks -> Task] /\ operator \in [Operators -> Operator] /\ faults \in Nat
      /\ done \subseteq Commands /\ refused \subseteq Commands
  BY DEF DeliveryInv, Typed
<1>1. /\ row' \in [Commands -> MaybeStatus]
      /\ \A d \in Commands : row'[d] \in {row[d], "none"}
  BY <1>a, PrunedOnlyRemoves DEF Restart
<1>2. event' \in [Commands -> {"none", "clear", "set"}] /\ \A d \in Commands : event'[d] = "none"
  BY DEF Restart
<1> DEFINE back(m) == IF copies[m].state = "held" THEN [copies[m] EXCEPT !.state = "queued"]
                      ELSE copies[m]
           freed(e) == IF dlq[e].state = "replaying" THEN [dlq[e] EXCEPT !.state = "unresolved"]
                       ELSE dlq[e]
           gone(t) == [task[t] EXCEPT !.pc = "done", !.seen = "none"]
           home(o) == IF operator[o].pc = "away" THEN operator[o] ELSE IdleOperator
<1>3. \A m \in Copies :
          /\ back(m) \in CopyOf /\ back(m).of = copies[m].of
          /\ back(m).state = IF copies[m].state = "held" THEN "queued" ELSE copies[m].state
  <2>1. \A m \in Copies : copies[m] \in CopyOf
    BY <1>a DEF Copies
  <2>2. QED
    BY <2>1 DEF CopyOf
<1>4. \A e \in Entries :
          /\ freed(e) \in Entry /\ freed(e).of = dlq[e].of
          /\ freed(e).state = IF dlq[e].state = "replaying" THEN "unresolved" ELSE dlq[e].state
  <2>1. \A e \in Entries : dlq[e] \in Entry
    BY <1>a DEF Entries
  <2>2. QED
    BY <2>1 DEF Entry
<1>5. \A t \in Tasks : /\ gone(t) \in Task /\ gone(t).pc = "done" /\ gone(t).of = task[t].of
                       /\ gone(t).seen = "none" /\ gone(t).told = task[t].told
  BY <1>a DEF Task, TaskPc, MaybeStatus
<1>6. \A o \in Operators : /\ home(o) \in Operator /\ home(o).pc \in {"idle", "away"}
                           /\ home(o).entry = 0
  <2>1. \A o \in Operators : operator[o].pc = "away" => operator[o].entry = 0
    BY DEF DeliveryInv, Claims, Replaying
  <2>2. QED
    BY <1>a, <2>1 DEF Operator, IdleOperator
<1>7. /\ copies' = [m \in Copies |-> back(m)] /\ dlq' = [e \in Entries |-> freed(e)]
      /\ task' = [t \in Tasks |-> gone(t)] /\ operator' = [o \in Operators |-> home(o)]
  BY DEF Restart, Operating
<1> HIDE DEF back, freed, gone, home
<1>8. Copies = 1 .. Len(copies) /\ Len(copies) \in Nat /\ Entries = 1 .. Len(dlq) /\ Len(dlq) \in Nat
  BY <1>a DEF Copies, Entries
<1>9. copies' \in Seq(CopyOf) /\ dlq' \in Seq(Entry)
  BY <1>3, <1>4, <1>7, <1>8, IsASeq
<1>10. task' \in [Tasks -> Task] /\ operator' \in [Operators -> Operator]
  BY <1>5, <1>6, <1>7
<1>11. worker' = IdleWorker /\ IdleWorker \in Worker
  BY DEF Restart, IdleWorker, Worker, MaybeStatus
<1>12. /\ faults' \in Nat /\ cut' = TRUE /\ late' = {} /\ UNCHANGED memoryVars
       /\ writes' \in 0 .. PruneEvery - 1
  <2>1. faults > 0 /\ faults' = faults - 1 /\ cut' = TRUE /\ late' = {} /\ UNCHANGED memoryVars
        /\ writes' = 0
    BY DEF Restart, CanFault
  <2>2. 0 \in 0 .. PruneEvery - 1
    BY DeliveryConstants
  <2>3. QED
    BY <1>a, <2>1, <2>2
<1>13. Typed'
  BY <1>a, <1>1, <1>2, <1>9, <1>10, <1>11, <1>12 DEF Typed, memoryVars
<1>14. QED
  BY <1>1, <1>2, <1>3, <1>4, <1>5, <1>6, <1>7, <1>11, <1>12, <1>13

----------------------------------------------------------------------------
(* Every step keeps each part of the invariant.                             *)

\* Every variable keeps its type.
LEMMA TypedNext ==
    ASSUME DeliveryInv, Next
    PROVE  Typed'
<1>1. ASSUME NEW t \in Tasks, CallerSteps(t) PROVE Typed'
  BY <1>1, CallerEffect
<1>2. ASSUME WorkerSteps PROVE Typed'
  BY <1>2, WorkerEffect
<1>3. ASSUME NEW o \in Operators, OperatorSteps(o) PROVE Typed'
  <2>1. PICK e \in Entries : OperatorMove(o, e)
    BY <1>3, OperatorEffect
  <2>2. QED
    BY <2>1 DEF DeliveryInv, Typed, OperatorMove, operatorOnly, statusVars, memoryVars
<1>4. ASSUME NEW e \in Entries, Resolve(e) PROVE Typed'
  BY <1>4, ResolveEffect DEF DeliveryInv, Typed, operatorOnly, statusVars, memoryVars
<1>5. ASSUME LateCommit PROVE Typed'
  BY <1>5, LateEffect DEF DeliveryInv, Typed, memoryVars, faultVars
<1>6. ASSUME Restart PROVE Typed'
  BY <1>6, RestartEffect
<1>7. QED
  BY <1>1, <1>2, <1>3, <1>4, <1>5, <1>6 DEF Next

\* Messages stay, and stay about their command.
LEMMA CopiesKept ==
    ASSUME DeliveryInv, Next, NEW m \in Copies
    PROVE  m \in Copies' /\ copies'[m].of = copies[m].of
<1>a. copies \in Seq(CopyOf) /\ \A e \in Entries : dlq[e].of \in Commands
  BY OfCommand DEF DeliveryInv, Typed
<1>b. \A c \in Commands : Store(c) =>
          m \in DOMAIN copies' /\ copies'[m].of = copies[m].of
  BY <1>a, StoreEffect
<1>1. ASSUME NEW t \in Tasks, CallerSteps(t) PROVE m \in DOMAIN copies' /\ copies'[m].of = copies[m].of
  BY <1>1, <1>b, CallerEffect DEF CallerMove, Copies
<1>2. ASSUME WorkerSteps PROVE m \in DOMAIN copies' /\ copies'[m].of = copies[m].of
  <2>1. CASE Take
    BY <1>a, <2>1, TakeEffect
  <2>2. CASE Ack \/ Nak \/ Reconnect
    <3>1. worker.copy \in Copies
      BY <2>2 DEF Ack, Nak, Reconnect, Doing, DeliveryInv, Held
    <3>2. PICK s \in {"queued", "held", "gone"} : SetCopy(s)
      BY <2>2 DEF Ack, Nak, Reconnect
    <3>3. QED
      BY <1>a, <3>1, <3>2, SetCopyEffect
  <2>3. CASE Look \/ Apply \/ RecordStatus \/ NotifyStatus \/ DeadLetter
    BY <2>3 DEF Look, Apply, RecordStatus, NotifyStatus, DeadLetter, Copies
  <2>4. QED
    BY <1>2, <2>1, <2>2, <2>3 DEF WorkerSteps
<1>3. ASSUME NEW o \in Operators, OperatorSteps(o)
      PROVE  m \in DOMAIN copies' /\ copies'[m].of = copies[m].of
  <2>1. PICK e \in Entries : OperatorMove(o, e)
    BY <1>3, OperatorEffect
  <2>2. QED
    BY <1>a, <1>b, <2>1 DEF OperatorMove, Copies
<1>4. ASSUME NEW e \in Entries, Resolve(e)
      PROVE  m \in DOMAIN copies' /\ copies'[m].of = copies[m].of
  BY <1>4, ResolveEffect DEF Copies
<1>5. ASSUME LateCommit PROVE m \in DOMAIN copies' /\ copies'[m].of = copies[m].of
  BY <1>5, LateEffect DEF Copies
<1>6. ASSUME Restart PROVE m \in DOMAIN copies' /\ copies'[m].of = copies[m].of
  BY <1>6, RestartEffect DEF Copies
<1>7. QED
  BY <1>1, <1>2, <1>3, <1>4, <1>5, <1>6 DEF Next, Copies

\* A caller goes on asking about the same command.
LEMMA CallersNext ==
    ASSUME DeliveryInv, Next
    PROVE  Callers'
<1>1. ASSUME NEW t \in Tasks, CallerSteps(t) PROVE Callers'
  <2>1. CallerMove(t)
    BY <1>1, CallerEffect
  <2>2. QED
    BY <2>1 DEF DeliveryInv, Callers, CallerMove, Moves, Tasks
<1>2. ASSUME UNCHANGED task PROVE Callers'
  BY <1>2 DEF DeliveryInv, Callers
<1>3. ASSUME Restart PROVE Callers'
  BY <1>3, RestartEffect DEF DeliveryInv, Callers, Tasks
<1>4. QED
  <2>1. ASSUME WorkerSteps PROVE UNCHANGED task
    BY <2>1, WorkerEffect
  <2>2. ASSUME NEW o \in Operators, OperatorSteps(o) PROVE UNCHANGED task
    BY <2>2, OperatorEffect DEF OperatorMove, operatorOnly
  <2>3. ASSUME NEW e \in Entries, Resolve(e) PROVE UNCHANGED task
    BY <2>3, ResolveEffect DEF operatorOnly
  <2>4. ASSUME LateCommit PROVE UNCHANGED task
    BY <2>4, LateEffect
  <2>5. QED
    BY <1>1, <1>2, <1>3, <2>1, <2>2, <2>3, <2>4 DEF Next

\* The event of a command, and the wake-up, survive every step but the last
\* waiter's leaving and a restart.
LEMMA EventsNext ==
    ASSUME DeliveryInv, Next
    PROVE  Events'
<1>a. /\ event \in [Commands -> {"none", "clear", "set"}]
      /\ \A c \in Commands :
             /\ event[c] # "none" => \E t \in Tasks : task[t].of = c /\ task[t].pc \in Waiting
             /\ (\E t \in Tasks : task[t].of = c /\ task[t].pc \in Waiting) => event[c] # "none"
  BY DEF DeliveryInv, Typed, Events, Waiters
<1> DEFINE Kept(c) == event'[c] # "none" <=> \E t \in Tasks : task'[t].of = c /\ task'[t].pc \in Waiting
<1>1. ASSUME NEW t \in Tasks, CallerSteps(t), NEW c \in Commands PROVE Kept(c)
  <2>1. CallerMove(t) /\ CallerEvents(t) /\ task[t].of \in Commands
    BY <1>1, CallerEffect DEF CallerMove, DeliveryInv, Callers
  <2>2. /\ task'[t].of = task[t].of
        /\ \A u \in Tasks : u # t => task'[u] = task[u]
    BY <2>1 DEF CallerMove, Moves
  <2>3. CASE event' = event /\ (task[t].pc \in Waiting <=> task'[t].pc \in Waiting)
    BY <1>a, <2>2, <2>3
  <2>4. CASE /\ event' = [event EXCEPT ![task[t].of] = IF @ = "none" THEN "clear" ELSE @]
             /\ task[t].pc \notin Waiting /\ task'[t].pc \in Waiting
    <3>1. /\ event'[task[t].of] # "none"
          /\ c # task[t].of => event'[c] = event[c]
      BY <1>a, <2>1, <2>4
    <3>2. QED
      BY <1>a, <2>2, <2>4, <3>1
  <2>5. CASE Leave(t) /\ task[t].pc \in Waiting /\ task'[t].pc \notin Waiting
    <3>1. event' = [event EXCEPT ![task[t].of] = IF Waiters(task[t].of) = {t} THEN "none" ELSE @]
      BY <2>5 DEF Leave
    <3>2. c # task[t].of => event'[c] = event[c]
      BY <1>a, <3>1
    <3>3. event'[task[t].of] = IF Waiters(task[t].of) = {t} THEN "none" ELSE event[task[t].of]
      BY <1>a, <2>1, <3>1
    <3>4. Waiters(task[t].of) = {t} <=>
              ~ \E u \in Tasks : u # t /\ task[u].of = task[t].of /\ task[u].pc \in Waiting
      BY <2>5 DEF Waiters
    <3>5. QED
      BY <1>a, <2>1, <2>2, <2>5, <3>2, <3>3, <3>4
  <2>6. CASE Notify(t) /\ task[t].pc \notin Waiting /\ task'[t].pc \notin Waiting
    <3>1. event'[c] = "none" <=> event[c] = "none"
      BY <1>a, <2>6 DEF Notify
    <3>2. QED
      BY <1>a, <2>2, <2>6, <3>1
  <2>7. QED
    BY <2>1, <2>3, <2>4, <2>5, <2>6 DEF CallerEvents
<1>2. ASSUME UNCHANGED task, NEW c \in Commands, event'[c] = "none" <=> event[c] = "none"
      PROVE  Kept(c)
  BY <1>a, <1>2
<1>3. ASSUME WorkerSteps, NEW c \in Commands PROVE Kept(c)
  <2>1. event'[c] = "none" <=> event[c] = "none"
    BY <1>a, <1>3 DEF WorkerSteps, Take, Look, Apply, RecordStatus, NotifyStatus, DeadLetter, Ack,
                      Nak, Reconnect, Notify
  <2>2. QED
    BY <1>2, <1>3, <2>1, WorkerEffect
<1>4. ASSUME NEW o \in Operators, OperatorSteps(o), NEW c \in Commands PROVE Kept(c)
  <2>1. PICK e \in Entries : OperatorMove(o, e)
    BY <1>4, OperatorEffect
  <2>2. QED
    BY <1>2, <2>1 DEF OperatorMove, operatorOnly
<1>5. ASSUME NEW e \in Entries, Resolve(e), NEW c \in Commands PROVE Kept(c)
  BY <1>2, <1>5, ResolveEffect DEF operatorOnly
<1>6. ASSUME LateCommit, NEW c \in Commands PROVE Kept(c)
  BY <1>2, <1>6, LateEffect
<1>7. ASSUME Restart, NEW c \in Commands PROVE Kept(c)
  BY <1>7, RestartEffect DEF Waiting
<1>8. \A c \in Commands : Kept(c)
  BY <1>1, <1>3, <1>4, <1>5, <1>6, <1>7 DEF Next
<1>9. QED
  BY <1>8 DEF Events, Waiters

\* A new dead letter comes after those there are.
LEMMA DeadLetterEffect ==
    ASSUME DeliveryInv, DeadLetter
    PROVE  /\ DOMAIN dlq' = Entries \cup {Len(dlq) + 1} /\ Len(dlq) + 1 \notin Entries
           /\ dlq'[Len(dlq) + 1].of = Copy.of /\ dlq'[Len(dlq) + 1].state = "unresolved"
           /\ \A e \in Entries : dlq'[e] = dlq[e]
<1> DEFINE new == [of |-> Copy.of, state |-> "unresolved"]
<1>1. dlq \in Seq(Entry) /\ dlq' = Append(dlq, new)
  BY DEF DeliveryInv, Typed, DeadLetter
<1>2. Copy.of \in Commands
  BY OfCommand DEF DeliveryInv, Held, Copy, DeadLetter, Doing
<1>3. new \in Entry
  BY <1>2 DEF Entry
<1>4. QED
  BY <1>1, <1>3, AppendProperties DEF Entries

\* Only the worker changes the message it holds.
LEMMA HeldNext ==
    ASSUME DeliveryInv, Next
    PROVE  Held'
<1>a. /\ copies \in Seq(CopyOf) /\ \A e \in Entries : dlq[e].of \in Commands
      /\ worker.pc # "idle" => worker.copy \in Copies /\ copies[worker.copy].state = "held"
      /\ worker.pc \in {"record", "notify"} => worker.status \in Status /\ worker.next # "none"
  BY OfCommand DEF DeliveryInv, Typed, Held, Copy
<1>b. \A c \in Commands : Store(c) =>
          \A m \in Copies : m \in DOMAIN copies' /\ copies'[m] = copies[m]
  BY <1>a, StoreEffect
<1>1. ASSUME UNCHANGED worker, \A m \in Copies : m \in DOMAIN copies' /\ copies'[m] = copies[m]
      PROVE  Held'
  BY <1>a, <1>1 DEF Held, Copy, Copies
<1>2. ASSUME NEW t \in Tasks, CallerSteps(t) PROVE Held'
  <2>1. UNCHANGED worker /\ (copies' = copies \/ \E c \in Commands : Store(c))
    BY <1>2, CallerEffect DEF CallerMove, callerOnly
  <2>2. QED
    BY <1>1, <1>b, <2>1 DEF Copies
<1>3. ASSUME WorkerSteps PROVE Held'
  BY <1>3, WorkerEffect
<1>4. ASSUME NEW o \in Operators, OperatorSteps(o) PROVE Held'
  <2>1. PICK e \in Entries : OperatorMove(o, e)
    BY <1>4, OperatorEffect
  <2>2. UNCHANGED worker /\ (copies' = copies \/ \E c \in Commands : Store(c))
    BY <1>a, <2>1 DEF OperatorMove, operatorOnly
  <2>3. QED
    BY <1>1, <1>b, <2>2 DEF Copies
<1>5. ASSUME NEW e \in Entries, Resolve(e) PROVE Held'
  BY <1>1, <1>5, ResolveEffect DEF operatorOnly, Copies
<1>6. ASSUME LateCommit PROVE Held'
  BY <1>1, <1>6, LateEffect DEF Copies
<1>7. ASSUME Restart PROVE Held'
  BY <1>7, RestartEffect DEF Held, IdleWorker
<1>8. QED
  BY <1>2, <1>3, <1>4, <1>5, <1>6, <1>7 DEF Next

\* A claim is made on an unclaimed dead letter and ends with its operator.
LEMMA ClaimsNext ==
    ASSUME DeliveryInv, Next
    PROVE  Claims'
<1>a. /\ \A o \in Operators :
             /\ operator[o].pc \in Replaying => operator[o].entry \in Entries
             /\ operator[o].pc \notin Replaying => operator[o].entry = 0
             /\ operator[o].entry # 0 =>
                    /\ dlq[operator[o].entry].state = "replaying"
                    /\ \A p \in Operators \ {o} : operator[p].entry # operator[o].entry
      /\ \A e \in Entries : e # 0
      /\ dlq \in Seq(Entry) /\ operator \in [Operators -> Operator]
  BY OfCommand DEF DeliveryInv, Typed, Claims, ClaimHeld
<1>b. \A o \in Operators : operator[o].entry \in Entries \cup {0}
  BY <1>a
<1>1. ASSUME UNCHANGED operator, Entries \subseteq DOMAIN dlq',
             \A e \in Entries : dlq[e].state = "replaying" => dlq'[e].state = "replaying"
      PROVE  Claims'
  BY <1>a, <1>b, <1>1 DEF Claims, ClaimHeld, Entries
<1>2. ASSUME NEW t \in Tasks, CallerSteps(t) PROVE Claims'
  BY <1>1, <1>2, CallerEffect DEF CallerMove, callerOnly, Entries
<1>3. ASSUME WorkerSteps PROVE Claims'
  <2>1. UNCHANGED operator
    BY <1>3, WorkerEffect
  <2>2. DeadLetter \/ UNCHANGED dlq
    BY <1>3 DEF WorkerSteps, Take, Look, Apply, RecordStatus, NotifyStatus, Ack, Nak,
                Reconnect, workerOnly
  <2>3. /\ Entries \subseteq DOMAIN dlq'
        /\ \A e \in Entries : dlq'[e] = dlq[e]
    BY <2>2, DeadLetterEffect DEF Entries
  <2>4. QED
    BY <1>1, <2>1, <2>3
<1>4. ASSUME NEW o \in Operators, OperatorSteps(o) PROVE Claims'
  <2>1. PICK e \in Entries : OperatorMove(o, e)
    BY <1>4, OperatorEffect
  <2>2. \A q \in Operators : q # o =>
            /\ operator'[q] = operator[q] /\ operator[q].entry # e
            /\ operator[q].entry # 0 => dlq'[operator[q].entry].state = "replaying"
    BY <1>a, <1>b, <2>1 DEF OperatorMove
  <2>3. /\ operator'[o].pc \in Replaying => operator'[o].entry = e
        /\ operator'[o].pc \notin Replaying => operator'[o].entry = 0
        /\ operator'[o].entry # 0 => operator'[o].entry = e /\ dlq'[e].state = "replaying"
    BY <1>a, <2>1 DEF OperatorMove, Replaying, IdleOperator
  <2>4. DOMAIN dlq' = Entries
    BY <2>1 DEF OperatorMove
  <2>5. QED
    BY <1>a, <1>b, <2>2, <2>3, <2>4 DEF Claims, ClaimHeld, Entries
<1>5. ASSUME NEW e \in Entries, Resolve(e) PROVE Claims'
  <2>1. UNCHANGED operator /\ DOMAIN dlq' = Entries
    BY <1>5, ResolveEffect
  <2>2. \A d \in Entries : dlq[d].state = "replaying" => dlq'[d].state = "replaying"
    BY <1>5, ResolveEffect DEF Resolve
  <2>3. QED
    BY <1>1, <2>1, <2>2
<1>6. ASSUME LateCommit PROVE Claims'
  BY <1>1, <1>6, LateEffect DEF Entries
<1>7. ASSUME Restart PROVE Claims'
  BY <1>7, RestartEffect DEF Claims, ClaimHeld, Replaying
<1>8. QED
  BY <1>2, <1>3, <1>4, <1>5, <1>6, <1>7 DEF Next

\* "applied" is passed on from the handler to the row, the readers and the
\* late writes, never made up.
LEMMA AppliedNext ==
    ASSUME DeliveryInv, Next
    PROVE  Applied'
<1>a. /\ \A c \in Commands : row[c] = "applied" => c \in done
      /\ \A t \in Tasks : task[t].told = "applied" \/ task[t].seen = "applied" => task[t].of \in done
      /\ \A w \in late : w.status = "applied" => w.of \in done
      /\ worker.pc \in {"record", "notify"} /\ worker.status = "applied" => Copy.of \in done
  BY DEF DeliveryInv, Applied, AppliedTrue
<1>b. /\ worker.pc # "idle" => worker.copy \in Copies /\ Copy.of \in Commands
      /\ worker.pc \in {"record", "notify"} => worker.status \in Status
      /\ row \in [Commands -> MaybeStatus] /\ writes \in 0 .. PruneEvery - 1 /\ worker \in Worker
      /\ \A t \in Tasks : task[t].pc # "done" => task[t].of \in Commands
  BY OfCommand DEF DeliveryInv, Typed, Held, Callers, Copy
<1>c. worker.pc # "idle" => copies'[worker.copy].of = Copy.of
  BY <1>b, CopiesKept DEF Copy
<1> DEFINE Rows == \A c \in Commands : row'[c] = "applied" => c \in done'
           Asking == \A t \in Tasks : task'[t].told = "applied" \/ task'[t].seen = "applied"
                                       => task'[t].of \in done'
           Late == \A w \in late' : w.status = "applied" => w.of \in done'
           Work == worker'.pc \in {"record", "notify"} /\ worker'.status = "applied"
                       => Copy'.of \in done'
<1>d. ASSUME UNCHANGED worker, done \subseteq done' PROVE Work
  BY <1>a, <1>c, <1>d DEF Copy
<1>e. ASSUME UNCHANGED task, done \subseteq done' PROVE Asking
  BY <1>a, <1>e
<1>1. ASSUME NEW t \in Tasks, CallerSteps(t) PROVE Rows /\ Asking /\ Late /\ Work
  <2>1. CallerMove(t)
    BY <1>1, CallerEffect
  <2>2. UNCHANGED <<done, worker, late>>
    BY <2>1 DEF CallerMove, callerOnly, memoryVars
  <2>3. Rows
    BY <1>a, <2>1, <2>2 DEF CallerMove
  <2>4. /\ task'[t].told = "applied" \/ task'[t].seen = "applied" => task'[t].of \in done'
        /\ \A u \in Tasks : u # t => task'[u] = task[u]
    BY <1>a, <1>b, <2>1, <2>2 DEF CallerMove, Moves
  <2>5. QED
    BY <1>a, <1>d, <2>2, <2>3, <2>4
<1>2. ASSUME WorkerSteps PROVE Rows /\ Asking /\ Late /\ Work
  <2>a. UNCHANGED task
    BY <1>2, WorkerEffect
  <2>b. \A p \in WorkerPc : Go(p) =>
            worker'.pc = p /\ worker'.copy = worker.copy /\ worker'.status = worker.status
    BY <1>b, GoEffect
  <2>c. \A s \in Status : \A n \in NextPcs : Record(s, n) =>
            worker'.pc = "record" /\ worker'.copy = worker.copy /\ worker'.status = s
    BY <1>b, RecordEffect
  <2>1. CASE Take
    BY <1>a, <1>e, <2>a, <2>1 DEF Take, IdleWorker, statusVars, memoryVars, workerOnly
  <2>2. CASE Look
    <3>1. worker'.pc \notin {"record", "notify"}
      BY <2>b, <2>2 DEF Look, WorkerPc
    <3>2. QED
      BY <1>a, <1>e, <2>a, <2>2, <3>1 DEF Look, statusVars, memoryVars, workerOnly
  <2>3. CASE Apply
    <3>1. done \subseteq done' /\ UNCHANGED <<row, late>>
      BY <2>3 DEF Apply, statusVars, memoryVars, workerOnly
    <3>2. /\ worker'.copy = worker.copy
          /\ worker'.status = "applied" => Copy.of \in done'
      BY <2>c, <2>3 DEF Apply, Status, Terminal, NextPcs
    <3>3. Work
      BY <1>c, <2>3, <3>2 DEF Apply, Doing, Copy
    <3>4. QED
      BY <1>a, <1>e, <2>a, <3>1, <3>3
  <2>4. CASE RecordStatus
    <3>1. UNCHANGED <<done, late>> /\ worker.pc = "record"
      BY <2>4 DEF RecordStatus, Doing, memoryVars, workerOnly
    <3>2. Transition(Copy.of, worker.status) \/ UNCHANGED statusVars
      BY <2>4 DEF RecordStatus
    <3>3. Rows
      BY <1>a, <1>b, <3>1, <3>2, TransitionEffect DEF statusVars
    <3>4. worker'.copy = worker.copy /\ worker'.status = worker.status
      BY <1>b, <2>b, <2>4 DEF RecordStatus, WorkerPc, Worker, Doing, DeliveryInv, Held
    <3>5. QED
      BY <1>a, <1>c, <1>e, <2>a, <3>1, <3>3, <3>4 DEF Copy
  <2>5. CASE NotifyStatus \/ DeadLetter \/ Ack \/ Nak
    <3>1. UNCHANGED <<done, late, row>>
      BY <2>5 DEF NotifyStatus, DeadLetter, Ack, Nak, memoryVars, workerOnly, statusVars
    <3>2. worker'.pc \notin {"record", "notify"}
      BY <1>b, <2>b, <2>5
         DEF NotifyStatus, DeadLetter, Ack, Nak, Doing, WorkerPc, IdleWorker, Worker, DeliveryInv, Held
    <3>3. QED
      BY <1>a, <1>e, <2>a, <3>1, <3>2
  <2>6. CASE Reconnect
    <3>1. /\ UNCHANGED <<done, row>> /\ worker'.pc = "idle"
          /\ late' = IF worker.pc = "record"
                     THEN late \cup {[of |-> Copy.of, status |-> worker.status]} ELSE late
      BY <2>6 DEF Reconnect, IdleWorker, memoryVars, statusVars, Doing
    <3>2. QED
      BY <1>a, <1>e, <2>a, <3>1
  <2>7. QED
    BY <1>2, <2>1, <2>2, <2>3, <2>4, <2>5, <2>6 DEF WorkerSteps
<1>3. ASSUME NEW o \in Operators, OperatorSteps(o) PROVE Rows /\ Asking /\ Late /\ Work
  <2>1. PICK e \in Entries : OperatorMove(o, e)
    BY <1>3, OperatorEffect
  <2>2. UNCHANGED <<row, late, done, task, worker>>
    BY <2>1 DEF OperatorMove, operatorOnly, statusVars, memoryVars
  <2>3. QED
    BY <1>a, <1>d, <2>2
<1>4. ASSUME NEW e \in Entries, Resolve(e) PROVE Rows /\ Asking /\ Late /\ Work
  <2>1. UNCHANGED <<row, late, done, task, worker>>
    BY <1>4, ResolveEffect DEF operatorOnly, statusVars, memoryVars
  <2>2. QED
    BY <1>a, <1>d, <2>1
<1>5. ASSUME LateCommit PROVE Rows /\ Asking /\ Late /\ Work
  <2>1. UNCHANGED <<done, task, worker>> /\ late' \subseteq late
    BY <1>5, LateEffect DEF memoryVars
  <2>2. Rows
    BY <1>a, <1>5, <2>1, LateEffect
  <2>3. QED
    BY <1>a, <1>d, <2>1, <2>2
<1>6. ASSUME Restart PROVE Rows /\ Asking /\ Late /\ Work
  <2>1. done' = done /\ late' = {} /\ worker'.pc = "idle"
    BY <1>6, RestartEffect DEF memoryVars, IdleWorker
  <2>2. Rows
    BY <1>a, <1>6, <2>1, RestartEffect
  <2>3. Asking
    BY <1>a, <1>6, <2>1, RestartEffect
  <2>4. QED
    BY <2>1, <2>2, <2>3
<1>7. Rows /\ Asking /\ Late /\ Work
  BY <1>1, <1>2, <1>3, <1>4, <1>5, <1>6 DEF Next
<1>8. QED
  BY <1>7 DEF Applied, AppliedTrue

\* What keeps a command safe is kept by a step that takes nothing away.
LEMMA SafeKept ==
    ASSUME NEW c, NEW x, Safe(c, x), done \subseteq done', refused \subseteq refused',
           \A m \in Copies : m # x /\ copies[m].of = c /\ copies[m].state \in {"queued", "held"} =>
               m \in DOMAIN copies' /\ copies'[m].of = c /\ copies'[m].state \in {"queued", "held"},
           \A e \in Entries :
               /\ dlq[e].of = c /\ dlq[e].state \in {"unresolved", "replaying", "resolved"}
               /\ ~Marking(e)
               => /\ e \in DOMAIN dlq' /\ dlq'[e].of = c
                  /\ dlq'[e].state \in {"unresolved", "replaying", "resolved"} /\ ~Marking(e)'
    PROVE  Safe(c, x)'
<1>1. Settled(c) => Settled(c)'
  BY DEF Settled
<1>2. Stored(c, x) => Stored(c, x)'
  BY DEF Stored, Copies
<1>3. Filed(c) => Filed(c)'
  BY DEF Filed, Entries
<1>4. QED
  BY <1>1, <1>2, <1>3 DEF Safe

\* No step removes the last thing that keeps a command safe.
LEMMA AccountedNext ==
    ASSUME DeliveryInv, Next
    PROVE  Accounted'
<1>a. /\ \A m \in Copies, c \in Commands : copies[m].of = c => Safe(c, 0)
      /\ \A x \in Copies, c \in Commands :
             worker.pc = "ack" /\ worker.copy = x /\ Copy.of = c => Safe(c, x)
      /\ worker.pc \in {"record", "notify"} /\ worker.next = "ack" => Copy.of \in done \cup refused
  BY DEF DeliveryInv, Accounted
<1>b. /\ worker.pc # "idle" => worker.copy \in Copies /\ Copy.of \in Commands
      /\ worker.pc \in {"record", "notify"} => worker.status \in Status
      /\ worker \in Worker /\ copies \in Seq(CopyOf) /\ dlq \in Seq(Entry)
      /\ \A m \in Copies : m # 0 /\ copies[m].of \in Commands
      /\ \A e \in Entries : e # 0 /\ dlq[e].of \in Commands
      /\ done \subseteq Commands /\ refused \subseteq Commands
  BY OfCommand DEF DeliveryInv, Typed, Held, Copy
<1>c. \A m \in Copies : m \in DOMAIN copies' /\ copies'[m].of = copies[m].of
  BY CopiesKept DEF Copies
<1>d. \A c \in Commands : Store(c) =>
          /\ DOMAIN copies' = Copies \cup {Len(copies) + 1} /\ Len(copies) + 1 \notin Copies
          /\ Len(copies) + 1 # 0
          /\ copies'[Len(copies) + 1].of = c /\ copies'[Len(copies) + 1].state = "queued"
          /\ \A m \in Copies : copies'[m] = copies[m]
  BY <1>b, StoreEffect
<1> DEFINE First == \A m \in DOMAIN copies', c \in Commands : copies'[m].of = c => Safe(c, 0)'
           Second == \A x \in DOMAIN copies', c \in Commands :
                         worker'.pc = "ack" /\ worker'.copy = x /\ copies'[x].of = c => Safe(c, x)'
           Third == worker'.pc \in {"record", "notify"} /\ worker'.next = "ack" =>
                        copies'[worker'.copy].of \in done' \cup refused'
           Goal == First /\ Second /\ Third
<1>s. ASSUME NEW c \in Commands, Store(c), NEW x \in Copies \cup {0} PROVE Safe(c, x)'
  <2>1. /\ Len(copies) + 1 \in DOMAIN copies' /\ Len(copies) + 1 # x
        /\ copies'[Len(copies) + 1].of = c /\ copies'[Len(copies) + 1].state = "queued"
    BY <1>d, <1>s
  <2>2. Stored(c, x)'
    BY <2>1 DEF Stored, Copies
  <2>3. QED
    BY <2>2 DEF Safe
<1>e. ASSUME UNCHANGED <<worker, done, refused>>,
             \A c \in Commands, x \in Copies \cup {0} : Safe(c, x) => Safe(c, x)',
             copies' = copies \/ \E c \in Commands : Store(c)
      PROVE  Goal
  <2>1. First
    <3>1. ASSUME NEW m \in DOMAIN copies', NEW c \in Commands, copies'[m].of = c PROVE Safe(c, 0)'
      <4>1. CASE m \in Copies
        BY <1>a, <1>c, <1>e, <3>1, <4>1
      <4>2. CASE m \notin Copies
        <5>1. Store(c)
          BY <1>d, <1>e, <3>1, <4>2 DEF Copies
        <5>2. QED
          BY <1>s, <5>1
      <4>3. QED
        BY <4>1, <4>2
    <3>2. QED
      BY <3>1
  <2>2. Second
    <3>1. ASSUME NEW x \in DOMAIN copies', NEW c \in Commands, worker'.pc = "ack",
                 worker'.copy = x, copies'[x].of = c
          PROVE  Safe(c, x)'
      <4>1. x \in Copies /\ Copy.of = c /\ worker.pc = "ack" /\ worker.copy = x
        BY <1>b, <1>c, <1>e, <3>1 DEF Copy
      <4>2. QED
        BY <1>a, <1>e, <4>1
    <3>2. QED
      BY <3>1
  <2>3. Third
    BY <1>a, <1>b, <1>c, <1>e DEF Copy
  <2>4. QED
    BY <2>1, <2>2, <2>3
<1>1. ASSUME NEW t \in Tasks, CallerSteps(t) PROVE Goal
  <2>1. /\ UNCHANGED <<worker, done, refused, dlq, operator>>
        /\ copies' = copies \/ \E c \in Commands : Store(c)
    BY <1>1, CallerEffect DEF CallerMove, callerOnly, memoryVars
  <2>2. \A m \in Copies : m \in DOMAIN copies' /\ copies'[m] = copies[m]
    BY <1>d, <2>1 DEF Copies
  <2>3. \A e : Marking(e)' = Marking(e)
    BY <2>1 DEF Marking
  <2>4. \A c, x : Safe(c, x) => Safe(c, x)'
    BY <2>1, <2>2, <2>3, SafeKept DEF Entries
  <2>5. QED
    BY <1>e, <2>1, <2>4
<1>2. ASSUME WorkerSteps PROVE Goal
  <2>a. UNCHANGED operator /\ \A e : Marking(e)' = Marking(e)
    BY <1>2, WorkerEffect DEF Marking
  <2>b. \A p \in WorkerPc : Go(p) =>
            worker'.pc = p /\ worker'.copy = worker.copy /\ worker'.next = worker.next
    BY <1>b, GoEffect
  <2>c. \A s \in Status : \A n \in NextPcs : Record(s, n) =>
            worker'.pc = "record" /\ worker'.copy = worker.copy /\ worker'.next = n
    BY <1>b, RecordEffect
  <2>d. ASSUME UNCHANGED <<copies, dlq>>, done \subseteq done', refused \subseteq refused',
               worker'.pc = "ack" =>
                   worker.pc # "idle" /\ worker'.copy = worker.copy /\ Copy.of \in done \cup refused,
               worker'.pc \in {"record", "notify"} /\ worker'.next = "ack" =>
                   worker.pc # "idle" /\ worker'.copy = worker.copy /\ Copy.of \in done' \cup refused'
        PROVE  Goal
    <3>1. \A c, x : Safe(c, x) => Safe(c, x)'
      BY <2>a, <2>d, SafeKept DEF Copies, Entries
    <3>2. \A x : \A c \in done' \cup refused' : Safe(c, x)'
      BY DEF Safe, Settled
    <3>3. First
      BY <1>a, <2>d, <3>1 DEF Copies
    <3>4. Second
      BY <2>d, <3>2 DEF Copy
    <3>5. Third
      BY <2>d DEF Copy
    <3>6. QED
      BY <3>3, <3>4, <3>5
  <2>1. CASE Take
    <3>1. /\ DOMAIN copies' = Copies /\ worker'.pc = "look"
          /\ \A m \in Copies : copies'[m].of = copies[m].of
          /\ \A m \in Copies : copies'[m].state = copies[m].state
                               \/ (copies[m].state = "queued" /\ copies'[m].state = "held")
      BY <1>b, <2>1, TakeEffect
    <3>2. UNCHANGED <<done, refused, dlq>>
      BY <2>1 DEF Take, memoryVars, workerOnly
    <3>3. \A c : Safe(c, 0) => Safe(c, 0)'
      BY <2>a, <3>1, <3>2, SafeKept DEF Entries
    <3>4. QED
      BY <1>a, <3>1, <3>3
  <2>2. CASE Look
    <3>1. UNCHANGED <<copies, dlq, done, refused>> /\ worker.pc = "look"
      BY <2>2 DEF Look, Doing, memoryVars, workerOnly
    <3>2. /\ worker'.pc \notin {"record", "notify"} /\ worker'.copy = worker.copy
          /\ worker'.pc = "ack" => row[Copy.of] = "applied"
      BY <2>b, <2>2 DEF Look, WorkerPc
    <3>3. worker'.pc = "ack" => Copy.of \in done
      BY <1>b, <3>1, <3>2 DEF DeliveryInv, Applied, AppliedTrue
    <3>4. QED
      BY <2>d, <3>1, <3>2, <3>3
  <2>3. CASE Apply
    <3>1. /\ UNCHANGED <<copies, dlq>> /\ worker.pc = "apply"
          /\ done \subseteq done' /\ refused \subseteq refused'
      BY <2>3 DEF Apply, Doing, memoryVars, workerOnly
    <3>2. /\ worker'.pc = "record" /\ worker'.copy = worker.copy
          /\ worker'.next = "ack" => Copy.of \in done' \cup refused'
      BY <2>c, <2>3 DEF Apply, Status, Terminal, NextPcs
    <3>3. QED
      BY <2>d, <3>1, <3>2
  <2>4. CASE RecordStatus \/ NotifyStatus
    <3>1. UNCHANGED <<copies, dlq, done, refused>> /\ worker.pc \in {"record", "notify"}
      BY <2>4 DEF RecordStatus, NotifyStatus, Doing, memoryVars, workerOnly
    <3>2. /\ worker'.copy = worker.copy /\ worker'.next = worker.next
          /\ worker'.pc \in {"notify", worker.next}
      BY <1>b, <2>b, <2>4
         DEF RecordStatus, NotifyStatus, WorkerPc, Worker, Doing, DeliveryInv, Held
    <3>3. worker.next \in {"ack", "nak", "dead"}
      BY <1>b, <3>1 DEF Worker, DeliveryInv, Held
    <3>4. QED
      BY <1>a, <2>d, <3>1, <3>2, <3>3
  <2>5. CASE DeadLetter
    <3>1. UNCHANGED <<copies, done, refused>> /\ worker.pc = "dead"
      BY <2>5 DEF DeadLetter, Doing, memoryVars
    <3>2. worker'.pc = "ack" /\ worker'.copy = worker.copy
      BY <2>b, <2>5 DEF DeadLetter, WorkerPc
    <3>3. /\ DOMAIN dlq' = Entries \cup {Len(dlq) + 1} /\ Len(dlq) + 1 \notin Entries
          /\ Len(dlq) + 1 # 0
          /\ dlq'[Len(dlq) + 1].of = Copy.of /\ dlq'[Len(dlq) + 1].state = "unresolved"
          /\ \A e \in Entries : dlq'[e] = dlq[e]
      BY <1>b, <2>5, DeadLetterEffect
    <3>4. \A o \in Operators : operator[o].pc = "mark" => operator[o].entry \in Entries
      BY DEF DeliveryInv, Claims, Replaying
    <3>5. \E e \in DOMAIN dlq' : dlq'[e].of = Copy.of /\ dlq'[e].state = "unresolved" /\ ~Marking(e)'
      BY <2>a, <3>3, <3>4 DEF Marking
    <3>6. \A c \in Commands : Copy.of = c => Filed(c)'
      BY <3>5 DEF Filed, Entries
    <3>7. \A c : Safe(c, 0) => Safe(c, 0)'
      BY <2>a, <3>1, <3>3, SafeKept DEF Entries, Copies
    <3>8. First
      BY <1>a, <3>1, <3>7 DEF Copies
    <3>9. Second
      BY <3>1, <3>2, <3>6 DEF Safe, Copy
    <3>10. QED
      BY <3>2, <3>8, <3>9
  <2>6. CASE Ack \/ Nak \/ Reconnect
    <3>1. /\ UNCHANGED <<dlq, done, refused>> /\ worker'.pc = "idle" /\ worker.pc # "idle"
          /\ \/ SetCopy("queued")
             \/ SetCopy("gone") /\ worker.pc = "ack"
      BY <2>6 DEF Ack, Nak, Reconnect, Doing, memoryVars, workerOnly, IdleWorker
    <3>2. \A s \in {"queued", "held", "gone"} : SetCopy(s) =>
              /\ DOMAIN copies' = Copies /\ copies'[worker.copy].of = Copy.of
              /\ copies'[worker.copy].state = s
              /\ \A m \in Copies : m # worker.copy => copies'[m] = copies[m]
      BY <1>b, <3>1, SetCopyEffect
    <3>3. CASE SetCopy("queued")
      <4>1. \A c : Safe(c, 0) => Safe(c, 0)'
        BY <1>c, <2>a, <3>1, <3>2, <3>3, SafeKept DEF Entries
      <4>2. QED
        BY <1>a, <1>c, <3>1, <3>2, <3>3, <4>1
    <3>4. CASE SetCopy("gone") /\ worker.pc = "ack"
      <4>1. PICK x \in Copies : x = worker.copy
        BY <1>b, <3>1
      <4>2. ASSUME NEW c \in Commands, Safe(c, 0) PROVE Safe(c, x)
        <5>1. CASE c = Copy.of
          BY <1>a, <3>4, <4>1, <5>1
        <5>2. CASE c # Copy.of
          BY <4>1, <4>2, <5>2 DEF Safe, Stored, Copy
        <5>3. QED
          BY <5>1, <5>2
      <4>3. ASSUME NEW c, Safe(c, x) PROVE Safe(c, 0)'
        <5>1. Settled(c) => Settled(c)'
          BY <3>1 DEF Settled
        <5>2. Stored(c, x) => Stored(c, 0)'
          BY <1>b, <3>2, <3>4, <4>1 DEF Stored, Copies
        <5>3. Filed(c) => Filed(c)'
          BY <2>a, <3>1 DEF Filed, Entries
        <5>4. QED
          BY <4>3, <5>1, <5>2, <5>3 DEF Safe
      <4>4. QED
        BY <1>a, <1>c, <3>1, <3>2, <3>4, <4>2, <4>3
    <3>5. QED
      BY <3>1, <3>3, <3>4
  <2>7. QED
    BY <1>2, <2>1, <2>2, <2>3, <2>4, <2>5, <2>6 DEF WorkerSteps
<1>3. ASSUME NEW o \in Operators, OperatorSteps(o) PROVE Goal
  <2>1. PICK e \in Entries : OperatorMove(o, e)
    BY <1>3, OperatorEffect
  <2>2. /\ UNCHANGED <<worker, done, refused>> /\ dlq[e].of \in Commands
        /\ copies' = copies \/ Store(dlq[e].of)
        /\ DOMAIN dlq' = Entries /\ dlq'[e].of = dlq[e].of
        /\ \A d \in Entries \ {e} : dlq'[d] = dlq[d]
    BY <1>b, <2>1 DEF OperatorMove, operatorOnly, memoryVars
  <2>3. \A m \in Copies : m \in DOMAIN copies' /\ copies'[m] = copies[m]
    BY <1>d, <2>2 DEF Copies
  <2>4. \A d \in Entries : d # e => (Marking(d)' <=> Marking(d))
    BY <1>b, <2>1, SMTT(30) DEF Marking, OperatorMove, IdleOperator
  <2>5. CASE dlq'[e].state \in {"unresolved", "replaying", "resolved"} /\ ~Marking(e)'
    <3>1. \A c, x : Safe(c, x) => Safe(c, x)'
      BY <2>2, <2>3, <2>4, <2>5, SafeKept DEF Entries
    <3>2. QED
      BY <1>e, <2>2, <3>1
  <2>6. CASE operator'[o].pc = "mark" /\ Store(dlq[e].of)
    <3>1. ASSUME NEW c, NEW x \in Copies \cup {0}, Safe(c, x) PROVE Safe(c, x)'
      <4>1. CASE c = dlq[e].of
        BY <1>s, <2>2, <2>6, <4>1
      <4>2. CASE c # dlq[e].of
        BY <2>2, <2>3, <2>4, <3>1, <4>2, SafeKept DEF Entries
      <4>3. QED
        BY <4>1, <4>2
    <3>2. QED
      BY <1>e, <2>2, <2>6, <3>1
  <2>7. CASE operator[o].pc = "mark"
    <3>1. Marking(e)
      BY <2>1, <2>7 DEF Marking, OperatorMove
    <3>2. \A c, x : Safe(c, x) => Safe(c, x)'
      BY <2>2, <2>3, <2>4, <3>1, SafeKept DEF Entries
    <3>3. QED
      BY <1>e, <2>2, <3>2
  <2>8. QED
    <3>1. Marking(e)' <=> operator'[o].pc = "mark" /\ operator'[o].entry = e
      BY <2>1 DEF Marking, OperatorMove
    <3>2. operator[o].pc \in Replaying => dlq[e].state = "replaying" \/ operator[o].entry # e
      BY <1>b, <2>1 DEF DeliveryInv, Claims, ClaimHeld
    <3>3. QED
      BY <2>1, <2>5, <2>6, <2>7, <3>1, <3>2 DEF OperatorMove, IdleOperator, Replaying
<1>4. ASSUME NEW e \in Entries, Resolve(e) PROVE Goal
  <2>1. /\ DOMAIN dlq' = Entries /\ dlq'[e].of = dlq[e].of /\ dlq'[e].state = "resolved"
        /\ \A d \in Entries : d # e => dlq'[d] = dlq[d]
        /\ UNCHANGED <<worker, done, refused, copies, operator>>
    BY <1>4, ResolveEffect DEF operatorOnly, memoryVars
  <2>2. \A d : Marking(d)' = Marking(d)
    BY <2>1 DEF Marking
  <2>3. \A c, x : Safe(c, x) => Safe(c, x)'
    BY <2>1, <2>2, SafeKept DEF Copies, Entries
  <2>4. QED
    BY <1>e, <2>1, <2>3
<1>5. ASSUME LateCommit PROVE Goal
  <2>1. UNCHANGED <<worker, done, refused, copies, dlq, operator>>
    BY <1>5, LateEffect DEF memoryVars
  <2>2. \A c, x : Safe(c, x) => Safe(c, x)'
    BY <2>1 DEF Safe, Settled, Stored, Filed, Marking, Copies, Entries
  <2>3. QED
    BY <1>e, <2>1, <2>2
<1>6. ASSUME Restart PROVE Goal
  <2>1. /\ DOMAIN copies' = Copies /\ DOMAIN dlq' = Entries
        /\ UNCHANGED <<done, refused>> /\ worker'.pc = "idle"
    BY <1>6, RestartEffect DEF memoryVars, IdleWorker
  <2>2. \A m \in Copies : copies[m].state \in {"queued", "held"} =>
            copies'[m].state \in {"queued", "held"}
    BY <1>6, RestartEffect
  <2>3. \A e \in Entries :
            /\ dlq'[e].of = dlq[e].of
            /\ dlq[e].state \in {"unresolved", "replaying", "resolved"} =>
                   dlq'[e].state \in {"unresolved", "replaying", "resolved"}
    BY <1>6, RestartEffect
  <2>4. \A e : ~Marking(e)'
    BY <1>6, RestartEffect DEF Marking
  <2>5. \A c : Safe(c, 0) => Safe(c, 0)'
    BY <1>c, <2>1, <2>2, <2>3, <2>4, SafeKept
  <2>6. QED
    BY <1>a, <1>c, <2>1, <2>5
<1>7. Goal
  BY <1>1, <1>2, <1>3, <1>4, <1>5, <1>6 DEF Next
<1>8. QED
  BY <1>7 DEF Accounted, Copies, Copy

\* Whoever makes an outcome final goes on to wake those who wait for it.
LEMMA AwakeNext ==
    ASSUME DeliveryInv, Next
    PROVE  Awake'
<1> DEFINE Sleeping(u) == /\ task[u].pc = "wait" \/ (task[u].pc = "check" /\ task[u].seen \notin Terminal)
                          /\ row[task[u].of] \in Terminal
           Goal == ~cut' => late' = {} /\ \A u \in Tasks : Sleeping(u)' => Woken(task[u].of)'
<1>a. /\ ~cut => late = {} /\ \A u \in Tasks : Sleeping(u) => Woken(task[u].of)
      /\ \A t \in Tasks : task[t].pc # "done" => task[t].of \in Commands
      /\ event \in [Commands -> {"none", "clear", "set"}]
      /\ row \in [Commands -> MaybeStatus] /\ writes \in 0 .. PruneEvery - 1
      /\ worker \in Worker
  BY DEF DeliveryInv, Awake, At, Callers, Typed
<1>b. \A u \in Tasks : task[u].pc \in Waiting => task[u].of \in Commands /\ event[task[u].of] # "none"
  BY DEF DeliveryInv, Events, Waiters, Callers, Waiting
<1>c. \A u \in Tasks : task'[u].pc \in Waiting =>
          task'[u].of \in Commands /\ event'[task'[u].of] # "none"
  BY EventsNext, CallersNext DEF Events, Waiters, Callers, Waiting
<1>d. worker.pc # "idle" =>
          /\ worker.copy \in Copies /\ copies'[worker.copy].of = copies[worker.copy].of
          /\ Copy.of \in Commands
          /\ worker.pc \in {"record", "notify"} => worker.status \in Status
  BY CopiesKept, OfCommand DEF DeliveryInv, Held, Copy
<1>1. ASSUME NEW t \in Tasks, CallerSteps(t) PROVE Goal
  <2>1. CallerMove(t) /\ CallerEvents(t) /\ task[t].of \in Commands
    BY <1>1, <1>a, CallerEffect DEF CallerMove
  <2>2. /\ UNCHANGED <<late, worker>> /\ cut' = cut /\ task'[t].of = task[t].of
        /\ \A v \in Tasks : v # t => task'[v] = task[v]
    BY <2>1 DEF CallerMove, callerOnly, Moves
  <2>3. ASSUME ~cut, NEW u \in Tasks, Sleeping(u)' PROVE Woken(task[u].of)'
    <3> DEFINE c == task[u].of
    <3>1. /\ task'[u].of = c /\ c \in Commands /\ event'[c] # "none"
          /\ row'[c] \in Terminal /\ task'[u].pc \in {"wait", "check"}
      BY <1>c, <2>2, <2>3 DEF Waiting
    <3>2. \/ row[c] \in Terminal /\ (task[u].pc = "wait" \/ (task[u].pc = "check" /\ task[u].seen \notin Terminal))
          \/ c = t /\ task'[t].pc = "fail_notify"
      <4>1. CASE u = t
        BY <2>1, <2>3, <3>1, <4>1 DEF CallerMove
      <4>2. CASE u # t
        BY <2>1, <2>2, <2>3, <3>1, <4>2 DEF CallerMove, Terminal
      <4>3. QED
        BY <4>1, <4>2
    <3>3. CASE c = t /\ task'[t].pc = "fail_notify"
      BY <3>1, <3>3 DEF Woken, At
    <3>4. CASE row[c] \in Terminal /\ (task[u].pc = "wait" \/ (task[u].pc = "check" /\ task[u].seen \notin Terminal))
      <4>1. Woken(c) /\ event[c] # "none"
        BY <1>a, <1>b, <2>3, <3>4 DEF Waiting
      <4>2. event[c] = "set" => event'[c] = "set"
        BY <1>a, <2>1, <3>1 DEF CallerEvents, Leave, Notify
      <4>3. Doing("notify") /\ Copy.of = c => worker'.pc = "notify" /\ copies'[worker'.copy].of = c
        BY <1>d, <2>2 DEF Doing, Copy
      <4>4. At(c, "fail_notify") => event'[c] = "set" \/ task'[c].pc = "fail_notify"
        <5>1. CASE c = t
          BY <1>a, <2>1, <3>1, <4>1, <5>1 DEF CallerEvents, Notify, At, Waiting
        <5>2. CASE c # t
          BY <2>2, <3>1, <5>2 DEF At, Tasks
        <5>3. QED
          BY <5>1, <5>2
      <4>5. event'[c] = "set" \/ (worker'.pc = "notify" /\ copies'[worker'.copy].of = c)
            \/ task'[c].pc = "fail_notify"
        BY <4>1, <4>2, <4>3, <4>4 DEF Woken
      <4>6. QED
        BY <3>1, <4>5 DEF Woken, Doing, Copy, At
    <3>5. QED
      BY <3>2, <3>3, <3>4
  <2>4. QED
    BY <1>a, <2>2, <2>3
<1>2. ASSUME UNCHANGED <<task, event, late, cut, copies>>,
             worker' = worker \/ worker.pc # "notify",
             \A c \in Commands : row'[c] \in Terminal => row[c] \in Terminal
      PROVE  Goal
  <2>1. ASSUME ~cut, NEW u \in Tasks, Sleeping(u)' PROVE Woken(task[u].of)'
    <3>1. task[u].of \in Commands
      BY <1>a, <1>2, <2>1
    <3>2. Sleeping(u)
      BY <1>2, <2>1, <3>1
    <3>3. Woken(task[u].of)
      BY <1>a, <2>1, <3>2
    <3>4. QED
      BY <1>2, <3>3 DEF Woken, Doing, Copy, At
  <2>2. QED
    BY <1>a, <1>2, <2>1
<1>3. ASSUME WorkerSteps PROVE Goal
  <2>a. UNCHANGED task
    BY <1>3, WorkerEffect
  <2>b. \A p \in WorkerPc : Go(p) => worker'.pc = p /\ worker'.copy = worker.copy
    BY <1>a, GoEffect
  <2>1. CASE Look \/ Apply \/ DeadLetter
    BY <1>2, <2>1 DEF Look, Apply, DeadLetter, Doing, statusVars, faultVars, workerOnly, Fault
  <2>2. CASE Take \/ Ack \/ Nak
    <3>1. UNCHANGED <<row, event, late, cut>> /\ worker.pc # "notify"
      BY <2>2 DEF Take, Ack, Nak, Doing, statusVars, faultVars, workerOnly
    <3>2. QED
      BY <1>a, <2>a, <3>1 DEF Woken, Doing, At
  <2>3. CASE RecordStatus
    <3>1. UNCHANGED <<event, late, cut, copies>> /\ worker.pc = "record"
      BY <2>3 DEF RecordStatus, Doing, faultVars, workerOnly, Fault
    <3>2. CASE UNCHANGED statusVars
      BY <1>2, <2>a, <3>1, <3>2 DEF statusVars
    <3>3. CASE Transition(Copy.of, worker.status)
                   /\ Go(IF worker.status \in Terminal THEN "notify" ELSE worker.next)
      <4>1. \A d \in Commands : row'[d] \in {row[d], "none"} \/ (d = Copy.of /\ row'[d] = worker.status)
        BY <1>a, <1>d, <3>1, <3>3, TransitionEffect
      <4>2. CASE worker.status \notin Terminal
        <5>1. \A d \in Commands : row'[d] \in Terminal => row[d] \in Terminal
          BY <4>1, <4>2 DEF Terminal
        <5>2. QED
          BY <1>2, <2>a, <3>1, <5>1
      <4>3. CASE worker.status \in Terminal
        <5>1. worker'.pc = "notify" /\ worker'.copy = worker.copy
          BY <2>b, <3>3, <4>3 DEF WorkerPc
        <5>2. ASSUME ~cut, NEW u \in Tasks, Sleeping(u)' PROVE Woken(task[u].of)'
          <6>1. task[u].of \in Commands /\ row'[task[u].of] \in Terminal
            BY <1>a, <2>a, <5>2
          <6>2. CASE task[u].of = Copy.of
            BY <2>a, <3>1, <5>1, <6>2 DEF Woken, Doing, Copy
          <6>3. CASE task[u].of # Copy.of
            <7>1. Sleeping(u)
              BY <2>a, <4>1, <5>2, <6>1, <6>3 DEF Terminal
            <7>2. Woken(task[u].of) /\ ~Doing("notify")
              BY <1>a, <3>1, <5>2, <7>1 DEF Doing
            <7>3. QED
              BY <2>a, <3>1, <7>2 DEF Woken, At
          <6>4. QED
            BY <6>2, <6>3
        <5>3. QED
          BY <1>a, <3>1, <5>2
      <4>4. QED
        BY <4>2, <4>3
    <3>4. QED
      BY <2>3, <3>2, <3>3 DEF RecordStatus
  <2>4. CASE NotifyStatus
    <3>1. /\ UNCHANGED <<row, late, cut, copies>> /\ worker.pc = "notify" /\ Notify(Copy.of)
      BY <2>4 DEF NotifyStatus, Doing, statusVars, faultVars, workerOnly
    <3>2. ASSUME ~cut, NEW u \in Tasks, Sleeping(u)' PROVE Woken(task[u].of)'
      <4>1. Sleeping(u)
        BY <2>a, <3>1, <3>2
      <4>2. Woken(task[u].of) /\ event[task[u].of] # "none" /\ task[u].of \in Commands
        BY <1>a, <1>b, <3>2, <4>1 DEF Waiting
      <4>3. event'[Copy.of] = (IF event[Copy.of] = "none" THEN "none" ELSE "set")
            /\ \A d \in Commands : d # Copy.of => event'[d] = event[d]
        BY <1>a, <1>d, <3>1 DEF Notify
      <4>4. event'[task[u].of] = "set" \/ At(task[u].of, "fail_notify")
        BY <4>2, <4>3 DEF Woken
      <4>5. QED
        BY <2>a, <4>4 DEF Woken, At
    <3>3. QED
      BY <1>a, <3>1, <3>2
  <2>5. CASE Reconnect
    BY <2>5 DEF Reconnect
  <2>6. QED
    BY <1>3, <2>1, <2>2, <2>3, <2>4, <2>5 DEF WorkerSteps
<1>4. ASSUME NEW o \in Operators, OperatorSteps(o) PROVE Goal
  <2>1. PICK e \in Entries : OperatorMove(o, e)
    BY <1>4, OperatorEffect
  <2>2. UNCHANGED <<row, event, late, task, worker, cut>>
    BY <2>1 DEF OperatorMove, operatorOnly, statusVars
  <2>3. ASSUME ~cut, NEW u \in Tasks, Sleeping(u)' PROVE Woken(task[u].of)'
    <3>1. Woken(task[u].of)
      BY <1>a, <2>2, <2>3
    <3>2. Doing("notify") => copies'[worker.copy].of = Copy.of
      BY <1>d DEF Doing, Copy
    <3>3. QED
      BY <2>2, <3>1, <3>2 DEF Woken, Doing, Copy, At
  <2>4. QED
    BY <1>a, <2>2, <2>3
<1>5. ASSUME NEW e \in Entries, Resolve(e) PROVE Goal
  BY <1>2, <1>5, ResolveEffect DEF operatorOnly, statusVars
<1>6. ASSUME LateCommit PROVE Goal
  BY <1>a, <1>6, LateEffect DEF faultVars
<1>7. ASSUME Restart PROVE Goal
  BY <1>7, RestartEffect
<1>8. Goal
  BY <1>1, <1>3, <1>4, <1>5, <1>6, <1>7 DEF Next
<1>9. QED
  BY <1>8 DEF Awake, At

----------------------------------------------------------------------------
(* The theorems.                                                            *)

\* The invariant holds at the start.
LEMMA InitInv ==
    ASSUME Init
    PROVE  DeliveryInv
<1>1. PICK s \in Scenarios :
          /\ row = [c \in Commands |-> "none"] /\ writes = 0
          /\ event = [c \in Commands |-> "none"]
          /\ late = {} /\ done = {} /\ refused = {} /\ copies = <<>> /\ dlq = <<>>
          /\ \E asked \in [Askers \cap s.callers -> Commands] :
                 task = [t \in Tasks |->
                     [pc |-> IF t \in s.callers THEN "new" ELSE "done",
                      of |-> IF t \in Commands THEN t
                             ELSE IF t \in s.callers THEN asked[t] ELSE CHOOSE c \in Commands : TRUE,
                      seen |-> "none", told |-> "none"]]
          /\ worker = IdleWorker
          /\ operator = [o \in Operators |->
                 IF o \in s.operators THEN IdleOperator ELSE [IdleOperator EXCEPT !.pc = "away"]]
          /\ faults = s.faults /\ cut = FALSE
  BY DEF Init
<1>2. PICK asked \in [Askers \cap s.callers -> Commands] :
          task = [t \in Tasks |->
              [pc |-> IF t \in s.callers THEN "new" ELSE "done",
               of |-> IF t \in Commands THEN t
                      ELSE IF t \in s.callers THEN asked[t] ELSE Nobody,
               seen |-> "none", told |-> "none"]]
  BY <1>1 DEF Nobody
<1>3. \A t \in Tasks :
          /\ task[t] \in Task /\ task[t].pc \in {"new", "done"}
          /\ task[t].seen = "none" /\ task[t].told = "none"
          /\ task[t].pc # "done" => task[t].of \in Commands
          /\ t \in Commands => task[t].of = t
  BY <1>2 DEF Tasks, Task, TaskPc, MaybeStatus
<1>4. IdleOperator \in Operator /\ [IdleOperator EXCEPT !.pc = "away"] \in Operator
  BY DEF IdleOperator, Operator
<1>5. operator \in [Operators -> Operator]
      /\ \A o \in Operators : operator[o].pc \notin Replaying /\ operator[o].entry = 0
  BY <1>1, <1>4 DEF IdleOperator, Replaying
<1>6. worker \in Worker /\ worker.pc = "idle"
  BY <1>1 DEF IdleWorker, Worker, MaybeStatus
<1>7. s.faults \in Nat
  BY DeliveryConstants DEF Scenario
<1>8. /\ <<>> \in Seq(CopyOf) /\ <<>> \in Seq(Entry) /\ DOMAIN <<>> = {}
      /\ 0 \in 0 .. PruneEvery - 1
  BY DeliveryConstants
<1>9. Typed
  <2>1. task \in [Tasks -> Task]
    BY <1>2, <1>3
  <2>2. row \in [Commands -> MaybeStatus] /\ event \in [Commands -> {"none", "clear", "set"}]
    BY <1>1 DEF MaybeStatus
  <2>3. QED
    BY <1>1, <1>5, <1>6, <1>7, <1>8, <2>1, <2>2 DEF Typed
<1>10. Callers
  BY <1>3 DEF Callers, Tasks
<1>11. Events
  BY <1>1, <1>3 DEF Events, Waiters, Waiting
<1>12. Held /\ Claims
  BY <1>5, <1>6 DEF Held, Claims, ClaimHeld
<1>13. Applied
  BY <1>1, <1>3, <1>6 DEF Applied, AppliedTrue
<1>14. Accounted
  BY <1>1, <1>6, <1>8 DEF Accounted, Copies
<1>15. Awake
  BY <1>1, <1>3 DEF Awake, At
<1>16. QED
  BY <1>9, <1>10, <1>11, <1>12, <1>13, <1>14, <1>15 DEF DeliveryInv

\* And every step keeps it.
LEMMA NextInv ==
    ASSUME DeliveryInv, [Next]_vars
    PROVE  DeliveryInv'
<1>1. CASE Next
  BY <1>1, TypedNext, CallersNext, EventsNext, HeldNext, ClaimsNext, AppliedNext, AccountedNext,
     AwakeNext DEF DeliveryInv
<1>2. CASE UNCHANGED vars
  <2>1. UNCHANGED <<row, writes, event, late, copies, done, refused, dlq, task, worker, operator,
                    faults, cut>>
    BY <1>2 DEF vars, statusVars, memoryVars, faultVars
  <2>2. Typed' /\ Callers'
    BY <2>1 DEF DeliveryInv, Typed, Callers
  <2>3. Events' /\ Held' /\ Claims'
    BY <2>1 DEF DeliveryInv, Events, Waiters, Held, Claims, ClaimHeld, Copy, Copies, Entries
  <2>4. Applied'
    BY <2>1 DEF DeliveryInv, Applied, AppliedTrue, Copy
  <2>5. Accounted'
    BY <2>1
       DEF DeliveryInv, Accounted, Safe, Settled, Stored, Filed, Marking, Copy, Copies, Entries
  <2>6. Awake'
    BY <2>1 DEF DeliveryInv, Awake, Woken, At, Doing, Copy
  <2>7. QED
    BY <2>2, <2>3, <2>4, <2>5, <2>6 DEF DeliveryInv
<1>3. QED
  BY <1>1, <1>2

\* Inductive: every caller, worker and operator holds what its
\* place in the code promises, whatever fails, restarts or is redelivered.
THEOREM DeliveryInvariant == Spec => []DeliveryInv
<1>1. Init => DeliveryInv
  BY InitInv
<1>2. DeliveryInv /\ [Next]_vars => DeliveryInv'
  BY NextInv
<1>3. QED
  BY <1>1, <1>2, PTL DEF Spec

\* Every variable holds a value of its type, and the event of a command exists
\* while somebody waits on it (_terminal_events of command_status.py).
THEOREM DeliveryTypeCorrect == Spec => []TypeOK
<1>1. DeliveryInv => TypeOK
  BY DEF DeliveryInv, Typed, Events, TypeOK, MaybeStatus, CopyOf, Entry
<1>2. QED
  BY <1>1, DeliveryInvariant, PTL

\* Neither the status projection nor an answer to a caller says "applied" of a
\* command that has not been applied - not through a late write, a pruned row,
\* a redelivery or a restart either.
THEOREM DeliveryAppliedTrue == Spec => []AppliedTrue
<1>1. DeliveryInv => AppliedTrue
  BY DEF DeliveryInv, Applied
<1>2. QED
  BY <1>1, DeliveryInvariant, PTL

\* A command the broker took is applied, rejected, on the broker or in the dead
\* letters at every moment (process_command_message and the dlq tools).
THEOREM DeliveryNothingLost == Spec => []NothingLost
<1>1. DeliveryInv => NothingLost
  <2>1. ASSUME DeliveryInv, NEW c \in Commands, NEW m \in Copies, copies[m].of = c
        PROVE  \/ c \in done \cup refused
               \/ CopiesOf(c, {"queued", "held"}) # {}
               \/ EntriesOf(c, {"unresolved", "replaying", "resolved"}) # {}
    <3>1. Safe(c, 0)
      BY <2>1 DEF DeliveryInv, Accounted
    <3>2. QED
      BY <3>1 DEF Safe, Settled, Stored, Filed, CopiesOf, EntriesOf
  <2>2. QED
    BY <2>1 DEF NothingLost
<1>2. QED
  BY <1>1, DeliveryInvariant, PTL

\* A caller that waits for an outcome which is recorded has been woken, or is
\* about to be (wait_terminal and _notify_terminal), unless a worker was cut.
THEOREM DeliveryNoLostWakeup == Spec => []NoLostWakeup
<1>1. DeliveryInv => NoLostWakeup
  BY DEF DeliveryInv, Awake, Woken, NoLostWakeup
<1>2. QED
  BY <1>1, DeliveryInvariant, PTL

\* What one operator has claimed nobody else replays, finishes or resolves
\* (claim_replay, mark_replayed, release_replay, resolve).
THEOREM DeliveryClaimHeld == Spec => []ClaimHeld
<1>1. DeliveryInv => ClaimHeld
  BY DEF DeliveryInv, Claims
<1>2. QED
  BY <1>1, DeliveryInvariant, PTL

=============================================================================
