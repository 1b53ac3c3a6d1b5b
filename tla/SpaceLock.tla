----------------------------- MODULE SpaceLock -----------------------------
(***************************************************************************)
(* The readers-writer lock of one memory space                             *)
(* (eidolon/memory/domain/space_lock.py), on the asyncio.Condition it is   *)
(* built from.                                                             *)
(*                                                                         *)
(* A task runs without interruption from one suspension to the next.  The  *)
(* condition's own mutex is never held across a suspension (wait() lets    *)
(* go of it first), so it is never contended: every `async with cond`      *)
(* block, up to the wait inside it, is one step.  A task suspends only in  *)
(* cond.wait(), where notify_all may make it runnable again and a          *)
(* cancellation may end the wait; a task that was notified can still be    *)
(* cancelled before it runs.                                               *)
(***************************************************************************)
EXTENDS Integers, FiniteSets

CONSTANT Tasks

ASSUME TasksFinite == IsFiniteSet(Tasks)

VARIABLES
    pc,               \* where each task is
    readers,          \* _readers
    writing,          \* _writing
    waiting_writers   \* _waiting_writers

lockVars == <<pc, readers, writing, waiting_writers>>

\* Suspended in cond.wait(), made runnable by notify_all, or cancelled there.
WaitingRead == {"wait_read", "woken_read", "cancelled_read"}
WaitingWrite == {"wait_write", "woken_write", "cancelled_write"}

PC == {"outside", "reading", "writing"} \cup WaitingRead \cup WaitingWrite

LockInit ==
    /\ pc = [t \in Tasks |-> "outside"]
    /\ readers = 0
    /\ writing = FALSE
    /\ waiting_writers = 0

----------------------------------------------------------------------------
\* notify_all: every waiter whose future is still pending becomes runnable.
NotifyAll(p) ==
    [t \in Tasks |-> CASE p[t] = "wait_read" -> "woken_read"
                       [] p[t] = "wait_write" -> "woken_write"
                       [] OTHER -> p[t]]

Move(t, to) == [pc EXCEPT ![t] = to]

\* Mutant: a waiting writer does not hold off new readers.
ReadAllowedReaderPreferring == ~writing

ReadAllowed == ~writing /\ waiting_writers = 0

\* Mutant: a writer does not wait for the readers inside.
WriteAllowedEarly == ~writing

WriteAllowed == ~writing /\ readers = 0

\* acquire_read, from its start or from a wait that was notified.
AcquireRead(t) ==
    /\ pc[t] \in {"outside", "woken_read"}
    /\ IF ReadAllowed
       THEN pc' = Move(t, "reading") /\ readers' = readers + 1
       ELSE pc' = Move(t, "wait_read") /\ UNCHANGED readers
    /\ UNCHANGED <<writing, waiting_writers>>

\* Mutant: nobody is told when the last reader leaves.
ReleaseReadSilent(t) ==
    /\ pc[t] = "reading"
    /\ readers' = readers - 1
    /\ pc' = Move(t, "outside")
    /\ UNCHANGED <<writing, waiting_writers>>

\* release_read: the last reader to leave tells the writers.
ReleaseRead(t) ==
    /\ pc[t] = "reading"
    /\ readers' = readers - 1
    /\ pc' = IF readers = 1 THEN NotifyAll(Move(t, "outside")) ELSE Move(t, "outside")
    /\ UNCHANGED <<writing, waiting_writers>>

\* The `finally` of acquire_write's wait: one writer fewer waits, and if it
\* was the last the readers it held off are told.
StopWaiting(t, to) ==
    /\ waiting_writers' = waiting_writers - 1
    /\ pc' = IF waiting_writers = 1 /\ ~writing THEN NotifyAll(Move(t, to)) ELSE Move(t, to)

\* acquire_write, called: counted as waiting before the condition is tested.
AcquireWrite(t) ==
    /\ pc[t] = "outside"
    /\ IF WriteAllowed
       THEN /\ pc' = IF waiting_writers = 0 THEN NotifyAll(Move(t, "writing"))
                     ELSE Move(t, "writing")
            /\ writing' = TRUE
            /\ UNCHANGED waiting_writers
       ELSE /\ pc' = Move(t, "wait_write")
            /\ waiting_writers' = waiting_writers + 1
            /\ UNCHANGED writing
    /\ UNCHANGED readers

\* acquire_write, notified: the condition is tested again.
ResumeWrite(t) ==
    /\ pc[t] = "woken_write"
    /\ IF WriteAllowed
       THEN StopWaiting(t, "writing") /\ writing' = TRUE
       ELSE pc' = Move(t, "wait_write") /\ UNCHANGED <<writing, waiting_writers>>
    /\ UNCHANGED readers

ReleaseWrite(t) ==
    /\ pc[t] = "writing"
    /\ writing' = FALSE
    /\ pc' = NotifyAll(Move(t, "outside"))
    /\ UNCHANGED <<readers, waiting_writers>>

\* task.cancel() reaches a task inside cond.wait(), notified or not.
CancelWait(t) ==
    /\ \/ /\ pc[t] \in {"wait_read", "woken_read"}
          /\ pc' = Move(t, "cancelled_read")
       \/ /\ pc[t] \in {"wait_write", "woken_write"}
          /\ pc' = Move(t, "cancelled_write")
    /\ UNCHANGED <<readers, writing, waiting_writers>>

\* CancelledError leaves cond.wait(), and acquire_read or acquire_write.
Abandon(t) ==
    /\ \/ /\ pc[t] = "cancelled_read"
          /\ pc' = Move(t, "outside")
          /\ UNCHANGED waiting_writers
       \/ /\ pc[t] = "cancelled_write"
          /\ StopWaiting(t, "outside")
    /\ UNCHANGED <<readers, writing>>

\* What a task does by itself once it has asked for the lock; a body of an
\* `async with` block ends, normally or by a cancellation.
Progress(t) ==
    \/ pc[t] = "woken_read" /\ AcquireRead(t)
    \/ ResumeWrite(t) \/ Abandon(t) \/ ReleaseRead(t) \/ ReleaseWrite(t)

LockNext ==
    \E t \in Tasks : AcquireRead(t) \/ AcquireWrite(t) \/ CancelWait(t) \/ Progress(t)

\* The event loop runs every runnable task, and every holder lets go.
LockFairness == \A t \in Tasks : WF_lockVars(Progress(t))

LockSpec == LockInit /\ [][LockNext]_lockVars /\ LockFairness

----------------------------------------------------------------------------
TasksAt(S) == {t \in Tasks : pc[t] \in S}

\* The counters are never negative.
LockTypeOK ==
    /\ pc \in [Tasks -> PC]
    /\ readers \in Nat
    /\ writing \in BOOLEAN
    /\ waiting_writers \in Nat

\* The counters tell the truth, whatever was cancelled: _readers counts the
\* readers inside, _waiting_writers the writers in acquire_write.
Counted ==
    /\ readers = Cardinality(TasksAt({"reading"}))
    /\ waiting_writers = Cardinality(TasksAt(WaitingWrite))
    /\ writing <=> TasksAt({"writing"}) # {}

\* A readers-writer lock: the readers inside and the writer inside are those
\* of the abstract lock.
Abstract ==
    INSTANCE ReadersWriter WITH reading <- TasksAt({"reading"}), writing <- TasksAt({"writing"})
ImplementsReadersWriter == Abstract!Spec

\* No wake-up is lost: a writer that waits unnotified waits for somebody
\* inside, and a reader that waits unnotified for somebody inside or for a
\* writer that is runnable and will enter, or tell it, when it runs.
NoLostWakeup ==
    /\ TasksAt({"wait_write"}) # {} => writing \/ readers > 0
    /\ TasksAt({"wait_read"}) # {}
       => writing \/ readers > 0 \/ TasksAt({"woken_write", "cancelled_write"}) # {}

\* A steady stream of readers does not starve the writers: when one waits,
\* a writer gets in, unless all of them are cancelled.
WriterGetsIn == waiting_writers > 0 ~> (writing \/ waiting_writers = 0)

=============================================================================
