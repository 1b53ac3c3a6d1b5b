---------------------------- MODULE Commitments ----------------------------
(***************************************************************************)
(* The commitment ledger of one memory space                               *)
(* (eidolon/memory/infrastructure/commitments.py, deciding through         *)
(* domain/commitment_decision.py).                                         *)
(*                                                                         *)
(* A commitment is a promise with a lifecycle.  Three tables: the current  *)
(* record of each commitment, the append-only history of its revisions,    *)
(* one per intent, and the privacy tombstones.  Every method is one SQLite *)
(* transaction, so every method is one action; a call that raises changes  *)
(* nothing.                                                                *)
(***************************************************************************)
EXTENDS Integers, FiniteSets

CONSTANTS
    Cids,       \* commitment ids: a hash of promisor, predicate, action, ...
    NoCid,      \* "no row"
    Intents,    \* ids of the intents that state or revise a commitment
    IntentOf    \* what each intent says

ActiveStatus == {"proposed", "confirmed"}
TerminalStatus == {"fulfilled", "cancelled", "superseded"}
Status == ActiveStatus \cup TerminalStatus

Targets == {"drawer", "kg"}
Projections == [Targets -> {"pending", "projected"}]

\* An intent id stands for one payload.  wording: the identity fields as the intent spells them; targeted: the
\* intent names the commitment by its id.
Intent ==
    [cid : Cids, targeted : BOOLEAN, wording : {"same", "other"},
     op : {"add", "confirm", "update", "invalidate"}, status : Status \cup {"none"}]

ASSUME CommitmentConstants ==
    /\ IsFiniteSet(Intents)
    /\ NoCid \notin Cids
    /\ IntentOf \in [Intents -> Intent]

VARIABLES
    commitments,    \* the current records
    revisions,      \* commitment_revisions: intent -> the revision it made
    tombstones      \* commitment_privacy

ledgerVars == <<commitments, revisions, tombstones>>

Record ==
    [status : Status \cup {"absent"}, revision : Nat, wording : {"same", "other"},
     proj : Projections]
Revision ==
    [cid : Cids \cup {NoCid}, number : Nat, previous : Status \cup {"none"},
     status : Status \cup {"none"}]
Tombstone ==
    [action : {"none", "archive", "delete"}, revision_count : Nat, proj : Projections]

AllPending == [t \in Targets |-> "pending"]
AllProjected == [t \in Targets |-> "projected"]

NoRecord == [status |-> "absent", revision |-> 0, wording |-> "same", proj |-> AllPending]
NoRevision == [cid |-> NoCid, number |-> 0, previous |-> "none", status |-> "none"]
NoTombstone == [action |-> "none", revision_count |-> 0, proj |-> AllPending]

LedgerInit ==
    /\ commitments = [c \in Cids |-> NoRecord]
    /\ revisions = [i \in Intents |-> NoRevision]
    /\ tombstones = [c \in Cids |-> NoTombstone]

Exists(c) == commitments[c].status # "absent"
Forgotten(c) == tombstones[c].action # "none"
Active(c) == commitments[c].status \in ActiveStatus
SetProj(proj, T) == [t \in Targets |-> IF t \in T THEN "projected" ELSE proj[t]]

----------------------------------------------------------------------------
(* apply: one intent makes one revision.                                    *)

\* Which status may follow which.
Transitions ==
    [s \in Status |->
        CASE s = "proposed" -> {"proposed", "confirmed", "cancelled", "superseded"}
          [] s = "confirmed" -> {"confirmed", "fulfilled", "cancelled", "superseded"}
          [] OTHER -> {s}]

\* _requested_status
Requested(i, current) ==
    IF IntentOf[i].status # "none" THEN IntentOf[i].status
    ELSE CASE IntentOf[i].op = "confirm" -> "confirmed"
           [] IntentOf[i].op = "invalidate" -> "cancelled"
           [] OTHER -> current

\* Mutant: the transition table is not consulted.
ApplyRaisesAnyStatus(i) ==
    LET c == IntentOf[i].cid
    IN \/ Forgotten(c)
       \/ /\ revisions[i].cid = NoCid
          /\ IF Exists(c) THEN IntentOf[i].wording # commitments[c].wording
             ELSE IntentOf[i].targeted \/ IntentOf[i].op \notin {"add", "confirm"}

\* CommitmentConflict
ApplyRaises(i) ==
    LET c == IntentOf[i].cid
        row == commitments[c]
    IN \/ Forgotten(c)
       \/ /\ revisions[i].cid = NoCid
          /\ IF Exists(c)
             THEN \/ IntentOf[i].wording # row.wording
                  \/ Requested(i, row.status) \notin Transitions[row.status]
             ELSE IntentOf[i].targeted \/ IntentOf[i].op \notin {"add", "confirm"}

\* Mutant: the projections of the previous revision stay marked as done.
DecidedKeepsMarks(i) ==
    LET row == commitments[IntentOf[i].cid]
    IN IF row.status = "absent"
       THEN [status |-> IF IntentOf[i].op = "confirm" THEN "confirmed" ELSE "proposed",
             revision |-> 1, wording |-> IntentOf[i].wording, proj |-> AllPending]
       ELSE [row EXCEPT !.status = Requested(i, row.status), !.revision = @ + 1]

\* decide_commitment_apply; any change makes both projections pending.
Decided(i) ==
    LET row == commitments[IntentOf[i].cid]
    IN IF row.status = "absent"
       THEN [status |-> IF IntentOf[i].op = "confirm" THEN "confirmed" ELSE "proposed",
             revision |-> 1, wording |-> IntentOf[i].wording, proj |-> AllPending]
       ELSE [row EXCEPT !.status = Requested(i, row.status), !.revision = @ + 1,
                        !.proj = AllPending]

Apply(i) ==
    LET c == IntentOf[i].cid
    IN /\ ~ApplyRaises(i)
       /\ IF revisions[i].cid # NoCid                   \* a replay
          THEN UNCHANGED <<commitments, revisions>>
          ELSE /\ commitments' = [commitments EXCEPT ![c] = Decided(i)]
               /\ revisions' = [revisions EXCEPT ![i] =
                      [cid |-> c, number |-> Decided(i).revision, status |-> Decided(i).status,
                       previous |-> IF Exists(c) THEN commitments[c].status ELSE "none"]]
       /\ UNCHANGED tombstones

----------------------------------------------------------------------------
\* mark_projected: only if the revision has not moved on.
MarkProjectedRaises(c, revision) == ~Exists(c) \/ commitments[c].revision # revision

MarkProjected(c, revision, T) ==
    /\ ~MarkProjectedRaises(c, revision)
    /\ commitments' = [commitments EXCEPT ![c].proj = SetProj(@, T)]
    /\ UNCHANGED <<revisions, tombstones>>

----------------------------------------------------------------------------
(* Privacy.                                                                 *)

BeginForgetRaises(C) == \E c \in C : ~Forgotten(c) /\ ~Exists(c)    \* LookupError

TombstoneOf(c, hard) ==
    [action |-> IF hard \/ tombstones[c].action = "delete" THEN "delete" ELSE "archive",
     revision_count |-> IF Forgotten(c) THEN tombstones[c].revision_count
                        ELSE commitments[c].revision,
     proj |-> tombstones[c].proj]

BeginForget(C, hard) ==
    /\ ~BeginForgetRaises(C)
    /\ tombstones' = [c \in Cids |-> IF c \in C THEN TombstoneOf(c, hard) ELSE tombstones[c]]
    /\ UNCHANGED <<commitments, revisions>>

MarkForgetProjected(C, T) ==
    /\ \A c \in C : Forgotten(c)                        \* else LookupError
    /\ tombstones' = [c \in Cids |->
           IF c \in C THEN [tombstones[c] EXCEPT !.proj = SetProj(@, T)] ELSE tombstones[c]]
    /\ UNCHANGED <<commitments, revisions>>

\* What finalize_forget may remove: a delete both of whose projections are done.
Finished(c) == tombstones[c].action = "delete" /\ tombstones[c].proj = AllProjected

FinalizeForget(C) ==
    /\ \A c \in C : Forgotten(c)                        \* else LookupError
    /\ commitments' = [c \in Cids |->
           IF c \in C /\ Finished(c) THEN NoRecord ELSE commitments[c]]
    /\ revisions' = [i \in Intents |->
           IF revisions[i].cid \in C /\ Finished(revisions[i].cid)
           THEN NoRevision ELSE revisions[i]]
    /\ UNCHANGED tombstones

----------------------------------------------------------------------------
LedgerNext ==
    \/ \E i \in Intents : Apply(i)
    \/ \E c \in Cids, n \in 1 .. Cardinality(Intents), T \in (SUBSET Targets) \ {{}} :
           MarkProjected(c, n, T)
    \/ \E C \in (SUBSET Cids) \ {{}}, hard \in BOOLEAN : BeginForget(C, hard)
    \/ \E C \in (SUBSET Cids) \ {{}}, T \in (SUBSET Targets) \ {{}} : MarkForgetProjected(C, T)
    \/ \E C \in (SUBSET Cids) \ {{}} : FinalizeForget(C)

LedgerSpec == LedgerInit /\ [][LedgerNext]_ledgerVars

----------------------------------------------------------------------------
(* What the ledger promises every caller.                                   *)

\* The tables hold rows of their types.
LedgerTypeOK ==
    /\ commitments \in [Cids -> Record]
    /\ revisions \in [Intents -> Revision]
    /\ tombstones \in [Cids -> Tombstone]

RevisionsOf(c) == {i \in Intents : revisions[i].cid = c}

\* The history is complete: every change of a commitment is one revision, a
\* redelivered intent makes no second one, and no revision outlives the
\* commitment it belongs to.
RevisionsCounted == \A c \in Cids : commitments[c].revision = Cardinality(RevisionsOf(c))

\* The history is a legal life: it starts with a promise that was proposed or
\* confirmed, every later revision follows from the one before it by a step of
\* the lifecycle, and the current record is where the history ends.
HistoryLegal ==
    /\ \A i \in Intents : revisions[i].cid # NoCid =>
           IF revisions[i].number = 1
           THEN revisions[i].previous = "none" /\ revisions[i].status \in ActiveStatus
           ELSE \E j \in Intents :
                    /\ revisions[j].cid = revisions[i].cid
                    /\ revisions[j].number = revisions[i].number - 1
                    /\ revisions[j].status = revisions[i].previous
                    /\ revisions[i].status \in Transitions[revisions[i].previous]
    /\ \A c \in Cids : Exists(c) =>
           \E i \in RevisionsOf(c) : /\ revisions[i].number = commitments[c].revision
                                     /\ revisions[i].status = commitments[c].status

\* Archiving keeps the record: the content of a forgotten commitment is gone
\* only after a delete whose two projections were removed first.
ErasedLast ==
    \A c \in Cids : Forgotten(c) /\ ~Exists(c) =>
        tombstones[c].action = "delete" /\ tombstones[c].proj = AllProjected

\* A promise that was kept, called off or replaced is never open again: its
\* status is final until it is erased, and an erased one stays away.
TerminalFinal ==
    [][\A c \in Cids :
           /\ commitments[c].status \in TerminalStatus
              => commitments'[c].status \in {commitments[c].status, "absent"}
           /\ Forgotten(c) /\ ~Exists(c) => commitments'[c].status = "absent"]_ledgerVars

\* A forgotten commitment is frozen: no replay revises it, a delete is never
\* softened to an archive, and the revisions whose drawers are to be removed
\* are those the tombstone counted.
TombstoneFreezes ==
    [][\A c \in Cids : Forgotten(c) =>
           /\ tombstones'[c].action # "none"
           /\ tombstones[c].action = "delete" => tombstones'[c].action = "delete"
           /\ commitments'[c].revision \in {0, tombstones'[c].revision_count}]_ledgerVars

=============================================================================
