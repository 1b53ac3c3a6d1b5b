----------------------- MODULE CommitmentWorkersProofs -----------------------
(***************************************************************************)
(* Proofs about commitments, for any of them and any intents.              *)
(*                                                                         *)
(* The ledger first, whatever its callers ask.  A history can only be      *)
(* continued legally from a record that ends it, and a new revision is     *)
(* told from a first one by its number, so its invariant (CommitmentInv)   *)
(* needs that a record there is has been revised.  That a tombstone        *)
(* freezes its commitment needs that the count it keeps is the record's.   *)
(*                                                                         *)
(* Then the workers - every interleaving of the command worker and the     *)
(* turn worker, failing calls, crashes, redeliveries - for any messages    *)
(* and any number of crashes:                                              *)
(*                                                                         *)
(*   they do to the ledger only what its callers may, so what is proved of *)
(*   the ledger holds of the running system (WorkersInv: what a worker     *)
(*   holds at each call, which it read in earlier steps);                  *)
(*                                                                         *)
(*   the stores show each commitment that nobody asked to forget as the    *)
(*   ledger has it (RenderInv);                                            *)
(*                                                                         *)
(*   and of each forgotten one nothing is left for good, if one worker     *)
(*   handles what is said (EraseInv).                                      *)
(***************************************************************************)
EXTENDS CommitmentWorkers, FiniteSetTheorems, TLAPS

----------------------------------------------------------------------------
(* The ledger.                                                              *)

\* A record that exists, and no other, has at least its first revision.
Revised == \A c \in Cids : Exists(c) <=> commitments[c].revision # 0

\* A tombstone counts the revisions of the record it was written over.
CountKept ==
    \A c \in Cids : Forgotten(c) =>
        commitments[c].revision \in {0, tombstones[c].revision_count}

CommitmentInv ==
    /\ LedgerTypeOK
    /\ Revised
    /\ RevisionsCounted
    /\ HistoryLegal
    /\ ErasedLast
    /\ CountKept

----------------------------------------------------------------------------
(* The helpers.                                                             *)

\* Marking some targets as done keeps a row of projection states, and what
\* was all done stays so.
LEMMA SetProjType ==
    ASSUME NEW p \in Projections, NEW T
    PROVE  /\ SetProj(p, T) \in Projections
           /\ p = AllProjected => SetProj(p, T) = AllProjected
  BY DEF SetProj, Projections, AllProjected

\* The lifecycle stays within the statuses, and has no way out of its ends.
LEMMA TransitionsLegal ==
    ASSUME NEW s \in Status
    PROVE  /\ Transitions[s] \subseteq Status
           /\ s \in TerminalStatus => Transitions[s] = {s}
  BY DEF Transitions, Status, ActiveStatus, TerminalStatus

\* The empty tables are well typed.
LEMMA TypeInit == LedgerInit => LedgerTypeOK
  BY DEF LedgerInit, LedgerTypeOK, NoRecord, NoRevision, NoTombstone, Record, Revision,
         Tombstone, AllPending, Projections, Status, ActiveStatus, TerminalStatus

\* What an intent that is not refused makes of the record: a first revision
\* that opens it, or a next one that follows from its status.
LEMMA DecidedEffect ==
    ASSUME LedgerTypeOK, NEW i \in Intents, ~ApplyRaises(i), revisions[i].cid = NoCid
    PROVE  LET c == IntentOf[i].cid
           IN /\ c \in Cids
              /\ Decided(i) \in Record
              /\ ~Exists(c) => Decided(i).revision = 1 /\ Decided(i).status \in ActiveStatus
              /\ Exists(c) =>
                     /\ commitments[c].status \in Status
                     /\ Decided(i).status \in Transitions[commitments[c].status]
                     /\ Decided(i).revision = commitments[c].revision + 1
              /\ Decided(i).status \in Status
  <1> DEFINE c == IntentOf[i].cid
             row == commitments[c]
  <1>1. c \in Cids /\ IntentOf[i] \in Intent
    BY CommitmentConstants DEF Intent
  <1>2. row \in Record
    BY <1>1 DEF LedgerTypeOK
  <1>3. AllPending \in Projections
    BY DEF AllPending, Projections
  <1>4. CASE ~Exists(c)
    <2>1. Decided(i) = [status |-> IF IntentOf[i].op = "confirm" THEN "confirmed" ELSE "proposed",
                        revision |-> 1, wording |-> IntentOf[i].wording, proj |-> AllPending]
      BY <1>4 DEF Decided, Exists
    <2>2. Decided(i) \in Record /\ Decided(i).revision = 1 /\ Decided(i).status \in ActiveStatus
      BY <2>1, <1>1, <1>3 DEF Record, Intent, Status, ActiveStatus
    <2> QED
      BY <2>2, <1>1, <1>4 DEF Status
  <1>5. CASE Exists(c)
    <2>1. row.status \in Status /\ row.revision \in Nat
      BY <1>2, <1>5 DEF Record, Exists
    <2>2. Decided(i) = [row EXCEPT !.status = Requested(i, row.status), !.revision = @ + 1,
                                   !.proj = AllPending]
      BY <1>5 DEF Decided, Exists
    <2>3. Requested(i, row.status) \in Transitions[row.status]
      BY <1>5 DEF ApplyRaises
    <2>4. Requested(i, row.status) \in Status
      BY <2>1, <2>3, TransitionsLegal
    <2> DEFINE s == Requested(i, row.status)
               n == row.revision + 1
    <2>5. n \in Nat /\ s \in Status
      BY <2>1, <2>4
    <2>6. Decided(i) = [row EXCEPT !.status = s, !.revision = n, !.proj = AllPending]
      BY <2>2
    <2>7. Decided(i) \in Record /\ Decided(i).revision = n /\ Decided(i).status = s
      <3> HIDE DEF n, s, row
      <3> QED
        BY <1>2, <1>3, <2>5, <2>6 DEF Record
    <2> QED
      BY <1>1, <1>5, <2>1, <2>3, <2>4, <2>7
  <1> QED
    BY <1>4, <1>5

\* What apply does to the tables, unless the intent is a replay.
LEMMA ApplyEffect ==
    ASSUME LedgerTypeOK, NEW i \in Intents, Apply(i), revisions[i].cid = NoCid
    PROVE  LET c == IntentOf[i].cid
           IN /\ ~Forgotten(c)
              /\ \A d \in Cids : commitments'[d] = IF d = c THEN Decided(i) ELSE commitments[d]
              /\ \A j \in Intents : j # i => revisions'[j] = revisions[j]
              /\ revisions'[i].cid = c
              /\ revisions'[i].number = Decided(i).revision
              /\ revisions'[i].status = Decided(i).status
              /\ revisions'[i].previous = IF Exists(c) THEN commitments[c].status ELSE "none"
              /\ commitments' \in [Cids -> Record]
              /\ revisions' \in [Intents -> Revision]
  <1> DEFINE c == IntentOf[i].cid
             q == [cid |-> c, number |-> Decided(i).revision, status |-> Decided(i).status,
                   previous |-> IF Exists(c) THEN commitments[c].status ELSE "none"]
  <1>1. ~ApplyRaises(i) /\ ~Forgotten(c)
    BY DEF Apply, ApplyRaises
  <1>2. /\ commitments' = [commitments EXCEPT ![c] = Decided(i)]
        /\ revisions' = [revisions EXCEPT ![i] = q]
    BY DEF Apply
  <1>3. /\ c \in Cids /\ Decided(i) \in Record /\ Decided(i).status \in Status
        /\ Exists(c) => commitments[c].status \in Status
    BY <1>1, DecidedEffect
  <1>4. Decided(i).revision \in Nat
    BY <1>3 DEF Record
  <1>5. q \in Revision
    BY <1>3, <1>4 DEF Revision
  <1>6. /\ commitments' \in [Cids -> Record]
        /\ \A d \in Cids : commitments'[d] = IF d = c THEN Decided(i) ELSE commitments[d]
    BY <1>2, <1>3 DEF LedgerTypeOK
  <1>7. /\ revisions' \in [Intents -> Revision]
        /\ \A j \in Intents : revisions'[j] = IF j = i THEN q ELSE revisions[j]
    BY <1>2, <1>5 DEF LedgerTypeOK
  <1> QED
    BY <1>1, <1>6, <1>7

\* What finalize_forget leaves: of the finished ones nothing, of the others all.
LEMMA FinalizeEffect ==
    ASSUME LedgerTypeOK, NEW C \in SUBSET Cids, FinalizeForget(C)
    PROVE  /\ \A c \in Cids : commitments'[c] = IF c \in C /\ Finished(c) THEN NoRecord
                                                ELSE commitments[c]
           /\ \A i \in Intents :
                  revisions'[i] = IF revisions[i].cid \in C /\ Finished(revisions[i].cid)
                                  THEN NoRevision ELSE revisions[i]
           /\ commitments' \in [Cids -> Record] /\ revisions' \in [Intents -> Revision]
           /\ tombstones' = tombstones
  <1>1. NoRecord \in Record /\ NoRevision \in Revision
    BY DEF NoRecord, NoRevision, Record, Revision, AllPending, Projections
  <1> QED
    BY <1>1 DEF FinalizeForget, LedgerTypeOK

----------------------------------------------------------------------------
(* Each call preserves the invariant.                                       *)

\* apply
LEMMA InvApply ==
    ASSUME CommitmentInv, NEW i \in Intents, Apply(i)
    PROVE  CommitmentInv'
  <1>1. tombstones' = tombstones
    BY DEF Apply
  <1>2. CASE revisions[i].cid # NoCid
    <2>1. UNCHANGED <<commitments, revisions, tombstones>>
      BY <1>2, <1>1 DEF Apply
    <2> QED
      BY <2>1 DEF CommitmentInv, LedgerTypeOK, Revised, RevisionsCounted, HistoryLegal,
                  ErasedLast, CountKept, Exists, Forgotten, RevisionsOf
  <1>3. CASE revisions[i].cid = NoCid
    <2> DEFINE c == IntentOf[i].cid
               rev == Decided(i)
    <2>t. LedgerTypeOK
      BY DEF CommitmentInv
    <2>a. ~ApplyRaises(i)
      BY DEF Apply
    <2>1. /\ c \in Cids /\ rev \in Record /\ rev.status \in Status
          /\ ~Exists(c) => rev.revision = 1 /\ rev.status \in ActiveStatus
          /\ Exists(c) => /\ commitments[c].status \in Status
                          /\ rev.status \in Transitions[commitments[c].status]
                          /\ rev.revision = commitments[c].revision + 1
      BY <1>3, <2>a, <2>t, DecidedEffect
    <2>2. /\ ~Forgotten(c)
          /\ \A d \in Cids : commitments'[d] = IF d = c THEN rev ELSE commitments[d]
          /\ \A j \in Intents : j # i => revisions'[j] = revisions[j]
          /\ revisions'[i].cid = c /\ revisions'[i].number = rev.revision
          /\ revisions'[i].status = rev.status
          /\ revisions'[i].previous = IF Exists(c) THEN commitments[c].status ELSE "none"
          /\ commitments' \in [Cids -> Record] /\ revisions' \in [Intents -> Revision]
      BY <1>3, <2>t, ApplyEffect
    <2>3. commitments[c].revision \in Nat /\ c # NoCid
      BY <2>1, <2>t, CommitmentConstants DEF LedgerTypeOK, Record
    <2> HIDE DEF c, rev
    <2>4. LedgerTypeOK'
      BY <2>t, <2>2, <1>1 DEF LedgerTypeOK
    <2>5. Revised'
      <3>1. rev.status # "absent" /\ rev.revision # 0
        BY <2>1, <2>3 DEF Status, ActiveStatus, TerminalStatus
      <3> QED
        BY <3>1, <2>2 DEF CommitmentInv, Revised, Exists
    <2>6. ErasedLast'
      BY <2>1, <2>2, <1>1 DEF CommitmentInv, ErasedLast, Forgotten, Exists
    <2>7. CountKept'
      BY <2>1, <2>2, <1>1 DEF CommitmentInv, CountKept, Forgotten
    <2>8. ASSUME NEW j \in Intents, revisions'[j].cid # NoCid
          PROVE  IF revisions'[j].number = 1
                 THEN revisions'[j].previous = "none" /\ revisions'[j].status \in ActiveStatus
                 ELSE \E k \in Intents :
                          /\ revisions'[k].cid = revisions'[j].cid
                          /\ revisions'[k].number = revisions'[j].number - 1
                          /\ revisions'[k].status = revisions'[j].previous
                          /\ revisions'[j].status \in Transitions[revisions'[j].previous]
      <3>1. CASE j = i /\ ~Exists(c)
        BY <3>1, <2>1, <2>2
      <3>2. CASE j = i /\ Exists(c)
        <4>1. PICK k \in RevisionsOf(c) : /\ revisions[k].number = commitments[c].revision
                                          /\ revisions[k].status = commitments[c].status
          BY <3>2, <2>1 DEF CommitmentInv, HistoryLegal
        <4>2. k \in Intents /\ k # i /\ revisions[k].cid = c
          BY <4>1, <1>3, <2>3 DEF RevisionsOf
        <4>3. revisions'[j].number = commitments[c].revision + 1 /\ commitments[c].revision # 0
          BY <3>2, <2>1, <2>2 DEF CommitmentInv, Revised
        <4> QED
          BY <3>2, <4>1, <4>2, <4>3, <2>1, <2>2, <2>3
      <3>3. CASE j # i
        <4>1. revisions'[j] = revisions[j]
          BY <3>3, <2>2
        <4>2. CASE revisions[j].number = 1
          BY <4>1, <4>2, <2>8 DEF CommitmentInv, HistoryLegal
        <4>3. CASE revisions[j].number # 1
          <5>1. PICK k \in Intents : /\ revisions[k].cid = revisions[j].cid
                                     /\ revisions[k].number = revisions[j].number - 1
                                     /\ revisions[k].status = revisions[j].previous
                                     /\ revisions[j].status \in Transitions[revisions[j].previous]
            BY <4>1, <4>3, <2>8 DEF CommitmentInv, HistoryLegal
          <5>2. revisions'[k] = revisions[k]
            BY <5>1, <4>1, <2>8, <1>3, <2>2
          <5> QED
            BY <5>1, <5>2, <4>1, <4>3
        <4> QED
          BY <4>2, <4>3
      <3> QED
        BY <3>1, <3>2, <3>3
    <2>9. ASSUME NEW d \in Cids, Exists(d)'
          PROVE  \E k \in RevisionsOf(d)' : /\ revisions'[k].number = commitments'[d].revision
                                            /\ revisions'[k].status = commitments'[d].status
      <3>1. CASE d = c
        <4>1. i \in RevisionsOf(d)'
          BY <3>1, <2>2 DEF RevisionsOf
        <4> QED
          BY <4>1, <3>1, <2>1, <2>2
      <3>2. CASE d # c
        <4>1. commitments'[d] = commitments[d] /\ Exists(d)
          BY <3>2, <2>2, <2>9 DEF Exists
        <4>2. PICK k \in RevisionsOf(d) : /\ revisions[k].number = commitments[d].revision
                                          /\ revisions[k].status = commitments[d].status
          BY <4>1 DEF CommitmentInv, HistoryLegal
        <4>3. k \in Intents /\ k # i
          BY <4>2, <1>3, CommitmentConstants DEF RevisionsOf
        <4>4. k \in RevisionsOf(d)' /\ revisions'[k] = revisions[k]
          BY <4>2, <4>3, <2>2 DEF RevisionsOf
        <4> QED
          BY <4>1, <4>2, <4>4
      <3> QED
        BY <3>1, <3>2
    <2>10. HistoryLegal'
      BY <2>8, <2>9 DEF HistoryLegal
    <2>11. RevisionsCounted'
      <3> SUFFICES ASSUME NEW d \in Cids
                   PROVE  commitments'[d].revision = Cardinality(RevisionsOf(d)')
        BY DEF RevisionsCounted, RevisionsOf
      <3>1. commitments[d].revision = Cardinality(RevisionsOf(d))
        BY DEF CommitmentInv, RevisionsCounted
      <3>2. CASE d = c
        <4>1. RevisionsOf(d)' = RevisionsOf(d) \cup {i}
          BY <3>2, <2>2 DEF RevisionsOf
        <4>2. i \notin RevisionsOf(d)
          BY <3>2, <1>3, <2>3 DEF RevisionsOf
        <4>3. IsFiniteSet(RevisionsOf(d))
          BY CommitmentConstants, FS_Subset DEF RevisionsOf
        <4>4. Cardinality(RevisionsOf(d)') = Cardinality(RevisionsOf(d)) + 1
          BY <4>1, <4>2, <4>3, FS_AddElement
        <4>5. rev.revision = commitments[d].revision + 1
          BY <3>2, <2>1, <2>3 DEF CommitmentInv, Revised
        <4> QED
          BY <3>1, <3>2, <4>4, <4>5, <2>2
      <3>3. CASE d # c
        <4>1. RevisionsOf(d)' = RevisionsOf(d)
          BY <3>3, <2>2, <1>3, CommitmentConstants DEF RevisionsOf
        <4> QED
          BY <3>1, <3>3, <4>1, <2>2
      <3> QED
        BY <3>2, <3>3
    <2> QED
      BY <2>4, <2>5, <2>6, <2>7, <2>10, <2>11 DEF CommitmentInv
  <1> QED
    BY <1>2, <1>3

\* mark_projected changes marks only.
LEMMA InvMarkProjected ==
    ASSUME CommitmentInv, NEW c \in Cids, NEW n, NEW T, MarkProjected(c, n, T)
    PROVE  CommitmentInv'
  <1> DEFINE q == [commitments[c] EXCEPT !.proj = SetProj(commitments[c].proj, T)]
  <1>1. /\ commitments' = [commitments EXCEPT ![c] = q]
        /\ revisions' = revisions /\ tombstones' = tombstones
    BY DEF MarkProjected
  <1>2. commitments[c] \in Record
    BY DEF CommitmentInv, LedgerTypeOK
  <1>3. SetProj(commitments[c].proj, T) \in Projections
    BY <1>2, SetProjType DEF Record
  <1>4. /\ q \in Record /\ q.status = commitments[c].status
        /\ q.revision = commitments[c].revision
    BY <1>2, <1>3 DEF Record
  <1> HIDE DEF q
  <1>5. /\ commitments' \in [Cids -> Record]
        /\ \A d \in Cids : /\ commitments'[d].status = commitments[d].status
                          /\ commitments'[d].revision = commitments[d].revision
    BY <1>1, <1>4 DEF CommitmentInv, LedgerTypeOK
  <1>6. LedgerTypeOK'
    BY <1>1, <1>5 DEF CommitmentInv, LedgerTypeOK
  <1>7. Revised' /\ ErasedLast' /\ CountKept'
    BY <1>1, <1>5 DEF CommitmentInv, Revised, ErasedLast, CountKept, Exists, Forgotten
  <1>8. HistoryLegal'
    BY <1>1, <1>5 DEF CommitmentInv, HistoryLegal, Exists, RevisionsOf
  <1>9. RevisionsCounted'
    BY <1>1, <1>5 DEF CommitmentInv, RevisionsCounted, RevisionsOf
  <1> QED
    BY <1>6, <1>7, <1>8, <1>9 DEF CommitmentInv

\* begin_forget writes tombstones: over records that are there, or again over
\* those that are erased.
LEMMA InvBeginForget ==
    ASSUME CommitmentInv, NEW C \in SUBSET Cids, NEW hard \in BOOLEAN, BeginForget(C, hard)
    PROVE  CommitmentInv'
  <1>1. /\ commitments' = commitments /\ revisions' = revisions
        /\ tombstones' = [c \in Cids |-> IF c \in C THEN TombstoneOf(c, hard) ELSE tombstones[c]]
        /\ \A c \in C : Forgotten(c) \/ Exists(c)
    BY DEF BeginForget, BeginForgetRaises
  <1>2. ASSUME NEW c \in Cids
        PROVE  LET t == TombstoneOf(c, hard)
               IN /\ t \in Tombstone /\ t.action # "none"
                  /\ t.proj = tombstones[c].proj
                  /\ tombstones[c].action = "delete" => t.action = "delete"
                  /\ t.revision_count = IF Forgotten(c) THEN tombstones[c].revision_count
                                        ELSE commitments[c].revision
    <2>1. tombstones[c] \in Tombstone /\ commitments[c].revision \in Nat
      BY DEF CommitmentInv, LedgerTypeOK, Record
    <2> QED
      BY <2>1 DEF TombstoneOf, Tombstone
  <1>3. LedgerTypeOK'
    BY <1>1, <1>2 DEF CommitmentInv, LedgerTypeOK
  <1>4. Revised' /\ RevisionsCounted' /\ HistoryLegal'
    BY <1>1 DEF CommitmentInv, Revised, RevisionsCounted, HistoryLegal, Exists, RevisionsOf
  <1>5. ErasedLast'
    BY <1>1, <1>2 DEF CommitmentInv, ErasedLast, Exists, Forgotten
  <1>6. CountKept'
    BY <1>1, <1>2 DEF CommitmentInv, CountKept, Forgotten
  <1> QED
    BY <1>3, <1>4, <1>5, <1>6 DEF CommitmentInv

\* mark_forget_projected: what was all removed stays so.
LEMMA InvMarkForgetProjected ==
    ASSUME CommitmentInv, NEW C \in SUBSET Cids, NEW T, MarkForgetProjected(C, T)
    PROVE  CommitmentInv'
  <1> DEFINE q(c) == [tombstones[c] EXCEPT !.proj = SetProj(tombstones[c].proj, T)]
  <1>1. /\ commitments' = commitments /\ revisions' = revisions
        /\ tombstones' = [c \in Cids |-> IF c \in C THEN q(c) ELSE tombstones[c]]
    BY DEF MarkForgetProjected
  <1>2. ASSUME NEW c \in Cids
        PROVE  /\ q(c) \in Tombstone /\ q(c).action = tombstones[c].action
               /\ q(c).revision_count = tombstones[c].revision_count
               /\ tombstones[c].proj = AllProjected => q(c).proj = AllProjected
    <2>1. tombstones[c] \in Tombstone /\ tombstones[c].proj \in Projections
      BY DEF CommitmentInv, LedgerTypeOK, Tombstone
    <2>2. /\ SetProj(tombstones[c].proj, T) \in Projections
          /\ tombstones[c].proj = AllProjected => SetProj(tombstones[c].proj, T) = AllProjected
      BY <2>1, SetProjType
    <2> QED
      BY <2>1, <2>2 DEF Tombstone
  <1> HIDE DEF q
  <1>3. LedgerTypeOK'
    BY <1>1, <1>2 DEF CommitmentInv, LedgerTypeOK
  <1>4. Revised' /\ RevisionsCounted' /\ HistoryLegal'
    BY <1>1 DEF CommitmentInv, Revised, RevisionsCounted, HistoryLegal, Exists, RevisionsOf
  <1>5. ErasedLast' /\ CountKept'
    BY <1>1, <1>2 DEF CommitmentInv, ErasedLast, CountKept, Exists, Forgotten
  <1> QED
    BY <1>3, <1>4, <1>5 DEF CommitmentInv

\* finalize_forget takes a record with its whole history, or leaves both.
LEMMA InvFinalizeForget ==
    ASSUME CommitmentInv, NEW C \in SUBSET Cids, FinalizeForget(C)
    PROVE  CommitmentInv'
  <1> DEFINE Gone(c) == c \in C /\ Finished(c)
  <1>1. /\ \A c \in Cids : commitments'[c] = IF Gone(c) THEN NoRecord ELSE commitments[c]
        /\ \A i \in Intents : revisions'[i] = IF Gone(revisions[i].cid) THEN NoRevision
                                              ELSE revisions[i]
        /\ commitments' \in [Cids -> Record] /\ revisions' \in [Intents -> Revision]
        /\ tombstones' = tombstones
    BY FinalizeEffect DEF CommitmentInv
  <1>2. \A c \in Cids : Gone(c) => /\ tombstones[c].action = "delete"
                                  /\ tombstones[c].proj = AllProjected
    BY DEF Finished
  <1> HIDE DEF Gone
  <1>3. LedgerTypeOK'
    BY <1>1 DEF CommitmentInv, LedgerTypeOK
  <1>4. \A c \in Cids : Exists(c)' => commitments'[c] = commitments[c] /\ Exists(c) /\ ~Gone(c)
    BY <1>1 DEF Exists, NoRecord
  <1>5. Revised'
    BY <1>1 DEF CommitmentInv, Revised, Exists, NoRecord
  <1>6. ErasedLast'
    BY <1>1, <1>2 DEF CommitmentInv, ErasedLast, Forgotten, Exists
  <1>7. CountKept'
    BY <1>1 DEF CommitmentInv, CountKept, Forgotten, NoRecord
  <1>8. ASSUME NEW i \in Intents, revisions'[i].cid # NoCid
        PROVE  revisions'[i] = revisions[i] /\ ~Gone(revisions[i].cid)
    BY <1>1, <1>8 DEF NoRevision
  <1>9. ASSUME NEW i \in Intents, revisions'[i].cid # NoCid
        PROVE  IF revisions'[i].number = 1
               THEN revisions'[i].previous = "none" /\ revisions'[i].status \in ActiveStatus
               ELSE \E j \in Intents :
                        /\ revisions'[j].cid = revisions'[i].cid
                        /\ revisions'[j].number = revisions'[i].number - 1
                        /\ revisions'[j].status = revisions'[i].previous
                        /\ revisions'[i].status \in Transitions[revisions'[i].previous]
    <2>1. revisions'[i] = revisions[i] /\ ~Gone(revisions[i].cid)
      BY <1>8, <1>9
    <2>2. CASE revisions[i].number = 1
      BY <2>1, <2>2, <1>9 DEF CommitmentInv, HistoryLegal
    <2>3. CASE revisions[i].number # 1
      <3>1. PICK j \in Intents : /\ revisions[j].cid = revisions[i].cid
                                 /\ revisions[j].number = revisions[i].number - 1
                                 /\ revisions[j].status = revisions[i].previous
                                 /\ revisions[i].status \in Transitions[revisions[i].previous]
        BY <2>1, <2>3, <1>9 DEF CommitmentInv, HistoryLegal
      <3>2. revisions'[j] = revisions[j]
        BY <3>1, <2>1, <1>1
      <3> QED
        BY <3>1, <3>2, <2>1, <2>3
    <2> QED
      BY <2>2, <2>3
  <1>10. ASSUME NEW c \in Cids, Exists(c)'
         PROVE  \E i \in RevisionsOf(c)' : /\ revisions'[i].number = commitments'[c].revision
                                           /\ revisions'[i].status = commitments'[c].status
    <2>1. commitments'[c] = commitments[c] /\ Exists(c) /\ ~Gone(c)
      BY <1>4, <1>10
    <2>2. PICK i \in RevisionsOf(c) : /\ revisions[i].number = commitments[c].revision
                                      /\ revisions[i].status = commitments[c].status
      BY <2>1 DEF CommitmentInv, HistoryLegal
    <2>3. i \in RevisionsOf(c)' /\ revisions'[i] = revisions[i]
      BY <2>1, <2>2, <1>1 DEF RevisionsOf
    <2> QED
      BY <2>1, <2>2, <2>3
  <1>11. HistoryLegal'
    BY <1>9, <1>10 DEF HistoryLegal
  <1>12. ASSUME NEW c \in Cids
         PROVE  commitments'[c].revision = Cardinality(RevisionsOf(c)')
    <2>1. CASE Gone(c)
      <3>1. RevisionsOf(c)' = {}
        BY <2>1, <1>1, CommitmentConstants DEF RevisionsOf, NoRevision
      <3> QED
        BY <3>1, <2>1, <1>1, FS_EmptySet DEF NoRecord
    <2>2. CASE ~Gone(c)
      <3>1. RevisionsOf(c)' = RevisionsOf(c)
        BY <2>2, <1>1, CommitmentConstants DEF RevisionsOf, NoRevision
      <3> QED
        BY <3>1, <2>2, <1>1 DEF CommitmentInv, RevisionsCounted
    <2> QED
      BY <2>1, <2>2
  <1>13. RevisionsCounted'
    BY <1>12 DEF RevisionsCounted, RevisionsOf
  <1> QED
    BY <1>3, <1>5, <1>6, <1>7, <1>11, <1>13 DEF CommitmentInv

----------------------------------------------------------------------------
(* The theorems.                                                            *)

LEMMA InvInit == LedgerInit => CommitmentInv
  <1> SUFFICES ASSUME LedgerInit
               PROVE  CommitmentInv
    OBVIOUS
  <1>1. LedgerTypeOK
    BY TypeInit
  <1>2. Revised /\ ErasedLast /\ CountKept
    BY DEF LedgerInit, Revised, ErasedLast, CountKept, Exists, Forgotten, NoRecord, NoTombstone
  <1>3. HistoryLegal
    BY DEF LedgerInit, HistoryLegal, Exists, NoRecord, NoRevision
  <1>4. ASSUME NEW c \in Cids
        PROVE  commitments[c].revision = Cardinality(RevisionsOf(c))
    <2>1. RevisionsOf(c) = {}
      BY CommitmentConstants DEF LedgerInit, RevisionsOf, NoRevision
    <2> QED
      BY <2>1, FS_EmptySet DEF LedgerInit, NoRecord
  <1> QED
    BY <1>1, <1>2, <1>3, <1>4 DEF CommitmentInv, RevisionsCounted

LEMMA InvNext == CommitmentInv /\ [LedgerNext]_ledgerVars => CommitmentInv'
  <1> SUFFICES ASSUME CommitmentInv, [LedgerNext]_ledgerVars
               PROVE  CommitmentInv'
    OBVIOUS
  <1>1. ASSUME NEW i \in Intents, Apply(i)
        PROVE  CommitmentInv'
    BY <1>1, InvApply
  <1>2. ASSUME NEW c \in Cids, NEW n \in 1 .. Cardinality(Intents), NEW T \in SUBSET Targets,
               MarkProjected(c, n, T)
        PROVE  CommitmentInv'
    BY <1>2, InvMarkProjected
  <1>3. ASSUME NEW C \in SUBSET Cids, NEW hard \in BOOLEAN, BeginForget(C, hard)
        PROVE  CommitmentInv'
    BY <1>3, InvBeginForget
  <1>4. ASSUME NEW C \in SUBSET Cids, NEW T \in SUBSET Targets, MarkForgetProjected(C, T)
        PROVE  CommitmentInv'
    BY <1>4, InvMarkForgetProjected
  <1>5. ASSUME NEW C \in SUBSET Cids, FinalizeForget(C)
        PROVE  CommitmentInv'
    BY <1>5, InvFinalizeForget
  <1>6. CASE UNCHANGED ledgerVars
    BY <1>6 DEF ledgerVars, CommitmentInv, LedgerTypeOK, Revised, RevisionsCounted, HistoryLegal,
                ErasedLast, CountKept, Exists, Forgotten, RevisionsOf
  <1> QED
    BY <1>1, <1>2, <1>3, <1>4, <1>5, <1>6 DEF LedgerNext

\* The inductive invariant holds in every state the ledger can reach.
THEOREM CommitmentInvariant == LedgerSpec => []CommitmentInv
  BY InvInit, InvNext, PTL DEF LedgerSpec

\* The three tables always hold rows of their types.
THEOREM CommitmentTypeCorrect == LedgerSpec => []LedgerTypeOK
  <1>1. CommitmentInv => LedgerTypeOK
    BY DEF CommitmentInv
  <1> QED
    BY <1>1, CommitmentInvariant, PTL

\* Histories start open, go on by steps of the lifecycle, and end in the
\* current record (decide_commitment_apply and the revisions it appends).
THEOREM CommitmentHistoryLegal == LedgerSpec => []HistoryLegal
  <1>1. CommitmentInv => HistoryLegal
    BY DEF CommitmentInv
  <1> QED
    BY <1>1, CommitmentInvariant, PTL

\* The revision number of a record is the number of its revisions, whatever is
\* redelivered (apply), and an erased record leaves none (finalize_forget).
THEOREM CommitmentRevisionsCounted == LedgerSpec => []RevisionsCounted
  <1>1. CommitmentInv => RevisionsCounted
    BY DEF CommitmentInv
  <1> QED
    BY <1>1, CommitmentInvariant, PTL

\* The content of a forgotten commitment goes last (finalize_forget).
THEOREM CommitmentErasedLast == LedgerSpec => []ErasedLast
  <1>1. CommitmentInv => ErasedLast
    BY DEF CommitmentInv
  <1> QED
    BY <1>1, CommitmentInvariant, PTL

\* What one call may do to a commitment that has ended or is forgotten.
StepFinal ==
    \A c \in Cids :
        /\ commitments[c].status \in TerminalStatus
           => commitments'[c].status \in {commitments[c].status, "absent"}
        /\ Forgotten(c) /\ ~Exists(c) => commitments'[c].status = "absent"
StepFreezes ==
    \A c \in Cids : Forgotten(c) =>
        /\ tombstones'[c].action # "none"
        /\ tombstones[c].action = "delete" => tombstones'[c].action = "delete"
        /\ commitments'[c].revision \in {0, tombstones'[c].revision_count}

LEMMA NextFinal == CommitmentInv /\ [LedgerNext]_ledgerVars => StepFinal
  <1> SUFFICES ASSUME CommitmentInv, [LedgerNext]_ledgerVars, NEW c \in Cids
               PROVE  /\ commitments[c].status \in TerminalStatus
                         => commitments'[c].status \in {commitments[c].status, "absent"}
                      /\ Forgotten(c) /\ ~Exists(c) => commitments'[c].status = "absent"
    BY DEF StepFinal
  <1>t. LedgerTypeOK
    BY DEF CommitmentInv
  <1>1. CASE commitments' = commitments
    BY <1>1 DEF Exists
  <1>2. ASSUME NEW i \in Intents, Apply(i), commitments' # commitments
        PROVE  /\ commitments[c].status \in TerminalStatus
                  => commitments'[c].status \in {commitments[c].status, "absent"}
               /\ Forgotten(c) /\ ~Exists(c) => commitments'[c].status = "absent"
    <2>1. revisions[i].cid = NoCid /\ ~ApplyRaises(i)
      BY <1>2 DEF Apply
    <2>2. /\ ~Forgotten(IntentOf[i].cid)
          /\ commitments'[c] = IF c = IntentOf[i].cid THEN Decided(i) ELSE commitments[c]
      BY <1>2, <1>t, <2>1, ApplyEffect
    <2>3. CASE c # IntentOf[i].cid
      BY <2>2, <2>3 DEF Exists
    <2>4. CASE c = IntentOf[i].cid /\ commitments[c].status \in TerminalStatus
      <3>1. Exists(c) /\ commitments[c].status \in Status
        BY <2>4 DEF Exists, TerminalStatus, Status
      <3>2. Decided(i).status \in Transitions[commitments[c].status]
        BY <2>1, <2>4, <3>1, <1>t, DecidedEffect
      <3> QED
        BY <2>2, <2>4, <3>1, <3>2, TransitionsLegal
    <2> QED
      BY <2>2, <2>3, <2>4
  <1>3. ASSUME NEW d \in Cids, NEW n, NEW T, MarkProjected(d, n, T)
        PROVE  commitments'[c].status = commitments[c].status
    BY <1>3, <1>t DEF MarkProjected, LedgerTypeOK, Record
  <1>4. ASSUME NEW C \in SUBSET Cids, FinalizeForget(C)
        PROVE  commitments'[c] = commitments[c] \/ commitments'[c].status = "absent"
    BY <1>4, <1>t, FinalizeEffect DEF NoRecord
  <1> QED
    BY <1>1, <1>2, <1>3, <1>4 DEF LedgerNext, ledgerVars, BeginForget, MarkForgetProjected, Exists

LEMMA NextFreezes == CommitmentInv /\ [LedgerNext]_ledgerVars => StepFreezes
  <1> SUFFICES ASSUME CommitmentInv, [LedgerNext]_ledgerVars, NEW c \in Cids, Forgotten(c)
               PROVE  /\ tombstones'[c].action # "none"
                      /\ tombstones[c].action = "delete" => tombstones'[c].action = "delete"
                      /\ commitments'[c].revision \in {0, tombstones'[c].revision_count}
    BY DEF StepFreezes
  <1>1. CommitmentInv'
    BY InvNext
  <1>2. /\ tombstones'[c].action # "none"
        /\ tombstones[c].action = "delete" => tombstones'[c].action = "delete"
    <2>1. ASSUME NEW C \in SUBSET Cids, NEW hard \in BOOLEAN, BeginForget(C, hard)
          PROVE  tombstones'[c] = tombstones[c] \/ tombstones'[c] = TombstoneOf(c, hard)
      BY <2>1 DEF BeginForget
    <2>2. ASSUME NEW C \in SUBSET Cids, NEW T, MarkForgetProjected(C, T)
          PROVE  tombstones'[c].action = tombstones[c].action
      BY <2>2 DEF MarkForgetProjected, CommitmentInv, LedgerTypeOK, Tombstone
    <2>3. ASSUME NEW hard \in BOOLEAN
          PROVE  /\ TombstoneOf(c, hard).action # "none"
                 /\ tombstones[c].action = "delete" => TombstoneOf(c, hard).action = "delete"
      BY DEF TombstoneOf
    <2>4. \/ tombstones' = tombstones
          \/ \E C \in SUBSET Cids, hard \in BOOLEAN : BeginForget(C, hard)
          \/ \E C \in SUBSET Cids, T \in SUBSET Targets : MarkForgetProjected(C, T)
      BY DEF LedgerNext, ledgerVars, Apply, MarkProjected, FinalizeForget
    <2>5. \/ tombstones'[c].action = tombstones[c].action
          \/ \E hard \in BOOLEAN : tombstones'[c] = TombstoneOf(c, hard)
      BY <2>1, <2>2, <2>4
    <2> QED
      BY <2>3, <2>5 DEF Forgotten
  <1> QED
    BY <1>1, <1>2 DEF CommitmentInv, CountKept, Forgotten

\* A promise that has ended is not opened again, and an erased one stays away
\* (Transitions, and the tombstone that apply looks for).
THEOREM CommitmentTerminalFinal == LedgerSpec => TerminalFinal
  <1>1. CommitmentInv /\ [LedgerNext]_ledgerVars => [StepFinal]_ledgerVars
    BY NextFinal
  <1>2. LedgerSpec => [][StepFinal]_ledgerVars
    BY <1>1, CommitmentInvariant, PTL DEF LedgerSpec
  <1> QED
    BY <1>2 DEF TerminalFinal, StepFinal

\* No call revises a forgotten commitment or softens its tombstone.
THEOREM CommitmentTombstoneFreezes == LedgerSpec => TombstoneFreezes
  <1>1. CommitmentInv /\ [LedgerNext]_ledgerVars => [StepFreezes]_ledgerVars
    BY NextFreezes
  <1>2. LedgerSpec => [][StepFreezes]_ledgerVars
    BY <1>1, CommitmentInvariant, PTL DEF LedgerSpec
  <1> QED
    BY <1>2 DEF TombstoneFreezes, StepFreezes

----------------------------------------------------------------------------
(* The workers.                                                             *)

ApplyPcs ==
    {"apply", "previous", "archive", "current", "put_drawer", "mark_drawer", "look_kg",
     "add_kg", "end_kg", "mark_kg", "mark_ended"}

\* Where a worker forgets the commitments it has resolved.
CidsPcs ==
    {"begin", "redact", "forget_kg", "forget_kg_mark", "scan", "forget_drawers",
     "forget_drawer_mark", "finalize", "checkpoint"}
ForgetPcs == CidsPcs \cup {"resolve", "statements", "redact_event"}
Pcs == {"idle", "start", "settle", "ack", "reject"} \cup ApplyPcs \cup ForgetPcs

Work ==
    [pc : Pcs, msg : Msgs \cup {NoMsg}, row : Record, cids : SUBSET Cids, named : BOOLEAN,
     count : Nat, sources : SUBSET Intents, seen : SUBSET Drawer, failed : BOOLEAN]

\* What worker w may be doing.
Fits(w, r) ==
    /\ r \in Work
    /\ r.pc = "idle" <=> r.msg = NoMsg
    /\ r.msg # NoMsg => WorkerOf(r.msg) = w
    /\ r.pc \in ApplyPcs => r.msg \in Intents
    /\ r.pc \in ForgetPcs => r.msg \in Forgets
    /\ r.pc \in CidsPcs => r.cids # {}
    /\ r.pc = "statements" => ForgetOf[r.msg].by = "turn"
    /\ r.pc = "redact_event" => ForgetOf[r.msg].by # "id"

Working ==
    /\ work \in [Workers -> Work]
    /\ \A w \in Workers : Fits(w, work[w])
    /\ \A w \in Workers : Msg(w) # NoMsg => status[Msg(w)] = "held"

QueuesOK ==
    /\ said \subseteq Msgs
    /\ status \in [Msgs -> {"unsent", "queued", "held"} \cup MsgTerminal]
    /\ deliveries \in [Msgs -> Nat]
    /\ applied \subseteq Msgs /\ redacted \subseteq Msgs

StoresOK ==
    /\ drawers \subseteq Drawer /\ archived \subseteq drawers
    /\ rows \subseteq Cids /\ closed \subseteq rows

WorkersInv ==
    /\ CommitmentInv
    /\ QueuesOK
    /\ StoresOK
    /\ Working

----------------------------------------------------------------------------
(* Steps of a worker.                                                       *)

\* A worker that keeps its message goes on to what it may be doing.
LEMMA WorkStep ==
    ASSUME Working, NEW w \in Workers, NEW r, Fits(w, r), r.msg = Msg(w),
           work' = [work EXCEPT ![w] = r], status' = status
    PROVE  Working'
  <1>1. work' \in [Workers -> Work]
    BY DEF Working, Fits
  <1>2. \A v \in Workers : work'[v] = IF v = w THEN r ELSE work[v]
    BY DEF Working
  <1>3. \A v \in Workers : Fits(v, work'[v])
    BY <1>2 DEF Working
  <1>4. \A v \in Workers : work'[v].msg # NoMsg => status'[work'[v].msg] = "held"
    BY <1>2 DEF Working, Msg
  <1> QED
    BY <1>1, <1>3, <1>4 DEF Working, Fits, Msg

\* A worker lets go of its message, which gets a new status.
LEMMA WorkEnds ==
    ASSUME Working, QueuesOK, NEW w \in Workers, ~At(w, "idle"), NEW s,
           s \in {"unsent", "queued", "held"} \cup MsgTerminal,
           work' = [work EXCEPT ![w] = Idle], status' = [status EXCEPT ![Msg(w)] = s]
    PROVE  Working' /\ status' \in [Msgs -> {"unsent", "queued", "held"} \cup MsgTerminal]
  <1>1. \A v \in Workers : work'[v] = IF v = w THEN Idle ELSE work[v]
    BY DEF Working
  <1>2. Msg(w) \in Msgs /\ WorkerOf(Msg(w)) = w
    BY DEF Working, Fits, At, Msg, Work
  <1>3. Idle \in Work /\ Fits(w, Idle) /\ Idle.msg = NoMsg
    BY DEF Idle, Work, Fits, Pcs, ApplyPcs, ForgetPcs, CidsPcs, Record, NoRecord, AllPending,
           Projections, Status
  <1>4. work' \in [Workers -> Work] /\ \A v \in Workers : Fits(v, work'[v])
    BY <1>1, <1>3 DEF Working
  <1>5. ASSUME NEW v \in Workers, work'[v].msg # NoMsg
        PROVE  status'[work'[v].msg] = "held"
    <2>1. v # w /\ work'[v] = work[v]
      BY <1>1, <1>3, <1>5
    <2>2. WorkerOf(Msg(v)) = v /\ Msg(v) \in Msgs
      BY <2>1, <1>5 DEF Working, Fits, Msg, Work
    <2>3. status'[Msg(v)] = status[Msg(v)]
      BY <2>1, <2>2, <1>2 DEF QueuesOK
    <2> QED
      BY <2>1, <2>3, <1>5 DEF Working, Msg
  <1> QED
    BY <1>2, <1>4, <1>5 DEF Working, Fits, Msg, QueuesOK

\* Going on, where what is needed there is at hand.
LEMMA GotoStep ==
    ASSUME Working, NEW w \in Workers, NEW p, p \in Pcs \ {"idle"}, Goto(w, p),
           status' = status, ~At(w, "idle"),
           p \in ApplyPcs => Msg(w) \in Intents,
           p \in ForgetPcs => Msg(w) \in Forgets,
           p \in CidsPcs => work[w].cids # {},
           p = "statements" => ForgetOf[Msg(w)].by = "turn",
           p = "redact_event" => ForgetOf[Msg(w)].by # "id"
    PROVE  Working'
  <1> DEFINE r == [work[w] EXCEPT !.pc = p]
  <1>1. work[w] \in Work /\ Fits(w, work[w])
    BY DEF Working
  <1>2. r \in Work /\ r.msg = Msg(w) /\ r.pc = p /\ r.cids = work[w].cids
    BY <1>1 DEF Work, Msg
  <1>3. work' = [work EXCEPT ![w] = r]
    BY DEF Goto
  <1> HIDE DEF r
  <1>4. Fits(w, r)
    BY <1>1, <1>2 DEF Fits, At, Msg
  <1> QED
    BY <1>2, <1>3, <1>4, WorkStep

\* A call raises.
LEMMA RaiseStep ==
    ASSUME Working, NEW w \in Workers, Raise(w), status' = status, ~At(w, "idle")
    PROVE  Working'
  <1> DEFINE r == [work[w] EXCEPT !.pc = "settle", !.failed = TRUE]
  <1>1. work[w] \in Work /\ Fits(w, work[w])
    BY DEF Working
  <1>2. r \in Work /\ r.msg = Msg(w) /\ r.pc = "settle" /\ r.cids = work[w].cids
    BY <1>1 DEF Work, Msg, Pcs
  <1>3. work' = [work EXCEPT ![w] = r]
    BY DEF Raise
  <1> HIDE DEF r
  <1>4. Fits(w, r)
    BY <1>1, <1>2 DEF Fits, At, Msg, ApplyPcs, ForgetPcs, CidsPcs
  <1> QED
    BY <1>2, <1>3, <1>4, WorkStep

\* Going on with an intent, with what has been resolved.
LEMMA ApplyGoto ==
    ASSUME Working, NEW w \in Workers, work[w].pc \in ApplyPcs, status' = status,
           NEW p \in ApplyPcs \cup {"settle", "reject"}, Goto(w, p)
    PROVE  Working'
  <1>1. Msg(w) \in Intents /\ ~At(w, "idle") /\ p \in Pcs \ {"idle"} /\ p \notin ForgetPcs
    BY DEF Working, Fits, Msg, At, Pcs, ApplyPcs, ForgetPcs, CidsPcs
  <1> QED
    BY <1>1, GotoStep DEF ForgetPcs

LEMMA ForgetGoto ==
    ASSUME Working, NEW w \in Workers, work[w].pc \in CidsPcs, status' = status,
           NEW p \in CidsPcs \cup {"settle"}, Goto(w, p)
    PROVE  Working'
  <1>1. /\ Msg(w) \in Forgets /\ work[w].cids # {} /\ ~At(w, "idle") /\ p \in Pcs \ {"idle"}
        /\ p \notin ApplyPcs /\ p # "statements" /\ p # "redact_event"
    BY DEF Working, Fits, Msg, At, Pcs, ApplyPcs, ForgetPcs, CidsPcs
  <1> QED
    BY <1>1, GotoStep

----------------------------------------------------------------------------
(* What each step preserves: the ledger sees one of its own calls or        *)
(* nothing, and queues, stores and workers stay as the invariant says.      *)

Kept == [LedgerNext]_ledgerVars /\ QueuesOK' /\ StoresOK' /\ Working'

LEMMA QueuesSame ==
    ASSUME QueuesOK, UNCHANGED <<queueVars, redacted, boundVars>>
    PROVE  QueuesOK'
  BY DEF QueuesOK, queueVars, boundVars

LEMMA StoresSame ==
    ASSUME StoresOK, UNCHANGED storeVars
    PROVE  StoresOK'
  BY DEF StoresOK, storeVars

\* A step that only moves on.
LEMMA LocalKept ==
    ASSUME WorkersInv, UNCHANGED localOnly, Working'
    PROVE  Kept
  BY QueuesSame, StoresSame DEF WorkersInv, Kept, localOnly, ledgerOnly

LEMMA TakeKept ==
    ASSUME WorkersInv, NEW w \in Workers, NEW m \in Msgs, Take(w, m)
    PROVE  Kept
  <1> DEFINE r == [Idle EXCEPT !.pc = "start", !.msg = m]
  <1>1. /\ work' = [work EXCEPT ![w] = r]
        /\ status' = [status EXCEPT ![m] = "held"] /\ status[m] = "queued"
        /\ deliveries' = [deliveries EXCEPT ![m] = @ + 1]
        /\ WorkerOf(m) = w
        /\ UNCHANGED <<ledgerVars, applied, storeVars, redacted, boundVars>>
    BY DEF Take
  <1>2. m # NoMsg
    BY WorkerConstants
  <1>3. r \in Work /\ r.pc = "start" /\ r.msg = m
    BY DEF Idle, Work, Pcs, Record, NoRecord, AllPending, Projections, Status
  <1> HIDE DEF r
  <1>4. Fits(w, r)
    BY <1>1, <1>2, <1>3 DEF Fits, ApplyPcs, ForgetPcs, CidsPcs
  <1>5. \A v \in Workers : work'[v] = IF v = w THEN r ELSE work[v]
    BY <1>1 DEF WorkersInv, Working
  <1>6. work' \in [Workers -> Work] /\ \A v \in Workers : Fits(v, work'[v])
    BY <1>1, <1>3, <1>4, <1>5 DEF WorkersInv, Working
  <1>7. \A n \in Msgs : status'[n] = IF n = m THEN "held" ELSE status[n]
    BY <1>1 DEF WorkersInv, QueuesOK
  <1>8. ASSUME NEW v \in Workers, work'[v].msg # NoMsg
        PROVE  status'[work'[v].msg] = "held"
    <2>1. CASE v = w
      BY <2>1, <1>3, <1>5, <1>7
    <2>2. CASE v # w
      <3>1. work'[v] = work[v] /\ work[v].msg \in Msgs
        BY <2>2, <1>5, <1>8 DEF WorkersInv, Working, Work
      <3>2. status[work[v].msg] = "held"
        BY <3>1, <1>8 DEF WorkersInv, Working, Msg
      <3> QED
        BY <3>1, <3>2, <1>7
    <2> QED
      BY <2>1, <2>2
  <1>9. Working'
    BY <1>6, <1>8 DEF Working, Fits, Msg
  <1>10. QueuesOK'
    <2>1. status' \in [Msgs -> {"unsent", "queued", "held"} \cup MsgTerminal]
      BY <1>1 DEF WorkersInv, QueuesOK
    <2>2. deliveries' \in [Msgs -> Nat]
      BY <1>1 DEF WorkersInv, QueuesOK
    <2> QED
      BY <1>1, <2>1, <2>2 DEF WorkersInv, QueuesOK, boundVars
  <1> QED
    BY <1>1, <1>9, <1>10, StoresSame DEF WorkersInv, Kept

LEMMA StartKept ==
    ASSUME WorkersInv, NEW w \in Workers, Start(w)
    PROVE  Kept
  <1>1. At(w, "start") /\ UNCHANGED localOnly /\ status' = status
    BY DEF Start, localOnly, ledgerOnly, queueVars
  <1>2. Msg(w) \in Msgs /\ Msg(w) \in Intents \cup Forgets
    BY <1>1 DEF WorkersInv, Working, Fits, At, Msg, Work, Msgs
  <1>3. \/ Goto(w, "settle") \/ Goto(w, "ack")
        \/ Goto(w, "apply") /\ Msg(w) \in Intents
        \/ Goto(w, "resolve") /\ Msg(w) \in Forgets
    BY <1>2 DEF Start, OnTurn
  <1>4. Working'
    BY <1>1, <1>3, GotoStep DEF WorkersInv, At, Pcs, ApplyPcs, ForgetPcs, CidsPcs
  <1> QED
    BY <1>1, <1>4, LocalKept

----------------------------------------------------------------------------
(* apply_explicit_commitment                                                *)

LEMMA ApplyIntentKept ==
    ASSUME WorkersInv, NEW w \in Workers, ApplyIntent(w)
    PROVE  Kept
  <1>1. /\ At(w, "apply") /\ work[w].pc \in ApplyPcs /\ UNCHANGED ledgerOnly
        /\ UNCHANGED storeVars /\ UNCHANGED <<queueVars, redacted, boundVars>> /\ status' = status
    BY DEF ApplyIntent, ledgerOnly, queueVars, At, ApplyPcs
  <1>2. Msg(w) \in Intents /\ Cid(w) \in Cids
    BY <1>1, CommitmentConstants DEF WorkersInv, Working, Fits, Msg, Cid, Intent
  <1>3. QueuesOK' /\ StoresOK'
    BY <1>1, QueuesSame, StoresSame DEF WorkersInv
  <1>4. CASE ApplyRaises(Msg(w))
    <2>1. Goto(w, "reject") /\ UNCHANGED ledgerVars
      BY <1>4 DEF ApplyIntent, Reject
    <2>2. Working'
      BY <1>1, <2>1, ApplyGoto DEF WorkersInv
    <2> QED
      BY <1>3, <2>1, <2>2 DEF Kept
  <1>5. CASE ~ApplyRaises(Msg(w))
    <2> DEFINE p == IF commitments'[Cid(w)].revision > 1 THEN "previous" ELSE "current"
               r == [work[w] EXCEPT !.row = commitments'[Cid(w)], !.pc = p]
    <2>1. Apply(Msg(w)) /\ work' = [work EXCEPT ![w] = r]
      BY <1>5 DEF ApplyIntent
    <2>2. LedgerNext
      BY <1>2, <2>1 DEF LedgerNext
    <2>3. commitments' \in [Cids -> Record]
      BY <2>2, InvNext DEF WorkersInv, CommitmentInv, LedgerTypeOK
    <2>4. p \in {"previous", "current"} /\ commitments'[Cid(w)] \in Record
      BY <1>2, <2>3
    <2>5. work[w] \in Work /\ Fits(w, work[w])
      BY DEF WorkersInv, Working
    <2> HIDE DEF p
    <2>6. r \in Work /\ r.msg = Msg(w) /\ r.pc = p /\ r.cids = work[w].cids
      BY <2>4, <2>5 DEF Work, Msg, Pcs, ApplyPcs
    <2> HIDE DEF r
    <2>7. Fits(w, r)
      BY <1>1, <1>2, <2>4, <2>5, <2>6 DEF Fits, At, Msg, ApplyPcs, ForgetPcs, CidsPcs
    <2>8. Working'
      BY <1>1, <2>1, <2>6, <2>7, WorkStep DEF WorkersInv
    <2> QED
      BY <1>3, <2>2, <2>8 DEF Kept
  <1> QED
    BY <1>4, <1>5

LEMMA FindPreviousKept ==
    ASSUME WorkersInv, NEW w \in Workers, FindPrevious(w)
    PROVE  Kept
  <1>1. /\ At(w, "previous") /\ work[w].pc \in ApplyPcs /\ UNCHANGED localOnly /\ status' = status
        /\ ~At(w, "idle")
    BY DEF FindPrevious, localOnly, ledgerOnly, queueVars, At, ApplyPcs
  <1>2. AfterPrevious(w) \in {"current", "look_kg"}
    BY DEF AfterPrevious
  <1>3. CASE Goto(w, AfterPrevious(w))
    BY <1>1, <1>2, <1>3, ApplyGoto, LocalKept DEF WorkersInv, ApplyPcs
  <1>4. ASSUME NEW d \in drawers,
               work' = [work EXCEPT ![w] = [@ EXCEPT !.seen = {d},
                   !.pc = IF d \in archived THEN AfterPrevious(w) ELSE "archive"]]
        PROVE  Kept
    <2> DEFINE p == IF d \in archived THEN AfterPrevious(w) ELSE "archive"
               r == [work[w] EXCEPT !.seen = {d}, !.pc = p]
    <2>1. work' = [work EXCEPT ![w] = r]
      BY <1>4
    <2>2. p \in {"current", "look_kg", "archive"}
      BY <1>2
    <2>3. work[w] \in Work /\ Fits(w, work[w]) /\ d \in Drawer
      BY <1>4 DEF WorkersInv, Working, StoresOK
    <2> HIDE DEF p
    <2>4. r \in Work /\ r.msg = Msg(w) /\ r.pc = p /\ r.cids = work[w].cids
      BY <2>2, <2>3 DEF Work, Msg, Pcs, ApplyPcs
    <2> HIDE DEF r
    <2>5. Fits(w, r)
      BY <1>1, <2>2, <2>3, <2>4 DEF Fits, At, Msg, ApplyPcs, ForgetPcs, CidsPcs
    <2>6. Working'
      BY <1>1, <2>1, <2>4, <2>5, WorkStep DEF WorkersInv
    <2> QED
      BY <1>1, <2>6, LocalKept
  <1> QED
    BY <1>3, <1>4 DEF FindPrevious, RevisionDrawers

LEMMA ArchivePreviousKept ==
    ASSUME WorkersInv, NEW w \in Workers, ArchivePrevious(w)
    PROVE  Kept
  <1>1. /\ At(w, "archive") /\ work[w].pc \in ApplyPcs /\ status' = status /\ ~At(w, "idle")
        /\ UNCHANGED ledgerVars /\ UNCHANGED <<queueVars, redacted, boundVars>>
    BY DEF ArchivePrevious, storeOnly, queueVars, At, ApplyPcs
  <1>2. StoresOK'
    BY DEF ArchivePrevious, ArchiveDrawers, WorkersInv, StoresOK
  <1>3. AfterPrevious(w) \in ApplyPcs
    BY DEF AfterPrevious, ApplyPcs
  <1>4. Goto(w, AfterPrevious(w)) \/ Raise(w)
    BY DEF ArchivePrevious
  <1>5. Working'
    BY <1>1, <1>3, <1>4, ApplyGoto, RaiseStep DEF WorkersInv
  <1> QED
    BY <1>1, <1>2, <1>5, QueuesSame DEF WorkersInv, Kept

LEMMA FindCurrentKept ==
    ASSUME WorkersInv, NEW w \in Workers, FindCurrent(w)
    PROVE  Kept
  <1>1. work[w].pc \in ApplyPcs /\ UNCHANGED localOnly /\ status' = status
    BY DEF FindCurrent, localOnly, ledgerOnly, queueVars, At, ApplyPcs
  <1>2. Goto(w, "put_drawer") \/ Goto(w, "mark_drawer")
    BY DEF FindCurrent
  <1>3. Working'
    BY <1>1, <1>2, ApplyGoto DEF WorkersInv, ApplyPcs
  <1> QED
    BY <1>1, <1>3, LocalKept

\* The drawer is of a revision the worker was told of.
LEMMA PutDrawerKept ==
    ASSUME WorkersInv, NEW w \in Workers, PutDrawer(w)
    PROVE  Kept
  <1>1. /\ work[w].pc \in ApplyPcs /\ status' = status /\ Goto(w, "mark_drawer")
        /\ UNCHANGED ledgerVars /\ UNCHANGED <<queueVars, redacted, boundVars>>
    BY DEF PutDrawer, storeOnly, queueVars, At, ApplyPcs
  <1>2. Msg(w) \in Intents /\ Cid(w) \in Cids /\ Row(w).revision \in Nat
    BY <1>1, CommitmentConstants
       DEF WorkersInv, Working, Fits, Msg, Cid, Row, Intent, Work, Record
  <1>3. [cid |-> Cid(w), revision |-> Row(w).revision, text |-> Msg(w)] \in Drawer
    BY <1>2 DEF Drawer
  <1>4. StoresOK'
    BY <1>3 DEF PutDrawer, WorkersInv, StoresOK
  <1>5. Working'
    BY <1>1, ApplyGoto DEF WorkersInv, ApplyPcs
  <1> QED
    BY <1>1, <1>4, <1>5, QueuesSame DEF WorkersInv, Kept

\* A mark names the revision the worker read; if the record is still there, it
\* is one of the revisions the history counts.
LEMMA MarkKept ==
    ASSUME WorkersInv, NEW w \in Workers, NEW pc \in ApplyPcs,
           NEW T \in SUBSET Targets, T # {}, NEW next \in ApplyPcs \cup {"settle"},
           Mark(w, pc, T, next)
    PROVE  Kept
  <1>1. /\ work[w].pc \in ApplyPcs /\ status' = status
        /\ UNCHANGED storeVars /\ UNCHANGED <<queueVars, redacted, boundVars>>
    BY DEF Mark, ledgerOnly, queueVars, At
  <1>2. Msg(w) \in Intents /\ Cid(w) \in Cids
    BY <1>1, CommitmentConstants DEF WorkersInv, Working, Fits, Msg, Cid, Intent
  <1>3. Goto(w, "reject") \/ Goto(w, next)
    BY DEF Mark, Reject
  <1>4. Working'
    BY <1>1, <1>3, ApplyGoto DEF WorkersInv
  <1>5. ASSUME MarkProjected(Cid(w), Row(w).revision, T)
        PROVE  LedgerNext
    <2> DEFINE c == Cid(w)
               n == Row(w).revision
    <2>1. Exists(c) /\ commitments[c].revision = n
      BY <1>5 DEF MarkProjected, MarkProjectedRaises
    <2>2. n # 0 /\ n \in Nat /\ n = Cardinality(RevisionsOf(c))
      BY <1>2, <2>1 DEF WorkersInv, CommitmentInv, Revised, RevisionsCounted, LedgerTypeOK, Record
    <2>3. Cardinality(RevisionsOf(c)) <= Cardinality(Intents) /\ Cardinality(Intents) \in Nat
      <3>1. RevisionsOf(c) \subseteq Intents
        BY DEF RevisionsOf
      <3> QED
        BY <3>1, CommitmentConstants, FS_Subset, FS_CardinalityType
    <2>4. n \in 1 .. Cardinality(Intents)
      BY <2>2, <2>3
    <2> QED
      BY <1>2, <1>5, <2>4 DEF LedgerNext
  <1>6. [LedgerNext]_ledgerVars
    BY <1>5 DEF Mark
  <1> QED
    BY <1>1, <1>4, <1>6, QueuesSame, StoresSame DEF WorkersInv, Kept

LEMMA LookKgKept ==
    ASSUME WorkersInv, NEW w \in Workers, LookKg(w)
    PROVE  Kept
  <1>1. work[w].pc \in ApplyPcs /\ UNCHANGED localOnly /\ status' = status
    BY DEF LookKg, localOnly, ledgerOnly, queueVars, At, ApplyPcs
  <1>2. Goto(w, "add_kg") \/ Goto(w, "end_kg") \/ Goto(w, "mark_kg")
    BY DEF LookKg
  <1>3. Working'
    BY <1>1, <1>2, ApplyGoto DEF WorkersInv, ApplyPcs
  <1> QED
    BY <1>1, <1>3, LocalKept

LEMMA KgKept ==
    ASSUME WorkersInv, NEW w \in Workers, AddKg(w) \/ EndKg(w)
    PROVE  Kept
  <1>1. /\ work[w].pc \in ApplyPcs /\ status' = status /\ Goto(w, "mark_kg")
        /\ UNCHANGED ledgerVars /\ UNCHANGED <<queueVars, redacted, boundVars>>
    BY DEF AddKg, EndKg, storeOnly, queueVars, At, ApplyPcs
  <1>2. Cid(w) \in Cids
    BY <1>1, CommitmentConstants DEF WorkersInv, Working, Fits, Msg, Cid, Intent
  <1>3. StoresOK'
    BY <1>2 DEF AddKg, EndKg, AddTriple, OpenLike, WorkersInv, StoresOK
  <1>4. Working'
    BY <1>1, ApplyGoto DEF WorkersInv, ApplyPcs
  <1> QED
    BY <1>1, <1>3, <1>4, QueuesSame DEF WorkersInv, Kept

LEMMA ApplyStepsKept ==
    ASSUME WorkersInv, NEW w \in Workers, ApplySteps(w)
    PROVE  Kept
  <1>1. CASE MarkDrawer(w)
    BY <1>1, MarkKept DEF MarkDrawer, ApplyPcs, Targets
  <1>2. CASE MarkKg(w)
    BY <1>2, MarkKept DEF MarkKg, ApplyPcs, Targets
  <1>3. CASE MarkEnded(w)
    BY <1>3, MarkKept DEF MarkEnded, ApplyPcs, Targets
  <1> QED
    BY <1>1, <1>2, <1>3, ApplyIntentKept, FindPreviousKept, ArchivePreviousKept, FindCurrentKept,
       PutDrawerKept, LookKgKept, KgKept DEF ApplySteps

----------------------------------------------------------------------------
(* forget_resolved_projections                                              *)

\* What a request resolves to are commitments.
LEMMA ResolvedCids ==
    ASSUME WorkersInv, NEW w \in Workers, Msg(w) \in Forgets
    PROVE  /\ Resolved(w) \in SUBSET Cids
           /\ ForgetOf[Msg(w)].by = "id" => Resolved(w) # {}
  <1> DEFINE f == ForgetOf[Msg(w)]
  <1>1. f \in Forget /\ f.cid \in Cids /\ f.by \in {"id", "source", "turn"}
    BY WorkerConstants DEF Forget
  <1>2. CASE f.by = "id"
    BY <1>1, <1>2 DEF Resolved
  <1>3. CASE f.by = "source"
    <2>1. f.source \in Intents
      BY <1>3, WorkerConstants
    <2>2. revisions[f.source].cid \in Cids \cup {NoCid}
      BY <2>1 DEF WorkersInv, CommitmentInv, LedgerTypeOK, Revision
    <2>3. Resolved(w) = {revisions[f.source].cid} \ {NoCid}
      BY <1>3 DEF Resolved
    <2> QED
      BY <1>3, <2>2, <2>3
  <1>4. CASE f.by = "turn"
    <2>1. Resolved(w) = {c \in {f.cid} : Listed(c)}
      BY <1>4 DEF Resolved
    <2> QED
      BY <1>1, <1>4, <2>1
  <1> QED
    BY <1>1, <1>2, <1>3, <1>4

LEMMA ForgetResolveKept ==
    ASSUME WorkersInv, NEW w \in Workers, ForgetResolve(w)
    PROVE  Kept
  <1> DEFINE p == CASE OnTurn(Msg(w)) -> "statements"
                    [] Resolved(w) = {} -> "redact_event"
                    [] OTHER -> "begin"
             C == Resolved(w)
             r == [work[w] EXCEPT !.cids = C, !.pc = p]
  <1>1. /\ At(w, "resolve") /\ UNCHANGED localOnly /\ status' = status
        /\ work' = [work EXCEPT ![w] = r]
    BY DEF ForgetResolve, localOnly, ledgerOnly, queueVars
  <1>2. work[w] \in Work /\ Fits(w, work[w]) /\ Msg(w) \in Forgets
    BY <1>1 DEF WorkersInv, Working, Fits, At, Msg, ForgetPcs
  <1>3. C \in SUBSET Cids /\ (ForgetOf[Msg(w)].by = "id" => C # {})
    BY <1>2, ResolvedCids
  <1>4. \/ p = "statements" /\ ForgetOf[Msg(w)].by = "turn"
        \/ p = "redact_event" /\ C = {}
        \/ p = "begin" /\ C # {}
    BY DEF OnTurn
  <1> HIDE DEF p, C
  <1>5. r \in Work /\ r.msg = Msg(w) /\ r.pc = p /\ r.cids = C
    BY <1>2, <1>3, <1>4 DEF Work, Msg, Pcs, ForgetPcs, CidsPcs
  <1> HIDE DEF r
  <1>6. Fits(w, r)
    BY <1>1, <1>2, <1>3, <1>4, <1>5 DEF Fits, At, Msg, ApplyPcs, ForgetPcs, CidsPcs
  <1>7. Working'
    BY <1>1, <1>5, <1>6, WorkStep DEF WorkersInv
  <1> QED
    BY <1>1, <1>7, LocalKept

LEMMA ForgetStatementsKept ==
    ASSUME WorkersInv, NEW w \in Workers, ForgetStatements(w)
    PROVE  Kept
  <1>1. /\ At(w, "statements") /\ UNCHANGED localOnly /\ status' = status /\ ~At(w, "idle")
    BY DEF ForgetStatements, localOnly, ledgerOnly, queueVars, At
  <1>2. /\ work[w] \in Work /\ Fits(w, work[w]) /\ Msg(w) \in Forgets
        /\ ForgetOf[Msg(w)].by = "turn"
    BY <1>1 DEF WorkersInv, Working, Fits, At, Msg, ForgetPcs
  <1>3. CASE Raise(w)
    BY <1>1, <1>3, RaiseStep, LocalKept DEF WorkersInv
  <1>4. CASE Goto(w, "redact_event")
    <2>1. Working'
      BY <1>1, <1>2, <1>4, GotoStep DEF WorkersInv, Pcs, ApplyPcs, ForgetPcs, CidsPcs
    <2> QED
      BY <1>1, <2>1, LocalKept
  <1>5. ASSUME NEW named \in BOOLEAN, work[w].cids # {},
               work' = [work EXCEPT ![w] = [@ EXCEPT !.named = named, !.pc = "begin"]]
        PROVE  Kept
    <2> DEFINE r == [work[w] EXCEPT !.named = named, !.pc = "begin"]
    <2>1. work' = [work EXCEPT ![w] = r]
      BY <1>5
    <2>2. r \in Work /\ r.msg = Msg(w) /\ r.pc = "begin" /\ r.cids = work[w].cids
      BY <1>2 DEF Work, Msg, Pcs, ForgetPcs, CidsPcs
    <2> HIDE DEF r
    <2>3. Fits(w, r)
      BY <1>1, <1>2, <1>5, <2>2 DEF Fits, At, Msg, ApplyPcs, ForgetPcs, CidsPcs
    <2>4. Working'
      BY <1>1, <2>1, <2>2, <2>3, WorkStep DEF WorkersInv
    <2> QED
      BY <1>1, <2>4, LocalKept
  <1>6. PICK named \in BOOLEAN :
            IF work[w].cids = {}
            THEN IF named THEN Raise(w) ELSE Goto(w, "redact_event")
            ELSE work' = [work EXCEPT ![w] = [@ EXCEPT !.named = named, !.pc = "begin"]]
    BY DEF ForgetStatements
  <1> QED
    BY <1>3, <1>4, <1>5, <1>6

\* A worker that forgets has resolved something.
LEMMA Forgetting ==
    ASSUME WorkersInv, NEW w \in Workers, work[w].pc \in CidsPcs
    PROVE  /\ Msg(w) \in Forgets /\ work[w].cids \in (SUBSET Cids) \ {{}}
           /\ Hard(w) \in BOOLEAN /\ ~At(w, "idle")
           /\ work[w].seen \subseteq Drawer /\ work[w].sources \subseteq Intents
  BY WorkerConstants
     DEF WorkersInv, Working, Fits, Work, Msg, At, Hard, Forget, ForgetPcs, CidsPcs

LEMMA ForgetBeginKept ==
    ASSUME WorkersInv, NEW w \in Workers, ForgetBegin(w)
    PROVE  Kept
  <1>1. /\ At(w, "begin") /\ work[w].pc \in CidsPcs /\ status' = status
        /\ UNCHANGED storeVars /\ UNCHANGED <<queueVars, redacted, boundVars>>
    BY DEF ForgetBegin, ledgerOnly, queueVars, At, CidsPcs
  <1>2. QueuesOK' /\ StoresOK'
    BY <1>1, QueuesSame, StoresSame DEF WorkersInv
  <1>3. Msg(w) \in Forgets /\ work[w].cids \in (SUBSET Cids) \ {{}} /\ Hard(w) \in BOOLEAN /\ ~At(w, "idle")
    BY <1>1, Forgetting
  <1>4. CASE BeginForgetRaises(work[w].cids)
    <2>1. Raise(w) /\ UNCHANGED ledgerVars
      BY <1>4 DEF ForgetBegin
    <2>2. Working'
      BY <1>1, <1>3, <2>1, RaiseStep DEF WorkersInv
    <2> QED
      BY <1>2, <2>1, <2>2 DEF Kept
  <1>5. CASE ~BeginForgetRaises(work[w].cids)
    <2>1. BeginForget(work[w].cids, Hard(w))
      BY <1>5 DEF ForgetBegin
    <2>2. LedgerNext
      BY <1>3, <2>1 DEF LedgerNext
    <2>3. tombstones' \in [Cids -> Tombstone]
      BY <2>2, InvNext DEF WorkersInv, CommitmentInv, LedgerTypeOK
    <2>4. PICK c \in work[w].cids :
              LET sources == IF tombstones'[c].action = "delete" THEN RevisionsOf(c) ELSE {}
              IN work' = [work EXCEPT ![w] = [@ EXCEPT
                     !.count = tombstones'[c].revision_count, !.sources = sources,
                     !.pc = IF sources = {} THEN "forget_kg" ELSE "redact"]]
      BY <1>5 DEF ForgetBegin
    <2> DEFINE S == IF tombstones'[c].action = "delete" THEN RevisionsOf(c) ELSE {}
               n == tombstones'[c].revision_count
               p == IF S = {} THEN "forget_kg" ELSE "redact"
               r == [work[w] EXCEPT !.count = n, !.sources = S, !.pc = p]
    <2>5. work' = [work EXCEPT ![w] = r]
      BY <2>4
    <2>6. n \in Nat /\ S \subseteq Intents /\ p \in {"forget_kg", "redact"}
      BY <1>3, <2>3 DEF Tombstone, RevisionsOf
    <2>7. work[w] \in Work /\ Fits(w, work[w])
      BY DEF WorkersInv, Working
    <2> HIDE DEF n, S, p
    <2>8. r \in Work /\ r.msg = Msg(w) /\ r.pc = p /\ r.cids = work[w].cids
      BY <2>6, <2>7 DEF Work, Msg, Pcs, ForgetPcs, CidsPcs
    <2> HIDE DEF r
    <2>9. Fits(w, r)
      BY <1>1, <1>3, <2>6, <2>7, <2>8 DEF Fits, At, Msg, ApplyPcs, ForgetPcs, CidsPcs
    <2>10. Working'
      BY <1>1, <2>5, <2>8, <2>9, WorkStep DEF WorkersInv
    <2> QED
      BY <1>2, <2>2, <2>10 DEF Kept
  <1> QED
    BY <1>4, <1>5

LEMMA ForgetRedactKept ==
    ASSUME WorkersInv, NEW w \in Workers, ForgetRedact(w)
    PROVE  Kept
  <1>1. /\ work[w].pc \in CidsPcs /\ status' = status /\ Goto(w, "forget_kg")
        /\ UNCHANGED <<ledgerVars, queueVars, storeVars, boundVars>>
        /\ redacted' = redacted \cup work[w].sources
    BY DEF ForgetRedact, queueVars, At, CidsPcs
  <1>2. work[w].sources \subseteq Msgs
    BY <1>1, Forgetting DEF Msgs
  <1>3. QueuesOK' /\ StoresOK'
    BY <1>1, <1>2, StoresSame DEF WorkersInv, QueuesOK, queueVars, boundVars
  <1>4. Working'
    BY <1>1, ForgetGoto DEF WorkersInv, CidsPcs
  <1> QED
    BY <1>1, <1>3, <1>4 DEF Kept

\* forget_source_turns, and the deletion or archiving of the drawers found.
LEMMA ForgetStoresKept ==
    ASSUME WorkersInv, NEW w \in Workers, ForgetKg(w) \/ ForgetDrawers(w)
    PROVE  Kept
  <1>1. /\ work[w].pc \in CidsPcs /\ status' = status
        /\ Goto(w, "forget_kg_mark") \/ Goto(w, "forget_drawer_mark")
        /\ UNCHANGED ledgerVars /\ UNCHANGED <<queueVars, redacted, boundVars>>
    BY DEF ForgetKg, ForgetDrawers, storeOnly, queueVars, At, CidsPcs
  <1>2. StoresOK'
    BY DEF ForgetKg, ForgetDrawers, ArchiveDrawers, DeleteDrawers, WorkersInv, StoresOK
  <1>3. Working'
    BY <1>1, ForgetGoto DEF WorkersInv, CidsPcs
  <1> QED
    BY <1>1, <1>2, <1>3, QueuesSame DEF WorkersInv, Kept

LEMMA ForgetMarksKept ==
    ASSUME WorkersInv, NEW w \in Workers,
           ForgetKgMark(w) \/ ForgetDrawerMark(w) \/ ForgetFinalize(w)
    PROVE  Kept
  <1>1. /\ work[w].pc \in CidsPcs /\ status' = status
        /\ Goto(w, "scan") \/ Goto(w, "finalize") \/ Goto(w, "checkpoint")
        /\ UNCHANGED storeVars /\ UNCHANGED <<queueVars, redacted, boundVars>>
    BY DEF ForgetKgMark, ForgetDrawerMark, ForgetFinalize, ledgerOnly, queueVars, At, CidsPcs
  <1>2. Working'
    BY <1>1, ForgetGoto DEF WorkersInv, CidsPcs
  <1>3. work[w].cids \in (SUBSET Cids) \ {{}}
    BY <1>1, Forgetting
  <1>4. \/ MarkForgetProjected(work[w].cids, {"kg"})
        \/ MarkForgetProjected(work[w].cids, {"drawer"})
        \/ FinalizeForget(work[w].cids)
    BY DEF ForgetKgMark, ForgetDrawerMark, ForgetFinalize
  <1>5. {"kg"} \in (SUBSET Targets) \ {{}} /\ {"drawer"} \in (SUBSET Targets) \ {{}}
    BY DEF Targets
  <1>6. LedgerNext
    BY <1>3, <1>4, <1>5 DEF LedgerNext
  <1> QED
    BY <1>1, <1>2, <1>6, QueuesSame, StoresSame DEF WorkersInv, Kept

LEMMA ForgetScanKept ==
    ASSUME WorkersInv, NEW w \in Workers, ForgetScan(w)
    PROVE  Kept
  <1>1. /\ At(w, "scan") /\ work[w].pc \in CidsPcs /\ UNCHANGED localOnly /\ status' = status
    BY DEF ForgetScan, localOnly, ledgerOnly, queueVars, At, CidsPcs
  <1>2. PICK D \in SUBSET Findable(w) :
            work' = [work EXCEPT ![w] = [@ EXCEPT !.seen = D, !.pc = "forget_drawers"]]
    BY DEF ForgetScan
  <1>3. D \subseteq Drawer
    BY DEF Findable, WorkersInv, StoresOK
  <1> DEFINE r == [work[w] EXCEPT !.seen = D, !.pc = "forget_drawers"]
  <1>4. work' = [work EXCEPT ![w] = r]
    BY <1>2
  <1>5. work[w] \in Work /\ Fits(w, work[w])
    BY DEF WorkersInv, Working
  <1>6. r \in Work /\ r.msg = Msg(w) /\ r.pc = "forget_drawers" /\ r.cids = work[w].cids
    BY <1>3, <1>5 DEF Work, Msg, Pcs, ForgetPcs, CidsPcs
  <1> HIDE DEF r
  <1>7. Fits(w, r)
    BY <1>1, <1>5, <1>6 DEF Fits, At, Msg, ApplyPcs, ForgetPcs, CidsPcs
  <1>8. Working'
    BY <1>1, <1>4, <1>6, <1>7, WorkStep DEF WorkersInv
  <1> QED
    BY <1>1, <1>8, LocalKept

LEMMA CheckpointKept ==
    ASSUME WorkersInv, NEW w \in Workers, Checkpoint(w)
    PROVE  Kept
  <1>1. /\ work[w].pc \in CidsPcs /\ UNCHANGED localOnly /\ status' = status
    BY DEF Checkpoint, localOnly, ledgerOnly, queueVars, At, CidsPcs
  <1>2. Msg(w) \in Forgets /\ ~At(w, "idle")
    BY <1>1, Forgetting
  <1>3. \/ Raise(w) \/ Goto(w, "settle")
        \/ Goto(w, "redact_event") /\ ForgetOf[Msg(w)].by # "id"
    BY DEF Checkpoint
  <1>4. ASSUME Goto(w, "redact_event"), ForgetOf[Msg(w)].by # "id"
        PROVE  Working'
    BY <1>1, <1>2, <1>4, GotoStep DEF WorkersInv, Pcs, ApplyPcs, ForgetPcs, CidsPcs
  <1>5. Working'
    BY <1>1, <1>2, <1>3, <1>4, RaiseStep, ForgetGoto DEF WorkersInv
  <1> QED
    BY <1>1, <1>5, LocalKept

LEMMA RedactEventKept ==
    ASSUME WorkersInv, NEW w \in Workers, RedactEvent(w)
    PROVE  Kept
  <1> DEFINE e == IF OnTurn(Msg(w)) THEN Msg(w) ELSE ForgetOf[Msg(w)].source
  <1>1. /\ At(w, "redact_event") /\ status' = status /\ Goto(w, "settle")
        /\ UNCHANGED <<ledgerVars, queueVars, storeVars, boundVars>>
        /\ redacted' = redacted \cup {e}
    BY DEF RedactEvent, queueVars
  <1>2. Msg(w) \in Forgets /\ ForgetOf[Msg(w)].by # "id"
    BY <1>1 DEF WorkersInv, Working, Fits, At, Msg, ForgetPcs
  <1>3. e \in Msgs
    <2>1. ForgetOf[Msg(w)].by \in {"id", "source", "turn"}
      BY <1>2, WorkerConstants DEF Forget
    <2> QED
      BY <1>2, <2>1, WorkerConstants DEF OnTurn, Msgs
  <1> HIDE DEF e
  <1>4. QueuesOK' /\ StoresOK'
    BY <1>1, <1>3, StoresSame DEF WorkersInv, QueuesOK, queueVars, boundVars
  <1>5. Working'
    BY <1>1, GotoStep DEF WorkersInv, At, Pcs, ApplyPcs, ForgetPcs, CidsPcs
  <1> QED
    BY <1>1, <1>4, <1>5 DEF Kept

LEMMA ForgetStepsKept ==
    ASSUME WorkersInv, NEW w \in Workers, ForgetSteps(w)
    PROVE  Kept
  BY ForgetResolveKept, ForgetStatementsKept, ForgetBeginKept, ForgetRedactKept, ForgetStoresKept,
     ForgetMarksKept, ForgetScanKept, CheckpointKept, RedactEventKept DEF ForgetSteps

----------------------------------------------------------------------------
(* Settling, failing, crashing.                                             *)

LEMMA SettleKept ==
    ASSUME WorkersInv, NEW w \in Workers, Settle(w)
    PROVE  Kept
  <1>1. /\ At(w, "settle") /\ ~At(w, "idle")
        /\ UNCHANGED <<ledgerVars, deliveries, storeVars, redacted, boundVars>>
    BY DEF Settle, At
  <1>2. Msg(w) \in Msgs
    BY <1>1 DEF WorkersInv, Working, Fits, At, Msg, Work
  <1>3. CASE work[w].failed
    <2> DEFINE s == IF deliveries[Msg(w)] >= MaxDeliveries THEN "dead" ELSE "queued"
    <2>1. /\ work' = [work EXCEPT ![w] = Idle] /\ status' = [status EXCEPT ![Msg(w)] = s]
          /\ applied' = applied
      BY <1>3 DEF Settle
    <2>2. s \in {"unsent", "queued", "held"} \cup MsgTerminal
      BY DEF MsgTerminal
    <2> HIDE DEF s
    <2>3. Working' /\ status' \in [Msgs -> {"unsent", "queued", "held"} \cup MsgTerminal]
      BY <1>1, <2>1, <2>2, WorkEnds DEF WorkersInv
    <2>4. QueuesOK'
      BY <1>1, <2>1, <2>3 DEF WorkersInv, QueuesOK, boundVars
    <2> QED
      BY <1>1, <2>3, <2>4, StoresSame DEF WorkersInv, Kept
  <1>4. CASE ~work[w].failed
    <2>1. /\ Goto(w, "ack") /\ status' = status
          /\ applied' = applied \/ applied' = applied \cup {Msg(w)}
      BY <1>4 DEF Settle
    <2>2. Working'
      BY <1>1, <2>1, GotoStep DEF WorkersInv, Pcs, ApplyPcs, ForgetPcs, CidsPcs
    <2>3. QueuesOK'
      BY <1>1, <1>2, <2>1 DEF WorkersInv, QueuesOK, boundVars
    <2> QED
      BY <1>1, <2>2, <2>3, StoresSame DEF WorkersInv, Kept
  <1> QED
    BY <1>3, <1>4

LEMMA FinishKept ==
    ASSUME WorkersInv, NEW w \in Workers, Ack(w) \/ RejectAck(w)
    PROVE  Kept
  <1>1. ASSUME NEW pc \in {"ack", "reject"}, NEW s \in MsgTerminal, Finish(w, pc, s)
        PROVE  Kept
    <2>1. /\ ~At(w, "idle") /\ UNCHANGED <<ledgerVars, deliveries, applied, storeVars, redacted, boundVars>>
          /\ work' = [work EXCEPT ![w] = Idle] /\ status' = [status EXCEPT ![Msg(w)] = s]
      BY <1>1 DEF Finish, At
    <2>2. Working' /\ status' \in [Msgs -> {"unsent", "queued", "held"} \cup MsgTerminal]
      BY <2>1, WorkEnds DEF WorkersInv
    <2>3. QueuesOK'
      BY <2>1, <2>2 DEF WorkersInv, QueuesOK, boundVars
    <2> QED
      BY <2>1, <2>2, <2>3, StoresSame DEF WorkersInv, Kept
  <1> QED
    BY <1>1 DEF Ack, RejectAck, MsgTerminal

LEMMA FailKept ==
    ASSUME WorkersInv, NEW w \in Workers, Fail(w)
    PROVE  Kept
  <1>1. /\ Raise(w) /\ ~At(w, "idle") /\ status' = status
        /\ UNCHANGED <<ledgerVars, queueVars, storeVars, redacted, said, crashes>>
    BY DEF Fail, At, queueVars
  <1>2. Working'
    BY <1>1, RaiseStep DEF WorkersInv
  <1>3. QueuesOK'
    BY <1>1 DEF WorkersInv, QueuesOK, queueVars
  <1> QED
    BY <1>1, <1>2, <1>3, StoresSame DEF WorkersInv, Kept

\* Every worker is gone, and what was held comes back.
LEMMA CrashKept ==
    ASSUME WorkersInv, Crash
    PROVE  Kept
  <1>1. /\ work' = [w \in Workers |-> Idle]
        /\ status' = [m \in Msgs |-> IF status[m] = "held" THEN "queued" ELSE status[m]]
        /\ UNCHANGED <<ledgerVars, deliveries, applied, storeVars, redacted, said, fails>>
    BY DEF Crash
  <1>2. Idle \in Work /\ Idle.msg = NoMsg /\ \A w \in Workers : Fits(w, Idle)
    BY DEF Idle, Work, Fits, Pcs, ApplyPcs, ForgetPcs, CidsPcs, Record, NoRecord, AllPending,
           Projections, Status
  <1>3. Working'
    BY <1>1, <1>2 DEF Working, Fits, Msg
  <1>4. QueuesOK'
    BY <1>1 DEF WorkersInv, QueuesOK
  <1> QED
    BY <1>1, <1>3, <1>4, StoresSame DEF WorkersInv, Kept

LEMMA PublishKept ==
    ASSUME WorkersInv, NEW m \in Msgs, Publish(m)
    PROVE  Kept
  <1>1. /\ status[m] = "unsent" /\ status' = [status EXCEPT ![m] = "queued"]
        /\ UNCHANGED <<ledgerVars, deliveries, applied, storeVars, redacted, work, boundVars>>
    BY DEF Publish
  <1>2. QueuesOK'
    BY <1>1 DEF WorkersInv, QueuesOK, boundVars
  <1>3. ASSUME NEW v \in Workers, work'[v].msg # NoMsg
        PROVE  status'[work'[v].msg] = "held"
    <2>1. work'[v] = work[v] /\ work[v].msg \in Msgs /\ status[work[v].msg] = "held"
      BY <1>1, <1>3 DEF WorkersInv, Working, Work, Msg
    <2> QED
      BY <2>1, <1>1 DEF WorkersInv, QueuesOK
  <1>4. Working'
    BY <1>1, <1>3 DEF WorkersInv, Working, Fits, Msg
  <1> QED
    BY <1>1, <1>2, <1>4, StoresSame DEF WorkersInv, Kept

----------------------------------------------------------------------------
(* The theorems.                                                            *)

LEMMA WorkersInit == Init => WorkersInv
  <1> SUFFICES ASSUME Init
               PROVE  WorkersInv
    OBVIOUS
  <1>1. PICK s \in Scenarios :
            /\ LedgerInit
            /\ said = s.said
            /\ status = [m \in Msgs |->
                   IF m \notin said \/ (m \in Forgets /\ ForgetOf[m].by = "id") THEN "unsent" ELSE "queued"]
            /\ deliveries = [m \in Msgs |-> 0]
            /\ applied = {} /\ drawers = {} /\ archived = {} /\ rows = {} /\ closed = {}
            /\ redacted = {}
            /\ work = [w \in Workers |-> Idle]
    BY DEF Init
  <1>2. CommitmentInv
    BY <1>1, InvInit
  <1>3. QueuesOK /\ StoresOK
    BY <1>1, WorkerConstants DEF QueuesOK, StoresOK
  <1>4. Idle \in Work /\ Idle.msg = NoMsg /\ \A w \in Workers : Fits(w, Idle)
    BY DEF Idle, Work, Fits, Pcs, ApplyPcs, ForgetPcs, CidsPcs, Record, NoRecord, AllPending,
           Projections, Status
  <1>5. Working
    BY <1>1, <1>4 DEF Working, Msg
  <1> QED
    BY <1>2, <1>3, <1>5 DEF WorkersInv

LEMMA WorkersNext == WorkersInv /\ [Next]_vars => WorkersInv' /\ [LedgerNext]_ledgerVars
  <1> SUFFICES ASSUME WorkersInv, [Next]_vars
               PROVE  WorkersInv' /\ [LedgerNext]_ledgerVars
    OBVIOUS
  <1>1. ASSUME NEW w \in Workers, Step(w)
        PROVE  Kept
    BY <1>1, TakeKept, StartKept, ApplyStepsKept, ForgetStepsKept, SettleKept, FinishKept DEF Step
  <1>2. ASSUME UNCHANGED vars
        PROVE  Kept
    <2>1. UNCHANGED ledgerVars /\ UNCHANGED <<queueVars, redacted, boundVars>>
          /\ UNCHANGED storeVars /\ work' = work /\ status' = status
      BY <1>2 DEF vars, queueVars
    <2>2. Working'
      BY <2>1 DEF WorkersInv, Working, Fits, Msg
    <2> QED
      BY <2>1, <2>2, QueuesSame, StoresSame DEF WorkersInv, Kept
  <1>3. Kept
    BY <1>1, <1>2, PublishKept, FailKept, CrashKept DEF Next, IdlePoll
  <1>4. CommitmentInv'
    BY <1>3, InvNext DEF Kept, WorkersInv
  <1> QED
    BY <1>3, <1>4 DEF Kept, WorkersInv

\* Whatever the workers interleave, repeat and leave half done, the ledger
\* keeps its invariant and every worker holds what its next call needs.
THEOREM WorkersInvariant == Spec => []WorkersInv
  BY WorkersInit, WorkersNext, PTL DEF Spec

\* The stores, queues and handlers hold what they may, and a message is held
\* exactly while a worker works on it.
THEOREM WorkersTypeCorrect == Spec => []TypeOK
  <1>1. WorkersInv => TypeOK
    BY DEF WorkersInv, CommitmentInv, QueuesOK, StoresOK, Working, Fits, Work, TypeOK, At, Msg
  <1> QED
    BY <1>1, WorkersInvariant, PTL

\* The workers are callers of the ledger and nothing else: whatever they do is
\* one ledger call or leaves its tables alone.
THEOREM WorkersImplementLedger == Spec => LedgerSpec
  <1>1. Init => LedgerInit
    BY DEF Init
  <1> QED
    BY <1>1, WorkersInvariant, WorkersNext, PTL DEF Spec, LedgerSpec

\* However intents are delivered, repeated and interrupted, histories are
\* legal: they start open, go on by steps of the lifecycle, and end in the
\* current record.
THEOREM WorkersHistoryLegal == Spec => []HistoryLegal
  BY WorkersImplementLedger, CommitmentHistoryLegal, PTL

\* A redelivered or late intent does not open a promise that has ended, and
\* does not bring an erased one back.
THEOREM WorkersTerminalFinal == Spec => TerminalFinal
  BY WorkersImplementLedger, CommitmentTerminalFinal, PTL

\* Neither a late intent nor a second forget changes what a forget decided.
THEOREM WorkersTombstoneFreezes == Spec => TombstoneFreezes
  BY WorkersImplementLedger, CommitmentTombstoneFreezes, PTL


----------------------------------------------------------------------------
(* What the stores show of a commitment.                                    *)
(*                                                                          *)
(* Only the command worker applies intents, one at a time, so while it      *)
(* works on a commitment that nobody forgets, the record it read stays the  *)
(* current one and the stores change as it writes them.  What a forget      *)
(* changes belongs to commitments whose tombstone it has written before.    *)

Applying == ApplyPcs \ {"apply"}

\* The drawer before the current one is archived.
Superseded(c) ==
    \A d \in drawers : d.cid = c /\ d.revision + 1 = commitments[c].revision => d \in archived

\* Each store shows an open commitment, and the graph no closed one.
Drawn(c) == Active(c) => RevisionDrawers(c, commitments[c].revision) # {}
Stated(c) == ReadsApart(c) => (Active(c) <=> c \in rows \ closed)
Rendered(c) == Superseded(c) /\ Drawn(c) /\ Stated(c)

\* What there is of a commitment nobody asked to forget: no drawer of a
\* revision to come, none of the current one that is archived or of a closed
\* promise, no statement of a promise that was never made, no ended one of an
\* open promise, and behind each mark what it says.
Shelved(c) ==
    /\ \A d \in drawers : d.cid = c =>
           /\ d.revision \in 1 .. commitments[c].revision
           /\ d \in archived \/ ~Active(c) => d.revision # commitments[c].revision
    /\ c \in rows => Exists(c)
    /\ c \in closed /\ ReadsApart(c) => ~Active(c)
    /\ Active(c) /\ commitments[c].proj["drawer"] = "projected"
           => RevisionDrawers(c, commitments[c].revision) # {}
    /\ Active(c) /\ commitments[c].proj["kg"] = "projected" /\ ReadsApart(c) => c \in rows
    /\ \A i \in Intents : revisions[i].cid = c => revisions[i].number <= commitments[c].revision

\* A revision has one drawer.
OneDrawer == \A d, e \in drawers : d.cid = e.cid /\ d.revision = e.revision => d = e

\* A revision belongs to what its intent names and was made by a message, and
\* an intent that was refused made none or was forgotten.
Attributed ==
    \A i \in Intents :
        /\ revisions[i].cid # NoCid => revisions[i].cid = IntentOf[i].cid /\ status[i] # "unsent"
        /\ status[i] = "rejected" => revisions[i].cid = NoCid \/ Forgotten(IntentOf[i].cid)

\* What the worker of an intent has done of the revision it was told of.
Progress(w, c) ==
    /\ Row(w).revision = commitments[c].revision /\ Row(w).status = commitments[c].status
    /\ Exists(c) /\ revisions[Msg(w)].cid = c
    /\ At(w, "archive") =>
           /\ \A d \in work[w].seen : d.cid = c /\ d.revision + 1 = Row(w).revision
           /\ \A d \in drawers : d.cid = c /\ d.revision + 1 = Row(w).revision => d \in work[w].seen
    /\ work[w].pc \notin {"previous", "archive"} => Superseded(c)
    /\ work[w].pc \in {"current", "put_drawer", "mark_drawer", "add_kg"} => Active(c)
    /\ work[w].pc \in {"end_kg", "mark_ended"} => ~Active(c)
    /\ work[w].pc \in {"mark_drawer", "look_kg", "add_kg", "mark_kg"} => Drawn(c)
    /\ work[w].pc \in {"mark_kg", "mark_ended"} => Stated(c)

\* What a worker knows between its steps.
Learned(w) ==
    /\ At(w, "put_drawer") => RevisionDrawers(Cid(w), Row(w).revision) = {}
    /\ At(w, "archive") => \A d \in work[w].seen : d.cid = Cid(w)
    /\ work[w].pc \in Applying /\ ~Forgotten(Cid(w)) => Progress(w, Cid(w))
    /\ At(w, "reject") /\ Msg(w) \in Intents
           => revisions[Msg(w)].cid = NoCid \/ Forgotten(Cid(w))
    /\ work[w].failed => At(w, "settle")
    /\ work[w].pc \in ApplyPcs => Msg(w) \notin applied
    /\ work[w].pc \in CidsPcs \ {"begin"} => \A c \in work[w].cids : Forgotten(c)
    /\ At(w, "forget_drawers") => \A d \in work[w].seen : d.cid \in work[w].cids

\* An intent that is done with, though perhaps not acknowledged yet.
Settling(i) ==
    \/ status[i] = "acked" \/ i \in applied
    \/ \E w \in Workers : /\ Msg(w) = i
                          /\ At(w, "ack") \/ At(w, "settle")
                          /\ ~work[w].failed

\* It has made its revision, and if that is still the current one, the stores
\* show it.
Delivered(i, c) ==
    ~Forgotten(c) => /\ revisions[i].cid = c
                     /\ revisions[i].number = commitments[c].revision => Rendered(c)

RenderInv ==
    /\ \A c \in Cids : ~Forgotten(c) => Shelved(c)
    /\ OneDrawer
    /\ Attributed
    /\ \A w \in Workers : Learned(w)
    /\ \A i \in Intents : Settling(i) => Delivered(i, IntentOf[i].cid)

\* A step leaves alone what concerns commitment c.
Same(c) ==
    /\ commitments'[c] = commitments[c]
    /\ \A d \in Drawer : d.cid = c => (d \in drawers' <=> d \in drawers)
                                      /\ (d \in archived' <=> d \in archived)
    /\ c \in rows' <=> c \in rows
    /\ ReadsApart(c) => (c \in closed' <=> c \in closed)
    /\ \A i \in Intents : IntentOf[i].cid = c => revisions'[i] = revisions[i]

\* A commitment that is not forgotten after the step was not forgotten before.
Spared(c) == ~Forgotten(c)' => ~Forgotten(c) /\ Same(c)

\* What the definitions say of c depends on nothing else.
LEMMA RenderedSame ==
    ASSUME WorkersInv, WorkersInv', NEW c \in Cids, Same(c)
    PROVE  /\ Superseded(c) => Superseded(c)'
           /\ Drawn(c) => Drawn(c)'
           /\ Stated(c) => Stated(c)'
           /\ (Active(c) <=> Active(c)') /\ (Exists(c) <=> Exists(c)')
  <1>1. drawers \subseteq Drawer /\ drawers' \subseteq Drawer
    BY DEF WorkersInv, StoresOK
  <1>2. (Active(c) <=> Active(c)') /\ (Exists(c) <=> Exists(c)')
    BY DEF Same, Active, Exists
  <1>3. Superseded(c) => Superseded(c)'
    BY <1>1 DEF Same, Superseded
  <1>4. Drawn(c) => Drawn(c)'
    BY <1>1, <1>2 DEF Same, Drawn, RevisionDrawers
  <1>5. Stated(c) => Stated(c)'
    BY <1>2 DEF Same, Stated, ReadsApart
  <1> QED
    BY <1>2, <1>3, <1>4, <1>5

LEMMA ShelvedSame ==
    ASSUME WorkersInv, WorkersInv', NEW c \in Cids, Same(c), Shelved(c), Attributed'
    PROVE  Shelved(c)'
  <1>1. drawers \subseteq Drawer /\ drawers' \subseteq Drawer
    BY DEF WorkersInv, StoresOK
  <1>2. (Active(c) <=> Active(c)') /\ (Exists(c) <=> Exists(c)') /\ commitments'[c] = commitments[c]
        /\ (ReadsApart(c) <=> ReadsApart(c)')
    BY DEF Same, Active, Exists, ReadsApart
  <1>3. \A d \in drawers' : d.cid = c =>
            /\ d.revision \in 1 .. commitments'[c].revision
            /\ (d \in archived' \/ ~Active(c)') => d.revision # commitments'[c].revision
    BY <1>1, <1>2 DEF Same, Shelved
  <1>4. (c \in rows' => Exists(c)') /\ (c \in closed' /\ ReadsApart(c)' => ~Active(c)')
    BY <1>2 DEF Same, Shelved
  <1>5. Active(c)' /\ commitments'[c].proj["drawer"] = "projected"
            => RevisionDrawers(c, commitments[c].revision)' # {}
    BY <1>1, <1>2 DEF Same, Shelved, RevisionDrawers
  <1>6. Active(c)' /\ commitments'[c].proj["kg"] = "projected" /\ ReadsApart(c)' => c \in rows'
    BY <1>2 DEF Same, Shelved
  <1>7. \A i \in Intents : revisions'[i].cid = c => revisions'[i].number <= commitments'[c].revision
    <2> SUFFICES ASSUME NEW i \in Intents, revisions'[i].cid = c
                 PROVE  revisions'[i].number <= commitments'[c].revision
      OBVIOUS
    <2>1. IntentOf[i].cid = c
      BY CommitmentConstants DEF Attributed
    <2>2. revisions'[i] = revisions[i]
      BY <2>1 DEF Same
    <2> QED
      BY <2>2, <1>2 DEF Shelved
  <1> QED
    BY <1>3, <1>4, <1>5, <1>6, <1>7 DEF Shelved

\* The worker of an intent and the commitment it works on.
LEMMA ApplyingFacts ==
    ASSUME WorkersInv, NEW w \in Workers, work[w].pc \in ApplyPcs
    PROVE  /\ Msg(w) \in Intents /\ Msg(w) \notin Forgets /\ Cid(w) \in Cids
           /\ Cid(w) = IntentOf[Msg(w)].cid /\ w = "cmd"
           /\ Row(w) \in Record /\ status[Msg(w)] = "held"
           /\ \A v \in Workers : v # w => Msg(v) \notin Intents
  <1>1. Msg(w) \in Intents /\ Msg(w) # NoMsg /\ Row(w) \in Record
    BY WorkerConstants DEF WorkersInv, Working, Fits, Work, Msg, Row, Msgs
  <1>2. Msg(w) \notin Forgets /\ IntentOf[Msg(w)] \in Intent
    BY <1>1, WorkerConstants, CommitmentConstants
  <1>3. w = "cmd" /\ status[Msg(w)] = "held"
    BY <1>1, <1>2 DEF WorkersInv, Working, Fits, Msg, WorkerOf, OnTurn
  <1>4. ASSUME NEW v \in Workers, v # w
        PROVE  Msg(v) \notin Intents
    BY <1>3, <1>4, WorkerConstants DEF WorkersInv, Working, Fits, Msg, WorkerOf, OnTurn, Msgs
  <1> QED
    BY <1>1, <1>2, <1>3, <1>4 DEF Cid, Intent

LEMMA ProgressSame ==
    ASSUME WorkersInv, WorkersInv', NEW w \in Workers, NEW c \in Cids, Same(c), Progress(w, c),
           work'[w] = work[w], Msg(w) \in Intents, IntentOf[Msg(w)].cid = c
    PROVE  Progress(w, c)'
  <1>1. /\ Superseded(c) => Superseded(c)'
        /\ Drawn(c) => Drawn(c)'
        /\ Stated(c) => Stated(c)'
        /\ (Active(c) <=> Active(c)') /\ (Exists(c) <=> Exists(c)')
    BY RenderedSame
  <1>2. commitments'[c] = commitments[c] /\ revisions'[Msg(w)] = revisions[Msg(w)]
    BY DEF Same
  <1>3. Row(w)' = Row(w) /\ Msg(w)' = Msg(w) /\ \A p : At(w, p)' <=> At(w, p)
    BY DEF Row, Msg, At
  <1>4. \A d \in drawers' : d.cid = c => d \in drawers
    BY DEF Same, WorkersInv, StoresOK
  <1> QED
    BY <1>1, <1>2, <1>3, <1>4 DEF Progress

\* A worker that does not move knows what it knew.
LEMMA LearnedSame ==
    ASSUME WorkersInv, WorkersInv', NEW v \in Workers, Learned(v), work'[v] = work[v],
           \A c \in Cids : Spared(c), drawers' \subseteq drawers,
           Msg(v) \in applied' => Msg(v) \in applied
    PROVE  Learned(v)'
  <1>1. Row(v)' = Row(v) /\ Msg(v)' = Msg(v) /\ Cid(v)' = Cid(v) /\ \A p : At(v, p)' <=> At(v, p)
    BY DEF Row, Msg, At, Cid
  <1>2. work[v] \in Work
    BY DEF WorkersInv, Working
  <1>3. At(v, "put_drawer") => RevisionDrawers(Cid(v), Row(v).revision)' = {}
    BY <1>1 DEF Learned, RevisionDrawers
  <1>4. ASSUME work[v].pc \in Applying, ~Forgotten(Cid(v))'
        PROVE  Progress(v, Cid(v))'
    <2>1. work[v].pc \in ApplyPcs
      BY <1>4 DEF Applying
    <2>2. Msg(v) \in Intents /\ Cid(v) \in Cids /\ Cid(v) = IntentOf[Msg(v)].cid
      BY <2>1, ApplyingFacts
    <2>3. PICK c \in Cids : c = Cid(v)
      BY <2>2
    <2>4. ~Forgotten(c)'
      BY <1>4, <1>1, <2>3 DEF Forgotten
    <2>5. ~Forgotten(c) /\ Same(c)
      BY <2>4 DEF Spared
    <2>6. Progress(v, c)
      BY <2>3, <2>5, <1>4 DEF Learned
    <2>7. Progress(v, c)'
      BY <2>2, <2>3, <2>5, <2>6, ProgressSame
    <2> QED
      BY <2>3, <2>7, <1>1
  <1>5. ASSUME At(v, "reject"), Msg(v) \in Intents
        PROVE  revisions'[Msg(v)].cid = NoCid \/ Forgotten(Cid(v))'
    <2>1. Cid(v) = IntentOf[Msg(v)].cid /\ Cid(v) \in Cids
      BY <1>5, CommitmentConstants DEF Cid, Intent
    <2>2. PICK c \in Cids : c = Cid(v)
      BY <2>1
    <2>3. Forgotten(c)' \/ (~Forgotten(c) /\ revisions'[Msg(v)] = revisions[Msg(v)])
      BY <2>1, <2>2, <1>5 DEF Spared, Same
    <2>4. revisions[Msg(v)].cid = NoCid \/ Forgotten(c)
      BY <1>5, <2>2 DEF Learned
    <2>5. Forgotten(c)' => Forgotten(Cid(v))'
      BY <1>1, <2>2 DEF Forgotten
    <2> QED
      BY <2>3, <2>4, <2>5
  <1>6. work[v].pc \in CidsPcs \ {"begin"} => \A c \in work[v].cids : Forgotten(c)'
    <2> SUFFICES ASSUME work[v].pc \in CidsPcs \ {"begin"}, NEW c \in work[v].cids
                 PROVE  Forgotten(c)'
      OBVIOUS
    <2>1. c \in Cids /\ Forgotten(c)
      BY <1>2 DEF Learned, Work
    <2> QED
      BY <2>1 DEF Spared
  <1>7. Cid(v)' = Cid(v) /\ (At(v, "forget_drawers") => \A d \in work[v].seen : d.cid \in work[v].cids)
    BY <1>1 DEF Learned
  <1>8. (work[v].failed => At(v, "settle")) /\ (work[v].pc \in ApplyPcs => Msg(v) \notin applied')
    BY DEF Learned
  <1> QED
    BY <1>1, <1>3, <1>4, <1>5, <1>6, <1>7, <1>8 DEF Learned

\* A step that spares every commitment that stays unforgotten.
LEMMA QuietRenders ==
    ASSUME WorkersInv, WorkersInv', RenderInv, \A c \in Cids : Spared(c), drawers' \subseteq drawers,
           Attributed',
           \A v \in Workers : Learned(v)' \/ (/\ work'[v] = work[v]
                                              /\ Msg(v) \in applied' => Msg(v) \in applied),
           \A i \in Intents : Settling(i)' => Settling(i)
    PROVE  RenderInv'
  <1>1. ASSUME NEW c \in Cids, ~Forgotten(c)'
        PROVE  Shelved(c)'
    BY <1>1, ShelvedSame DEF RenderInv, Spared
  <1>2. OneDrawer'
    BY DEF RenderInv, OneDrawer
  <1>3. \A v \in Workers : Learned(v)'
    BY LearnedSame DEF RenderInv
  <1>4. ASSUME NEW i \in Intents, Settling(i)'
        PROVE  Delivered(i, IntentOf[i].cid)'
    <2>1. IntentOf[i].cid \in Cids /\ Settling(i)
      BY <1>4, CommitmentConstants DEF Intent
    <2>2. PICK c \in Cids : c = IntentOf[i].cid
      BY <2>1
    <2>3. Delivered(i, c)
      BY <2>1, <2>2 DEF RenderInv
    <2>4. ASSUME Forgotten(c)'
          PROVE  Delivered(i, c)'
      BY <2>4 DEF Delivered
    <2>5. ASSUME ~Forgotten(c)'
          PROVE  Delivered(i, c)'
      <3>1. ~Forgotten(c) /\ Same(c)
        BY <2>5 DEF Spared
      <3>2. Rendered(c) => Rendered(c)'
        BY <3>1, RenderedSame DEF Rendered
      <3>3. revisions'[i] = revisions[i] /\ commitments'[c] = commitments[c]
        BY <3>1, <2>2 DEF Same
      <3> QED
        BY <2>3, <3>1, <3>2, <3>3 DEF Delivered
    <2>6. Delivered(i, c)'
      BY <2>4, <2>5
    <2> QED
      BY <2>2, <2>6
  <1> QED
    BY <1>1, <1>2, <1>3, <1>4 DEF RenderInv

----------------------------------------------------------------------------
(* Steps that change nothing, or only what is forgotten.                    *)

LEMMA LocalSpares ==
    ASSUME WorkersInv, UNCHANGED ledgerVars, UNCHANGED storeVars
    PROVE  /\ \A c \in Cids : Spared(c)
           /\ drawers' \subseteq drawers
           /\ \A i \in Intents : revisions'[i] \in {revisions[i], NoRevision}
  BY DEF ledgerVars, storeVars, Spared, Same, Forgotten

LEMMA AttributedSame ==
    ASSUME WorkersInv, Attributed, \A c \in Cids : Spared(c),
           \A i \in Intents : revisions'[i] \in {revisions[i], NoRevision},
           \A i \in Intents : status'[i] = status[i] \/ status'[i] \notin {"unsent", "rejected"}
    PROVE  Attributed'
  <1> SUFFICES ASSUME NEW i \in Intents
               PROVE  /\ revisions'[i].cid # NoCid
                         => revisions'[i].cid = IntentOf[i].cid /\ status'[i] # "unsent"
                      /\ status'[i] = "rejected"
                         => revisions'[i].cid = NoCid \/ Forgotten(IntentOf[i].cid)'
    BY DEF Attributed
  <1>1. PICK c \in Cids : c = IntentOf[i].cid
    BY CommitmentConstants DEF Intent
  <1>2. Forgotten(c) => Forgotten(c)'
    BY DEF Spared
  <1>3. NoRevision.cid = NoCid
    BY DEF NoRevision
  <1>4. Forgotten(c)' => Forgotten(IntentOf[i].cid)'
    BY <1>1
  <1> QED
    BY <1>1, <1>2, <1>3, <1>4 DEF Attributed

\* A worker that applies nothing has little to know.
LEMMA LearnedNothing ==
    ASSUME NEW w \in Workers, work'[w].pc \notin ApplyPcs,
           work'[w].pc = "reject" => work'[w].msg \notin Intents,
           work'[w].failed => work'[w].pc = "settle",
           work'[w].pc \in CidsPcs \ {"begin"} => \A c \in work'[w].cids : Forgotten(c)',
           work'[w].pc = "forget_drawers" => \A d \in work'[w].seen : d.cid \in work'[w].cids
    PROVE  Learned(w)'
  <1>1. "put_drawer" \in ApplyPcs /\ "archive" \in ApplyPcs /\ Applying \subseteq ApplyPcs
    BY DEF ApplyPcs, Applying
  <1> QED
    BY <1>1 DEF Learned, At, Msg

\* A worker moves on and nothing else happens to queues and stores.
LEMMA MoveRenders ==
    ASSUME WorkersInv, WorkersInv', RenderInv, NEW w \in Workers,
           \A c \in Cids : Spared(c), drawers' \subseteq drawers,
           \A i \in Intents : revisions'[i] \in {revisions[i], NoRevision},
           status' = status, applied' = applied, NEW r, work' = [work EXCEPT ![w] = r],
           Learned(w)',
           (r.pc = "ack" \/ r.pc = "settle") /\ r.msg \in Intents => r.failed \/ Settling(r.msg)
    PROVE  RenderInv'
  <1>1. \A v \in Workers : work'[v] = IF v = w THEN r ELSE work[v]
    BY DEF WorkersInv, Working
  <1>2. Attributed'
    BY AttributedSame DEF RenderInv
  <1>3. ASSUME NEW i \in Intents, Settling(i)'
        PROVE  Settling(i)
    BY <1>1, <1>3 DEF Settling, Msg, At
  <1> QED
    BY <1>1, <1>2, <1>3, QuietRenders

LEMMA TakeRenders ==
    ASSUME WorkersInv, WorkersInv', RenderInv, NEW w \in Workers, NEW m \in Msgs, Take(w, m)
    PROVE  RenderInv'
  <1> DEFINE r == [Idle EXCEPT !.pc = "start", !.msg = m]
  <1>1. /\ work' = [work EXCEPT ![w] = r] /\ status' = [status EXCEPT ![m] = "held"]
        /\ UNCHANGED ledgerVars /\ UNCHANGED storeVars /\ applied' = applied
    BY DEF Take
  <1>2. r.pc = "start" /\ ~r.failed
    BY DEF Idle
  <1> HIDE DEF r
  <1>3. \A v \in Workers : work'[v] = IF v = w THEN r ELSE work[v]
    BY <1>1 DEF WorkersInv, Working
  <1>4. \A n \in Msgs : status'[n] = IF n = m THEN "held" ELSE status[n]
    BY <1>1 DEF WorkersInv, QueuesOK
  <1>5. Attributed'
    BY <1>1, <1>4, LocalSpares, AttributedSame DEF RenderInv, Msgs
  <1>6. Learned(w)'
    BY <1>2, <1>3, LearnedNothing DEF ApplyPcs, CidsPcs
  <1>7. ASSUME NEW i \in Intents, Settling(i)'
        PROVE  Settling(i)
    BY <1>1, <1>2, <1>3, <1>4, <1>7 DEF Settling, Msg, At, Msgs
  <1> QED
    BY <1>1, <1>3, <1>5, <1>6, <1>7, LocalSpares, QuietRenders

LEMMA StartRenders ==
    ASSUME WorkersInv, WorkersInv', RenderInv, NEW w \in Workers, Start(w)
    PROVE  RenderInv'
  <1> DEFINE p == CASE OnTurn(Msg(w)) /\ Msg(w) \in redacted -> "settle"
                    [] ~OnTurn(Msg(w)) /\ Msg(w) \in applied -> "ack"
                    [] Msg(w) \in Intents \ applied -> "apply"
                    [] OTHER -> "resolve"
             r == [work[w] EXCEPT !.pc = p]
  <1>1. /\ work' = [work EXCEPT ![w] = r] /\ status' = status /\ applied' = applied
        /\ UNCHANGED ledgerVars /\ UNCHANGED storeVars /\ At(w, "start")
    BY DEF Start, Goto, localOnly, ledgerOnly, queueVars
  <1>2. /\ work[w] \in Work /\ Msg(w) \in Msgs /\ ~work[w].failed
    BY <1>1 DEF WorkersInv, Working, Fits, At, Msg, Work, RenderInv, Learned
  <1>3. \/ p = "settle" /\ Msg(w) \notin Intents
        \/ p = "ack" /\ Msg(w) \in applied
        \/ p = "apply" /\ Msg(w) \notin applied
        \/ p = "resolve"
    BY WorkerConstants DEF OnTurn
  <1> HIDE DEF p
  <1>4. r.pc = p /\ r.msg = Msg(w) /\ ~r.failed
    BY <1>2 DEF Work, Msg
  <1> HIDE DEF r
  <1>5. work'[w] = r
    BY <1>1 DEF WorkersInv, Working
  <1>6. Learned(w)'
    <2>1. CASE p = "apply"
      BY <1>1, <1>3, <1>4, <1>5, <2>1 DEF Learned, At, Msg, Applying, ApplyPcs, CidsPcs
    <2>2. CASE p # "apply"
      BY <1>3, <1>4, <1>5, <2>2, LearnedNothing DEF ApplyPcs, CidsPcs
    <2> QED
      BY <2>1, <2>2
  <1>7. (r.pc = "ack" \/ r.pc = "settle") /\ r.msg \in Intents => Settling(r.msg)
    BY <1>3, <1>4 DEF Settling
  <1> QED
    BY <1>1, <1>6, <1>7, LocalSpares, MoveRenders

LEMMA FailRenders ==
    ASSUME WorkersInv, WorkersInv', RenderInv, NEW w \in Workers, Fail(w)
    PROVE  RenderInv'
  <1> DEFINE r == [work[w] EXCEPT !.pc = "settle", !.failed = TRUE]
  <1>1. /\ work' = [work EXCEPT ![w] = r] /\ status' = status /\ applied' = applied
        /\ UNCHANGED ledgerVars /\ UNCHANGED storeVars
    BY DEF Fail, Raise, queueVars
  <1>2. r.pc = "settle" /\ r.failed
    BY DEF WorkersInv, Working, Work
  <1> HIDE DEF r
  <1>3. work'[w] = r
    BY <1>1 DEF WorkersInv, Working
  <1>4. Learned(w)'
    BY <1>2, <1>3, LearnedNothing DEF ApplyPcs, CidsPcs
  <1> QED
    BY <1>1, <1>2, <1>4, LocalSpares, MoveRenders

LEMMA SettleRenders ==
    ASSUME WorkersInv, WorkersInv', RenderInv, NEW w \in Workers, Settle(w)
    PROVE  RenderInv'
  <1>1. /\ At(w, "settle") /\ UNCHANGED ledgerVars /\ UNCHANGED storeVars
    BY DEF Settle
  <1>2. Msg(w) \in Msgs /\ Msg(w) # NoMsg /\ WorkerOf(Msg(w)) = w /\ work[w] \in Work
    BY <1>1 DEF WorkersInv, Working, Fits, At, Msg, Work
  <1>3. ASSUME NEW v \in Workers, v # w
        PROVE  Msg(v) # Msg(w)
    BY <1>2, <1>3 DEF WorkersInv, Working, Fits, Msg
  <1>4. CASE work[w].failed
    <2> DEFINE s == IF deliveries[Msg(w)] >= MaxDeliveries THEN "dead" ELSE "queued"
    <2>1. /\ work' = [work EXCEPT ![w] = Idle] /\ status' = [status EXCEPT ![Msg(w)] = s]
          /\ applied' = applied
      BY <1>4 DEF Settle
    <2>2. \A v \in Workers : work'[v] = IF v = w THEN Idle ELSE work[v]
      BY <2>1 DEF WorkersInv, Working
    <2>3. \A n \in Msgs : status'[n] = IF n = Msg(w) THEN s ELSE status[n]
      BY <1>2, <2>1 DEF WorkersInv, QueuesOK
    <2>4. s \in {"dead", "queued"} /\ Idle.pc = "idle" /\ ~Idle.failed
      BY DEF Idle
    <2> HIDE DEF s
    <2>5. Attributed'
      BY <1>1, <2>3, <2>4, LocalSpares, AttributedSame DEF RenderInv, Msgs
    <2>6. Learned(w)'
      BY <2>2, <2>4, LearnedNothing DEF ApplyPcs, CidsPcs
    <2>7. ASSUME NEW i \in Intents, Settling(i)'
          PROVE  Settling(i)
      BY <2>1, <2>2, <2>3, <2>4, <2>7 DEF Settling, Msg, At, Msgs
    <2> QED
      BY <1>1, <2>1, <2>2, <2>5, <2>6, <2>7, LocalSpares, QuietRenders
  <1>5. CASE ~work[w].failed
    <2> DEFINE r == [work[w] EXCEPT !.pc = "ack"]
    <2>1. /\ work' = [work EXCEPT ![w] = r] /\ status' = status
          /\ applied' = applied \/ applied' = applied \cup {Msg(w)}
      BY <1>5 DEF Settle, Goto
    <2>2. r.pc = "ack" /\ ~r.failed /\ r.msg = Msg(w)
      BY <1>2, <1>5 DEF Work, Msg
    <2> HIDE DEF r
    <2>3. \A v \in Workers : work'[v] = IF v = w THEN r ELSE work[v]
      BY <2>1 DEF WorkersInv, Working
    <2>4. Attributed'
      BY <1>1, <2>1, LocalSpares, AttributedSame DEF RenderInv
    <2>5. Learned(w)'
      BY <2>2, <2>3, LearnedNothing DEF ApplyPcs, CidsPcs
    <2>6. ASSUME NEW i \in Intents, Settling(i)'
          PROVE  Settling(i)
      BY <1>1, <1>5, <2>1, <2>2, <2>3, <2>6 DEF Settling, Msg, At
    <2>7. \A v \in Workers : v # w => (Msg(v) \in applied' => Msg(v) \in applied)
      BY <1>3, <2>1
    <2> QED
      BY <1>1, <2>3, <2>4, <2>5, <2>6, <2>7, LocalSpares, QuietRenders
  <1> QED
    BY <1>4, <1>5

LEMMA FinishRenders ==
    ASSUME WorkersInv, WorkersInv', RenderInv, NEW w \in Workers, Ack(w) \/ RejectAck(w)
    PROVE  RenderInv'
  <1>1. PICK s \in {"acked", "rejected"} :
            /\ work' = [work EXCEPT ![w] = Idle] /\ status' = [status EXCEPT ![Msg(w)] = s]
            /\ applied' = applied /\ UNCHANGED ledgerVars /\ UNCHANGED storeVars
            /\ ~At(w, "idle")
            /\ s = "acked" => At(w, "ack")
            /\ s = "rejected" => At(w, "reject")
    BY DEF Ack, RejectAck, Finish, At
  <1>2. \A v \in Workers : work'[v] = IF v = w THEN Idle ELSE work[v]
    BY <1>1 DEF WorkersInv, Working
  <1>3. Msg(w) \in Msgs /\ \A n \in Msgs : status'[n] = IF n = Msg(w) THEN s ELSE status[n]
    BY <1>1 DEF WorkersInv, QueuesOK, Working, Fits, At, Msg, Work
  <1>4. Idle.pc = "idle" /\ ~Idle.failed
    BY DEF Idle
  <1>5. Attributed'
    <2> SUFFICES ASSUME NEW i \in Intents
                 PROVE  /\ revisions'[i].cid # NoCid
                           => revisions'[i].cid = IntentOf[i].cid /\ status'[i] # "unsent"
                        /\ status'[i] = "rejected"
                           => revisions'[i].cid = NoCid \/ Forgotten(IntentOf[i].cid)'
      BY DEF Attributed
    <2>1. revisions' = revisions /\ (Forgotten(IntentOf[i].cid)' <=> Forgotten(IntentOf[i].cid))
      BY <1>1 DEF ledgerVars, Forgotten
    <2>2. status'[i] = status[i] \/ (i = Msg(w) /\ status'[i] = s)
      BY <1>3 DEF Msgs
    <2>3. i = Msg(w) /\ s = "rejected" => revisions[i].cid = NoCid \/ Forgotten(IntentOf[i].cid)
      BY <1>1 DEF RenderInv, Learned, Cid
    <2> QED
      BY <2>1, <2>2, <2>3 DEF RenderInv, Attributed
  <1>6. Learned(w)'
    BY <1>2, <1>4, LearnedNothing DEF ApplyPcs, CidsPcs
  <1>7. At(w, "ack") => ~work[w].failed
    BY DEF RenderInv, Learned, At
  <1>8. ASSUME NEW i \in Intents, Settling(i)'
        PROVE  Settling(i)
    <2>1. status'[i] = "acked" => Settling(i)
      BY <1>1, <1>3, <1>7 DEF Settling, Msgs
    <2> QED
      BY <1>1, <1>2, <1>4, <1>8, <2>1 DEF Settling, Msg, At
  <1> QED
    BY <1>1, <1>2, <1>5, <1>6, <1>8, LocalSpares, QuietRenders

LEMMA CrashRenders ==
    ASSUME WorkersInv, WorkersInv', RenderInv, Crash
    PROVE  RenderInv'
  <1>1. /\ work' = [w \in Workers |-> Idle]
        /\ status' = [m \in Msgs |-> IF status[m] = "held" THEN "queued" ELSE status[m]]
        /\ UNCHANGED ledgerVars /\ UNCHANGED storeVars /\ applied' = applied
    BY DEF Crash
  <1>2. Idle.pc = "idle" /\ ~Idle.failed
    BY DEF Idle
  <1>3. Attributed'
    BY <1>1, LocalSpares, AttributedSame DEF RenderInv, Msgs
  <1>4. \A w \in Workers : Learned(w)'
    BY <1>1, <1>2, LearnedNothing DEF ApplyPcs, CidsPcs
  <1>5. ASSUME NEW i \in Intents, Settling(i)'
        PROVE  Settling(i)
    BY <1>1, <1>2, <1>5 DEF Settling, Msg, At, Msgs
  <1> QED
    BY <1>1, <1>3, <1>4, <1>5, LocalSpares, QuietRenders

LEMMA PublishRenders ==
    ASSUME WorkersInv, WorkersInv', RenderInv, NEW m \in Msgs, Publish(m)
    PROVE  RenderInv'
  <1>1. /\ status' = [status EXCEPT ![m] = "queued"] /\ work' = work
        /\ UNCHANGED ledgerVars /\ UNCHANGED storeVars /\ applied' = applied
    BY DEF Publish
  <1>2. \A n \in Msgs : status'[n] = IF n = m THEN "queued" ELSE status[n]
    BY <1>1 DEF WorkersInv, QueuesOK
  <1>3. Attributed'
    BY <1>1, <1>2, LocalSpares, AttributedSame DEF RenderInv, Msgs
  <1>4. ASSUME NEW i \in Intents, Settling(i)'
        PROVE  Settling(i)
    BY <1>1, <1>2, <1>4 DEF Settling, Msg, At, Msgs
  <1> QED
    BY <1>1, <1>3, <1>4, LocalSpares, QuietRenders

----------------------------------------------------------------------------
(* Forgetting spares what is not forgotten.                                 *)

\* A worker that forgets goes on, has forgotten what it resolved, and settles
\* no intent.
LEMMA ForgetRenders ==
    ASSUME WorkersInv, WorkersInv', RenderInv, NEW w \in Workers, Msg(w) \in Forgets,
           \A c \in Cids : Spared(c), drawers' \subseteq drawers,
           \A i \in Intents : revisions'[i] \in {revisions[i], NoRevision},
           status' = status, applied' = applied, NEW r, work' = [work EXCEPT ![w] = r],
           r.msg = Msg(w), r.pc \notin ApplyPcs, r.failed => r.pc = "settle",
           r.pc \in CidsPcs \ {"begin"} => \A c \in r.cids : Forgotten(c)',
           r.pc = "forget_drawers" => \A d \in r.seen : d.cid \in r.cids
    PROVE  RenderInv'
  <1>1. work'[w] = r /\ r.msg \notin Intents
    BY WorkerConstants DEF WorkersInv, Working
  <1>2. Learned(w)'
    BY <1>1, LearnedNothing
  <1> QED
    BY <1>1, <1>2, MoveRenders

\* Its commitments are forgotten once it has begun, and stay it.
LEMMA ForgetGotoRenders ==
    ASSUME WorkersInv, WorkersInv', RenderInv, NEW w \in Workers, Msg(w) \in Forgets,
           ~work[w].failed, \A c \in Cids : Spared(c), drawers' \subseteq drawers,
           \A i \in Intents : revisions'[i] \in {revisions[i], NoRevision},
           status' = status, applied' = applied,
           NEW p, p \notin ApplyPcs, p # "forget_drawers",
           p \in CidsPcs \ {"begin"} => work[w].pc \in CidsPcs \ {"begin"},
           \/ Goto(w, p)
           \/ p = "settle" /\ Raise(w)
    PROVE  RenderInv'
  <1>1. work[w] \in Work
    BY DEF WorkersInv, Working
  <1>2. \A c \in Cids : Forgotten(c) => Forgotten(c)'
    BY DEF Spared
  <1>3. CASE Goto(w, p)
    <2> DEFINE r == [work[w] EXCEPT !.pc = p]
    <2>1. work' = [work EXCEPT ![w] = r]
      BY <1>3 DEF Goto
    <2>2. r.pc = p /\ r.msg = Msg(w) /\ ~r.failed /\ r.cids = work[w].cids /\ r.cids \subseteq Cids
      BY <1>1 DEF Work, Msg
    <2>3. r.pc \in CidsPcs \ {"begin"} => \A c \in r.cids : Forgotten(c)'
      BY <1>2, <2>2 DEF RenderInv, Learned
    <2> HIDE DEF r
    <2> QED
      BY <2>1, <2>2, <2>3, ForgetRenders
  <1>4. CASE p = "settle" /\ Raise(w)
    <2> DEFINE r == [work[w] EXCEPT !.pc = "settle", !.failed = TRUE]
    <2>1. work' = [work EXCEPT ![w] = r]
      BY <1>4 DEF Raise
    <2>2. r.pc = "settle" /\ r.msg = Msg(w)
      BY <1>1 DEF Work, Msg
    <2> HIDE DEF r
    <2> QED
      BY <2>1, <2>2, ForgetRenders DEF ApplyPcs, CidsPcs
  <1> QED
    BY <1>3, <1>4

\* Before the tombstones there is nothing to know.
LEMMA ForgetLooksRenders ==
    ASSUME WorkersInv, WorkersInv', RenderInv, NEW w \in Workers,
           ForgetResolve(w) \/ ForgetStatements(w)
    PROVE  RenderInv'
  <1>1. /\ work[w].pc \in {"resolve", "statements"} /\ UNCHANGED ledgerVars /\ UNCHANGED storeVars
        /\ status' = status /\ applied' = applied
    BY DEF ForgetResolve, ForgetStatements, At, localOnly, ledgerOnly, queueVars
  <1>2. Msg(w) \in Forgets /\ work[w] \in Work /\ ~work[w].failed
    BY <1>1 DEF WorkersInv, Working, Fits, Msg, ForgetPcs, RenderInv, Learned, At
  <1>3. CASE ForgetResolve(w)
    <2> DEFINE p == CASE OnTurn(Msg(w)) -> "statements"
                      [] ~OnTurn(Msg(w)) /\ Resolved(w) = {} -> "redact_event"
                      [] OTHER -> "begin"
               r == [work[w] EXCEPT !.cids = Resolved(w), !.pc = p]
    <2>1. work' = [work EXCEPT ![w] = r]
      BY <1>3 DEF ForgetResolve
    <2>2. p \in {"statements", "redact_event", "begin"}
      OBVIOUS
    <2> HIDE DEF p
    <2>3. r.pc = p /\ r.msg = Msg(w) /\ ~r.failed
      BY <1>2 DEF Work, Msg
    <2> HIDE DEF r
    <2> QED
      BY <1>1, <1>2, <2>1, <2>2, <2>3, LocalSpares, ForgetRenders DEF ApplyPcs, CidsPcs
  <1>4. CASE ForgetStatements(w)
    <2>1. \/ Raise(w) \/ Goto(w, "redact_event")
          \/ \E named \in BOOLEAN :
                 work' = [work EXCEPT ![w] = [@ EXCEPT !.named = named, !.pc = "begin"]]
      BY <1>4 DEF ForgetStatements
    <2>2. CASE Raise(w) \/ Goto(w, "redact_event")
      BY <1>1, <1>2, <2>2, LocalSpares, ForgetGotoRenders DEF ApplyPcs, CidsPcs
    <2>3. ASSUME NEW named \in BOOLEAN,
                 work' = [work EXCEPT ![w] = [@ EXCEPT !.named = named, !.pc = "begin"]]
          PROVE  RenderInv'
      <3> DEFINE r == [work[w] EXCEPT !.named = named, !.pc = "begin"]
      <3>1. work' = [work EXCEPT ![w] = r]
        BY <2>3
      <3>2. r.pc = "begin" /\ r.msg = Msg(w) /\ ~r.failed
        BY <1>2 DEF Work, Msg
      <3> HIDE DEF r
      <3> QED
        BY <1>1, <1>2, <3>1, <3>2, LocalSpares, ForgetRenders DEF ApplyPcs, CidsPcs
    <2> QED
      BY <2>1, <2>2, <2>3
  <1> QED
    BY <1>3, <1>4

\* begin_forget writes the tombstones.
LEMMA ForgetBeginRenders ==
    ASSUME WorkersInv, WorkersInv', RenderInv, NEW w \in Workers, ForgetBegin(w)
    PROVE  RenderInv'
  <1>1. /\ At(w, "begin") /\ work[w].pc \in CidsPcs /\ UNCHANGED storeVars
        /\ status' = status /\ applied' = applied
    BY DEF ForgetBegin, ledgerOnly, queueVars, At, CidsPcs
  <1>2. /\ Msg(w) \in Forgets /\ work[w].cids \in (SUBSET Cids) \ {{}} /\ ~work[w].failed
        /\ work[w] \in Work
    BY <1>1, Forgetting DEF RenderInv, Learned, At, WorkersInv, Working
  <1>3. CASE BeginForgetRaises(work[w].cids)
    <2>1. Raise(w) /\ UNCHANGED ledgerVars
      BY <1>3 DEF ForgetBegin
    <2> QED
      BY <1>1, <1>2, <2>1, LocalSpares, ForgetGotoRenders DEF ApplyPcs, CidsPcs
  <1>4. CASE ~BeginForgetRaises(work[w].cids)
    <2> DEFINE C == work[w].cids
    <2>1. BeginForget(C, Hard(w))
      BY <1>4 DEF ForgetBegin
    <2>2. /\ commitments' = commitments /\ revisions' = revisions
          /\ \A c \in Cids : IF c \in C THEN Forgotten(c)' ELSE tombstones'[c] = tombstones[c]
      BY <2>1 DEF BeginForget, TombstoneOf, Forgotten
    <2>3. \A c \in Cids : Spared(c)
      BY <1>1, <2>2 DEF Spared, Same, Forgotten, storeVars
    <2>4. PICK c \in C :
              LET sources == IF tombstones'[c].action = "delete" THEN RevisionsOf(c) ELSE {}
              IN work' = [work EXCEPT ![w] = [@ EXCEPT
                     !.count = tombstones'[c].revision_count, !.sources = sources,
                     !.pc = IF sources = {} THEN "forget_kg" ELSE "redact"]]
      BY <1>4 DEF ForgetBegin
    <2> DEFINE S == IF tombstones'[c].action = "delete" THEN RevisionsOf(c) ELSE {}
               n == tombstones'[c].revision_count
               p == IF S = {} THEN "forget_kg" ELSE "redact"
               r == [work[w] EXCEPT !.count = n, !.sources = S, !.pc = p]
    <2>5. work' = [work EXCEPT ![w] = r] /\ p \in {"forget_kg", "redact"}
      BY <2>4
    <2> HIDE DEF n, S, p
    <2>6. r.pc = p /\ r.msg = Msg(w) /\ ~r.failed /\ r.cids = C
      BY <1>2 DEF Work, Msg
    <2>7. \A e \in C : Forgotten(e)'
      BY <1>2, <2>2
    <2> HIDE DEF r, C
    <2>8. r.pc \notin ApplyPcs /\ r.pc # "forget_drawers" /\ r.pc # "settle"
      BY <2>5, <2>6 DEF ApplyPcs
    <2>9. drawers' \subseteq drawers /\ \A i \in Intents : revisions'[i] \in {revisions[i], NoRevision}
      BY <1>1, <2>2 DEF storeVars
    <2>10. \A e \in r.cids : Forgotten(e)'
      BY <2>6, <2>7
    <2> QED
      BY <1>1, <1>2, <2>3, <2>5, <2>6, <2>8, <2>9, <2>10, ForgetRenders
  <1> QED
    BY <1>3, <1>4

\* Where a worker is past its tombstones.
LEMMA Begun ==
    ASSUME WorkersInv, RenderInv, NEW w \in Workers, work[w].pc \in CidsPcs \ {"begin"}
    PROVE  /\ Msg(w) \in Forgets /\ work[w].cids \in (SUBSET Cids) \ {{}}
           /\ \A c \in work[w].cids : Forgotten(c)
           /\ ~work[w].failed /\ work[w] \in Work
  <1>1. work[w].pc # "settle"
    BY DEF CidsPcs
  <1> QED
    BY <1>1, Forgetting DEF RenderInv, Learned, At, WorkersInv, Working

\* The stores lose what belongs to the forgotten.
LEMMA ForgetStoresRenders ==
    ASSUME WorkersInv, WorkersInv', RenderInv, NEW w \in Workers, ForgetKg(w) \/ ForgetDrawers(w)
    PROVE  RenderInv'
  <1>1. /\ work[w].pc \in {"forget_kg", "forget_drawers"} /\ UNCHANGED ledgerVars
        /\ status' = status /\ applied' = applied
        /\ Goto(w, "forget_kg_mark") \/ Goto(w, "forget_drawer_mark")
    BY DEF ForgetKg, ForgetDrawers, storeOnly, queueVars, At
  <1>2. work[w].pc \in CidsPcs \ {"begin"}
    BY <1>1 DEF CidsPcs
  <1>3. /\ Msg(w) \in Forgets /\ work[w].cids \in (SUBSET Cids) \ {{}} /\ ~work[w].failed
        /\ \A c \in work[w].cids : Forgotten(c)
    BY <1>2, Begun
  <1>4. drawers' \subseteq drawers
    BY DEF ForgetKg, ForgetDrawers, ArchiveDrawers, DeleteDrawers
  <1>5. ASSUME NEW c \in Cids, ~Forgotten(c)
        PROVE  Same(c)
    <2>1. c \notin work[w].cids
      BY <1>3, <1>5
    <2>2. CASE ForgetKg(w)
      BY <1>1, <2>1, <2>2 DEF ForgetKg, Same, ledgerVars
    <2>3. CASE ForgetDrawers(w)
      <3>1. \A d \in work[w].seen : d.cid # c
        BY <2>1, <2>3 DEF RenderInv, Learned, ForgetDrawers
      <3> QED
        BY <1>1, <2>3, <3>1 DEF ForgetDrawers, ArchiveDrawers, DeleteDrawers, Same, ledgerVars
    <2> QED
      BY <2>2, <2>3
  <1>6. \A c \in Cids : Spared(c)
    BY <1>1, <1>5 DEF Spared, Forgotten, ledgerVars
  <1>7. \A i \in Intents : revisions'[i] \in {revisions[i], NoRevision}
    BY <1>1 DEF ledgerVars
  <1> QED
    BY <1>1, <1>2, <1>3, <1>4, <1>6, <1>7, ForgetGotoRenders DEF ApplyPcs, CidsPcs

\* The tombstones are marked, and a finished delete removes its record.
LEMMA ForgetMarksRenders ==
    ASSUME WorkersInv, WorkersInv', RenderInv, NEW w \in Workers,
           ForgetKgMark(w) \/ ForgetDrawerMark(w) \/ ForgetFinalize(w)
    PROVE  RenderInv'
  <1>1. /\ work[w].pc \in {"forget_kg_mark", "forget_drawer_mark", "finalize"} /\ UNCHANGED storeVars
        /\ status' = status /\ applied' = applied
        /\ Goto(w, "scan") \/ Goto(w, "finalize") \/ Goto(w, "checkpoint")
    BY DEF ForgetKgMark, ForgetDrawerMark, ForgetFinalize, ledgerOnly, queueVars, At
  <1>2. work[w].pc \in CidsPcs \ {"begin"}
    BY <1>1 DEF CidsPcs
  <1>3. /\ Msg(w) \in Forgets /\ work[w].cids \in (SUBSET Cids) \ {{}} /\ ~work[w].failed
        /\ \A c \in work[w].cids : Forgotten(c)
    BY <1>2, Begun
  <1>4. ASSUME NEW T, MarkForgetProjected(work[w].cids, T)
        PROVE  /\ \A c \in Cids : Spared(c)
               /\ \A i \in Intents : revisions'[i] \in {revisions[i], NoRevision}
    <2>1. \A c \in Cids : tombstones'[c].action = tombstones[c].action
      BY <1>4 DEF MarkForgetProjected, WorkersInv, CommitmentInv, LedgerTypeOK, Tombstone
    <2>2. commitments' = commitments /\ revisions' = revisions
      BY <1>4 DEF MarkForgetProjected
    <2> QED
      BY <1>1, <2>1, <2>2 DEF Spared, Same, Forgotten, storeVars
  <1>5. ASSUME FinalizeForget(work[w].cids)
        PROVE  /\ \A c \in Cids : Spared(c)
               /\ \A i \in Intents : revisions'[i] \in {revisions[i], NoRevision}
    <2> DEFINE C == work[w].cids
    <2>1. /\ \A c \in Cids : commitments'[c] = IF c \in C /\ Finished(c) THEN NoRecord
                                               ELSE commitments[c]
          /\ \A i \in Intents :
                 revisions'[i] = IF revisions[i].cid \in C /\ Finished(revisions[i].cid)
                                 THEN NoRevision ELSE revisions[i]
          /\ tombstones' = tombstones
      BY <1>3, <1>5, FinalizeEffect DEF WorkersInv, CommitmentInv
    <2>2. ASSUME NEW c \in Cids, ~Forgotten(c)
          PROVE  Same(c)
      <3>1. c \notin C
        BY <1>3, <2>2
      <3>2. ASSUME NEW i \in Intents, IntentOf[i].cid = c
            PROVE  revisions'[i] = revisions[i]
        <4>1. revisions[i].cid \notin C
          BY <1>3, <3>1, <3>2, CommitmentConstants DEF RenderInv, Attributed
        <4> QED
          BY <2>1, <4>1
      <3> QED
        BY <1>1, <2>1, <3>1, <3>2 DEF Same, storeVars
    <2>3. \A c \in Cids : Spared(c)
      BY <2>1, <2>2 DEF Spared, Forgotten
    <2> QED
      BY <2>1, <2>3
  <1>6. /\ \A c \in Cids : Spared(c)
        /\ \A i \in Intents : revisions'[i] \in {revisions[i], NoRevision}
    BY <1>4, <1>5 DEF ForgetKgMark, ForgetDrawerMark, ForgetFinalize
  <1>7. drawers' \subseteq drawers
    BY <1>1 DEF storeVars
  <1> QED
    BY <1>1, <1>2, <1>3, <1>6, <1>7, ForgetGotoRenders DEF ApplyPcs, CidsPcs

\* The steps of a forget that touch neither the ledger nor the stores.
LEMMA ForgetLocalRenders ==
    ASSUME WorkersInv, WorkersInv', RenderInv, NEW w \in Workers,
           ForgetRedact(w) \/ Checkpoint(w) \/ RedactEvent(w)
    PROVE  RenderInv'
  <1>1. /\ work[w].pc \in {"redact", "checkpoint", "redact_event"}
        /\ UNCHANGED ledgerVars /\ UNCHANGED storeVars /\ status' = status /\ applied' = applied
        /\ \/ Goto(w, "forget_kg") /\ work[w].pc = "redact"
           \/ Goto(w, "settle") \/ Raise(w) \/ Goto(w, "redact_event")
    BY DEF ForgetRedact, Checkpoint, RedactEvent, localOnly, ledgerOnly, queueVars, At
  <1>2. Msg(w) \in Forgets /\ ~work[w].failed
    BY <1>1 DEF WorkersInv, Working, Fits, Msg, ForgetPcs, CidsPcs, RenderInv, Learned, At
  <1> QED
    BY <1>1, <1>2, LocalSpares, ForgetGotoRenders DEF ApplyPcs, CidsPcs

LEMMA ForgetScanRenders ==
    ASSUME WorkersInv, WorkersInv', RenderInv, NEW w \in Workers, ForgetScan(w)
    PROVE  RenderInv'
  <1>1. /\ work[w].pc = "scan" /\ UNCHANGED ledgerVars /\ UNCHANGED storeVars
        /\ status' = status /\ applied' = applied
    BY DEF ForgetScan, localOnly, ledgerOnly, queueVars, At
  <1>2. work[w].pc \in CidsPcs \ {"begin"}
    BY <1>1 DEF CidsPcs
  <1>3. /\ Msg(w) \in Forgets /\ work[w].cids \in (SUBSET Cids) \ {{}} /\ ~work[w].failed
        /\ \A c \in work[w].cids : Forgotten(c)
        /\ work[w] \in Work
    BY <1>2, Begun
  <1>4. PICK D \in SUBSET Findable(w) :
            work' = [work EXCEPT ![w] = [@ EXCEPT !.seen = D, !.pc = "forget_drawers"]]
    BY DEF ForgetScan
  <1> DEFINE r == [work[w] EXCEPT !.seen = D, !.pc = "forget_drawers"]
  <1>5. work' = [work EXCEPT ![w] = r]
    BY <1>4
  <1>6. r.pc = "forget_drawers" /\ r.msg = Msg(w) /\ ~r.failed /\ r.cids = work[w].cids /\ r.seen = D
    BY <1>3 DEF Work, Msg
  <1>7. \A c \in work[w].cids : Forgotten(c)'
    BY <1>1, <1>3 DEF Forgotten, ledgerVars
  <1>8. \A d \in D : d.cid \in work[w].cids
    BY DEF Findable
  <1> HIDE DEF r
  <1> QED
    BY <1>1, <1>3, <1>5, <1>6, <1>7, <1>8, LocalSpares, ForgetRenders DEF ApplyPcs

LEMMA ForgetStepsRender ==
    ASSUME WorkersInv, WorkersInv', RenderInv, NEW w \in Workers, ForgetSteps(w)
    PROVE  RenderInv'
  BY ForgetLooksRenders, ForgetBeginRenders, ForgetStoresRenders, ForgetMarksRenders,
     ForgetLocalRenders, ForgetScanRenders DEF ForgetSteps

----------------------------------------------------------------------------
(* Applying an intent writes what the worker of the intent then knows.      *)

\* A worker of an intent that goes on with it.
LEMMA LearnedApplying ==
    ASSUME NEW w \in Workers, NEW c \in Cids, NEW r, work'[w] = r, r.pc \in Applying,
           r.msg \in Intents, IntentOf[r.msg].cid = c, ~r.failed, r.msg \notin applied',
           r.pc = "put_drawer" => RevisionDrawers(c, r.row.revision)' = {},
           r.pc = "archive" => \A d \in r.seen : d.cid = c,
           ~Forgotten(c)' => Progress(w, c)'
    PROVE  Learned(w)'
  <1>1. Cid(w)' = c /\ Msg(w)' = r.msg /\ Row(w)' = r.row /\ \A p : At(w, p)' <=> r.pc = p
    BY DEF Cid, Msg, Row, At
  <1>2. r.pc \notin CidsPcs /\ r.pc # "reject" /\ r.pc # "settle" /\ r.pc # "forget_drawers"
    BY DEF Applying, ApplyPcs, CidsPcs
  <1>3. Forgotten(Cid(w))' <=> Forgotten(c)'
    BY <1>1 DEF Forgotten
  <1>4. Progress(w, Cid(w))' <=> Progress(w, c)'
    BY <1>1
  <1>5. RevisionDrawers(Cid(w), Row(w).revision)' = RevisionDrawers(c, r.row.revision)'
    BY <1>1 DEF RevisionDrawers
  <1>6. work'[w].pc = r.pc /\ work'[w].failed = r.failed
    OBVIOUS
  <1>7. (At(w, "put_drawer") => RevisionDrawers(Cid(w), Row(w).revision) = {})'
    BY <1>1, <1>5
  <1>8. (work[w].pc \in Applying /\ ~Forgotten(Cid(w)) => Progress(w, Cid(w)))'
    BY <1>3, <1>4, <1>6
  <1>9. (At(w, "reject") /\ Msg(w) \in Intents => revisions[Msg(w)].cid = NoCid \/ Forgotten(Cid(w)))'
    BY <1>1, <1>2
  <1>10. (work[w].failed => At(w, "settle"))' /\ (work[w].pc \in ApplyPcs => Msg(w) \notin applied)'
    BY <1>1, <1>6
  <1>11. (work[w].pc \in CidsPcs \ {"begin"} => \A e \in work[w].cids : Forgotten(e))'
    BY <1>2, <1>6
  <1>12. (At(w, "forget_drawers") => \A d \in work[w].seen : d.cid \in work[w].cids)'
    BY <1>1, <1>2
  <1>13. (At(w, "archive") => \A d \in work[w].seen : d.cid = Cid(w))'
    BY <1>1
  <1> QED
    BY <1>7, <1>8, <1>9, <1>10, <1>11, <1>12, <1>13 DEF Learned

\* A step of the worker of an intent concerns only the commitment of the intent.
LEMMA ApplyRenders ==
    ASSUME WorkersInv, WorkersInv', RenderInv, NEW w \in Workers, NEW c \in Cids, c = Cid(w),
           work[w].pc \in ApplyPcs, NEW r, work' = [work EXCEPT ![w] = r], r.msg = Msg(w),
           status' = status, applied' = applied, tombstones' = tombstones,
           \A e \in Cids \ {c} : Same(e),
           ~Forgotten(c) => Shelved(c)',
           OneDrawer', Attributed', Learned(w)',
           \A i \in Intents \ {Msg(w)} :
               IntentOf[i].cid = c /\ ~Forgotten(c) /\ Delivered(i, c) => Delivered(i, c)',
           r.pc = "settle" /\ ~r.failed => Delivered(Msg(w), c)', r.pc # "ack"
    PROVE  RenderInv'
  <1>1. /\ Msg(w) \in Intents /\ c = IntentOf[Msg(w)].cid /\ status[Msg(w)] = "held"
        /\ \A v \in Workers : v # w => Msg(v) \notin Intents
    BY ApplyingFacts
  <1>2. Msg(w) \notin applied
    BY DEF RenderInv, Learned
  <1>3. \A v \in Workers : work'[v] = IF v = w THEN r ELSE work[v]
    BY DEF WorkersInv, Working
  <1>4. \A e : Forgotten(e)' <=> Forgotten(e)
    BY DEF Forgotten
  <1>5. ASSUME NEW v \in Workers, v # w
        PROVE  Learned(v)'
    <2>1. work[v].msg \notin Intents /\ work'[v] = work[v]
      BY <1>1, <1>3, <1>5 DEF Msg
    <2>2. work[v].pc \notin ApplyPcs
      BY <2>1 DEF WorkersInv, Working, Fits
    <2> QED
      BY <1>4, <2>1, <2>2, LearnedNothing DEF RenderInv, Learned, At
  <1>6. ASSUME NEW e \in Cids, ~Forgotten(e)'
        PROVE  Shelved(e)'
    <2>1. CASE e = c
      BY <1>4, <1>6, <2>1
    <2>2. CASE e # c
      <3>1. Shelved(e)
        BY <1>4, <1>6 DEF RenderInv
      <3> QED
        BY <3>1, <2>2, ShelvedSame
    <2> QED
      BY <2>1, <2>2
  <1>7. ASSUME NEW i \in Intents, Settling(i)'
        PROVE  Delivered(i, IntentOf[i].cid)'
    <2>1. PICK e \in Cids : e = IntentOf[i].cid
      BY CommitmentConstants DEF Intent
    <2>2. CASE i = Msg(w)
      <3>1. r.pc = "settle" /\ ~r.failed
        BY <1>1, <1>2, <1>3, <1>7, <2>2 DEF Settling, Msg, At
      <3>2. Delivered(i, e)'
        BY <3>1, <2>1, <2>2, <1>1, <1>3 DEF Delivered, Msg
      <3> QED
        BY <3>2, <2>1
    <2>3. CASE i # Msg(w)
      <3>1. Settling(i)
        BY <1>3, <1>7, <2>3 DEF Settling, Msg, At
      <3>2. Delivered(i, e)
        BY <3>1, <2>1 DEF RenderInv
      <3>3. CASE e = c
        <4>1. Delivered(i, e)'
          <5>1. ASSUME Forgotten(e)'
                PROVE  Delivered(i, e)'
            BY <5>1 DEF Delivered
          <5> QED
            BY <5>1, <1>4, <2>1, <2>3, <3>2, <3>3
        <4> QED
          BY <4>1, <2>1
      <3>4. CASE e # c
        <4>1. Same(e)
          BY <3>4
        <4>2. Rendered(e) => Rendered(e)'
          BY <4>1, RenderedSame DEF Rendered
        <4>3. revisions'[i] = revisions[i] /\ commitments'[e] = commitments[e]
          BY <4>1, <2>1 DEF Same
        <4>4. Delivered(i, e)'
          BY <3>2, <4>2, <4>3, <1>4 DEF Delivered
        <4> QED
          BY <4>4, <2>1
      <3> QED
        BY <3>3, <3>4
    <2> QED
      BY <2>2, <2>3
  <1> QED
    BY <1>5, <1>6, <1>7 DEF RenderInv

\* What the worker of an intent knows, unless its commitment is forgotten.
LEMMA Knows ==
    ASSUME WorkersInv, RenderInv, NEW w \in Workers, work[w].pc \in Applying
    PROVE  /\ Msg(w) \in Intents /\ Cid(w) \in Cids /\ IntentOf[Msg(w)].cid = Cid(w)
           /\ Row(w) \in Record /\ status[Msg(w)] = "held"
           /\ Msg(w) \notin applied /\ ~work[w].failed
           /\ work[w] \in Work
           /\ ~Forgotten(Cid(w)) => Progress(w, Cid(w)) /\ Shelved(Cid(w)) /\ (RowActive(w) <=> Active(Cid(w)))
  <1>1. work[w].pc \in ApplyPcs /\ work[w].pc # "settle"
    BY DEF Applying, ApplyPcs
  <1>2. Msg(w) \in Intents /\ Cid(w) \in Cids /\ IntentOf[Msg(w)].cid = Cid(w)
        /\ Row(w) \in Record /\ status[Msg(w)] = "held"
    BY <1>1, ApplyingFacts
  <1>3. Msg(w) \notin applied /\ ~work[w].failed /\ work[w] \in Work
    BY <1>1 DEF RenderInv, Learned, At, WorkersInv, Working
  <1>4. ASSUME ~Forgotten(Cid(w))
        PROVE  Progress(w, Cid(w)) /\ Shelved(Cid(w)) /\ (RowActive(w) <=> Active(Cid(w)))
    <2>1. Progress(w, Cid(w))
      BY <1>4 DEF RenderInv, Learned
    <2>2. Shelved(Cid(w))
      BY <1>2, <1>4 DEF RenderInv
    <2> QED
      BY <2>1, <2>2 DEF Progress, RowActive, Active
  <1> QED
    BY <1>2, <1>3, <1>4

\* A step of it that only looks.
LEMMA LookRenders ==
    ASSUME WorkersInv, WorkersInv', RenderInv, NEW w \in Workers, work[w].pc \in Applying,
           UNCHANGED ledgerVars, UNCHANGED storeVars, status' = status, applied' = applied,
           NEW r, work' = [work EXCEPT ![w] = r],
           r.msg = Msg(w), ~r.failed, r.pc \in Applying,
           r.pc = "put_drawer" => RevisionDrawers(Cid(w), r.row.revision) = {},
           r.pc = "archive" => \A d \in r.seen : d.cid = Cid(w),
           ~Forgotten(Cid(w)) => Progress(w, Cid(w))'
    PROVE  RenderInv'
  <1>1. PICK c \in Cids : c = Cid(w)
    BY Knows
  <1>2. /\ Msg(w) \in Intents /\ IntentOf[Msg(w)].cid = c /\ Msg(w) \notin applied
    BY <1>1, Knows
  <1>3. work'[w] = r /\ Cid(w)' = c
    BY <1>1 DEF WorkersInv, Working, Cid, Msg
  <1>4. Forgotten(c)' <=> Forgotten(c)
    BY DEF Forgotten, ledgerVars
  <1>5. Progress(w, Cid(w))' <=> Progress(w, c)'
    BY <1>3
  <1>6. RevisionDrawers(c, r.row.revision)' = RevisionDrawers(Cid(w), r.row.revision)
    BY <1>1 DEF RevisionDrawers, storeVars
  <1>7. Learned(w)'
    BY <1>1, <1>2, <1>3, <1>4, <1>5, <1>6, LearnedApplying
  <1>8. r.pc # "ack" /\ r.pc # "settle"
    BY DEF Applying, ApplyPcs
  <1> QED
    BY <1>7, <1>8, LocalSpares, MoveRenders

LEMMA FindPreviousRenders ==
    ASSUME WorkersInv, WorkersInv', RenderInv, NEW w \in Workers, FindPrevious(w)
    PROVE  RenderInv'
  <1>1. /\ At(w, "previous") /\ UNCHANGED ledgerVars /\ UNCHANGED storeVars
        /\ status' = status /\ applied' = applied /\ work[w].pc \in Applying
    BY DEF FindPrevious, localOnly, ledgerOnly, queueVars, At, Applying, ApplyPcs
  <1>0. PICK c \in Cids : c = Cid(w)
    BY <1>1, Knows
  <1> DEFINE found == RevisionDrawers(c, Row(w).revision - 1)
  <1>2. /\ ~work[w].failed /\ work[w] \in Work /\ Row(w) \in Record
        /\ ~Forgotten(c) => Progress(w, c) /\ (RowActive(w) <=> Active(c))
    BY <1>0, <1>1, Knows
  <1>3. Row(w).revision \in Nat /\ drawers \subseteq Drawer
    BY <1>2 DEF Record, WorkersInv, StoresOK
  <1>4. \A d \in drawers : (d \in found) <=> (d.cid = c /\ d.revision + 1 = Row(w).revision)
    BY <1>3 DEF RevisionDrawers, Drawer
  <1>5. \A d, e \in found : d = e
    BY DEF RenderInv, OneDrawer, RevisionDrawers
  <1>6. PICK S : \E p :
            /\ work' = [work EXCEPT ![w] = [@ EXCEPT !.seen = S, !.pc = p]]
            /\ \/ p = AfterPrevious(w) /\ found \subseteq archived
               \/ p = "archive" /\ \E d \in found : S = {d}
    <2>1. CASE found = {} /\ Goto(w, AfterPrevious(w))
      <3>1. work' = [work EXCEPT ![w] = [@ EXCEPT !.seen = work[w].seen, !.pc = AfterPrevious(w)]]
        BY <2>1, <1>2 DEF Goto, WorkersInv, Working, Work
      <3> QED
        BY <2>1, <3>1
    <2>2. ASSUME NEW d \in found,
                 work' = [work EXCEPT ![w] = [@ EXCEPT !.seen = {d},
                     !.pc = IF d \in archived THEN AfterPrevious(w) ELSE "archive"]]
          PROVE  \E S, p : /\ work' = [work EXCEPT ![w] = [@ EXCEPT !.seen = S, !.pc = p]]
                           /\ \/ p = AfterPrevious(w) /\ found \subseteq archived
                              \/ p = "archive" /\ \E e \in found : S = {e}
      <3>1. CASE d \in archived
        BY <2>2, <3>1, <1>5
      <3>2. CASE d \notin archived
        BY <2>2, <3>2
      <3> QED
        BY <3>1, <3>2
    <2> QED
      BY <1>0, <2>1, <2>2 DEF FindPrevious
  <1>7. PICK p :
            /\ work' = [work EXCEPT ![w] = [@ EXCEPT !.seen = S, !.pc = p]]
            /\ \/ p = AfterPrevious(w) /\ found \subseteq archived
               \/ p = "archive" /\ \E d \in found : S = {d}
    BY <1>6
  <1> DEFINE r == [work[w] EXCEPT !.seen = S, !.pc = p]
  <1>8. work' = [work EXCEPT ![w] = r]
    BY <1>7
  <1>9. r.pc = p /\ r.seen = S /\ r.msg = Msg(w) /\ r.row = Row(w) /\ ~r.failed
    BY <1>2 DEF Work, Msg, Row
  <1>10. p \in {"current", "look_kg", "archive"} /\ (p = "current" => RowActive(w))
         /\ (p = "look_kg" => ~RowActive(w))
    BY <1>7 DEF AfterPrevious
  <1> HIDE DEF r, found
  <1>11. work'[w] = r
    BY <1>8 DEF WorkersInv, Working
  <1>13. ASSUME ~Forgotten(c)
         PROVE  Progress(w, c)'
    <2>1. Progress(w, c) /\ (RowActive(w) <=> Active(c))
      BY <1>2, <1>13
    <2>2. /\ (Superseded(c)' <=> Superseded(c))
          /\ (Drawn(c)' <=> Drawn(c)) /\ (Active(c)' <=> Active(c)) /\ (Exists(c)' <=> Exists(c))
          /\ drawers' = drawers /\ commitments' = commitments /\ revisions' = revisions
      BY <1>1 DEF Superseded, Drawn, Active, Exists, RevisionDrawers, ledgerVars, storeVars
    <2>3. Msg(w)' = Msg(w) /\ Row(w)' = Row(w) /\ (\A q : At(w, q)' <=> (p = q))
      BY <1>9, <1>11 DEF Msg, Row, At
    <2>4. p # "archive" => Superseded(c)
      BY <1>4, <1>7, <2>1 DEF Superseded, Progress
    <2>5. p = "archive" => /\ \A d \in S : d.cid = c /\ d.revision + 1 = Row(w).revision
                           /\ \A d \in drawers : d.cid = c /\ d.revision + 1 = Row(w).revision => d \in S
      <3>1. found \subseteq drawers
        BY DEF found, RevisionDrawers
      <3> QED
        BY <3>1, <1>4, <1>5, <1>7, <1>10 DEF AfterPrevious
    <2>6. p = "look_kg" => Drawn(c)
      BY <2>1, <1>10 DEF Drawn
    <2>7. work'[w].pc = p /\ work'[w].seen = S
      BY <1>9, <1>11
    <2> QED
      BY <1>10, <2>1, <2>2, <2>3, <2>4, <2>5, <2>6, <2>7 DEF Progress
  <1>14. (Progress(w, Cid(w))' <=> Progress(w, c)')
    <2>1. Cid(w)' = c
      BY <1>9, <1>11, <1>0 DEF Cid, Msg
    <2> QED
      BY <2>1
  <1>15. r.pc = "archive" => \A d \in r.seen : d.cid = Cid(w)
    <2>1. \A d \in found : d.cid = c
      BY DEF found, RevisionDrawers
    <2> QED
      BY <2>1, <1>0, <1>7, <1>9, <1>10 DEF AfterPrevious
  <1> QED
    BY <1>1, <1>8, <1>9, <1>10, <1>0, <1>13, <1>14, <1>15, LookRenders DEF Applying, ApplyPcs

LEMMA FindCurrentRenders ==
    ASSUME WorkersInv, WorkersInv', RenderInv, NEW w \in Workers, FindCurrent(w)
    PROVE  RenderInv'
  <1>1. /\ At(w, "current") /\ UNCHANGED ledgerVars /\ UNCHANGED storeVars
        /\ status' = status /\ applied' = applied /\ work[w].pc \in Applying
    BY DEF FindCurrent, localOnly, ledgerOnly, queueVars, At, Applying, ApplyPcs
  <1>2. /\ ~work[w].failed /\ work[w] \in Work
        /\ ~Forgotten(Cid(w)) => Progress(w, Cid(w))
    BY <1>1, Knows
  <1>3. PICK p : /\ Goto(w, p)
                 /\ \/ p = "put_drawer" /\ RevisionDrawers(Cid(w), Row(w).revision) = {}
                    \/ p = "mark_drawer" /\ RevisionDrawers(Cid(w), Row(w).revision) # {}
    BY DEF FindCurrent
  <1> DEFINE r == [work[w] EXCEPT !.pc = p]
  <1>4. work' = [work EXCEPT ![w] = r]
    BY <1>3 DEF Goto
  <1>5. r.pc = p /\ r.msg = Msg(w) /\ r.row = Row(w) /\ ~r.failed
    BY <1>2 DEF Work, Msg, Row
  <1> HIDE DEF r
  <1>6. work'[w] = r
    BY <1>4 DEF WorkersInv, Working
  <1>7. ASSUME ~Forgotten(Cid(w))
        PROVE  Progress(w, Cid(w))'
    <2>1. PICK c : c = Cid(w)
      OBVIOUS
    <2>2. Progress(w, c)
      BY <1>2, <1>7, <2>1
    <2>3. /\ (Superseded(c)' <=> Superseded(c))
          /\ (Drawn(c)' <=> Drawn(c)) /\ (Active(c)' <=> Active(c)) /\ (Exists(c)' <=> Exists(c))
          /\ commitments' = commitments /\ revisions' = revisions
      BY <1>1 DEF Superseded, Drawn, Active, Exists, RevisionDrawers, ledgerVars, storeVars
    <2>4. Msg(w)' = Msg(w) /\ Row(w)' = Row(w) /\ Cid(w)' = c /\ (\A q : At(w, q)' <=> (p = q))
      BY <1>5, <1>6, <2>1 DEF Msg, Row, At, Cid
    <2>5. Active(c) /\ Superseded(c) /\ (p = "mark_drawer" => Drawn(c))
      BY <1>1, <1>3, <2>1, <2>2 DEF Progress, At, Drawn
    <2>6. work'[w].pc = p /\ p \in {"put_drawer", "mark_drawer"}
      BY <1>3, <1>5, <1>6
    <2>7. Progress(w, c)'
      BY <2>2, <2>3, <2>4, <2>5, <2>6 DEF Progress
    <2> QED
      BY <2>4, <2>7
  <1> QED
    BY <1>1, <1>3, <1>4, <1>5, <1>7, LookRenders DEF Applying, ApplyPcs

LEMMA LookKgRenders ==
    ASSUME WorkersInv, WorkersInv', RenderInv, NEW w \in Workers, LookKg(w)
    PROVE  RenderInv'
  <1>1. /\ At(w, "look_kg") /\ UNCHANGED ledgerVars /\ UNCHANGED storeVars
        /\ status' = status /\ applied' = applied /\ work[w].pc \in Applying
    BY DEF LookKg, localOnly, ledgerOnly, queueVars, At, Applying, ApplyPcs
  <1>2. /\ ~work[w].failed /\ work[w] \in Work /\ Cid(w) \in Cids
        /\ ~Forgotten(Cid(w)) => Progress(w, Cid(w)) /\ (RowActive(w) <=> Active(Cid(w)))
    BY <1>1, Knows
  <1>3. PICK p : /\ Goto(w, p)
                 /\ \/ p = "add_kg" /\ RowActive(w)
                    \/ p = "end_kg" /\ ~RowActive(w)
                    \/ p = "mark_kg" /\ (RowActive(w) <=> (OpenLike(Cid(w)) # {}))
    BY DEF LookKg
  <1> DEFINE r == [work[w] EXCEPT !.pc = p]
  <1>4. work' = [work EXCEPT ![w] = r]
    BY <1>3 DEF Goto
  <1>5. r.pc = p /\ r.msg = Msg(w) /\ r.row = Row(w) /\ ~r.failed
    BY <1>2 DEF Work, Msg, Row
  <1> HIDE DEF r
  <1>6. work'[w] = r
    BY <1>4 DEF WorkersInv, Working
  <1>7. ASSUME ~Forgotten(Cid(w))
        PROVE  Progress(w, Cid(w))'
    <2>1. PICK c \in Cids : c = Cid(w)
      BY <1>2
    <2>2. Progress(w, c) /\ (RowActive(w) <=> Active(c))
      BY <1>2, <1>7, <2>1
    <2>3. /\ (Superseded(c)' <=> Superseded(c))
          /\ (Drawn(c)' <=> Drawn(c)) /\ (Active(c)' <=> Active(c)) /\ (Exists(c)' <=> Exists(c))
          /\ (Stated(c)' <=> Stated(c))
          /\ commitments' = commitments /\ revisions' = revisions
      BY <1>1
         DEF Superseded, Drawn, Stated, ReadsApart, Active, Exists, RevisionDrawers, ledgerVars,
             storeVars
    <2>4. Msg(w)' = Msg(w) /\ Row(w)' = Row(w) /\ Cid(w)' = c /\ (\A q : At(w, q)' <=> (p = q))
      BY <1>5, <1>6, <2>1 DEF Msg, Row, At, Cid
    <2>5. Drawn(c) /\ Superseded(c)
      BY <1>1, <2>2 DEF Progress, At
    <2>6. p = "mark_kg" => Stated(c)
      <3>1. rows \subseteq Cids
        BY DEF WorkersInv, StoresOK
      <3>2. ReadsApart(c) => ((OpenLike(c) # {}) <=> (c \in rows \ closed))
        BY <3>1 DEF ReadsApart, OpenLike
      <3> QED
        BY <1>3, <2>1, <2>2, <3>2 DEF Stated
    <2>7. work'[w].pc = p /\ p \in {"add_kg", "end_kg", "mark_kg"}
          /\ (p = "add_kg" => Active(c)) /\ (p = "end_kg" => ~Active(c))
      BY <1>3, <1>5, <1>6, <2>2
    <2>8. Progress(w, c)'
      BY <2>2, <2>3, <2>4, <2>5, <2>6, <2>7 DEF Progress
    <2> QED
      BY <2>4, <2>8
  <1> QED
    BY <1>1, <1>3, <1>4, <1>5, <1>7, LookRenders DEF Applying, ApplyPcs


\* A commitment there is has made its first revision, and one of which there
\* is no other is open.
Begins ==
    \A c \in Cids : Exists(c) =>
        /\ commitments[c].revision \in Nat /\ commitments[c].revision > 0
        /\ commitments[c].revision = 1 => Active(c)

LEMMA FirstRevision == CommitmentInv => Begins
  <1> SUFFICES ASSUME CommitmentInv, NEW c \in Cids, Exists(c)
               PROVE  /\ commitments[c].revision \in Nat /\ commitments[c].revision > 0
                      /\ commitments[c].revision = 1 => Active(c)
    BY DEF Begins
  <1>1. commitments[c].revision \in Nat /\ commitments[c].revision # 0
    BY DEF CommitmentInv, LedgerTypeOK, Record, Revised
  <1>2. PICK i \in RevisionsOf(c) : /\ revisions[i].number = commitments[c].revision
                                    /\ revisions[i].status = commitments[c].status
    BY DEF CommitmentInv, HistoryLegal
  <1>3. i \in Intents /\ revisions[i].cid # NoCid
    BY CommitmentConstants DEF RevisionsOf
  <1> QED
    BY <1>1, <1>2, <1>3 DEF CommitmentInv, HistoryLegal, Active

LEMMA FirstRevisionNext == CommitmentInv' => Begins'
  BY FirstRevision, PTL

LEMMA ArchivePreviousRenders ==
    ASSUME WorkersInv, WorkersInv', RenderInv, NEW w \in Workers, ArchivePrevious(w)
    PROVE  RenderInv'
  <1>1. /\ At(w, "archive") /\ status' = status /\ applied' = applied
        /\ UNCHANGED ledgerVars /\ UNCHANGED <<drawers, rows, closed>>
        /\ work[w].pc \in Applying /\ work[w].pc \in ApplyPcs
    BY DEF ArchivePrevious, ArchiveDrawers, storeOnly, queueVars, At, Applying, ApplyPcs
  <1>2. PICK c \in Cids : c = Cid(w)
    BY <1>1, Knows
  <1> DEFINE S == work[w].seen
  <1>3. archived' = archived \cup (S \cap drawers) /\ \A d \in S : d.cid = c
    BY <1>1, <1>2 DEF ArchivePrevious, ArchiveDrawers, RenderInv, Learned
  <1>4. /\ Msg(w) \in Intents /\ IntentOf[Msg(w)].cid = c /\ Msg(w) \notin applied
        /\ ~work[w].failed /\ work[w] \in Work
        /\ ~Forgotten(c) => Progress(w, c) /\ Shelved(c) /\ (RowActive(w) <=> Active(c))
    BY <1>1, <1>2, Knows
  <1>5. PICK p, f : /\ work' = [work EXCEPT ![w] = [@ EXCEPT !.pc = p, !.failed = f]]
                    /\ \/ p = AfterPrevious(w) /\ f = FALSE
                       \/ p = "settle" /\ f = TRUE
    <2>1. ASSUME Goto(w, AfterPrevious(w))
          PROVE  work' = [work EXCEPT ![w] = [@ EXCEPT !.pc = AfterPrevious(w), !.failed = FALSE]]
      BY <2>1, <1>4 DEF Goto, Work
    <2> QED
      BY <2>1 DEF ArchivePrevious, Raise
  <1> DEFINE r == [work[w] EXCEPT !.pc = p, !.failed = f]
  <1>6. work' = [work EXCEPT ![w] = r]
    BY <1>5
  <1>7. r.pc = p /\ r.failed = f /\ r.msg = Msg(w) /\ r.row = Row(w)
    BY <1>4 DEF Work, Msg, Row
  <1>8. p \in {"current", "look_kg", "settle"} /\ (p = "current" => RowActive(w))
        /\ (p = "look_kg" => ~RowActive(w))
    BY <1>5 DEF AfterPrevious
  <1> HIDE DEF r, S
  <1>9. work'[w] = r
    BY <1>6 DEF WorkersInv, Working
  <1>10. /\ tombstones' = tombstones /\ commitments' = commitments /\ revisions' = revisions
         /\ (Active(c)' <=> Active(c)) /\ (Exists(c)' <=> Exists(c)) /\ (Drawn(c)' <=> Drawn(c))
         /\ (Stated(c)' <=> Stated(c)) /\ (Forgotten(c)' <=> Forgotten(c))
    BY <1>1 DEF ledgerVars, Active, Exists, Drawn, Stated, RevisionDrawers, ReadsApart, Forgotten
  <1>11. \A e \in Cids \ {c} : Same(e)
    BY <1>1, <1>3, <1>10 DEF Same
  <1>12. Superseded(c) => Superseded(c)'
    BY <1>1, <1>3, <1>10 DEF Superseded
  <1>13. ASSUME ~Forgotten(c)
         PROVE  Shelved(c)' /\ Superseded(c)'
    <2>1. Progress(w, c) /\ Shelved(c)
      BY <1>4, <1>13
    <2>2. \A d \in S : d.cid = c /\ d.revision + 1 = commitments[c].revision
      BY <1>1, <2>1 DEF Progress, S
    <2>3. Superseded(c)'
      BY <1>1, <1>3, <1>10, <2>1 DEF Progress, Superseded, S
    <2>4. commitments[c].revision \in Nat
      BY DEF WorkersInv, CommitmentInv, LedgerTypeOK, Record
    <2>5. \A d \in drawers : d.cid = c =>
              /\ d.revision \in 1 .. commitments[c].revision
              /\ d \in archived' \/ ~Active(c) => d.revision # commitments[c].revision
      BY <1>3, <2>1, <2>2, <2>4 DEF Shelved
    <2>6. Shelved(c)'
      BY <1>1, <1>10, <2>1, <2>5 DEF Shelved, RevisionDrawers, ReadsApart
    <2> QED
      BY <2>3, <2>6
  <1>14. OneDrawer' /\ Attributed'
    BY <1>1, <1>10 DEF RenderInv, OneDrawer, Attributed, Forgotten
  <1>15. Learned(w)'
    <2>1. CASE p = "settle"
      BY <1>7, <1>9, <2>1, LearnedNothing DEF ApplyPcs, CidsPcs
    <2>2. CASE p # "settle"
      <3>1. ASSUME ~Forgotten(c)
            PROVE  Progress(w, c)'
        <4>1. Progress(w, c) /\ Superseded(c)' /\ (RowActive(w) <=> Active(c))
          BY <3>1, <1>4, <1>13
        <4>2. Msg(w)' = Msg(w) /\ Row(w)' = Row(w) /\ (\A q : At(w, q)' <=> (p = q))
          BY <1>7, <1>9 DEF Msg, Row, At
        <4>3. work'[w].pc = p /\ p \in {"current", "look_kg"}
          BY <1>7, <1>8, <1>9, <2>2
        <4>4. p = "look_kg" => Drawn(c)
          BY <1>8, <4>1 DEF Drawn
        <4> QED
          BY <1>8, <1>10, <4>1, <4>2, <4>3, <4>4 DEF Progress
      <3>2. r.pc \in Applying /\ r.pc # "put_drawer" /\ r.pc # "archive" /\ ~r.failed
        BY <1>5, <1>7, <1>8, <2>2 DEF Applying, ApplyPcs
      <3> QED
        BY <1>1, <1>4, <1>7, <1>9, <1>10, <3>1, <3>2, LearnedApplying
    <2> QED
      BY <2>1, <2>2
  <1>16. ASSUME NEW i \in Intents, ~Forgotten(c), Delivered(i, c)
         PROVE  Delivered(i, c)'
    BY <1>10, <1>12, <1>16 DEF Delivered, Rendered
  <1>17. r.pc # "ack" /\ (r.pc = "settle" => r.failed)
    BY <1>5, <1>7, <1>8 DEF AfterPrevious
  <1> QED
    BY <1>1, <1>2, <1>6, <1>7, <1>10, <1>11, <1>13, <1>14, <1>15, <1>16, <1>17, ApplyRenders

LEMMA PutDrawerRenders ==
    ASSUME WorkersInv, WorkersInv', RenderInv, NEW w \in Workers, PutDrawer(w)
    PROVE  RenderInv'
  <1>1. /\ At(w, "put_drawer") /\ status' = status /\ applied' = applied
        /\ UNCHANGED ledgerVars /\ UNCHANGED <<archived, rows, closed>>
        /\ work[w].pc \in Applying /\ work[w].pc \in ApplyPcs
    BY DEF PutDrawer, storeOnly, queueVars, At, Applying, ApplyPcs
  <1>2. PICK c \in Cids : c = Cid(w)
    BY <1>1, Knows
  <1> DEFINE n == [cid |-> c, revision |-> Row(w).revision, text |-> Msg(w)]
             r == [work[w] EXCEPT !.pc = "mark_drawer"]
  <1>3. drawers' = drawers \cup {n} /\ work' = [work EXCEPT ![w] = r]
    BY <1>2 DEF PutDrawer, Goto
  <1>4. /\ Msg(w) \in Intents /\ IntentOf[Msg(w)].cid = c /\ Msg(w) \notin applied
        /\ ~work[w].failed /\ work[w] \in Work
        /\ ~Forgotten(c) => Progress(w, c) /\ Shelved(c) /\ (RowActive(w) <=> Active(c))
    BY <1>1, <1>2, Knows
  <1>5. n.cid = c /\ n.revision = Row(w).revision /\ RevisionDrawers(c, n.revision) = {}
    BY <1>1, <1>2 DEF RenderInv, Learned
  <1>6. r.pc = "mark_drawer" /\ ~r.failed /\ r.msg = Msg(w) /\ r.row = Row(w)
    BY <1>4 DEF Work, Msg, Row
  <1> HIDE DEF r, n
  <1>7. work'[w] = r
    BY <1>3 DEF WorkersInv, Working
  <1>8. /\ tombstones' = tombstones /\ commitments' = commitments /\ revisions' = revisions
        /\ (Active(c)' <=> Active(c)) /\ (Exists(c)' <=> Exists(c)) /\ (ReadsApart(c)' <=> ReadsApart(c))
        /\ (Stated(c)' <=> Stated(c)) /\ (Forgotten(c)' <=> Forgotten(c))
    BY <1>1 DEF ledgerVars, Active, Exists, Stated, ReadsApart, Forgotten
  <1>9. \A e \in Cids \ {c} : Same(e)
    BY <1>1, <1>3, <1>5, <1>8 DEF Same
  <1>10. OneDrawer' /\ Attributed'
    <2>1. \A d \in drawers : ~(d.cid = c /\ d.revision = n.revision)
      BY <1>5 DEF RevisionDrawers
    <2> QED
      BY <1>1, <1>3, <1>5, <1>8, <2>1 DEF RenderInv, OneDrawer, Attributed, Forgotten
  <1>11. Drawn(c) => Drawn(c)'
    BY <1>3, <1>8 DEF Drawn, RevisionDrawers
  <1>12. ASSUME ~Forgotten(c)
         PROVE  /\ Shelved(c)' /\ Drawn(c)' /\ Superseded(c) /\ Superseded(c)' /\ Progress(w, c)
                /\ Active(c)
    <2>1. Progress(w, c) /\ Shelved(c)
      BY <1>4, <1>12
    <2>2. /\ n.revision = commitments[c].revision /\ Active(c) /\ Superseded(c) /\ Exists(c)
          /\ work[w].pc = "put_drawer"
      BY <1>1, <1>5, <2>1 DEF Progress, At
    <2>3. commitments[c].revision \in Nat /\ commitments[c].revision > 0
      BY <2>2, FirstRevision DEF WorkersInv, Begins
    <2>4. n \notin archived /\ archived \subseteq drawers
      BY <1>5 DEF RevisionDrawers, WorkersInv, StoresOK
    <2>5. Superseded(c)'
      BY <1>1, <1>3, <1>8, <2>2, <2>3 DEF Superseded
    <2>6. n \in RevisionDrawers(c, commitments[c].revision)'
      BY <1>3, <1>5, <1>8, <2>2 DEF RevisionDrawers
    <2>7. \A d \in drawers' : d.cid = c =>
              /\ d.revision \in 1 .. commitments[c].revision
              /\ d \in archived \/ ~Active(c) => d.revision # commitments[c].revision
      BY <1>3, <2>1, <2>2, <2>3, <2>4 DEF Shelved
    <2>8. RevisionDrawers(c, commitments[c].revision)' # {} /\ Drawn(c)'
      BY <1>8, <2>6 DEF Drawn, RevisionDrawers
    <2>9. Shelved(c)'
      BY <1>1, <1>8, <2>1, <2>7, <2>8 DEF Shelved
    <2> QED
      BY <2>1, <2>2, <2>5, <2>8, <2>9
  <1>13. Learned(w)'
    <2>1. ASSUME ~Forgotten(c)
          PROVE  Progress(w, c)'
      <3>1. Progress(w, c) /\ Active(c) /\ Superseded(c)' /\ Drawn(c)'
        BY <2>1, <1>12
      <3>2. Msg(w)' = Msg(w) /\ Row(w)' = Row(w) /\ work'[w].pc = "mark_drawer"
        BY <1>6, <1>7 DEF Msg, Row
      <3>3. ~At(w, "archive")'
        BY <3>2 DEF At
      <3> QED
        BY <1>8, <3>1, <3>2, <3>3 DEF Progress
    <2>2. r.pc \in Applying /\ r.pc # "put_drawer" /\ r.pc # "archive"
      BY <1>6 DEF Applying, ApplyPcs
    <2> QED
      BY <1>1, <1>4, <1>6, <1>7, <1>8, <2>1, <2>2, LearnedApplying
  <1>14. ASSUME NEW i \in Intents, ~Forgotten(c), Delivered(i, c)
         PROVE  Delivered(i, c)'
    BY <1>8, <1>11, <1>12, <1>14 DEF Delivered, Rendered
  <1>15. r.pc # "ack" /\ r.pc # "settle"
    BY <1>6
  <1> QED
    BY <1>1, <1>2, <1>3, <1>6, <1>8, <1>9, <1>10, <1>12, <1>13, <1>14, <1>15, ApplyRenders

\* A mark is written for what has been done, and refused only when a forget
\* came in between.
LEMMA MarkRenders ==
    ASSUME WorkersInv, WorkersInv', RenderInv, NEW w \in Workers,
           NEW pc \in {"mark_drawer", "mark_kg", "mark_ended"}, NEW T, NEW next,
           Mark(w, pc, T, next),
           \/ pc = "mark_drawer" /\ T = {"drawer"} /\ next = "look_kg"
           \/ pc = "mark_kg" /\ T = {"kg"} /\ next = (IF RowActive(w) THEN "settle" ELSE "mark_ended")
           \/ pc = "mark_ended" /\ T = {"drawer"} /\ next = "settle"
    PROVE  RenderInv'
  <1>1. /\ work[w].pc = pc /\ status' = status /\ applied' = applied /\ UNCHANGED storeVars
        /\ work[w].pc \in Applying /\ work[w].pc \in ApplyPcs
    BY DEF Mark, ledgerOnly, queueVars, At, Applying, ApplyPcs
  <1>2. PICK c \in Cids : c = Cid(w)
    BY <1>1, Knows
  <1>3. /\ Msg(w) \in Intents /\ IntentOf[Msg(w)].cid = c /\ Msg(w) \notin applied
        /\ ~work[w].failed /\ work[w] \in Work
        /\ ~Forgotten(c) => Progress(w, c) /\ Shelved(c) /\ (RowActive(w) <=> Active(c))
    BY <1>1, <1>2, Knows
  <1>4. CASE MarkProjectedRaises(c, Row(w).revision)
    <2> DEFINE r == [work[w] EXCEPT !.pc = "reject"]
    <2>1. work' = [work EXCEPT ![w] = r] /\ UNCHANGED ledgerVars
      BY <1>2, <1>4 DEF Mark, Reject, Goto
    <2>2. r.pc = "reject" /\ r.msg = Msg(w) /\ ~r.failed
      BY <1>3 DEF Work, Msg
    <2> HIDE DEF r
    <2>3. work'[w] = r /\ Msg(w)' = Msg(w) /\ (\A q : At(w, q)' <=> (q = "reject"))
      BY <2>1, <2>2 DEF WorkersInv, Working, Msg, At
    <2>4. Forgotten(c)
      BY <1>3, <1>4 DEF Progress, MarkProjectedRaises
    <2>5. Forgotten(Cid(w))'
      BY <1>2, <2>1, <2>3, <2>4 DEF Cid, Forgotten, ledgerVars
    <2>6. Learned(w)'
      BY <2>2, <2>3, <2>5 DEF Learned, Applying, ApplyPcs, CidsPcs
    <2> QED
      BY <1>1, <2>1, <2>2, <2>6, LocalSpares, MoveRenders
  <1>5. CASE ~MarkProjectedRaises(c, Row(w).revision)
    <2> DEFINE r == [work[w] EXCEPT !.pc = next]
               q == [commitments[c] EXCEPT !.proj = SetProj(commitments[c].proj, T)]
    <2>1. /\ work' = [work EXCEPT ![w] = r]
          /\ commitments' = [commitments EXCEPT ![c] = q] /\ revisions' = revisions
          /\ tombstones' = tombstones
      BY <1>2, <1>5 DEF Mark, MarkProjected, Goto
    <2>2. r.pc = next /\ ~r.failed /\ r.msg = Msg(w) /\ r.row = Row(w)
      BY <1>3 DEF Work, Msg, Row
    <2>3. commitments \in [Cids -> Record]
      BY DEF WorkersInv, CommitmentInv, LedgerTypeOK
    <2>4. /\ q.status = commitments[c].status /\ q.revision = commitments[c].revision
          /\ q.proj = SetProj(commitments[c].proj, T)
      BY <2>3 DEF Record
    <2> HIDE DEF r, q
    <2>5. work'[w] = r /\ \A e \in Cids : commitments'[e] = IF e = c THEN q ELSE commitments[e]
      BY <2>1, <2>3 DEF WorkersInv, Working
    <2>6. /\ commitments'[c].status = commitments[c].status
          /\ commitments'[c].revision = commitments[c].revision
          /\ commitments'[c].proj = SetProj(commitments[c].proj, T)
      BY <2>4, <2>5
    <2>7. /\ (Active(c)' <=> Active(c)) /\ (Exists(c)' <=> Exists(c)) /\ (Forgotten(c)' <=> Forgotten(c))
          /\ (ReadsApart(c)' <=> ReadsApart(c))
      BY <2>1, <2>6 DEF Active, Exists, Forgotten, ReadsApart
    <2>8. (Superseded(c)' <=> Superseded(c)) /\ (Drawn(c)' <=> Drawn(c)) /\ (Stated(c)' <=> Stated(c))
      BY <1>1, <2>6, <2>7 DEF Superseded, Drawn, Stated, RevisionDrawers, storeVars
    <2>9. \A e \in Cids \ {c} : Same(e)
      BY <1>1, <2>1, <2>5 DEF Same, storeVars
    <2>10. OneDrawer' /\ Attributed'
      BY <1>1, <2>1 DEF RenderInv, OneDrawer, Attributed, Forgotten, storeVars
    <2>11. ASSUME ~Forgotten(c)
           PROVE  /\ Progress(w, c) /\ Shelved(c)' /\ (RowActive(w) <=> Active(c))
                  /\ Superseded(c) /\ Drawn(c) /\ (pc # "mark_drawer" => Stated(c))
                  /\ (pc = "mark_drawer" => Active(c)) /\ (pc = "mark_ended" => ~Active(c))
      <3>1. Progress(w, c) /\ Shelved(c) /\ (RowActive(w) <=> Active(c))
        BY <1>3, <2>11
      <3>2. /\ Superseded(c) /\ (pc # "mark_drawer" => Stated(c))
            /\ (pc = "mark_drawer" => Active(c)) /\ (pc = "mark_ended" => ~Active(c))
            /\ (pc # "mark_ended" => Drawn(c))
        BY <1>1, <3>1 DEF Progress
      <3>3. Drawn(c)
        BY <3>2 DEF Drawn
      <3>4. Active(c) /\ commitments'[c].proj["drawer"] = "projected"
                => RevisionDrawers(c, commitments[c].revision) # {}
        BY <3>3 DEF Drawn
      <3>5. Active(c) /\ commitments'[c].proj["kg"] = "projected" /\ ReadsApart(c) => c \in rows
        <4>1. CASE pc = "mark_drawer"
          <5>1. commitments'[c].proj["kg"] = commitments[c].proj["kg"]
            BY <2>6, <4>1 DEF SetProj, Targets
          <5> QED
            BY <5>1, <3>1 DEF Shelved
        <4>2. CASE pc # "mark_drawer"
          BY <3>2, <4>2 DEF Stated
        <4> QED
          BY <4>1, <4>2
      <3>6. \A d \in drawers : d.cid = c =>
                /\ d.revision \in 1 .. commitments'[c].revision
                /\ d \in archived \/ ~Active(c) => d.revision # commitments'[c].revision
        BY <2>6, <3>1 DEF Shelved
      <3>7. /\ (c \in rows => Exists(c)) /\ (c \in closed /\ ReadsApart(c) => ~Active(c))
            /\ \A i \in Intents : revisions[i].cid = c => revisions[i].number <= commitments'[c].revision
        BY <2>6, <3>1 DEF Shelved
      <3>8. RevisionDrawers(c, commitments[c].revision)' = RevisionDrawers(c, commitments[c].revision)
        BY <1>1, <2>6 DEF RevisionDrawers, storeVars
      <3>9. Shelved(c)'
        BY <1>1, <2>1, <2>7, <3>4, <3>5, <3>6, <3>7, <3>8 DEF Shelved, storeVars
      <3> QED
        BY <3>1, <3>2, <3>3, <3>9
    <2>12. Learned(w)'
      <3>1. CASE next = "settle"
        BY <2>2, <2>5, <3>1, LearnedNothing DEF ApplyPcs, CidsPcs
      <3>2. CASE next # "settle"
        <4>1. ASSUME ~Forgotten(c)
              PROVE  Progress(w, c)'
          <5>1. /\ Progress(w, c) /\ (RowActive(w) <=> Active(c)) /\ Superseded(c) /\ Drawn(c)
                /\ (pc # "mark_drawer" => Stated(c))
            BY <4>1, <2>11
          <5>2. Msg(w)' = Msg(w) /\ Row(w)' = Row(w) /\ work'[w].pc = next
            BY <2>2, <2>5 DEF Msg, Row
          <5>3. next = "look_kg" \/ (next = "mark_ended" /\ pc = "mark_kg" /\ ~Active(c))
            BY <3>2, <5>1
          <5>4. ~At(w, "archive")'
            BY <5>2, <5>3 DEF At
          <5>5. /\ Row(w).revision = commitments'[c].revision /\ Row(w).status = commitments'[c].status
                /\ Exists(c) /\ revisions'[Msg(w)].cid = c
            BY <2>1, <2>6, <5>1 DEF Progress
          <5> QED
            BY <2>7, <2>8, <5>1, <5>2, <5>3, <5>4, <5>5 DEF Progress
        <4>2. r.pc \in Applying /\ r.pc # "put_drawer" /\ r.pc # "archive"
          BY <2>2, <3>2 DEF Applying, ApplyPcs
        <4> QED
          BY <1>1, <1>3, <2>2, <2>5, <2>7, <4>1, <4>2, LearnedApplying
      <3> QED
        BY <3>1, <3>2
    <2>13. ASSUME NEW i \in Intents, ~Forgotten(c), Delivered(i, c)
           PROVE  Delivered(i, c)'
      BY <2>1, <2>6, <2>8, <2>13 DEF Delivered, Rendered
    <2>14. next = "settle" => Delivered(Msg(w), c)'
      <3> SUFFICES ASSUME next = "settle", ~Forgotten(c)
                   PROVE  Rendered(c)' /\ (revisions[Msg(w)].cid = c)'
        BY <2>7 DEF Delivered
      <3>1. Progress(w, c) /\ Superseded(c) /\ Drawn(c) /\ Stated(c)
        BY <2>11
      <3>2. r.msg = Msg(w) /\ Msg(w)' = Msg(w) /\ revisions[Msg(w)].cid = c
        BY <2>2, <2>5, <3>1 DEF Msg, Progress
      <3> QED
        BY <2>1, <2>8, <3>1, <3>2 DEF Rendered
    <2> QED
      BY <1>1, <1>2, <2>1, <2>2, <2>7, <2>9, <2>10, <2>11, <2>12, <2>13, <2>14, ApplyRenders
  <1> QED
    BY <1>4, <1>5

LEMMA MarksRender ==
    ASSUME WorkersInv, WorkersInv', RenderInv, NEW w \in Workers,
           MarkDrawer(w) \/ MarkKg(w) \/ MarkEnded(w)
    PROVE  RenderInv'
  <1>1. CASE MarkDrawer(w)
    BY <1>1, MarkRenders DEF MarkDrawer
  <1>2. CASE MarkKg(w)
    BY <1>2, MarkRenders DEF MarkKg
  <1>3. CASE MarkEnded(w)
    BY <1>3, MarkRenders DEF MarkEnded
  <1> QED
    BY <1>1, <1>2, <1>3

LEMMA AddKgRenders ==
    ASSUME WorkersInv, WorkersInv', RenderInv, NEW w \in Workers, AddKg(w)
    PROVE  RenderInv'
  <1>1. /\ At(w, "add_kg") /\ status' = status /\ applied' = applied
        /\ UNCHANGED ledgerVars /\ UNCHANGED <<drawers, archived, closed>>
        /\ work[w].pc \in Applying /\ work[w].pc \in ApplyPcs
    BY DEF AddKg, storeOnly, queueVars, At, Applying, ApplyPcs
  <1>2. PICK c \in Cids : c = Cid(w)
    BY <1>1, Knows
  <1> DEFINE r == [work[w] EXCEPT !.pc = "mark_kg"]
  <1>3. /\ work' = [work EXCEPT ![w] = r]
        /\ rows' = IF OpenLike(c) = {} THEN rows \cup {c} ELSE rows
    BY <1>2 DEF AddKg, AddTriple, Goto
  <1>4. /\ Msg(w) \in Intents /\ IntentOf[Msg(w)].cid = c /\ Msg(w) \notin applied
        /\ ~work[w].failed /\ work[w] \in Work
        /\ ~Forgotten(c) => Progress(w, c) /\ Shelved(c)
    BY <1>1, <1>2, Knows
  <1>5. r.pc = "mark_kg" /\ ~r.failed /\ r.msg = Msg(w) /\ r.row = Row(w)
    BY <1>4 DEF Work, Msg, Row
  <1> HIDE DEF r
  <1>6. work'[w] = r
    BY <1>3 DEF WorkersInv, Working
  <1>7. /\ tombstones' = tombstones /\ commitments' = commitments /\ revisions' = revisions
        /\ (Active(c)' <=> Active(c)) /\ (Exists(c)' <=> Exists(c)) /\ (ReadsApart(c)' <=> ReadsApart(c))
        /\ (Superseded(c)' <=> Superseded(c)) /\ (Drawn(c)' <=> Drawn(c))
        /\ (Forgotten(c)' <=> Forgotten(c))
    BY <1>1
       DEF ledgerVars, Active, Exists, Superseded, Drawn, RevisionDrawers, ReadsApart, Forgotten
  <1>8. \A e \in Cids \ {c} : Same(e)
    BY <1>1, <1>3, <1>7 DEF Same
  <1>9. OneDrawer' /\ Attributed'
    BY <1>1, <1>7 DEF RenderInv, OneDrawer, Attributed, Forgotten
  <1>10. ASSUME ~Forgotten(c)
         PROVE  /\ Progress(w, c) /\ Shelved(c)' /\ Stated(c)' /\ Superseded(c) /\ Drawn(c)
    <2>1. Progress(w, c) /\ Shelved(c)
      BY <1>4, <1>10
    <2>2. Active(c) /\ Exists(c) /\ Superseded(c) /\ Drawn(c)
      BY <1>1, <2>1 DEF Progress, At
    <2>3. ReadsApart(c) => c \in rows' \ closed'
      <3> SUFFICES ASSUME ReadsApart(c)
                   PROVE  c \in rows' \ closed'
        OBVIOUS
      <3>1. c \notin closed
        BY <2>1, <2>2 DEF Shelved
      <3>2. CASE OpenLike(c) = {}
        BY <1>1, <1>3, <3>1, <3>2
      <3>3. CASE OpenLike(c) # {}
        <4>1. c \in rows
          BY <3>3 DEF OpenLike, ReadsApart, WorkersInv, StoresOK
        <4> QED
          BY <1>1, <1>3, <3>1, <4>1
      <3> QED
        BY <3>2, <3>3
    <2>4. Stated(c)'
      BY <1>7, <2>2, <2>3 DEF Stated
    <2>5. Active(c)' /\ commitments'[c].proj["kg"] = "projected" /\ ReadsApart(c)' => c \in rows'
      BY <1>7, <2>3
    <2>6. Shelved(c)'
      BY <1>1, <1>7, <2>1, <2>2, <2>5 DEF Shelved, RevisionDrawers
    <2> QED
      BY <2>1, <2>2, <2>4, <2>6
  <1>11. Learned(w)'
    <2>1. ASSUME ~Forgotten(c)
          PROVE  Progress(w, c)'
      <3>1. Progress(w, c) /\ Stated(c)' /\ Superseded(c)' /\ Drawn(c)'
        BY <1>7, <1>10, <2>1
      <3>2. Msg(w)' = Msg(w) /\ Row(w)' = Row(w) /\ work'[w].pc = "mark_kg"
        BY <1>5, <1>6 DEF Msg, Row
      <3>3. ~At(w, "archive")'
        BY <3>2 DEF At
      <3> QED
        BY <1>7, <3>1, <3>2, <3>3 DEF Progress
    <2>2. r.pc \in Applying /\ r.pc # "put_drawer" /\ r.pc # "archive"
      BY <1>5 DEF Applying, ApplyPcs
    <2> QED
      BY <1>1, <1>4, <1>5, <1>6, <1>7, <2>1, <2>2, LearnedApplying
  <1>12. ASSUME NEW i \in Intents, ~Forgotten(c), Delivered(i, c)
         PROVE  Delivered(i, c)'
    BY <1>7, <1>10, <1>12 DEF Delivered, Rendered
  <1>13. r.pc # "ack" /\ r.pc # "settle"
    BY <1>5
  <1> QED
    BY <1>1, <1>2, <1>3, <1>5, <1>7, <1>8, <1>9, <1>10, <1>11, <1>12, <1>13, ApplyRenders

LEMMA EndKgRenders ==
    ASSUME WorkersInv, WorkersInv', RenderInv, NEW w \in Workers, EndKg(w)
    PROVE  RenderInv'
  <1>1. /\ At(w, "end_kg") /\ status' = status /\ applied' = applied
        /\ UNCHANGED ledgerVars /\ UNCHANGED <<drawers, archived, rows>>
        /\ work[w].pc \in Applying /\ work[w].pc \in ApplyPcs
    BY DEF EndKg, storeOnly, queueVars, At, Applying, ApplyPcs
  <1>2. PICK c \in Cids : c = Cid(w)
    BY <1>1, Knows
  <1> DEFINE r == [work[w] EXCEPT !.pc = "mark_kg"]
  <1>3. work' = [work EXCEPT ![w] = r] /\ closed' = closed \cup OpenLike(c)
    BY <1>2 DEF EndKg, Goto
  <1>4. /\ Msg(w) \in Intents /\ IntentOf[Msg(w)].cid = c /\ Msg(w) \notin applied
        /\ ~work[w].failed /\ work[w] \in Work
        /\ ~Forgotten(c) => Progress(w, c) /\ Shelved(c)
    BY <1>1, <1>2, Knows
  <1>5. r.pc = "mark_kg" /\ ~r.failed /\ r.msg = Msg(w) /\ r.row = Row(w)
    BY <1>4 DEF Work, Msg, Row
  <1> HIDE DEF r
  <1>6. work'[w] = r
    BY <1>3 DEF WorkersInv, Working
  <1>7. /\ tombstones' = tombstones /\ commitments' = commitments /\ revisions' = revisions
        /\ (Active(c)' <=> Active(c)) /\ (Exists(c)' <=> Exists(c)) /\ (ReadsApart(c)' <=> ReadsApart(c))
        /\ (Superseded(c)' <=> Superseded(c)) /\ (Drawn(c)' <=> Drawn(c))
        /\ (Forgotten(c)' <=> Forgotten(c))
    BY <1>1
       DEF ledgerVars, Active, Exists, Superseded, Drawn, RevisionDrawers, ReadsApart, Forgotten
  <1>8. \A e \in Cids \ {c} : Same(e)
    <2>1. ASSUME NEW e \in Cids \ {c}, ReadsApart(e)
          PROVE  e \notin OpenLike(c)
      BY <2>1 DEF ReadsApart, OpenLike
    <2> QED
      BY <1>1, <1>3, <1>7, <2>1 DEF Same
  <1>9. OneDrawer' /\ Attributed'
    BY <1>1, <1>7 DEF RenderInv, OneDrawer, Attributed, Forgotten
  <1>10. ASSUME ~Forgotten(c)
         PROVE  /\ Progress(w, c) /\ Shelved(c)' /\ Stated(c)' /\ Superseded(c) /\ Drawn(c)
    <2>1. Progress(w, c) /\ Shelved(c)
      BY <1>4, <1>10
    <2>2. ~Active(c) /\ Superseded(c) /\ Drawn(c)
      BY <1>1, <2>1 DEF Progress, At, Drawn
    <2>3. c \notin rows' \ closed'
      BY <1>1, <1>3 DEF OpenLike
    <2>4. Stated(c)'
      BY <1>7, <2>2, <2>3 DEF Stated
    <2>5. Shelved(c)'
      BY <1>1, <1>7, <2>1, <2>2 DEF Shelved
    <2> QED
      BY <2>1, <2>2, <2>4, <2>5
  <1>11. Learned(w)'
    <2>1. ASSUME ~Forgotten(c)
          PROVE  Progress(w, c)'
      <3>1. Progress(w, c) /\ Stated(c)' /\ Superseded(c)' /\ Drawn(c)'
        BY <1>7, <1>10, <2>1
      <3>2. Msg(w)' = Msg(w) /\ Row(w)' = Row(w) /\ work'[w].pc = "mark_kg"
        BY <1>5, <1>6 DEF Msg, Row
      <3>3. ~At(w, "archive")'
        BY <3>2 DEF At
      <3> QED
        BY <1>7, <3>1, <3>2, <3>3 DEF Progress
    <2>2. r.pc \in Applying /\ r.pc # "put_drawer" /\ r.pc # "archive"
      BY <1>5 DEF Applying, ApplyPcs
    <2> QED
      BY <1>1, <1>4, <1>5, <1>6, <1>7, <2>1, <2>2, LearnedApplying
  <1>12. ASSUME NEW i \in Intents, ~Forgotten(c), Delivered(i, c)
         PROVE  Delivered(i, c)'
    BY <1>7, <1>10, <1>12 DEF Delivered, Rendered
  <1>13. r.pc # "ack" /\ r.pc # "settle"
    BY <1>5
  <1> QED
    BY <1>1, <1>2, <1>3, <1>5, <1>7, <1>8, <1>9, <1>10, <1>11, <1>12, <1>13, ApplyRenders

\* The worker of an intent that has just been applied knows the record.
LEMMA AppliedKnows ==
    ASSUME WorkersInv, WorkersInv', RenderInv, NEW w \in Workers, NEW c \in Cids, NEW r,
           c = Cid(w), At(w, "apply"), work' = [work EXCEPT ![w] = r], r.msg = Msg(w),
           r.row = commitments'[c], ~r.failed, applied' = applied,
           r.pc = IF commitments'[c].revision > 1 THEN "previous" ELSE "current",
           ~Forgotten(c)' => revisions'[Msg(w)].cid = c /\ Shelved(c)'
    PROVE  Learned(w)'
  <1>1. Msg(w) \in Intents /\ IntentOf[Msg(w)].cid = c /\ Msg(w) \notin applied
    BY ApplyingFacts DEF At, ApplyPcs, RenderInv, Learned
  <1>2. work'[w] = r /\ Msg(w)' = Msg(w) /\ Row(w)' = commitments'[c]
    BY DEF WorkersInv, Working, Msg, Row
  <1>3. r.pc \in {"previous", "current"}
    OBVIOUS
  <1>4. ASSUME ~Forgotten(c)'
        PROVE  Progress(w, c)'
    <2>1. revisions'[Msg(w)].cid = c /\ Shelved(c)'
      BY <1>4
    <2>2. /\ commitments'[c].revision \in Nat
          /\ commitments'[c].revision # 0 => Exists(c)'
          /\ commitments'[c].revision = Cardinality(RevisionsOf(c))'
      BY DEF WorkersInv, CommitmentInv, LedgerTypeOK, Record, Revised, RevisionsCounted
    <2>3. commitments'[c].revision # 0
      <3>1. Msg(w) \in RevisionsOf(c)'
        BY <1>1, <1>2, <2>1 DEF RevisionsOf
      <3>2. IsFiniteSet(RevisionsOf(c)')
        BY CommitmentConstants, FS_Subset DEF RevisionsOf
      <3> QED
        BY <2>2, <3>1, <3>2, FS_EmptySet
    <2>4. Exists(c)' /\ (commitments'[c].revision = 1 => Active(c)')
      <3>1. Exists(c)'
        BY <2>2, <2>3
      <3>2. Begins'
        BY FirstRevisionNext DEF WorkersInv
      <3>3. commitments'[c].revision = 1 => Active(c)'
        BY <3>1, <3>2 DEF Begins
      <3> QED
        BY <3>1, <3>3
    <2>5. r.pc = "current" => commitments'[c].revision = 1
      BY <2>2, <2>3
    <2>6. r.pc = "current" => Superseded(c)' /\ Active(c)'
      BY <2>1, <2>4, <2>5 DEF Shelved, Superseded
    <2>7. ~At(w, "archive")' /\ work'[w].pc = r.pc
      BY <1>2, <1>3 DEF At
    <2> QED
      BY <1>2, <1>3, <2>1, <2>4, <2>6, <2>7 DEF Progress
  <1>5. r.pc \in Applying /\ r.pc # "put_drawer" /\ r.pc # "archive"
    BY <1>3 DEF Applying, ApplyPcs
  <1> QED
    BY <1>1, <1>2, <1>4, <1>5, LearnedApplying

LEMMA ApplyIntentRenders ==
    ASSUME WorkersInv, WorkersInv', RenderInv, NEW w \in Workers, ApplyIntent(w)
    PROVE  RenderInv'
  <1>1. /\ At(w, "apply") /\ status' = status /\ applied' = applied /\ UNCHANGED storeVars
        /\ work[w].pc \in ApplyPcs /\ work[w].pc # "settle"
    BY DEF ApplyIntent, ledgerOnly, queueVars, At, ApplyPcs
  <1>2. PICK c \in Cids : c = Cid(w)
    BY <1>1, ApplyingFacts
  <1>3. /\ Msg(w) \in Intents /\ IntentOf[Msg(w)].cid = c /\ status[Msg(w)] = "held"
        /\ ~work[w].failed /\ work[w] \in Work /\ IntentOf[Msg(w)] \in Intent
    BY <1>1, <1>2, ApplyingFacts, CommitmentConstants
       DEF RenderInv, Learned, At, WorkersInv, Working
  <1>4. PICK i \in Intents : i = Msg(w)
    BY <1>3
  <1>5. CASE ApplyRaises(i)
    <2> DEFINE r == [work[w] EXCEPT !.pc = "reject"]
    <2>1. work' = [work EXCEPT ![w] = r] /\ UNCHANGED ledgerVars
      BY <1>4, <1>5 DEF ApplyIntent, Reject, Goto
    <2>2. r.pc = "reject" /\ r.msg = Msg(w) /\ ~r.failed
      BY <1>3 DEF Work, Msg
    <2> HIDE DEF r
    <2>3. work'[w] = r /\ Msg(w)' = Msg(w) /\ (\A q : At(w, q)' <=> (q = "reject"))
      BY <2>1, <2>2 DEF WorkersInv, Working, Msg, At
    <2>4. Forgotten(c) \/ revisions[i].cid = NoCid
      BY <1>3, <1>4, <1>5 DEF ApplyRaises
    <2>5. Forgotten(Cid(w))' \/ (revisions[Msg(w)].cid = NoCid)'
      BY <1>2, <1>4, <2>1, <2>3, <2>4 DEF Cid, Forgotten, ledgerVars
    <2>6. Learned(w)'
      BY <2>2, <2>3, <2>5 DEF Learned, Applying, ApplyPcs, CidsPcs
    <2> QED
      BY <1>1, <2>1, <2>2, <2>6, LocalSpares, MoveRenders
  <1>6. CASE ~ApplyRaises(i)
    <2> DEFINE p == IF commitments'[c].revision > 1 THEN "previous" ELSE "current"
               r == [work[w] EXCEPT !.row = commitments'[c], !.pc = p]
    <2>1. Apply(i) /\ work' = [work EXCEPT ![w] = r] /\ ~Forgotten(c) /\ tombstones' = tombstones
      BY <1>2, <1>3, <1>4, <1>6 DEF ApplyIntent, ApplyRaises, Apply
    <2>2. r.pc = p /\ r.msg = Msg(w) /\ ~r.failed /\ r.row = commitments'[c]
      BY <1>3 DEF Work, Msg
    <2>3. p \in {"previous", "current"}
      OBVIOUS
    <2> HIDE DEF r
    <2>4. Shelved(c) /\ CommitmentInv /\ OneDrawer /\ Attributed
      BY <2>1 DEF RenderInv, WorkersInv
    <2>5. (/\ \A e \in Cids \ {c} : Same(e)
           /\ Attributed' /\ Shelved(c)' /\ revisions'[i].cid = c
           /\ \A j \in Intents \ {i} : IntentOf[j].cid = c /\ Delivered(j, c) => Delivered(j, c)')
      <3>1. CASE revisions[i].cid # NoCid
        <4>1. commitments' = commitments /\ revisions' = revisions
          BY <2>1, <3>1 DEF Apply
        <4>2. revisions[i].cid = c
          BY <1>3, <1>4, <2>4, <3>1 DEF Attributed
        <4>3. /\ (Active(c)' <=> Active(c)) /\ (Exists(c)' <=> Exists(c)) /\ (Rendered(c)' <=> Rendered(c))
              /\ \A e : (Forgotten(e)' <=> Forgotten(e))
          BY <1>1, <2>1, <4>1 DEF Active, Exists, Forgotten, Rendered, Superseded, Drawn, Stated,
                 RevisionDrawers, ReadsApart, storeVars
        <4>4. Shelved(c)'
          BY <1>1, <2>4, <4>1, <4>3 DEF Shelved, RevisionDrawers, ReadsApart, storeVars
        <4>5. Attributed'
          BY <1>1, <2>4, <4>1, <4>3 DEF Attributed
        <4>6. \A e \in Cids \ {c} : Same(e)
          BY <1>1, <4>1 DEF Same, storeVars
        <4>7. \A j \in Intents \ {i} : IntentOf[j].cid = c /\ Delivered(j, c) => Delivered(j, c)'
          BY <4>1, <4>3 DEF Delivered
        <4> QED
          BY <4>1, <4>2, <4>4, <4>5, <4>6, <4>7
      <3>2. CASE revisions[i].cid = NoCid
        <4>1. LedgerTypeOK
          BY <2>4 DEF CommitmentInv
        <4>2. /\ \A d \in Cids : commitments'[d] = IF d = c THEN Decided(i) ELSE commitments[d]
              /\ \A j \in Intents : j # i => revisions'[j] = revisions[j]
              /\ revisions'[i].cid = c /\ revisions'[i].number = Decided(i).revision
          BY <1>3, <1>4, <2>1, <3>2, <4>1, ApplyEffect
        <4>3. /\ Decided(i) \in Record /\ Decided(i).status \in Status
              /\ ~Exists(c) => Decided(i).revision = 1
              /\ Exists(c) =>
                     /\ commitments[c].status \in Status
                     /\ Decided(i).status \in Transitions[commitments[c].status]
                     /\ Decided(i).revision = commitments[c].revision + 1
          BY <1>3, <1>4, <1>6, <3>2, <4>1, DecidedEffect
        <4>4. commitments'[c] = Decided(i)
          BY <4>2
        <4>5. commitments[c].revision \in Nat /\ (~Exists(c) => commitments[c].revision = 0)
          BY <2>4 DEF CommitmentInv, LedgerTypeOK, Record, Revised
        <4>6. commitments'[c].revision = commitments[c].revision + 1
          BY <4>3, <4>4, <4>5
        <4>7. commitments'[c].proj = AllPending /\ Exists(c)'
          <5>1. Decided(i).proj = AllPending
            BY <4>1 DEF Decided, LedgerTypeOK, Record
          <5>2. Decided(i).status # "absent"
            BY <4>3 DEF Status, ActiveStatus, TerminalStatus
          <5> QED
            BY <4>4, <5>1, <5>2 DEF Exists
        <4>8. Exists(c) /\ ~Active(c) => ~Active(c)'
          <5>1. ASSUME Exists(c), ~Active(c)
                PROVE  ~Active(c)'
            <6>1. commitments[c].status \in TerminalStatus
              BY <4>3, <5>1 DEF Active, Status
            <6>2. Decided(i).status = commitments[c].status
              BY <4>3, <5>1, <6>1, TransitionsLegal
            <6> QED
              BY <4>4, <5>1, <6>2 DEF Active
          <5> QED
            BY <5>1
        <4>9. Attributed'
          <5>1. \A e : Forgotten(e)' <=> Forgotten(e)
            BY <2>1 DEF Forgotten
          <5> QED
            BY <1>1, <1>3, <1>4, <2>4, <4>2, <5>1 DEF Attributed
        <4>10. \A e \in Cids \ {c} : Same(e)
          BY <1>1, <1>3, <1>4, <4>2 DEF Same, storeVars
        <4>11. \A d \in drawers : d.cid = c =>
                   /\ d.revision \in 1 .. commitments'[c].revision
                   /\ d.revision # commitments'[c].revision
          BY <2>4, <4>5, <4>6 DEF Shelved
        <4>12. c \in closed /\ ReadsApart(c) => ~Active(c)'
          BY <2>4, <4>8 DEF Shelved, WorkersInv, StoresOK
        <4>13. \A j \in Intents : revisions'[j].cid = c => revisions'[j].number <= commitments'[c].revision
          <5>1. ASSUME NEW j \in Intents, j # i, revisions'[j].cid = c
                PROVE  revisions'[j].number <= commitments[c].revision
            BY <2>4, <4>2, <5>1 DEF Shelved
          <5>2. \A j \in Intents : revisions'[j].number \in Nat
            BY DEF WorkersInv, CommitmentInv, LedgerTypeOK, Revision
          <5>3. revisions'[i].number = commitments'[c].revision
            BY <4>2, <4>4
          <5>4. commitments'[c].revision \in Nat
            BY <4>5, <4>6
          <5> SUFFICES ASSUME NEW j \in Intents, revisions'[j].cid = c
                       PROVE  revisions'[j].number <= commitments'[c].revision
            OBVIOUS
          <5>5. CASE j = i
            BY <5>3, <5>4, <5>5
          <5>6. CASE j # i
            BY <4>5, <4>6, <5>1, <5>2, <5>6
          <5> QED
            BY <5>5, <5>6
        <4>14. Shelved(c)'
          <5>1. commitments'[c].proj["drawer"] # "projected" /\ commitments'[c].proj["kg"] # "projected"
            BY <4>7 DEF AllPending, Targets
          <5> QED
            BY <1>1, <4>7, <4>11, <4>12, <4>13, <5>1 DEF Shelved, ReadsApart, storeVars
        <4>15. ASSUME NEW j \in Intents \ {i}, Delivered(j, c)
               PROVE  Delivered(j, c)'
          <5>1. revisions[j].cid = c /\ revisions'[j] = revisions[j]
            BY <2>1, <4>2, <4>15 DEF Delivered
          <5>2. revisions[j].number <= commitments[c].revision /\ revisions[j].number \in Nat
            BY <2>4, <4>1, <5>1 DEF Shelved, LedgerTypeOK, Revision
          <5> QED
            BY <4>5, <4>6, <5>1, <5>2 DEF Delivered
        <4> QED
          BY <4>2, <4>9, <4>10, <4>14, <4>15
      <3> QED
        BY <3>1, <3>2
    <2>6. OneDrawer'
      BY <1>1, <2>4 DEF OneDrawer, storeVars
    <2>7. Learned(w)'
      BY <1>1, <1>2, <1>4, <2>1, <2>2, <2>5, AppliedKnows
    <2>8. r.pc # "settle" /\ r.pc # "ack"
      BY <2>2, <2>3
    <2> QED
      BY <1>1, <1>2, <1>4, <2>1, <2>2, <2>5, <2>6, <2>7, <2>8, ApplyRenders
  <1> QED
    BY <1>5, <1>6

LEMMA ApplyStepsRender ==
    ASSUME WorkersInv, WorkersInv', RenderInv, NEW w \in Workers, ApplySteps(w)
    PROVE  RenderInv'
  BY ApplyIntentRenders, FindPreviousRenders, ArchivePreviousRenders, FindCurrentRenders,
     PutDrawerRenders, MarksRender, LookKgRenders, AddKgRenders, EndKgRenders DEF ApplySteps

LEMMA RenderInit == Init => RenderInv
  <1> SUFFICES ASSUME Init
               PROVE  RenderInv
    OBVIOUS
  <1>1. PICK s \in Scenarios :
            /\ LedgerInit
            /\ said = s.said
            /\ status = [m \in Msgs |->
                   IF m \notin said \/ (m \in Forgets /\ ForgetOf[m].by = "id")
                   THEN "unsent" ELSE "queued"]
            /\ applied = {} /\ drawers = {} /\ archived = {} /\ rows = {} /\ closed = {}
            /\ work = [w \in Workers |-> Idle]
    BY DEF Init
  <1>2. \A w \in Workers : work[w].pc = "idle" /\ ~work[w].failed /\ work[w].cids = {}
    BY <1>1 DEF Idle
  <1>3. \A c \in Cids : Shelved(c)
    BY <1>1, CommitmentConstants
       DEF Shelved, LedgerInit, NoRecord, NoRevision, Active, ActiveStatus
  <1>4. OneDrawer /\ Attributed
    BY <1>1 DEF OneDrawer, Attributed, LedgerInit, NoRevision, Msgs
  <1>5. \A w \in Workers : Learned(w)
    BY <1>2 DEF Learned, At, Applying, ApplyPcs, CidsPcs
  <1>6. \A i \in Intents : ~Settling(i)
    BY <1>1, <1>2 DEF Settling, At, Msgs
  <1> QED
    BY <1>3, <1>4, <1>5, <1>6 DEF RenderInv

LEMMA RenderNext == WorkersInv /\ WorkersInv' /\ RenderInv /\ [Next]_vars => RenderInv'
  <1> SUFFICES ASSUME WorkersInv, WorkersInv', RenderInv, [Next]_vars
               PROVE  RenderInv'
    OBVIOUS
  <1>1. ASSUME NEW w \in Workers, Step(w)
        PROVE  RenderInv'
    BY <1>1, TakeRenders, StartRenders, ApplyStepsRender, ForgetStepsRender, SettleRenders,
       FinishRenders DEF Step
  <1>2. ASSUME UNCHANGED vars
        PROVE  RenderInv'
    <2>1. UNCHANGED <<commitments, revisions, tombstones, status, applied, drawers, archived, rows,
                      closed, work>>
      BY <1>2 DEF vars, ledgerVars, queueVars, storeVars
    <2>2. \A c : /\ Active(c)' = Active(c) /\ Exists(c)' = Exists(c)
                 /\ Forgotten(c)' = Forgotten(c) /\ ReadsApart(c)' = ReadsApart(c)
                 /\ \A n : RevisionDrawers(c, n)' = RevisionDrawers(c, n)
      BY <2>1 DEF Active, Exists, Forgotten, ReadsApart, RevisionDrawers
    <2>3. \A c : /\ Superseded(c)' = Superseded(c) /\ Drawn(c)' = Drawn(c)
                 /\ Stated(c)' = Stated(c) /\ Rendered(c)' = Rendered(c)
      BY <2>1, <2>2 DEF Rendered, Superseded, Drawn, Stated
    <2>4. \A c : Shelved(c)' = Shelved(c)
      BY <2>1, <2>2 DEF Shelved
    <2>5. OneDrawer' = OneDrawer /\ Attributed' = Attributed
      BY <2>1, <2>2 DEF OneDrawer, Attributed
    <2>6. \A w : Learned(w)' = Learned(w)
      <3>1. \A w : /\ Msg(w)' = Msg(w) /\ Cid(w)' = Cid(w) /\ Row(w)' = Row(w)
                   /\ \A p : At(w, p)' = At(w, p)
        BY <2>1 DEF At, Msg, Cid, Row
      <3>2. \A w, c : Progress(w, c)' = Progress(w, c)
        BY <2>1, <2>2, <2>3, <3>1 DEF Progress
      <3> QED
        BY <2>1, <2>2, <3>1, <3>2 DEF Learned
    <2>7. \A i : Settling(i)' = Settling(i)
      BY <2>1 DEF Settling, At, Msg
    <2>8. \A i, c : Delivered(i, c)' = Delivered(i, c)
      BY <2>1, <2>2, <2>3 DEF Delivered
    <2> QED
      BY <2>2, <2>4, <2>5, <2>6, <2>7, <2>8 DEF RenderInv
  <1> QED
    BY <1>1, <1>2, FailRenders, CrashRenders, PublishRenders DEF Next, IdlePoll

\* What the command worker has written of the current revision of a promise
\* nobody asked to forget is in the stores, and each intent that was
\* acknowledged has left both as the ledger says, whatever crashed or failed in
\* between.
THEOREM CommitmentsRendered == Spec => []RenderInv
  <1>1. Init => WorkersInv /\ RenderInv
    BY WorkersInit, RenderInit
  <1>2. WorkersInv /\ RenderInv /\ [Next]_vars => (WorkersInv /\ RenderInv)'
    BY WorkersNext, RenderNext
  <1> QED
    BY <1>1, <1>2, PTL DEF Spec

\* A commitment is never answered from a stale rendering: while it is open and
\* nobody has asked to forget it, a mark that says projected is backed by a
\* recallable drawer of the current revision, and by its open statement.
THEOREM WorkersCurrentBacked == Spec => []CurrentBacked
  <1>1. RenderInv => CurrentBacked
    <2> SUFFICES ASSUME RenderInv, NEW c \in Cids, Active(c), ~Forgotten(c)
                 PROVE  /\ commitments[c].proj["drawer"] = "projected"
                           => \E d \in Recallable(c) : d.revision = commitments[c].revision
                        /\ commitments[c].proj["kg"] = "projected" /\ ReadsApart(c)
                           => c \in rows \ closed
      BY DEF CurrentBacked
    <2>1. Shelved(c)
      BY DEF RenderInv
    <2> QED
      BY <2>1 DEF Shelved, RevisionDrawers, Recallable
  <1> QED
    BY <1>1, CommitmentsRendered, PTL


----------------------------------------------------------------------------
(* What is left of a forgotten commitment, when one worker handles what is  *)
(* said.                                                                    *)
(*                                                                          *)
(* Every step leaves less of a forgotten commitment than there was, and     *)
(* what a mark in its tombstone says is gone stays gone.  As long as a mark *)
(* is missing, or something remains after a delete, a message that will be  *)
(* delivered again owes the rest: it is queued, or dead, or the worker that *)
(* holds it has yet to reach the end of the forget.                         *)

\* The tombstone counts the revisions of every drawer there is.
Covered(c) == \A d \in drawers : d.cid = c => d.revision \in 1 .. tombstones[c].revision_count

\* What the marks of the tombstone say.
Marked(c) ==
    /\ tombstones[c].proj["kg"] = "projected" => c \notin rows \ closed
    /\ tombstones[c].proj["drawer"] = "projected" => Recallable(c) = {}

\* A command names the commitment.
Names(m, c) ==
    \/ ForgetOf[m].by = "id" /\ ForgetOf[m].cid = c
    \/ ForgetOf[m].by = "source" /\ revisions[ForgetOf[m].source].cid = c

\* Command m has yet to carry the forget of c to its end.
Unfinished(r, c) ==
    r.failed \/ r.pc \in {"start", "resolve"} \/ (r.pc \in CidsPcs /\ c \in r.cids)
Owes(m, c) ==
    /\ Names(m, c) /\ m \notin applied
    /\ \/ status[m] \in {"queued", "dead"}
       \/ \E w \in Workers : Msg(w) = m /\ Unfinished(work[w], c)

\* Neither the record nor anything in the stores is left.
Gone(c) == ~Exists(c) /\ c \notin rows /\ \A d \in drawers : d.cid # c

Remembered(c) ==
    IF Forgotten(c)
    THEN /\ Covered(c) /\ Marked(c)
         /\ tombstones[c].proj # AllProjected => \E m \in Forgets : Owes(m, c)
         /\ tombstones[c].action = "delete" /\ ~Softened(c) /\ ~Gone(c)
                => \E m \in Forgets : ForgetOf[m].hard /\ Owes(m, c)
    ELSE tombstones[c].proj = AllPending

\* How far the worker of a forget has come with its commitment.
Reached(w, c) ==
    /\ work[w].count = tombstones[c].revision_count
    /\ Hard(w) => tombstones[c].action = "delete"
    /\ At(w, "redact") => work[w].sources = RevisionsOf(c)
    /\ ~At(w, "redact") /\ tombstones[c].action = "delete" => RevisionsOf(c) \subseteq redacted
    /\ work[w].pc \notin {"redact", "forget_kg"} => c \notin rows \ closed /\ (Hard(w) => c \notin rows)
    /\ At(w, "forget_drawers") => \A d \in drawers : d.cid = c => d \in work[w].seen
    /\ work[w].pc \in {"forget_drawer_mark", "finalize", "checkpoint"}
           => Recallable(c) = {} /\ (Hard(w) => \A d \in drawers : d.cid # c)
    /\ work[w].pc \in {"scan", "forget_drawers", "forget_drawer_mark", "finalize", "checkpoint"}
           => tombstones[c].proj["kg"] = "projected"
    /\ work[w].pc \in {"finalize", "checkpoint"} => tombstones[c].proj["drawer"] = "projected"
    /\ At(w, "checkpoint") /\ Hard(w) => ~Exists(c)

Erasing(w, c) ==
    /\ Msg(w) \notin applied
    /\ \A d \in work[w].cids : d = c
    /\ ~At(w, "checkpoint") => Names(Msg(w), c)
    /\ ~At(w, "begin") => Reached(w, c)

Erases(w) ==
    /\ OnTurn(Msg(w)) => work[w].cids = {}
    /\ work[w].pc \in Applying => ~Forgotten(Cid(w))
    /\ At(w, "resolve") /\ ~OnTurn(Msg(w)) => Msg(w) \notin applied
    /\ work[w].pc \in CidsPcs => \A c \in work[w].cids : Erasing(w, c)

\* An intent that is done with has its revision, unless that was erased.
Accounted(i) == Settling(i) => revisions[i].cid = IntentOf[i].cid \/ i \in redacted

\* Only what is said is sent, to the worker that handles it.
Sent == \A m \in Msgs : status[m] # "unsent" => m \in said
Alone == \A v, w \in Workers : v = w \/ At(v, "idle") \/ At(w, "idle")

EraseInv ==
    /\ Sent /\ Alone
    /\ \A c \in Cids : Remembered(c)
    /\ \A w \in Workers : Erases(w)
    /\ \A i \in Intents : Accounted(i)

\* Less is left of commitment c.
Fewer(c) ==
    /\ \A d \in drawers' : d.cid = c => d \in drawers /\ (d \in archived => d \in archived')
    /\ c \in rows' => c \in rows /\ (c \in closed => c \in closed')
    /\ Exists(c)' => Exists(c)

\* Command m need not come back for commitment c.
Excused(m, c) ==
    tombstones[c].proj = AllProjected /\ (ForgetOf[m].hard => Gone(c)' \/ Softened(c))

LEMMA RememberedSame ==
    ASSUME NEW c \in Cids, Remembered(c), tombstones'[c] = tombstones[c], said' = said,
           Forgotten(c) => Fewer(c),
           \A m \in Forgets : Forgotten(c) /\ Owes(m, c) => Owes(m, c)' \/ Excused(m, c)
    PROVE  Remembered(c)'
  <1>1. (Forgotten(c)' <=> Forgotten(c)) /\ (Softened(c)' <=> Softened(c))
    BY DEF Forgotten, Softened
  <1>2. CASE ~Forgotten(c)
    BY <1>1, <1>2 DEF Remembered
  <1>3. CASE Forgotten(c)
    <2>1. Fewer(c) /\ Covered(c) /\ Marked(c)
      BY <1>3 DEF Remembered
    <2>2. Covered(c)'
      BY <2>1 DEF Covered, Fewer
    <2>3. Marked(c)'
      BY <2>1 DEF Marked, Fewer, Recallable
    <2>4. Gone(c) => Gone(c)'
      BY <2>1 DEF Gone, Fewer
    <2>5. ASSUME tombstones[c].proj # AllProjected
          PROVE  \E m \in Forgets : Owes(m, c)'
      BY <1>3, <2>5 DEF Remembered, Excused
    <2>6. ASSUME tombstones[c].action = "delete", ~Softened(c), ~Gone(c)'
          PROVE  \E m \in Forgets : ForgetOf[m].hard /\ Owes(m, c)'
      BY <1>3, <2>4, <2>6 DEF Remembered, Excused
    <2> QED
      BY <1>1, <1>3, <2>2, <2>3, <2>5, <2>6 DEF Remembered
  <1> QED
    BY <1>2, <1>3

\* A worker that goes on and is not at the end of the forget still owes it.
LEMMA OwesKept ==
    ASSUME WorkersInv, NEW w \in Workers, NEW r, work' = [work EXCEPT ![w] = r], r.msg = Msg(w),
           status' = status, applied' = applied, NEW m, NEW c, Owes(m, c), Names(m, c)',
           m = Msg(w) /\ Unfinished(work[w], c) => Unfinished(r, c)
    PROVE  Owes(m, c)'
  <1>1. \A v \in Workers : work'[v] = IF v = w THEN r ELSE work[v]
    BY DEF WorkersInv, Working
  <1>2. CASE status[m] \in {"queued", "dead"}
    BY <1>2 DEF Owes
  <1>3. CASE \E v \in Workers : Msg(v) = m /\ Unfinished(work[v], c)
    <2>1. PICK v \in Workers : Msg(v) = m /\ Unfinished(work[v], c)
      BY <1>3
    <2>2. work'[v].msg = m /\ Unfinished(work'[v], c)
      BY <1>1, <2>1 DEF Msg
    <2> QED
      BY <2>2 DEF Owes, Msg
  <1> QED
    BY <1>2, <1>3 DEF Owes

\* What the other workers know is nothing: there is no other.
LEMMA EraseStep ==
    ASSUME WorkersInv, WorkersInv', EraseInv, NEW w \in Workers, ~At(w, "idle"), NEW r,
           work' = [work EXCEPT ![w] = r], status' = status, said' = said,
           \A c \in Cids : Remembered(c)', Erases(w)', \A i \in Intents : Accounted(i)'
    PROVE  EraseInv'
  <1>1. \A v \in Workers : work'[v] = IF v = w THEN r ELSE work[v]
    BY DEF WorkersInv, Working
  <1>2. \A v \in Workers : v # w => At(v, "idle") /\ At(v, "idle")'
    BY <1>1 DEF EraseInv, Alone, At
  <1>3. ASSUME NEW v \in Workers, v # w
        PROVE  Erases(v)'
    <2>1. work'[v] = work[v] /\ work[v].pc = "idle" /\ work[v].msg = NoMsg
      BY <1>1, <1>2, <1>3 DEF At, WorkersInv, Working, Fits
    <2>2. ~OnTurn(NoMsg)
      BY WorkerConstants DEF OnTurn, Msgs
    <2> QED
      BY <2>1, <2>2 DEF Erases, At, Msg, Applying, ApplyPcs, CidsPcs
  <1>4. Alone' /\ Sent'
    BY <1>2 DEF EraseInv, Alone, Sent
  <1> QED
    BY <1>3, <1>4 DEF EraseInv

\* On a turn there is nothing to forget: what is said is said on turns, and no
\* promise was made.
LEMMA NothingOnTurn ==
    ASSUME WorkersInv, RenderInv, EraseInv, OneWorker, NEW w \in Workers, OnTurn(Msg(w)),
           NEW c \in Cids
    PROVE  ~Exists(c)
  <1> SUFFICES ASSUME Exists(c)
               PROVE  FALSE
    OBVIOUS
  <1>1. PICK i \in RevisionsOf(c) : TRUE
    BY DEF WorkersInv, CommitmentInv, HistoryLegal
  <1>2. i \in Intents /\ revisions[i].cid # NoCid
    BY <1>1, CommitmentConstants DEF RevisionsOf
  <1>3. i \in said /\ i \notin Forgets
    BY <1>2, WorkerConstants DEF RenderInv, Attributed, EraseInv, Sent, Msgs
  <1>4. Msg(w) \in Msgs /\ Msg(w) # NoMsg
    BY WorkerConstants DEF OnTurn, Msgs
  <1>5. Msg(w) \in said
    BY <1>4 DEF EraseInv, Sent, WorkersInv, Working
  <1> QED
    BY <1>3, <1>5 DEF OneWorker, WorkerOf, OnTurn

----------------------------------------------------------------------------
(* Applying an intent.                                                      *)

\* A step of the worker of an intent concerns no forgotten commitment.
LEMMA ApplyErases ==
    ASSUME WorkersInv, WorkersInv', EraseInv, NEW w \in Workers, Msg(w) \in Intents, ~At(w, "idle"),
           NEW r, work' = [work EXCEPT ![w] = r], r.msg = Msg(w),
           status' = status, applied' = applied, said' = said, redacted' = redacted,
           tombstones' = tombstones, r.pc \in ApplyPcs \cup {"settle", "reject"},
           r.pc \in Applying => ~Forgotten(Cid(w)),
           \A c \in Cids : Forgotten(c) => Fewer(c),
           \A i \in Intents : revisions'[i] = revisions[i] \/ revisions[i].cid = NoCid,
           r.pc = "settle" /\ ~r.failed => revisions'[Msg(w)].cid = Cid(w)
    PROVE  EraseInv'
  <1>1. \A v \in Workers : work'[v] = IF v = w THEN r ELSE work[v]
    BY DEF WorkersInv, Working
  <1>2. Msg(w) \notin Forgets
    BY WorkerConstants
  <1>3. ASSUME NEW c \in Cids
        PROVE  Remembered(c)'
    <2>1. ASSUME NEW m \in Forgets, Owes(m, c)
          PROVE  Owes(m, c)'
      <3>1. Names(m, c)'
        <4>1. ForgetOf[m].by = "source" => ForgetOf[m].source \in Intents
          BY WorkerConstants
        <4> QED
          BY <2>1, <4>1, CommitmentConstants DEF Owes, Names
      <3>2. m # Msg(w)
        BY <1>2
      <3> QED
        BY <2>1, <3>1, <3>2, OwesKept
    <2>2. Remembered(c) /\ tombstones'[c] = tombstones[c]
      BY DEF EraseInv
    <2> QED
      BY <2>1, <2>2, RememberedSame
  <1>4. Erases(w)'
    <2>1. Msg(w)' = Msg(w) /\ work'[w] = r /\ Cid(w)' = Cid(w)
      BY <1>1 DEF Msg, Cid
    <2>2. ~OnTurn(Msg(w))
      BY <1>2 DEF OnTurn
    <2>3. r.pc \notin CidsPcs /\ r.pc # "resolve"
      BY DEF ApplyPcs, CidsPcs
    <2>4. Forgotten(Cid(w))' <=> Forgotten(Cid(w))
      BY <2>1 DEF Forgotten
    <2> QED
      BY <2>1, <2>2, <2>3, <2>4 DEF Erases, At
  <1>5. ASSUME NEW i \in Intents, Settling(i)'
        PROVE  revisions'[i].cid = IntentOf[i].cid \/ i \in redacted'
    <2>1. CASE i = Msg(w) /\ r.pc = "settle" /\ ~r.failed
      BY <2>1 DEF Cid
    <2>2. CASE ~(i = Msg(w) /\ r.pc = "settle" /\ ~r.failed)
      <3>1. r.pc # "ack"
        BY DEF ApplyPcs
      <3>2. Settling(i)
        BY <1>1, <1>5, <2>2, <3>1 DEF Settling, Msg, At
      <3>3. revisions[i].cid = IntentOf[i].cid \/ i \in redacted
        BY <3>2 DEF EraseInv, Accounted
      <3>4. IntentOf[i].cid # NoCid
        BY CommitmentConstants DEF Intent
      <3> QED
        BY <3>3, <3>4
    <2> QED
      BY <2>1, <2>2
  <1> QED
    BY <1>3, <1>4, <1>5, EraseStep DEF Accounted

\* The record of a worker that goes on, and of one whose call raised.
LEMMA GotoRecord ==
    ASSUME WorkersInv, NEW w \in Workers, NEW p, Goto(w, p)
    PROVE  \E r : /\ work' = [work EXCEPT ![w] = r] /\ r.pc = p /\ r.msg = Msg(w)
                  /\ r.cids = work[w].cids /\ r.failed = work[w].failed /\ r.count = work[w].count
                  /\ r.seen = work[w].seen /\ r.sources = work[w].sources
  <1> DEFINE r == [work[w] EXCEPT !.pc = p]
  <1>1. work[w] \in Work
    BY DEF WorkersInv, Working
  <1>2. /\ r.pc = p /\ r.msg = Msg(w) /\ r.cids = work[w].cids /\ r.failed = work[w].failed
        /\ r.count = work[w].count /\ r.seen = work[w].seen /\ r.sources = work[w].sources
    BY <1>1 DEF Work, Msg
  <1>3. work' = [work EXCEPT ![w] = r]
    BY DEF Goto
  <1> HIDE DEF r
  <1> QED
    BY <1>2, <1>3

LEMMA RaiseRecord ==
    ASSUME WorkersInv, NEW w \in Workers, Raise(w)
    PROVE  \E r : /\ work' = [work EXCEPT ![w] = r] /\ r.pc = "settle" /\ r.msg = Msg(w)
                  /\ r.cids = work[w].cids /\ r.failed
  <1> DEFINE r == [work[w] EXCEPT !.pc = "settle", !.failed = TRUE]
  <1>1. work[w] \in Work
    BY DEF WorkersInv, Working
  <1>2. r.pc = "settle" /\ r.msg = Msg(w) /\ r.cids = work[w].cids /\ r.failed
    BY <1>1 DEF Work, Msg
  <1>3. work' = [work EXCEPT ![w] = r]
    BY DEF Raise
  <1> HIDE DEF r
  <1> QED
    BY <1>2, <1>3

LEMMA ApplyIntentErases ==
    ASSUME WorkersInv, WorkersInv', RenderInv, EraseInv, NEW w \in Workers, ApplyIntent(w)
    PROVE  EraseInv'
  <1>1. /\ At(w, "apply") /\ status' = status /\ applied' = applied /\ UNCHANGED storeVars
        /\ said' = said /\ redacted' = redacted
        /\ work[w].pc \in ApplyPcs /\ ~At(w, "idle")
    BY DEF ApplyIntent, ledgerOnly, queueVars, boundVars, At, ApplyPcs
  <1>2. PICK c \in Cids : c = Cid(w)
    BY <1>1, ApplyingFacts
  <1>3. /\ Msg(w) \in Intents /\ IntentOf[Msg(w)].cid = c /\ work[w] \in Work
    BY <1>1, <1>2, ApplyingFacts DEF WorkersInv, Working
  <1>4. CASE ApplyRaises(Msg(w))
    <2>1. Goto(w, "reject") /\ UNCHANGED ledgerVars
      BY <1>4 DEF ApplyIntent, Reject
    <2>2. PICK r : work' = [work EXCEPT ![w] = r] /\ r.pc = "reject" /\ r.msg = Msg(w)
      BY <2>1, GotoRecord
    <2>3. /\ \A e \in Cids : Fewer(e)
          /\ \A i \in Intents : revisions'[i] = revisions[i]
          /\ tombstones' = tombstones
      BY <1>1, <2>1 DEF Fewer, Exists, ledgerVars, storeVars
    <2> QED
      BY <1>1, <1>3, <2>2, <2>3, ApplyErases DEF Applying, ApplyPcs
  <1>5. CASE ~ApplyRaises(Msg(w))
    <2> DEFINE p == IF commitments'[c].revision > 1 THEN "previous" ELSE "current"
               r == [work[w] EXCEPT !.row = commitments'[c], !.pc = p]
    <2>1. /\ Apply(Msg(w)) /\ work' = [work EXCEPT ![w] = r] /\ ~Forgotten(c)
          /\ tombstones' = tombstones
      BY <1>2, <1>3, <1>5 DEF ApplyIntent, ApplyRaises, Apply
    <2>2. r.pc = p /\ r.msg = Msg(w)
      BY <1>3 DEF Work, Msg
    <2>3. p \in {"previous", "current"}
      OBVIOUS
    <2> HIDE DEF r
    <2>4. /\ \A e \in Cids \ {c} : commitments'[e] = commitments[e]
          /\ \A i \in Intents : revisions'[i] = revisions[i] \/ revisions[i].cid = NoCid
      <3>1. CASE revisions[Msg(w)].cid # NoCid
        BY <2>1, <3>1 DEF Apply
      <3>2. CASE revisions[Msg(w)].cid = NoCid
        <4>1. LedgerTypeOK
          BY DEF WorkersInv, CommitmentInv
        <4> QED
          BY <1>3, <2>1, <3>2, <4>1, ApplyEffect
      <3> QED
        BY <3>1, <3>2
    <2>5. \A e \in Cids : Forgotten(e) => Fewer(e)
      BY <1>1, <2>1, <2>4 DEF Fewer, Exists, storeVars
    <2>6. r.pc \in ApplyPcs /\ r.pc # "settle"
      BY <2>2, <2>3 DEF ApplyPcs
    <2> QED
      BY <1>1, <1>2, <1>3, <2>1, <2>2, <2>4, <2>5, <2>6, ApplyErases
  <1> QED
    BY <1>4, <1>5

\* What the other steps of an intent write: marks of its commitment, a drawer
\* and a statement of its own, and what they end stays ended.
Writes(w) ==
    /\ work[w].pc \in Applying
    /\ status' = status /\ applied' = applied /\ said' = said /\ redacted' = redacted
    /\ tombstones' = tombstones /\ revisions' = revisions
    /\ \A e \in Cids : Exists(e)' => Exists(e)
    /\ \A d \in drawers' : d \in drawers \/ d.cid = Cid(w)
    /\ archived \subseteq archived'
    /\ rows' \subseteq rows \cup {Cid(w)} /\ closed \subseteq closed'
    /\ \E r : /\ work' = [work EXCEPT ![w] = r] /\ r.msg = Msg(w)
              /\ r.pc \in Applying \cup {"settle", "reject"}

LEMMA WritesErase ==
    ASSUME WorkersInv, WorkersInv', RenderInv, EraseInv, NEW w \in Workers, Writes(w)
    PROVE  EraseInv'
  <1>1. work[w].pc \in ApplyPcs /\ ~At(w, "idle")
    BY DEF Writes, Applying, ApplyPcs, At
  <1>2. PICK c \in Cids : c = Cid(w)
    BY <1>1, ApplyingFacts
  <1>3. Msg(w) \in Intents /\ ~Forgotten(c)
    BY <1>1, <1>2, ApplyingFacts DEF EraseInv, Erases, Writes
  <1>4. revisions[Msg(w)].cid = Cid(w)
    BY <1>2, <1>3, Knows DEF Writes, Progress
  <1>5. \A e \in Cids : Forgotten(e) => Fewer(e)
    BY <1>2, <1>3 DEF Fewer, Writes
  <1>6. PICK r : /\ work' = [work EXCEPT ![w] = r] /\ r.msg = Msg(w)
                 /\ r.pc \in Applying \cup {"settle", "reject"}
    BY DEF Writes
  <1>7. r.pc \in ApplyPcs \cup {"settle", "reject"}
    BY <1>6 DEF Applying
  <1> QED
    BY <1>1, <1>2, <1>3, <1>4, <1>5, <1>6, <1>7, ApplyErases DEF Writes

LEMMA LooksWrites ==
    ASSUME WorkersInv, NEW w \in Workers, FindPrevious(w) \/ FindCurrent(w) \/ LookKg(w)
    PROVE  Writes(w)
  <1>1. /\ work[w].pc \in {"previous", "current", "look_kg"}
        /\ UNCHANGED ledgerVars /\ UNCHANGED storeVars
        /\ status' = status /\ applied' = applied /\ said' = said /\ redacted' = redacted
    BY DEF FindPrevious, FindCurrent, LookKg, localOnly, ledgerOnly, queueVars, boundVars, At
  <1>2. work[w] \in Work
    BY DEF WorkersInv, Working
  <1> DEFINE Looked == \E r : /\ work' = [work EXCEPT ![w] = r] /\ r.msg = Msg(w)
                             /\ r.pc \in {"archive", "current", "look_kg", "put_drawer",
                                          "mark_drawer", "add_kg", "end_kg", "mark_kg"}
  <1>3. Looked
    <2>1. ASSUME NEW p, Goto(w, p), p \in {"archive", "current", "look_kg", "put_drawer",
                                           "mark_drawer", "add_kg", "end_kg", "mark_kg"}
          PROVE  Looked
      BY <2>1, GotoRecord
    <2>2. CASE FindPrevious(w)
      <3>1. AfterPrevious(w) \in {"current", "look_kg"}
        BY DEF AfterPrevious
      <3>2. CASE Goto(w, AfterPrevious(w))
        BY <2>1, <3>1, <3>2
      <3>3. ASSUME NEW d, NEW p, p \in {"current", "look_kg", "archive"},
                   work' = [work EXCEPT ![w] = [@ EXCEPT !.seen = {d}, !.pc = p]]
            PROVE  Looked
        <4> DEFINE r == [work[w] EXCEPT !.seen = {d}, !.pc = p]
        <4>1. r.pc = p /\ r.msg = Msg(w)
          BY <1>2 DEF Work, Msg
        <4>2. work' = [work EXCEPT ![w] = r]
          BY <3>3
        <4> HIDE DEF r
        <4> QED
          BY <3>3, <4>1, <4>2
      <3> QED
        BY <2>2, <3>1, <3>2, <3>3 DEF FindPrevious
    <2>3. CASE FindCurrent(w)
      BY <2>1, <2>3 DEF FindCurrent
    <2>4. CASE LookKg(w)
      <3>1. Goto(w, "add_kg") \/ Goto(w, "end_kg") \/ Goto(w, "mark_kg")
        BY <2>4 DEF LookKg
      <3> QED
        BY <2>1, <3>1
    <2> QED
      BY <2>2, <2>3, <2>4
  <1> QED
    BY <1>1, <1>3 DEF Writes, Applying, ApplyPcs, ledgerVars, storeVars, Exists

LEMMA StoresWrites ==
    ASSUME WorkersInv, NEW w \in Workers, ArchivePrevious(w) \/ PutDrawer(w) \/ AddKg(w) \/ EndKg(w)
    PROVE  Writes(w)
  <1>1. /\ work[w].pc \in {"archive", "put_drawer", "add_kg", "end_kg"} /\ UNCHANGED ledgerVars
        /\ status' = status /\ applied' = applied /\ said' = said /\ redacted' = redacted
    BY DEF ArchivePrevious, PutDrawer, AddKg, EndKg, storeOnly, queueVars, boundVars, At
  <1>2. /\ \A d \in drawers' : d \in drawers \/ d.cid = Cid(w)
        /\ archived \subseteq archived'
        /\ rows' \subseteq rows \cup {Cid(w)} /\ closed \subseteq closed'
    BY DEF ArchivePrevious, ArchiveDrawers, PutDrawer, AddKg, AddTriple, EndKg
  <1>3. \E r : /\ work' = [work EXCEPT ![w] = r] /\ r.msg = Msg(w)
               /\ r.pc \in {"current", "look_kg", "settle", "mark_drawer", "mark_kg"}
    <2>1. Raise(w) \/ Goto(w, "current") \/ Goto(w, "look_kg") \/ Goto(w, "mark_drawer")
          \/ Goto(w, "mark_kg")
      BY DEF ArchivePrevious, PutDrawer, AddKg, EndKg, AfterPrevious
    <2> QED
      BY <2>1, GotoRecord, RaiseRecord
  <1> QED
    BY <1>1, <1>2, <1>3 DEF Writes, Applying, ApplyPcs, ledgerVars, Exists

LEMMA MarkWrites ==
    ASSUME WorkersInv, NEW w \in Workers, NEW pc \in {"mark_drawer", "mark_kg", "mark_ended"},
           NEW T, NEW next, next \in {"look_kg", "mark_ended", "settle"}, Mark(w, pc, T, next)
    PROVE  Writes(w)
  <1>2. /\ work[w].pc = pc /\ status' = status /\ applied' = applied /\ UNCHANGED storeVars
        /\ said' = said /\ redacted' = redacted
    BY DEF Mark, ledgerOnly, queueVars, boundVars, At
  <1>3. Goto(w, "reject") \/ Goto(w, next)
    BY DEF Mark, Reject
  <1>4. \E r : /\ work' = [work EXCEPT ![w] = r] /\ r.msg = Msg(w)
               /\ r.pc \in {"look_kg", "mark_ended", "settle", "reject"}
    BY <1>3, GotoRecord
  <1>5. tombstones' = tombstones /\ revisions' = revisions
    BY DEF Mark, MarkProjected, ledgerVars
  <1>6. \A e \in Cids : commitments'[e].status = commitments[e].status
    <2>1. CASE UNCHANGED ledgerVars
      BY <2>1 DEF ledgerVars
    <2>2. CASE MarkProjected(Cid(w), Row(w).revision, T)
      <3> DEFINE q == [commitments[Cid(w)] EXCEPT !.proj = SetProj(commitments[Cid(w)].proj, T)]
      <3>1. commitments' = [commitments EXCEPT ![Cid(w)] = q]
        BY <2>2 DEF MarkProjected
      <3>2. commitments \in [Cids -> Record] /\ Cid(w) \in Cids
        BY <1>2, ApplyingFacts DEF WorkersInv, CommitmentInv, LedgerTypeOK, ApplyPcs
      <3>3. q.status = commitments[Cid(w)].status
        BY <3>2 DEF Record
      <3> HIDE DEF q
      <3> QED
        BY <3>1, <3>2, <3>3
    <2> QED
      BY <2>1, <2>2 DEF Mark
  <1> QED
    BY <1>2, <1>4, <1>5, <1>6 DEF Writes, Applying, ApplyPcs, storeVars, Exists

LEMMA MarksWrites ==
    ASSUME WorkersInv, NEW w \in Workers, MarkDrawer(w) \/ MarkKg(w) \/ MarkEnded(w)
    PROVE  Writes(w)
  <1>1. CASE MarkDrawer(w)
    BY <1>1, MarkWrites DEF MarkDrawer
  <1>2. CASE MarkKg(w)
    BY <1>2, MarkWrites DEF MarkKg
  <1>3. CASE MarkEnded(w)
    BY <1>3, MarkWrites DEF MarkEnded
  <1> QED
    BY <1>1, <1>2, <1>3

LEMMA ApplyStepsErase ==
    ASSUME WorkersInv, WorkersInv', RenderInv, EraseInv, NEW w \in Workers, ApplySteps(w)
    PROVE  EraseInv'
  BY ApplyIntentErases, WritesErase, LooksWrites, StoresWrites, MarksWrites DEF ApplySteps

----------------------------------------------------------------------------
(* Taking and settling a message.                                           *)

LEMMA PublishErases ==
    ASSUME WorkersInv, WorkersInv', EraseInv, NEW m \in Msgs, Publish(m)
    PROVE  EraseInv'
  <1>1. /\ m \in said /\ status[m] = "unsent" /\ status' = [status EXCEPT ![m] = "queued"]
        /\ UNCHANGED ledgerVars /\ UNCHANGED storeVars /\ applied' = applied /\ work' = work
        /\ said' = said /\ redacted' = redacted
    BY DEF Publish, boundVars
  <1>2. \A n \in Msgs : status'[n] = IF n = m THEN "queued" ELSE status[n]
    BY <1>1 DEF WorkersInv, QueuesOK
  <1>3. ASSUME NEW c \in Cids
        PROVE  Remembered(c)'
    <2>1. ASSUME NEW n \in Forgets, Owes(n, c)
          PROVE  Owes(n, c)'
      BY <1>1, <1>2, <2>1 DEF Owes, Names, Msg, ledgerVars, Msgs
    <2>2. Remembered(c) /\ Fewer(c) /\ tombstones'[c] = tombstones[c]
      BY <1>1 DEF EraseInv, Fewer, Exists, ledgerVars, storeVars
    <2> QED
      BY <1>1, <2>1, <2>2, RememberedSame
  <1>4. ASSUME NEW i \in Intents, Settling(i)'
        PROVE  Settling(i)
    BY <1>1, <1>2, <1>4 DEF Settling, Msg, At, Msgs
  <1>5. \A i \in Intents : Accounted(i)'
    BY <1>1, <1>4 DEF EraseInv, Accounted, ledgerVars
  <1>6. Sent' /\ Alone'
    BY <1>1, <1>2 DEF EraseInv, Sent, Alone, At
  <1>7. \A w \in Workers : Erases(w)'
    BY <1>1 DEF EraseInv, Erases, Erasing, Reached, Names, Hard, Recallable, Exists, Forgotten,
           RevisionsOf, At, Msg, Cid, ledgerVars, storeVars
  <1> QED
    BY <1>3, <1>5, <1>6, <1>7 DEF EraseInv

LEMMA TakeErases ==
    ASSUME WorkersInv, WorkersInv', EraseInv, OneWorker, NEW w \in Workers, NEW m \in Msgs, Take(w, m)
    PROVE  EraseInv'
  <1> DEFINE r == [Idle EXCEPT !.pc = "start", !.msg = m]
  <1>1. /\ At(w, "idle") /\ status[m] = "queued" /\ WorkerOf(m) = w
        /\ work' = [work EXCEPT ![w] = r] /\ status' = [status EXCEPT ![m] = "held"]
        /\ UNCHANGED ledgerVars /\ UNCHANGED storeVars /\ applied' = applied
        /\ said' = said /\ redacted' = redacted
    BY DEF Take, boundVars
  <1>2. r.pc = "start" /\ r.msg = m /\ r.cids = {} /\ ~r.failed
    BY DEF Idle
  <1> HIDE DEF r
  <1>3. /\ \A n \in Msgs : status'[n] = IF n = m THEN "held" ELSE status[n]
        /\ \A v \in Workers : work'[v] = IF v = w THEN r ELSE work[v]
    BY <1>1 DEF WorkersInv, QueuesOK, Working
  <1>4. Msg(w) = NoMsg /\ NoMsg \notin Msgs
    BY <1>1, WorkerConstants DEF WorkersInv, Working, Fits, Msg, At
  <1>5. ASSUME NEW v \in Workers, v # w
        PROVE  At(v, "idle") /\ work'[v].pc = "idle" /\ work'[v].cids = work[v].cids
               /\ work'[v].msg = NoMsg
    <2>1. ASSUME Msg(v) # NoMsg
          PROVE  FALSE
      <3>1. Msg(v) \in Msgs /\ status[Msg(v)] = "held" /\ WorkerOf(Msg(v)) = v
        BY <2>1 DEF WorkersInv, Working, Fits, Work, Msg
      <3>2. Msg(v) \in said /\ m \in said
        BY <1>1, <3>1 DEF EraseInv, Sent
      <3> QED
        BY <1>1, <1>5, <3>1, <3>2 DEF OneWorker
    <2> QED
      BY <1>3, <1>5, <2>1 DEF WorkersInv, Working, Fits, Msg, At
  <1>6. ASSUME NEW c \in Cids
        PROVE  Remembered(c)'
    <2>1. ASSUME NEW n \in Forgets, Owes(n, c)
          PROVE  Owes(n, c)'
      <3>1. Names(n, c)' /\ n \notin applied' /\ n \in Msgs
        BY <1>1, <2>1 DEF Owes, Names, ledgerVars, Msgs
      <3>2. CASE n = m
        <4>1. work'[w].msg = n /\ Unfinished(work'[w], c)
          BY <1>2, <1>3, <3>2 DEF Unfinished
        <4> QED
          BY <3>1, <4>1 DEF Owes, Msg
      <3>3. CASE n # m
        <4>1. CASE status[n] \in {"queued", "dead"}
          BY <1>3, <3>1, <3>3, <4>1 DEF Owes
        <4>2. ASSUME NEW v \in Workers, Msg(v) = n, Unfinished(work[v], c)
              PROVE  Owes(n, c)'
          <5>1. v # w /\ work'[v] = work[v]
            BY <1>3, <1>4, <3>1, <4>2
          <5> QED
            BY <3>1, <4>2, <5>1 DEF Owes, Msg
        <4> QED
          BY <2>1, <4>1, <4>2 DEF Owes
      <3> QED
        BY <3>2, <3>3
    <2>2. Remembered(c) /\ Fewer(c) /\ tombstones'[c] = tombstones[c]
      BY <1>1 DEF EraseInv, Fewer, Exists, ledgerVars, storeVars
    <2> QED
      BY <1>1, <2>1, <2>2, RememberedSame
  <1>7. ASSUME NEW i \in Intents, Settling(i)'
        PROVE  Settling(i)
    BY <1>1, <1>2, <1>3, <1>7 DEF Settling, Msg, At, Msgs
  <1>8. \A i \in Intents : Accounted(i)'
    BY <1>1, <1>7 DEF EraseInv, Accounted, ledgerVars
  <1>9. Sent' /\ Alone'
    BY <1>1, <1>3, <1>5 DEF EraseInv, Sent, Alone, At
  <1>10. ASSUME NEW v \in Workers
         PROVE  Erases(v)'
    <2>1. work'[v].pc \in {"idle", "start"}
      BY <1>2, <1>3, <1>5
    <2>2. OnTurn(work'[v].msg) => work'[v].cids = {}
      BY <1>2, <1>3, <1>4, <1>5 DEF OnTurn, Msgs
    <2> QED
      BY <2>1, <2>2 DEF Erases, At, Msg, Applying, ApplyPcs, CidsPcs
  <1> QED
    BY <1>6, <1>8, <1>9, <1>10 DEF EraseInv

\* A worker lets go of its message.
LEMMA EndErases ==
    ASSUME WorkersInv, WorkersInv', EraseInv, NEW w \in Workers, ~At(w, "idle"), NEW s,
           s # "unsent", work' = [work EXCEPT ![w] = Idle], status' = [status EXCEPT ![Msg(w)] = s],
           UNCHANGED ledgerVars, UNCHANGED storeVars, applied' = applied, said' = said,
           redacted' = redacted,
           \A c \in Cids : Msg(w) \in Forgets /\ Owes(Msg(w), c) => s \in {"queued", "dead"},
           s = "acked" /\ Msg(w) \in Intents => Settling(Msg(w))
    PROVE  EraseInv'
  <1>1. Msg(w) \in Msgs /\ Msg(w) # NoMsg /\ status[Msg(w)] = "held"
    BY DEF WorkersInv, Working, Fits, Work, Msg, At
  <1>2. /\ \A n \in Msgs : status'[n] = IF n = Msg(w) THEN s ELSE status[n]
        /\ \A v \in Workers : work'[v] = IF v = w THEN Idle ELSE work[v]
    BY DEF WorkersInv, QueuesOK, Working
  <1>3. Idle.pc = "idle" /\ Idle.msg = NoMsg /\ Idle.cids = {} /\ NoMsg \notin Msgs
    BY WorkerConstants DEF Idle
  <1>4. \A v \in Workers : work'[v].pc = "idle" /\ work'[v].msg = NoMsg
    BY <1>2, <1>3 DEF EraseInv, Alone, WorkersInv, Working, Fits, At
  <1>5. ASSUME NEW c \in Cids
        PROVE  Remembered(c)'
    <2>1. ASSUME NEW n \in Forgets, Owes(n, c)
          PROVE  Owes(n, c)'
      <3>1. Names(n, c)' /\ n \notin applied' /\ n \in Msgs
        BY <2>1 DEF Owes, Names, ledgerVars, Msgs
      <3>2. CASE n = Msg(w)
        BY <1>2, <2>1, <3>1, <3>2 DEF Owes
      <3>3. CASE n # Msg(w)
        <4>1. ASSUME NEW v \in Workers, Msg(v) = n
              PROVE  FALSE
          <5>1. v # w /\ Msg(v) # NoMsg
            BY <1>3, <3>1, <3>3, <4>1
          <5> QED
            BY <5>1 DEF EraseInv, Alone, WorkersInv, Working, Fits, At, Msg
        <4> QED
          BY <1>2, <2>1, <3>1, <3>3, <4>1 DEF Owes
      <3> QED
        BY <3>2, <3>3
    <2>2. Remembered(c) /\ Fewer(c) /\ tombstones'[c] = tombstones[c]
      BY DEF EraseInv, Fewer, Exists, ledgerVars, storeVars
    <2> QED
      BY <2>1, <2>2, RememberedSame
  <1>6. ASSUME NEW i \in Intents, Settling(i)'
        PROVE  Settling(i)
    <2>1. i \in Msgs
      BY DEF Msgs
    <2> QED
      BY <1>2, <1>3, <1>4, <1>6, <2>1 DEF Settling, Msg, At
  <1>7. \A i \in Intents : Accounted(i)'
    BY <1>6 DEF EraseInv, Accounted, ledgerVars
  <1>8. Sent' /\ Alone'
    <2>1. Msg(w) \in said
      BY <1>1 DEF EraseInv, Sent
    <2> QED
      BY <1>2, <1>4, <2>1 DEF EraseInv, Sent, Alone, At
  <1>9. ASSUME NEW v \in Workers
        PROVE  Erases(v)'
    <2>1. ~OnTurn(work'[v].msg)
      BY <1>3, <1>4 DEF OnTurn, Msgs
    <2> QED
      BY <1>4, <2>1 DEF Erases, At, Msg, Applying, ApplyPcs, CidsPcs
  <1> QED
    BY <1>5, <1>7, <1>8, <1>9 DEF EraseInv

LEMMA FinishErases ==
    ASSUME WorkersInv, WorkersInv', RenderInv, EraseInv, NEW w \in Workers, Ack(w) \/ RejectAck(w)
    PROVE  EraseInv'
  <1>1. PICK s \in {"acked", "rejected"} :
            /\ work' = [work EXCEPT ![w] = Idle] /\ status' = [status EXCEPT ![Msg(w)] = s]
            /\ applied' = applied /\ UNCHANGED ledgerVars /\ UNCHANGED storeVars
            /\ redacted' = redacted /\ said' = said
            /\ work[w].pc = (IF s = "acked" THEN "ack" ELSE "reject")
    BY DEF Ack, RejectAck, Finish, At, boundVars
  <1>2. ~At(w, "idle") /\ work[w].pc \in {"ack", "reject"} /\ Msg(w) # NoMsg
    BY <1>1 DEF At, WorkersInv, Working, Fits, Msg
  <1>3. ~work[w].failed
    BY <1>2 DEF RenderInv, Learned, At
  <1>4. ASSUME NEW c \in Cids, Owes(Msg(w), c)
        PROVE  FALSE
    <2>1. status[Msg(w)] = "held"
      BY <1>2 DEF WorkersInv, Working
    <2>2. PICK v \in Workers : Msg(v) = Msg(w) /\ Unfinished(work[v], c)
      BY <1>4, <2>1 DEF Owes
    <2>3. v = w
      BY <1>2, <2>2 DEF WorkersInv, Working, Fits, Msg
    <2> QED
      BY <1>2, <1>3, <2>2, <2>3 DEF Unfinished, CidsPcs
  <1>5. s = "acked" => Settling(Msg(w))
    BY <1>1, <1>3 DEF Settling, At
  <1> QED
    BY <1>1, <1>2, <1>4, <1>5, EndErases

LEMMA SettleErases ==
    ASSUME WorkersInv, WorkersInv', RenderInv, EraseInv, NEW w \in Workers, Settle(w)
    PROVE  EraseInv'
  <1>1. /\ At(w, "settle") /\ UNCHANGED ledgerVars /\ UNCHANGED storeVars
        /\ redacted' = redacted /\ said' = said
    BY DEF Settle, boundVars
  <1>2. ~At(w, "idle") /\ Msg(w) \in Msgs /\ Msg(w) # NoMsg /\ status[Msg(w)] = "held"
    BY <1>1 DEF WorkersInv, Working, Fits, Work, Msg, At
  <1>3. CASE work[w].failed
    <2>1. PICK s \in {"dead", "queued"} : status' = [status EXCEPT ![Msg(w)] = s]
      BY <1>3 DEF Settle
    <2>2. work' = [work EXCEPT ![w] = Idle] /\ applied' = applied
      BY <1>3 DEF Settle
    <2> QED
      BY <1>1, <1>2, <2>1, <2>2, EndErases
  <1>4. CASE ~work[w].failed
    <2>1. /\ Goto(w, "ack") /\ status' = status
          /\ applied' \in {applied, applied \cup {Msg(w)}}
      BY <1>4 DEF Settle
    <2>2. PICK r : /\ work' = [work EXCEPT ![w] = r] /\ r.pc = "ack" /\ r.msg = Msg(w)
                   /\ r.cids = work[w].cids /\ r.failed = work[w].failed
      BY <2>1, GotoRecord
    <2>3. \A v \in Workers : work'[v] = IF v = w THEN r ELSE work[v]
      BY <2>2 DEF WorkersInv, Working
    <2>4. ASSUME NEW c \in Cids
          PROVE  Remembered(c)'
      <3>1. ASSUME NEW n \in Forgets, Owes(n, c)
            PROVE  Owes(n, c)'
        <4>1. n # Msg(w)
          <5>1. ASSUME n = Msg(w)
                PROVE  FALSE
            <6>1. PICK v \in Workers : Msg(v) = Msg(w) /\ Unfinished(work[v], c)
              BY <1>2, <3>1, <5>1 DEF Owes
            <6>2. v = w
              BY <1>2, <6>1 DEF WorkersInv, Working, Fits, Msg
            <6> QED
              BY <1>1, <1>4, <6>1, <6>2 DEF Unfinished, CidsPcs, At
          <5> QED
            BY <5>1
        <4>2. Names(n, c)' /\ n \notin applied'
          BY <1>1, <2>1, <3>1, <4>1 DEF Owes, Names, ledgerVars
        <4> QED
          BY <2>1, <2>3, <3>1, <4>1, <4>2 DEF Owes, Msg
      <3>2. Remembered(c) /\ Fewer(c) /\ tombstones'[c] = tombstones[c]
        BY <1>1 DEF EraseInv, Fewer, Exists, ledgerVars, storeVars
      <3> QED
        BY <1>1, <3>1, <3>2, RememberedSame
    <2>5. ASSUME NEW i \in Intents, Settling(i)'
          PROVE  Settling(i)
      <3>1. CASE i = Msg(w)
        BY <1>1, <1>4, <3>1 DEF Settling
      <3>2. CASE i # Msg(w)
        BY <2>1, <2>2, <2>3, <2>5, <3>2 DEF Settling, Msg, At
      <3> QED
        BY <3>1, <3>2
    <2>6. \A i \in Intents : Accounted(i)'
      BY <1>1, <2>5 DEF EraseInv, Accounted, ledgerVars
    <2>7. Erases(w)'
      <3>1. OnTurn(Msg(w)) => work[w].cids = {}
        BY DEF EraseInv, Erases
      <3> QED
        BY <2>2, <2>3, <3>1 DEF Erases, At, Msg, Applying, ApplyPcs, CidsPcs
    <2> QED
      BY <1>1, <1>2, <2>1, <2>2, <2>4, <2>6, <2>7, EraseStep
  <1> QED
    BY <1>3, <1>4

LEMMA CrashErases ==
    ASSUME WorkersInv, WorkersInv', EraseInv, Crash
    PROVE  EraseInv'
  <1>1. /\ work' = [w \in Workers |-> Idle]
        /\ status' = [m \in Msgs |-> IF status[m] = "held" THEN "queued" ELSE status[m]]
        /\ UNCHANGED ledgerVars /\ UNCHANGED storeVars /\ applied' = applied
        /\ said' = said /\ redacted' = redacted
    BY DEF Crash
  <1>2. Idle.pc = "idle" /\ Idle.msg = NoMsg /\ Idle.cids = {} /\ NoMsg \notin Msgs
    BY WorkerConstants DEF Idle
  <1>3. ASSUME NEW c \in Cids
        PROVE  Remembered(c)'
    <2>1. ASSUME NEW n \in Forgets, Owes(n, c)
          PROVE  Owes(n, c)'
      <3>1. Names(n, c)' /\ n \notin applied' /\ n \in Msgs
        BY <1>1, <2>1 DEF Owes, Names, ledgerVars, Msgs
      <3>2. status[n] \in {"queued", "dead", "held"}
        BY <2>1, <3>1, <1>2 DEF Owes, WorkersInv, Working
      <3> QED
        BY <1>1, <3>1, <3>2 DEF Owes
    <2>2. Remembered(c) /\ Fewer(c) /\ tombstones'[c] = tombstones[c]
      BY <1>1 DEF EraseInv, Fewer, Exists, ledgerVars, storeVars
    <2> QED
      BY <1>1, <2>1, <2>2, RememberedSame
  <1>4. ASSUME NEW i \in Intents, Settling(i)'
        PROVE  Settling(i)
    BY <1>1, <1>2, <1>4 DEF Settling, Msg, At, Msgs
  <1>5. \A i \in Intents : Accounted(i)'
    BY <1>1, <1>4 DEF EraseInv, Accounted, ledgerVars
  <1>6. Sent' /\ Alone'
    BY <1>1, <1>2 DEF EraseInv, Sent, Alone, At
  <1>7. ASSUME NEW v \in Workers
        PROVE  Erases(v)'
    <2>1. work'[v].pc = "idle" /\ ~OnTurn(work'[v].msg)
      BY <1>1, <1>2 DEF OnTurn, Msgs
    <2> QED
      BY <2>1 DEF Erases, At, Msg, Applying, ApplyPcs, CidsPcs
  <1> QED
    BY <1>3, <1>5, <1>6, <1>7 DEF EraseInv

----------------------------------------------------------------------------
(* Forgetting.                                                              *)

LEMMA ForgetErases ==
    ASSUME WorkersInv, WorkersInv', EraseInv, NEW w \in Workers, Msg(w) \in Forgets,
           ~At(w, "idle"), NEW r, work' = [work EXCEPT ![w] = r], r.msg = Msg(w),
           status' = status, applied' = applied, said' = said, redacted \subseteq redacted',
           \A i \in Intents : revisions'[i] = revisions[i] \/ i \in redacted',
           \A c \in Cids : Remembered(c)',
           OnTurn(Msg(w)) => r.cids = {}, r.pc \notin Applying \cup {"resolve"},
           r.pc \in CidsPcs => \A c \in r.cids : Erasing(w, c)'
    PROVE  EraseInv'
  <1>1. \A v \in Workers : work'[v] = IF v = w THEN r ELSE work[v]
    BY DEF WorkersInv, Working
  <1>2. Msg(w) \notin Intents
    BY WorkerConstants
  <1>3. ASSUME NEW i \in Intents, Settling(i)'
        PROVE  Settling(i)
    BY <1>1, <1>2, <1>3 DEF Settling, Msg, At
  <1>4. \A i \in Intents : Accounted(i)'
    BY <1>3 DEF EraseInv, Accounted
  <1>5. work'[w].pc = r.pc /\ work'[w].cids = r.cids /\ work'[w].msg = Msg(w)
    BY <1>1
  <1>6. Erases(w)'
    BY <1>5 DEF Erases, At, Msg
  <1> QED
    BY <1>4, <1>6, EraseStep

LEMMA FailErases ==
    ASSUME WorkersInv, WorkersInv', RenderInv, EraseInv, NEW w \in Workers, Fail(w)
    PROVE  EraseInv'
  <1>1. /\ Raise(w) /\ status' = status /\ applied' = applied /\ ~At(w, "idle")
        /\ UNCHANGED ledgerVars /\ UNCHANGED storeVars /\ said' = said /\ redacted' = redacted
    BY DEF Fail, queueVars, At
  <1>2. PICK r : /\ work' = [work EXCEPT ![w] = r] /\ r.pc = "settle" /\ r.msg = Msg(w)
                 /\ r.cids = work[w].cids /\ r.failed
    BY <1>1, RaiseRecord
  <1>3. Msg(w) \in Intents \/ Msg(w) \in Forgets
    BY <1>1 DEF WorkersInv, Working, Fits, Work, Msg, At, Msgs
  <1>4. \A e \in Cids : Fewer(e)
    BY <1>1 DEF Fewer, Exists, ledgerVars, storeVars
  <1>5. tombstones' = tombstones /\ revisions' = revisions
    BY <1>1 DEF ledgerVars
  <1>6. CASE Msg(w) \in Intents
    BY <1>1, <1>2, <1>4, <1>5, <1>6, ApplyErases DEF Applying, ApplyPcs
  <1>7. CASE Msg(w) \in Forgets
    <2>1. ASSUME NEW c \in Cids
          PROVE  Remembered(c)'
      <3>1. ASSUME NEW m \in Forgets, Owes(m, c)
            PROVE  Owes(m, c)'
        <4>1. Names(m, c)' /\ Unfinished(r, c)
          BY <1>2, <1>5, <3>1 DEF Owes, Names, Unfinished
        <4> QED
          BY <1>1, <1>2, <3>1, <4>1, OwesKept
      <3>2. Remembered(c) /\ tombstones'[c] = tombstones[c]
        BY <1>5 DEF EraseInv
      <3> QED
        BY <1>1, <1>4, <3>1, <3>2, RememberedSame
    <2>2. OnTurn(Msg(w)) => r.cids = {}
      BY <1>2 DEF EraseInv, Erases
    <2> QED
      BY <1>1, <1>2, <1>5, <1>7, <2>1, <2>2, ForgetErases DEF Applying, ApplyPcs, CidsPcs
  <1> QED
    BY <1>3, <1>6, <1>7

LEMMA ForgetResolveErases ==
    ASSUME WorkersInv, WorkersInv', RenderInv, EraseInv, OneWorker, NEW w \in Workers,
           ForgetResolve(w)
    PROVE  EraseInv'
  <1> DEFINE p == CASE OnTurn(Msg(w)) -> "statements"
                    [] ~OnTurn(Msg(w)) /\ Resolved(w) = {} -> "redact_event"
                    [] OTHER -> "begin"
             r == [work[w] EXCEPT !.cids = Resolved(w), !.pc = p]
  <1>1. /\ At(w, "resolve") /\ ~At(w, "idle") /\ status' = status /\ applied' = applied
        /\ UNCHANGED ledgerVars /\ UNCHANGED storeVars /\ said' = said /\ redacted' = redacted
        /\ work' = [work EXCEPT ![w] = r]
    BY DEF ForgetResolve, localOnly, ledgerOnly, queueVars, boundVars, At
  <1>2. Msg(w) \in Forgets /\ work[w] \in Work /\ ForgetOf[Msg(w)] \in Forget
    BY <1>1, WorkerConstants DEF WorkersInv, Working, Fits, Msg, At, ForgetPcs
  <1>3. r.pc = p /\ r.msg = Msg(w) /\ r.cids = Resolved(w)
    BY <1>2 DEF Work, Msg
  <1>4. /\ p \in {"statements", "redact_event", "begin"}
        /\ p = "begin" => ~OnTurn(Msg(w))
        /\ ~OnTurn(Msg(w)) /\ Resolved(w) # {} => p = "begin"
    OBVIOUS
  <1> HIDE DEF p, r
  <1>5. OnTurn(Msg(w)) => Resolved(w) = {}
    <2> SUFFICES ASSUME OnTurn(Msg(w))
                 PROVE  Resolved(w) = {}
      OBVIOUS
    <2>1. ForgetOf[Msg(w)].by = "turn" /\ ForgetOf[Msg(w)].cid \in Cids
      BY <1>2 DEF OnTurn, Forget
    <2>2. ~Listed(ForgetOf[Msg(w)].cid)
      BY <2>1, NothingOnTurn DEF Listed
    <2> QED
      BY <2>1, <2>2 DEF Resolved
  <1>6. \A c \in Cids : (Names(Msg(w), c) <=> ~OnTurn(Msg(w)) /\ c \in Resolved(w))
    <2> SUFFICES ASSUME NEW c \in Cids
                 PROVE  Names(Msg(w), c) <=> ~OnTurn(Msg(w)) /\ c \in Resolved(w)
      OBVIOUS
    <2>1. ForgetOf[Msg(w)].by \in {"id", "source", "turn"} /\ c # NoCid
      BY <1>2, CommitmentConstants DEF Forget
    <2>2. OnTurn(Msg(w)) <=> ForgetOf[Msg(w)].by = "turn"
      BY <1>2 DEF OnTurn
    <2>3. CASE ForgetOf[Msg(w)].by = "id"
      BY <2>1, <2>2, <2>3 DEF Names, Resolved
    <2>4. CASE ForgetOf[Msg(w)].by = "source"
      BY <2>1, <2>2, <2>4 DEF Names, Resolved
    <2>5. CASE ForgetOf[Msg(w)].by = "turn"
      BY <2>1, <2>2, <2>5 DEF Names, Resolved
    <2> QED
      BY <2>1, <2>3, <2>4, <2>5
  <1>7. ASSUME NEW c \in Cids
        PROVE  Remembered(c)'
    <2>1. ASSUME NEW m \in Forgets, Owes(m, c)
          PROVE  Owes(m, c)'
      <3>1. Names(m, c)' /\ Names(m, c)
        BY <1>1, <2>1 DEF Owes, Names, ledgerVars
      <3>2. m = Msg(w) => Unfinished(r, c)
        BY <1>3, <1>4, <1>6, <3>1 DEF Unfinished, CidsPcs
      <3> QED
        BY <1>1, <1>3, <2>1, <3>1, <3>2, OwesKept
    <2>2. Remembered(c) /\ Fewer(c) /\ tombstones'[c] = tombstones[c]
      BY <1>1 DEF EraseInv, Fewer, Exists, ledgerVars, storeVars
    <2> QED
      BY <1>1, <2>1, <2>2, RememberedSame
  <1>8. ASSUME r.pc \in CidsPcs, NEW c \in r.cids
        PROVE  Erasing(w, c)'
    <2>1. p = "begin" /\ ~OnTurn(Msg(w)) /\ Msg(w) \notin applied
      BY <1>1, <1>3, <1>4, <1>8 DEF CidsPcs, EraseInv, Erases
    <2>2. c \in Cids /\ \A d \in Resolved(w) : d = c
      <3>1. Resolved(w) \in SUBSET Cids
        BY <1>2, ResolvedCids
      <3>2. ForgetOf[Msg(w)].by \in {"id", "source", "turn"}
        BY <1>2 DEF Forget
      <3> QED
        BY <1>3, <1>8, <3>1, <3>2 DEF Resolved
    <2>3. Names(Msg(w), c)
      BY <1>3, <1>6, <1>8, <2>1, <2>2
    <2>4. work'[w] = r /\ Msg(w)' = Msg(w)
      BY <1>1, <1>3 DEF WorkersInv, Working, Msg
    <2>5. Names(Msg(w), c)'
      BY <1>1, <2>3, <2>4 DEF Names, ledgerVars
    <2> QED
      BY <1>1, <1>3, <2>1, <2>2, <2>4, <2>5 DEF Erasing, At
  <1>9. r.pc \notin Applying \cup {"resolve"}
    BY <1>3, <1>4 DEF Applying, ApplyPcs
  <1> QED
    BY <1>1, <1>2, <1>3, <1>5, <1>7, <1>8, <1>9, ForgetErases DEF ledgerVars

\* Steps of a worker that forgets no commitment, or has done so.
LEMMA IdleForgetErases ==
    ASSUME WorkersInv, WorkersInv', EraseInv, NEW w \in Workers, Msg(w) \in Forgets,
           ~At(w, "idle"), UNCHANGED ledgerVars, UNCHANGED storeVars,
           status' = status, applied' = applied, said' = said, redacted \subseteq redacted',
           NEW r, work' = [work EXCEPT ![w] = r], r.msg = Msg(w), r.cids = work[w].cids,
           r.pc \notin Applying \cup CidsPcs \cup {"resolve"},
           \A c \in Cids : Owes(Msg(w), c) => Unfinished(r, c) \/ Excused(Msg(w), c)
    PROVE  EraseInv'
  <1>1. ASSUME NEW c \in Cids
        PROVE  Remembered(c)'
    <2>1. ASSUME NEW m \in Forgets, Owes(m, c)
          PROVE  Owes(m, c)' \/ Excused(m, c)
      <3>1. Names(m, c)'
        BY <2>1 DEF Owes, Names, ledgerVars
      <3>2. m = Msg(w) => Unfinished(r, c) \/ Excused(m, c)
        BY <2>1
      <3> QED
        BY <2>1, <3>1, <3>2, OwesKept
    <2>2. Remembered(c) /\ Fewer(c) /\ tombstones'[c] = tombstones[c]
      BY DEF EraseInv, Fewer, Exists, ledgerVars, storeVars
    <2> QED
      BY <2>1, <2>2, RememberedSame
  <1>2. OnTurn(Msg(w)) => r.cids = {}
    BY DEF EraseInv, Erases
  <1> QED
    BY <1>1, <1>2, ForgetErases DEF ledgerVars

\* A turn, which finds no commitment, and the redaction of the named event.
LEMMA ForgetOthersErase ==
    ASSUME WorkersInv, WorkersInv', RenderInv, EraseInv, NEW w \in Workers,
           ForgetStatements(w) \/ RedactEvent(w)
    PROVE  EraseInv'
  <1>1. /\ work[w].pc \in {"statements", "redact_event"} /\ ~At(w, "idle")
        /\ UNCHANGED ledgerVars /\ UNCHANGED storeVars
        /\ status' = status /\ applied' = applied /\ said' = said /\ redacted \subseteq redacted'
    BY DEF ForgetStatements, RedactEvent, localOnly, ledgerOnly, queueVars, boundVars, At
  <1>2. Msg(w) \in Forgets /\ ~work[w].failed /\ Msg(w) # NoMsg /\ status[Msg(w)] = "held"
    BY <1>1 DEF WorkersInv, Working, Fits, Msg, ForgetPcs, RenderInv, Learned, At
  <1>3. \A c \in Cids : ~Owes(Msg(w), c)
    <2> SUFFICES ASSUME NEW c \in Cids, Owes(Msg(w), c)
                 PROVE  FALSE
      OBVIOUS
    <2>1. PICK v \in Workers : Msg(v) = Msg(w) /\ Unfinished(work[v], c)
      BY <1>2 DEF Owes
    <2>2. v = w
      BY <1>2, <2>1 DEF WorkersInv, Working, Fits, Msg
    <2> QED
      BY <1>1, <1>2, <2>1, <2>2 DEF Unfinished, CidsPcs
  <1>4. Raise(w) \/ Goto(w, "redact_event") \/ Goto(w, "settle")
    <2>1. CASE ForgetStatements(w)
      <3>1. ForgetOf[Msg(w)].by = "turn"
        BY <2>1 DEF ForgetStatements, At, WorkersInv, Working, Fits, Msg
      <3>2. work[w].cids = {}
        BY <1>2, <3>1 DEF EraseInv, Erases, OnTurn
      <3> QED
        BY <2>1, <3>2 DEF ForgetStatements
    <2>2. CASE RedactEvent(w)
      BY <2>2 DEF RedactEvent
    <2> QED
      BY <2>1, <2>2
  <1>5. PICK r : /\ work' = [work EXCEPT ![w] = r] /\ r.pc \in {"redact_event", "settle"}
                 /\ r.msg = Msg(w) /\ r.cids = work[w].cids
    BY <1>4, GotoRecord, RaiseRecord
  <1> QED
    BY <1>1, <1>2, <1>3, <1>5, IdleForgetErases DEF Applying, ApplyPcs, CidsPcs

\* The commitment a worker forgets.
LEMMA Handling ==
    ASSUME WorkersInv, RenderInv, EraseInv, NEW w \in Workers, work[w].pc \in CidsPcs
    PROVE  /\ Msg(w) \in Forgets /\ ~At(w, "idle") /\ ~work[w].failed /\ ~OnTurn(Msg(w))
           /\ Hard(w) \in BOOLEAN /\ Msg(w) \in said
           /\ \E c \in Cids : /\ work[w].cids = {c} /\ Erasing(w, c)
                              /\ ~At(w, "begin") => Forgotten(c)
           /\ \A e \in Cids : Owes(Msg(w), e) => e \in work[w].cids
           /\ \A c \in work[w].cids : Names(Msg(w), c) /\ Msg(w) \notin applied => Owes(Msg(w), c)
  <1>1. /\ Msg(w) \in Forgets /\ work[w].cids \in (SUBSET Cids) \ {{}} /\ ~At(w, "idle")
        /\ Hard(w) \in BOOLEAN
    BY Forgetting
  <1>2. ~work[w].failed /\ (~At(w, "begin") => \A c \in work[w].cids : Forgotten(c))
    BY DEF RenderInv, Learned, At, CidsPcs
  <1>3. ~OnTurn(Msg(w))
    BY <1>1 DEF EraseInv, Erases
  <1>4. Msg(w) # NoMsg /\ status[Msg(w)] = "held" /\ Msg(w) \in said
    BY <1>1, WorkerConstants DEF WorkersInv, Working, EraseInv, Sent, Msgs
  <1>5. PICK c \in Cids : c \in work[w].cids
    BY <1>1
  <1>6. Erasing(w, c) /\ work[w].cids = {c}
    BY <1>5 DEF EraseInv, Erases, Erasing
  <1>7. \A e \in Cids : Owes(Msg(w), e) => e \in work[w].cids
    <2> SUFFICES ASSUME NEW e \in Cids, Owes(Msg(w), e)
                 PROVE  e \in work[w].cids
      OBVIOUS
    <2>1. PICK v \in Workers : Msg(v) = Msg(w) /\ Unfinished(work[v], e)
      BY <1>4 DEF Owes
    <2>2. v = w
      BY <1>4, <2>1 DEF WorkersInv, Working, Fits, Msg
    <2> QED
      BY <1>2, <2>1, <2>2 DEF Unfinished, CidsPcs
  <1>8. \A e \in work[w].cids : Names(Msg(w), e) /\ Msg(w) \notin applied => Owes(Msg(w), e)
    BY DEF Owes, Unfinished
  <1> QED
    BY <1>1, <1>2, <1>3, <1>4, <1>6, <1>7, <1>8

\* A step of a forget that is not its last.
LEMMA ForgettingErases ==
    ASSUME WorkersInv, WorkersInv', RenderInv, EraseInv, NEW w \in Workers, work[w].pc \in CidsPcs,
           NEW c \in Cids, work[w].cids = {c}, NEW r, work' = [work EXCEPT ![w] = r],
           r.msg = Msg(w), r.cids = work[w].cids, r.pc \in CidsPcs,
           status' = status, applied' = applied, said' = said, redacted \subseteq redacted',
           revisions' = revisions,
           \A e \in Cids : e # c => tombstones'[e] = tombstones[e] /\ (Forgotten(e) => Fewer(e)),
           (\A m \in Forgets : Owes(m, c) => Owes(m, c)') => Remembered(c)',
           Erasing(w, c)'
    PROVE  EraseInv'
  <1>1. Msg(w) \in Forgets /\ ~At(w, "idle") /\ ~OnTurn(Msg(w))
        /\ \A e \in Cids : Owes(Msg(w), e) => e \in work[w].cids
    BY Handling
  <1>2. ASSUME NEW e \in Cids, NEW m \in Forgets, Owes(m, e)
        PROVE  Owes(m, e)'
    <2>1. Names(m, e)'
      BY <1>2 DEF Owes, Names
    <2>2. m = Msg(w) => Unfinished(r, e)
      BY <1>1, <1>2 DEF Unfinished
    <2> QED
      BY <1>2, <2>1, <2>2, OwesKept
  <1>3. ASSUME NEW e \in Cids
        PROVE  Remembered(e)'
    <2>1. CASE e = c
      BY <1>2, <2>1
    <2>2. CASE e # c
      BY <1>2, <2>2, RememberedSame DEF EraseInv
    <2> QED
      BY <2>1, <2>2
  <1>4. r.pc \notin Applying \cup {"resolve"}
    BY DEF Applying, ApplyPcs, CidsPcs
  <1> QED
    BY <1>1, <1>3, <1>4, ForgetErases

LEMMA ForgetBeginErases ==
    ASSUME WorkersInv, WorkersInv', RenderInv, EraseInv, NEW w \in Workers, ForgetBegin(w)
    PROVE  EraseInv'
  <1>1. /\ work[w].pc = "begin" /\ work[w].pc \in CidsPcs /\ UNCHANGED storeVars
        /\ status' = status /\ applied' = applied /\ said' = said /\ redacted' = redacted
    BY DEF ForgetBegin, ledgerOnly, queueVars, boundVars, At, CidsPcs
  <1>2. /\ Msg(w) \in Forgets /\ ~At(w, "idle") /\ ~work[w].failed /\ Hard(w) \in BOOLEAN
        /\ work[w] \in Work
    BY <1>1, Handling DEF WorkersInv, Working
  <1>3. PICK c \in Cids : work[w].cids = {c} /\ Erasing(w, c)
    BY <1>1, Handling
  <1>4. Names(Msg(w), c) /\ Msg(w) \notin applied /\ Owes(Msg(w), c)
    BY <1>1, <1>3, Handling DEF Erasing, At
  <1>5. CASE BeginForgetRaises(work[w].cids)
    <2>1. Raise(w) /\ UNCHANGED ledgerVars
      BY <1>5 DEF ForgetBegin
    <2>2. PICK r : /\ work' = [work EXCEPT ![w] = r] /\ r.pc = "settle" /\ r.msg = Msg(w)
                   /\ r.cids = work[w].cids /\ r.failed
      BY <2>1, RaiseRecord
    <2> QED
      BY <1>1, <1>2, <2>1, <2>2, IdleForgetErases DEF Unfinished, Applying, ApplyPcs, CidsPcs
  <1>6. CASE ~BeginForgetRaises(work[w].cids)
    <2>1. BeginForget({c}, Hard(w))
      BY <1>3, <1>6 DEF ForgetBegin
    <2>2. /\ commitments' = commitments /\ revisions' = revisions
          /\ \A e \in Cids : tombstones'[e] = IF e = c THEN TombstoneOf(c, Hard(w)) ELSE tombstones[e]
      BY <2>1 DEF BeginForget
    <2>3. /\ tombstones'[c].action = IF Hard(w) \/ tombstones[c].action = "delete" THEN "delete"
                                     ELSE "archive"
          /\ tombstones'[c].revision_count = IF Forgotten(c) THEN tombstones[c].revision_count
                                             ELSE commitments[c].revision
          /\ tombstones'[c].proj = tombstones[c].proj
      BY <2>2 DEF TombstoneOf
    <2> DEFINE S == IF tombstones'[c].action = "delete" THEN RevisionsOf(c) ELSE {}
               n == tombstones'[c].revision_count
               p == IF S = {} THEN "forget_kg" ELSE "redact"
               r == [work[w] EXCEPT !.count = n, !.sources = S, !.pc = p]
    <2>4. work' = [work EXCEPT ![w] = r]
      BY <1>3, <1>6 DEF ForgetBegin
    <2>5. p \in {"forget_kg", "redact"} /\ (p = "redact" => S # {}) /\ (p = "forget_kg" => S = {})
      OBVIOUS
    <2>6. /\ tombstones'[c].action = "delete" => S = RevisionsOf(c)
          /\ tombstones'[c].action # "delete" => S = {}
      OBVIOUS
    <2>7. n = tombstones'[c].revision_count
      OBVIOUS
    <2> HIDE DEF n, S, p
    <2>8. r.pc = p /\ r.msg = Msg(w) /\ r.cids = work[w].cids /\ r.count = n /\ r.sources = S
      BY <1>2 DEF Work, Msg
    <2> HIDE DEF r
    <2>9. work'[w] = r /\ Msg(w)' = Msg(w) /\ (Hard(w)' <=> Hard(w))
      BY <2>4, <2>8 DEF WorkersInv, Working, Msg, Hard
    <2>10. \A e \in Cids : Fewer(e)
      BY <1>1, <2>2 DEF Fewer, Exists, storeVars
    <2>11. ASSUME \A m \in Forgets : Owes(m, c) => Owes(m, c)'
           PROVE  Remembered(c)'
      <3>1. Forgotten(c)'
        BY <2>3 DEF Forgotten
      <3>2. Covered(c)'
        <4>1. CASE Forgotten(c)
          BY <1>1, <2>3, <4>1 DEF EraseInv, Remembered, Covered, storeVars
        <4>2. CASE ~Forgotten(c)
          BY <1>1, <2>3, <4>2 DEF RenderInv, Shelved, Covered, storeVars
        <4> QED
          BY <4>1, <4>2
      <3>3. Marked(c)'
        <4>1. CASE Forgotten(c)
          BY <1>1, <2>3, <4>1 DEF EraseInv, Remembered, Marked, Recallable, storeVars
        <4>2. CASE ~Forgotten(c)
          <5>1. tombstones'[c].proj = AllPending
            BY <2>3, <4>2 DEF EraseInv, Remembered
          <5> QED
            BY <5>1 DEF Marked, AllPending, Targets
        <4> QED
          BY <4>1, <4>2
      <3>4. Owes(Msg(w), c)'
        BY <1>2, <1>4, <2>9, <2>11
      <3>5. ASSUME tombstones'[c].action = "delete", ~Softened(c)', ~Gone(c)'
            PROVE  \E m \in Forgets : ForgetOf[m].hard /\ Owes(m, c)'
        <4>1. CASE Hard(w)
          BY <1>2, <2>9, <3>4, <4>1, <2>11, <1>4 DEF Hard
        <4>2. CASE ~Hard(w)
          <5>1. tombstones[c].action = "delete" /\ Forgotten(c)
            BY <2>3, <3>5, <4>2 DEF Forgotten
          <5>2. ~Softened(c) /\ ~Gone(c)
            BY <1>1, <2>2, <3>5 DEF Softened, Gone, Exists, storeVars
          <5> QED
            BY <2>11, <5>1, <5>2 DEF EraseInv, Remembered
        <4> QED
          BY <4>1, <4>2
      <3>6. \E m \in Forgets : Owes(m, c)'
        BY <1>2, <1>4, <2>11
      <3> QED
        BY <3>1, <3>2, <3>3, <3>5, <3>6 DEF Remembered
    <2>12. Erasing(w, c)'
      <3>1. Names(Msg(w), c)'
        BY <1>4, <2>2, <2>9 DEF Names
      <3>2. RevisionsOf(c)' = RevisionsOf(c)
        BY <2>2 DEF RevisionsOf
      <3>3. work'[w].pc = p /\ (At(w, "redact")' <=> (p = "redact"))
            /\ (\A q : At(w, q)' <=> (p = q))
        BY <2>8, <2>9 DEF At
      <3>4. Reached(w, c)'
        <4>1. work'[w].count = tombstones'[c].revision_count /\ work'[w].sources = S
          BY <2>7, <2>8, <2>9
        <4>2. Hard(w)' => tombstones'[c].action = "delete"
          BY <2>3, <2>9
        <4>3. p = "redact" => S = RevisionsOf(c)'
          BY <2>5, <2>6, <3>2
        <4>4. p # "redact" /\ tombstones'[c].action = "delete" => RevisionsOf(c)' \subseteq redacted'
          BY <2>5, <2>6, <3>2
        <4> QED
          BY <2>5, <3>3, <4>1, <4>2, <4>3, <4>4 DEF Reached
      <3> QED
        BY <1>1, <1>3, <1>4, <2>8, <2>9, <3>1, <3>4 DEF Erasing
    <2>13. r.pc \in CidsPcs
      BY <2>5, <2>8 DEF CidsPcs
    <2> QED
      BY <1>1, <1>3, <2>2, <2>4, <2>8, <2>10, <2>11, <2>12, <2>13, ForgettingErases
  <1> QED
    BY <1>5, <1>6

\* The steps that leave the tombstone alone: they redact, remove and look.
LEMMA ForgetRemovesErase ==
    ASSUME WorkersInv, WorkersInv', RenderInv, EraseInv, NEW w \in Workers,
           ForgetRedact(w) \/ ForgetKg(w) \/ ForgetDrawers(w)
    PROVE  EraseInv'
  <1>1. /\ work[w].pc \in {"redact", "forget_kg", "forget_drawers"} /\ UNCHANGED ledgerVars
        /\ status' = status /\ applied' = applied /\ said' = said /\ redacted \subseteq redacted'
    BY DEF ForgetRedact, ForgetKg, ForgetDrawers, storeOnly, queueVars, boundVars, At
  <1>2. work[w].pc \in CidsPcs /\ work[w].pc # "begin"
    BY <1>1 DEF CidsPcs
  <1>3. PICK c \in Cids : work[w].cids = {c} /\ Erasing(w, c) /\ Forgotten(c)
    BY <1>2, Handling DEF At
  <1>4. Reached(w, c) /\ Names(Msg(w), c) /\ Msg(w) \notin applied
    BY <1>1, <1>3 DEF Erasing, At
  <1>5. PICK p : Goto(w, p) /\ \/ p = "forget_kg" /\ ForgetRedact(w)
                               \/ p = "forget_kg_mark" /\ ForgetKg(w)
                               \/ p = "forget_drawer_mark" /\ ForgetDrawers(w)
    BY DEF ForgetRedact, ForgetKg, ForgetDrawers
  <1>6. PICK r : /\ work' = [work EXCEPT ![w] = r] /\ r.pc = p /\ r.msg = Msg(w)
                 /\ r.cids = work[w].cids /\ r.failed = work[w].failed /\ r.count = work[w].count
                 /\ r.seen = work[w].seen /\ r.sources = work[w].sources
    BY <1>5, GotoRecord
  <1>7. work'[w] = r /\ Msg(w)' = Msg(w) /\ (Hard(w)' <=> Hard(w)) /\ (\A q : At(w, q)' <=> (p = q))
    BY <1>6 DEF WorkersInv, Working, Msg, Hard, At
  <1>8. /\ tombstones' = tombstones /\ commitments' = commitments /\ revisions' = revisions
        /\ RevisionsOf(c)' = RevisionsOf(c)
    BY <1>1 DEF ledgerVars, RevisionsOf
  <1>9. \A e \in Cids : Fewer(e)
    BY <1>1, <1>5, <1>8 DEF Fewer, Exists, ForgetRedact, ForgetKg, ForgetDrawers, DeleteDrawers,
           ArchiveDrawers, storeVars, WorkersInv, StoresOK
  <1>10. Names(Msg(w), c)'
    BY <1>4, <1>7, <1>8 DEF Names
  <1>11. Reached(w, c)'
    <2>1. /\ work'[w].count = tombstones'[c].revision_count
          /\ Hard(w)' => tombstones'[c].action = "delete"
          /\ work'[w].pc = p
      BY <1>4, <1>6, <1>7, <1>8 DEF Reached
    <2>2. tombstones[c].action = "delete" => RevisionsOf(c) \subseteq redacted'
      <3>1. CASE ForgetRedact(w)
        BY <1>4, <3>1 DEF ForgetRedact, Reached
      <3>2. CASE ForgetKg(w) \/ ForgetDrawers(w)
        BY <1>1, <1>4, <3>2 DEF ForgetKg, ForgetDrawers, Reached, At
      <3> QED
        BY <1>5, <3>1, <3>2
    <2>3. CASE p = "forget_kg"
      BY <1>7, <1>8, <2>1, <2>2, <2>3 DEF Reached
    <2>4. CASE p = "forget_kg_mark"
      <3>1. c \notin rows' \ closed' /\ (Hard(w) => c \notin rows')
        BY <1>3, <1>5, <2>4 DEF ForgetKg
      <3> QED
        BY <1>7, <1>8, <2>1, <2>2, <2>4, <3>1 DEF Reached
    <2>5. CASE p = "forget_drawer_mark"
      <3>1. ForgetDrawers(w) /\ rows' = rows /\ closed' = closed /\ At(w, "forget_drawers")
        BY <1>5, <2>5 DEF ForgetDrawers
      <3>2. /\ c \notin rows \ closed /\ (Hard(w) => c \notin rows)
            /\ tombstones[c].proj["kg"] = "projected"
            /\ \A d \in drawers : d.cid = c => d \in work[w].seen
        BY <1>4, <3>1 DEF Reached, At
      <3>3. Hard(w) => \A d \in drawers' : d.cid # c
        BY <3>1, <3>2 DEF ForgetDrawers, DeleteDrawers
      <3>4. Recallable(c)' = {}
        BY <3>1, <3>2 DEF ForgetDrawers, DeleteDrawers, ArchiveDrawers, Recallable
      <3> QED
        BY <1>7, <1>8, <2>1, <2>2, <2>5, <3>1, <3>2, <3>3, <3>4 DEF Reached
    <2> QED
      BY <1>5, <2>3, <2>4, <2>5
  <1>12. Erasing(w, c)'
    BY <1>1, <1>3, <1>4, <1>6, <1>7, <1>10, <1>11 DEF Erasing
  <1>13. ASSUME \A m \in Forgets : Owes(m, c) => Owes(m, c)'
         PROVE  Remembered(c)'
    BY <1>1, <1>8, <1>9, <1>13, RememberedSame DEF EraseInv
  <1>14. r.pc \in CidsPcs
    BY <1>5, <1>6 DEF CidsPcs
  <1> QED
    BY <1>1, <1>2, <1>3, <1>6, <1>8, <1>9, <1>12, <1>13, <1>14, ForgettingErases

\* Behind each mark there is nothing more to recall.
LEMMA ForgetMarksErase ==
    ASSUME WorkersInv, WorkersInv', RenderInv, EraseInv, NEW w \in Workers,
           ForgetKgMark(w) \/ ForgetDrawerMark(w)
    PROVE  EraseInv'
  <1>1. /\ work[w].pc \in {"forget_kg_mark", "forget_drawer_mark"} /\ UNCHANGED storeVars
        /\ status' = status /\ applied' = applied /\ said' = said /\ redacted' = redacted
    BY DEF ForgetKgMark, ForgetDrawerMark, ledgerOnly, queueVars, boundVars, At
  <1>2. work[w].pc \in CidsPcs /\ work[w].pc # "begin"
    BY <1>1 DEF CidsPcs
  <1>3. PICK c \in Cids : work[w].cids = {c} /\ Erasing(w, c) /\ Forgotten(c)
    BY <1>2, Handling DEF At
  <1>4. /\ Reached(w, c) /\ Names(Msg(w), c) /\ Msg(w) \notin applied
        /\ Msg(w) \in Forgets /\ Owes(Msg(w), c)
    BY <1>1, <1>2, <1>3, Handling DEF Erasing, At
  <1>5. PICK t \in Targets, p \in {"scan", "finalize"} :
            /\ Goto(w, p) /\ MarkForgetProjected({c}, {t})
            /\ \/ t = "kg" /\ p = "scan" /\ work[w].pc = "forget_kg_mark"
               \/ t = "drawer" /\ p = "finalize" /\ work[w].pc = "forget_drawer_mark"
    BY <1>3 DEF ForgetKgMark, ForgetDrawerMark, Targets, At
  <1>6. PICK r : /\ work' = [work EXCEPT ![w] = r] /\ r.pc = p /\ r.msg = Msg(w)
                 /\ r.cids = work[w].cids /\ r.count = work[w].count
    BY <1>5, GotoRecord
  <1>7. work'[w] = r /\ Msg(w)' = Msg(w) /\ (Hard(w)' <=> Hard(w)) /\ (\A q : At(w, q)' <=> (p = q))
    BY <1>6 DEF WorkersInv, Working, Msg, Hard, At
  <1>8. /\ commitments' = commitments /\ revisions' = revisions
        /\ RevisionsOf(c)' = RevisionsOf(c)
        /\ \A e \in Cids : e # c => tombstones'[e] = tombstones[e]
    BY <1>5 DEF MarkForgetProjected, RevisionsOf
  <1>9. /\ tombstones'[c].action = tombstones[c].action
        /\ tombstones'[c].revision_count = tombstones[c].revision_count
        /\ tombstones'[c].proj[t] = "projected"
        /\ \A u \in Targets : tombstones[c].proj[u] = "projected"
                                  => tombstones'[c].proj[u] = "projected"
        /\ \A u \in Targets \ {t} : tombstones'[c].proj[u] = tombstones[c].proj[u]
    <2> DEFINE q == [tombstones[c] EXCEPT !.proj = SetProj(tombstones[c].proj, {t})]
    <2>1. tombstones'[c] = q
      BY <1>5 DEF MarkForgetProjected
    <2>2. tombstones[c] \in Tombstone
      BY DEF WorkersInv, CommitmentInv, LedgerTypeOK
    <2>3. /\ q.action = tombstones[c].action /\ q.revision_count = tombstones[c].revision_count
          /\ q.proj = SetProj(tombstones[c].proj, {t})
      BY <2>2 DEF Tombstone
    <2> HIDE DEF q
    <2> QED
      BY <2>1, <2>3 DEF SetProj
  <1>10. \A e \in Cids : Fewer(e)
    BY <1>1, <1>8 DEF Fewer, Exists, storeVars
  <1>11. c \notin rows \ closed
         /\ (work[w].pc = "forget_drawer_mark" => Recallable(c) = {})
    BY <1>1, <1>4 DEF Reached
  <1>12. ASSUME \A m \in Forgets : Owes(m, c) => Owes(m, c)'
         PROVE  Remembered(c)'
    <2>1. Forgotten(c)' /\ (Softened(c)' <=> Softened(c)) /\ (Gone(c)' <=> Gone(c))
      BY <1>1, <1>3, <1>8, <1>9 DEF Forgotten, Softened, Gone, Exists, storeVars
    <2>2. Covered(c) /\ Marked(c)
      BY <1>3 DEF EraseInv, Remembered
    <2>3. Covered(c)'
      BY <1>1, <1>9, <2>2 DEF Covered, storeVars
    <2>4. Marked(c)'
      BY <1>1, <1>5, <1>9, <1>11, <2>2 DEF Marked, Recallable, storeVars, Targets
    <2>5. \E m \in Forgets : Owes(m, c)'
      BY <1>4, <1>12
    <2>6. tombstones'[c].action = "delete" /\ ~Softened(c)' /\ ~Gone(c)'
             => \E m \in Forgets : ForgetOf[m].hard /\ Owes(m, c)'
      BY <1>3, <1>9, <1>12, <2>1 DEF EraseInv, Remembered
    <2> QED
      BY <2>1, <2>3, <2>4, <2>5, <2>6 DEF Remembered
  <1>13. Names(Msg(w), c)'
    BY <1>4, <1>7, <1>8 DEF Names
  <1>14. Reached(w, c)'
    <2>1. /\ work'[w].pc = p /\ work'[w].count = tombstones'[c].revision_count
          /\ Hard(w)' => tombstones'[c].action = "delete"
          /\ tombstones'[c].action = "delete" => RevisionsOf(c)' \subseteq redacted'
          /\ c \notin rows' \ closed' /\ (Hard(w)' => c \notin rows')
      BY <1>1, <1>4, <1>6, <1>7, <1>8, <1>9 DEF Reached, At, storeVars
    <2>2. CASE p = "scan"
      <3>1. tombstones'[c].proj["kg"] = "projected"
        BY <1>5, <1>9, <2>2
      <3> QED
        BY <1>7, <2>1, <2>2, <3>1 DEF Reached
    <2>3. CASE p = "finalize"
      <3>1. t = "drawer" /\ work[w].pc = "forget_drawer_mark"
        BY <1>5, <2>3
      <3>2. Recallable(c)' = {} /\ (Hard(w)' => \A d \in drawers' : d.cid # c)
        BY <1>1, <1>4, <1>7, <3>1 DEF Reached, Recallable, storeVars
      <3>3. tombstones'[c].proj["kg"] = "projected" /\ tombstones'[c].proj["drawer"] = "projected"
        BY <1>4, <1>9, <3>1 DEF Reached, Targets
      <3> QED
        BY <1>7, <2>1, <2>3, <3>2, <3>3 DEF Reached
    <2> QED
      BY <1>5, <2>2, <2>3
  <1>15. Erasing(w, c)'
    BY <1>1, <1>3, <1>4, <1>6, <1>7, <1>13, <1>14 DEF Erasing
  <1>16. r.pc \in CidsPcs
    BY <1>5, <1>6 DEF CidsPcs
  <1> QED
    BY <1>1, <1>2, <1>3, <1>6, <1>8, <1>10, <1>12, <1>15, <1>16, ForgettingErases

\* The look finds every drawer there is.
LEMMA ForgetScanErases ==
    ASSUME WorkersInv, WorkersInv', RenderInv, EraseInv, NEW w \in Workers, ForgetScan(w)
    PROVE  EraseInv'
  <1>1. /\ work[w].pc = "scan" /\ UNCHANGED ledgerVars /\ UNCHANGED storeVars
        /\ status' = status /\ applied' = applied /\ said' = said /\ redacted' = redacted
    BY DEF ForgetScan, localOnly, ledgerOnly, queueVars, boundVars, At
  <1>2. work[w].pc \in CidsPcs /\ work[w].pc # "begin" /\ work[w] \in Work
    BY <1>1 DEF CidsPcs, WorkersInv, Working
  <1>3. PICK c \in Cids : work[w].cids = {c} /\ Erasing(w, c) /\ Forgotten(c)
    BY <1>2, Handling DEF At
  <1>4. Reached(w, c) /\ Names(Msg(w), c) /\ Msg(w) \notin applied
    BY <1>1, <1>3 DEF Erasing, At
  <1>5. PICK D \in SUBSET Findable(w) :
            /\ \A d \in Findable(w) : Cardinality(D \cap RevisionDrawers(d.cid, d.revision)) = 1
            /\ work' = [work EXCEPT ![w] = [@ EXCEPT !.seen = D, !.pc = "forget_drawers"]]
    BY DEF ForgetScan
  <1> DEFINE r == [work[w] EXCEPT !.seen = D, !.pc = "forget_drawers"]
  <1>6. work' = [work EXCEPT ![w] = r]
    BY <1>5
  <1>7. r.pc = "forget_drawers" /\ r.msg = Msg(w) /\ r.cids = work[w].cids
        /\ r.count = work[w].count /\ r.seen = D
    BY <1>2 DEF Work, Msg
  <1> HIDE DEF r
  <1>8. /\ work'[w] = r /\ Msg(w)' = Msg(w) /\ (Hard(w)' <=> Hard(w))
        /\ (\A q : At(w, q)' <=> ("forget_drawers" = q))
    BY <1>6, <1>7 DEF WorkersInv, Working, Msg, Hard, At
  <1>9. ASSUME NEW d \in drawers, d.cid = c
        PROVE  d \in D
    <2>1. d.revision \in 1 .. work[w].count
      BY <1>3, <1>4, <1>9 DEF EraseInv, Remembered, Covered, Reached
    <2>2. d \in Findable(w)
      BY <1>3, <1>9, <2>1 DEF Findable, Scanned
    <2>3. Cardinality(D \cap RevisionDrawers(c, d.revision)) = 1
      BY <1>5, <1>9, <2>2
    <2>4. D \cap RevisionDrawers(c, d.revision) # {}
      BY <2>3, FS_EmptySet
    <2>5. PICK e \in D : e \in drawers /\ e.cid = c /\ e.revision = d.revision
      BY <2>4 DEF RevisionDrawers
    <2> QED
      BY <1>9, <2>5 DEF RenderInv, OneDrawer
  <1>10. tombstones' = tombstones /\ commitments' = commitments /\ revisions' = revisions
    BY <1>1 DEF ledgerVars
  <1>11. \A e \in Cids : Fewer(e)
    BY <1>1, <1>10 DEF Fewer, Exists, storeVars
  <1>12. Names(Msg(w), c)'
    BY <1>4, <1>8, <1>10 DEF Names
  <1>13. Reached(w, c)'
    <2>1. /\ work'[w].pc = "forget_drawers" /\ work'[w].seen = D
          /\ work'[w].count = tombstones'[c].revision_count
          /\ Hard(w)' => tombstones'[c].action = "delete"
          /\ tombstones'[c].action = "delete" => RevisionsOf(c)' \subseteq redacted'
          /\ c \notin rows' \ closed' /\ (Hard(w)' => c \notin rows')
          /\ tombstones'[c].proj["kg"] = "projected"
      BY <1>1, <1>4, <1>7, <1>8, <1>10 DEF Reached, At, RevisionsOf, storeVars
    <2>2. \A d \in drawers' : d.cid = c => d \in work'[w].seen
      BY <1>1, <1>9, <2>1 DEF storeVars
    <2> QED
      BY <1>8, <2>1, <2>2 DEF Reached
  <1>14. Erasing(w, c)'
    BY <1>1, <1>3, <1>4, <1>7, <1>8, <1>12, <1>13 DEF Erasing
  <1>15. ASSUME \A m \in Forgets : Owes(m, c) => Owes(m, c)'
         PROVE  Remembered(c)'
    BY <1>1, <1>10, <1>11, <1>15, RememberedSame DEF EraseInv
  <1>16. r.pc \in CidsPcs
    BY <1>7 DEF CidsPcs
  <1> QED
    BY <1>1, <1>2, <1>3, <1>6, <1>7, <1>10, <1>11, <1>14, <1>15, <1>16, ForgettingErases

\* The record goes once nothing else is left, and with it the name by which an
\* erasure of its source event may ask for it.
LEMMA ForgetFinalizeErases ==
    ASSUME WorkersInv, WorkersInv', RenderInv, EraseInv, NEW w \in Workers, ForgetFinalize(w)
    PROVE  EraseInv'
  <1>1. /\ work[w].pc = "finalize" /\ UNCHANGED storeVars /\ Goto(w, "checkpoint")
        /\ status' = status /\ applied' = applied /\ said' = said /\ redacted' = redacted
    BY DEF ForgetFinalize, ledgerOnly, queueVars, boundVars, At
  <1>2. work[w].pc \in CidsPcs /\ work[w].pc # "begin"
    BY <1>1 DEF CidsPcs
  <1>3. PICK c \in Cids : work[w].cids = {c} /\ Erasing(w, c) /\ Forgotten(c)
    BY <1>2, Handling DEF At
  <1>4. /\ Reached(w, c) /\ Names(Msg(w), c) /\ Msg(w) \notin applied
        /\ Msg(w) \in Forgets /\ ~At(w, "idle") /\ ~OnTurn(Msg(w)) /\ Msg(w) \in said
        /\ \A e \in Cids : Owes(Msg(w), e) => e = c
    BY <1>1, <1>2, <1>3, Handling DEF Erasing, At
  <1>5. PICK r : /\ work' = [work EXCEPT ![w] = r] /\ r.pc = "checkpoint" /\ r.msg = Msg(w)
                 /\ r.cids = work[w].cids /\ r.count = work[w].count
    BY <1>1, GotoRecord
  <1>6. /\ work'[w] = r /\ Msg(w)' = Msg(w) /\ (Hard(w)' <=> Hard(w))
        /\ (\A q : At(w, q)' <=> ("checkpoint" = q))
    BY <1>5 DEF WorkersInv, Working, Msg, Hard, At
  <1>7. /\ \A e \in Cids : commitments'[e] = IF e = c /\ Finished(c) THEN NoRecord
                                             ELSE commitments[e]
        /\ \A i \in Intents : revisions'[i] = IF revisions[i].cid = c /\ Finished(c)
                                              THEN NoRevision ELSE revisions[i]
        /\ tombstones' = tombstones
    BY <1>3, FinalizeEffect DEF ForgetFinalize, WorkersInv, CommitmentInv
  <1>8. tombstones[c].proj = AllProjected
    <2>1. tombstones[c].proj \in Projections
      BY DEF WorkersInv, CommitmentInv, LedgerTypeOK, Tombstone
    <2>2. tombstones[c].proj["kg"] = "projected" /\ tombstones[c].proj["drawer"] = "projected"
      BY <1>1, <1>4 DEF Reached
    <2> QED
      BY <2>1, <2>2 DEF Projections, AllProjected, Targets
  <1>9. Finished(c) <=> tombstones[c].action = "delete"
    BY <1>8 DEF Finished
  <1>10. \A e \in Cids : Fewer(e)
    BY <1>1, <1>7 DEF Fewer, Exists, NoRecord, storeVars
  <1>11. /\ Recallable(c) = {} /\ c \notin rows \ closed
         /\ Hard(w) => c \notin rows /\ (\A d \in drawers : d.cid # c) /\ tombstones[c].action = "delete"
         /\ tombstones[c].action = "delete" => RevisionsOf(c) \subseteq redacted
    BY <1>1, <1>4 DEF Reached, At
  <1>12. ASSUME NEW e \in Cids, NEW m \in Forgets, Owes(m, e)
         PROVE  Owes(m, e)' \/ Excused(m, e)
    <2>1. m = Msg(w) => Unfinished(r, e)
      BY <1>3, <1>4, <1>5, <1>12 DEF Unfinished, CidsPcs
    <2>2. CASE Names(m, e)'
      BY <1>1, <1>5, <1>12, <2>1, <2>2, OwesKept
    <2>3. CASE ~Names(m, e)'
      <3>1. ForgetOf[m].by = "source" /\ revisions[ForgetOf[m].source].cid = e
        BY <1>12, <2>3 DEF Owes, Names
      <3>2. ForgetOf[m].source \in Intents /\ ForgetOf[m].hard
        BY <3>1, WorkerConstants
      <3>3. e = c /\ tombstones[c].action = "delete" /\ Finished(c)
        BY <1>7, <1>9, <2>3, <3>1, <3>2 DEF Names
      <3>4. CASE Hard(w)
        <4>1. Gone(c)'
          BY <1>1, <1>7, <1>11, <3>3, <3>4 DEF Gone, Exists, NoRecord, storeVars
        <4> QED
          BY <1>8, <3>3, <4>1 DEF Excused
      <3>5. CASE ~Hard(w)
        <4>1. m \in said
          <5>1. status[m] # "unsent" /\ m \in Msgs
            BY <1>12, WorkerConstants DEF Owes, WorkersInv, Working, Msgs
          <5> QED
            BY <5>1 DEF EraseInv, Sent
        <4>2. IntentOf[ForgetOf[m].source].cid = c
          BY <3>1, <3>2, <3>3, CommitmentConstants DEF RenderInv, Attributed
        <4>3. ForgetOf[Msg(w)].cid = c
          BY <1>4, <3>5, WorkerConstants DEF Names, Hard
        <4>4. Softened(c)
          BY <1>4, <1>12, <3>1, <3>5, <4>1, <4>2, <4>3 DEF Softened, Hard
        <4> QED
          BY <1>8, <3>3, <4>4 DEF Excused
      <3> QED
        BY <3>4, <3>5
    <2> QED
      BY <2>2, <2>3
  <1>13. \A e \in Cids : Remembered(e)'
    BY <1>1, <1>7, <1>10, <1>12, RememberedSame DEF EraseInv
  <1>14. \A i \in Intents : revisions'[i] = revisions[i] \/ i \in redacted'
    BY <1>1, <1>7, <1>9, <1>11 DEF RevisionsOf
  <1>15. Reached(w, c)'
    <2>1. c # NoCid /\ RevisionsOf(c)' \subseteq RevisionsOf(c)
      BY <1>7, CommitmentConstants DEF RevisionsOf, NoRevision
    <2>2. tombstones'[c].action = "delete" => RevisionsOf(c)' \subseteq redacted'
      BY <1>1, <1>7, <1>11, <2>1
    <2>3. /\ work'[w].pc = "checkpoint" /\ work'[w].count = tombstones'[c].revision_count
          /\ Hard(w)' => tombstones'[c].action = "delete"
          /\ c \notin rows' \ closed' /\ (Hard(w)' => c \notin rows')
          /\ Recallable(c)' = {} /\ (Hard(w)' => \A d \in drawers' : d.cid # c)
      BY <1>1, <1>4, <1>5, <1>6, <1>7, <1>11 DEF Reached, Recallable, storeVars
    <2>4. tombstones'[c].proj["kg"] = "projected" /\ tombstones'[c].proj["drawer"] = "projected"
      BY <1>7, <1>8 DEF AllProjected, Targets
    <2>5. Hard(w)' => ~Exists(c)'
      BY <1>6, <1>7, <1>9, <1>11 DEF Exists, NoRecord
    <2> QED
      BY <1>6, <2>2, <2>3, <2>4, <2>5 DEF Reached
  <1>16. Erasing(w, c)'
    BY <1>1, <1>3, <1>4, <1>5, <1>6, <1>15 DEF Erasing
  <1>17. r.pc \notin Applying \cup {"resolve"}
    BY <1>5 DEF Applying, ApplyPcs
  <1> QED
    BY <1>1, <1>3, <1>4, <1>5, <1>13, <1>14, <1>16, <1>17, ForgetErases

\* At its end a forget owes nothing, unless it is refused there.
LEMMA CheckpointErases ==
    ASSUME WorkersInv, WorkersInv', RenderInv, EraseInv, NEW w \in Workers, Checkpoint(w)
    PROVE  EraseInv'
  <1>1. /\ work[w].pc = "checkpoint" /\ UNCHANGED ledgerVars /\ UNCHANGED storeVars
        /\ status' = status /\ applied' = applied /\ said' = said /\ redacted' = redacted
        /\ Raise(w) \/ Goto(w, "settle") \/ Goto(w, "redact_event")
    BY DEF Checkpoint, localOnly, ledgerOnly, queueVars, boundVars, At
  <1>2. work[w].pc \in CidsPcs /\ work[w].pc # "begin"
    BY <1>1 DEF CidsPcs
  <1>3. PICK c \in Cids : work[w].cids = {c} /\ Erasing(w, c)
    BY <1>2, Handling DEF At
  <1>4. /\ Reached(w, c) /\ Msg(w) \in Forgets /\ ~At(w, "idle")
        /\ \A e \in Cids : Owes(Msg(w), e) => e = c
    BY <1>1, <1>2, <1>3, Handling DEF Erasing, At
  <1>5. PICK r : /\ work' = [work EXCEPT ![w] = r] /\ r.pc \in {"settle", "redact_event"}
                 /\ r.msg = Msg(w) /\ r.cids = work[w].cids
    BY <1>1, GotoRecord, RaiseRecord
  <1>6. Excused(Msg(w), c)
    <2>1. tombstones[c].proj \in Projections
      BY DEF WorkersInv, CommitmentInv, LedgerTypeOK, Tombstone
    <2>2. tombstones[c].proj = AllProjected
      BY <1>1, <1>4, <2>1 DEF Reached, Projections, AllProjected, Targets
    <2>3. Hard(w) => Gone(c)
      BY <1>1, <1>4 DEF Reached, At, Gone
    <2>4. Gone(c)' <=> Gone(c)
      BY <1>1 DEF Gone, Exists, ledgerVars, storeVars
    <2> QED
      BY <2>2, <2>3, <2>4 DEF Excused, Hard
  <1>7. r.pc \notin Applying \cup CidsPcs \cup {"resolve"}
    BY <1>5 DEF Applying, ApplyPcs, CidsPcs
  <1> QED
    BY <1>1, <1>4, <1>5, <1>6, <1>7, IdleForgetErases

LEMMA ForgetStepsErase ==
    ASSUME WorkersInv, WorkersInv', RenderInv, EraseInv, OneWorker, NEW w \in Workers,
           ForgetSteps(w)
    PROVE  EraseInv'
  BY ForgetResolveErases, ForgetOthersErase, ForgetBeginErases, ForgetRemovesErase,
     ForgetMarksErase, ForgetScanErases, ForgetFinalizeErases, CheckpointErases DEF ForgetSteps

\* What was applied is not taken up again.
LEMMA StartErases ==
    ASSUME WorkersInv, WorkersInv', RenderInv, EraseInv, NEW w \in Workers, Start(w)
    PROVE  EraseInv'
  <1> DEFINE p == CASE OnTurn(Msg(w)) /\ Msg(w) \in redacted -> "settle"
                    [] ~OnTurn(Msg(w)) /\ Msg(w) \in applied -> "ack"
                    [] Msg(w) \in Intents \ applied -> "apply"
                    [] OTHER -> "resolve"
  <1>1. /\ Goto(w, p) /\ status' = status /\ applied' = applied /\ At(w, "start")
        /\ UNCHANGED ledgerVars /\ UNCHANGED storeVars /\ said' = said /\ redacted' = redacted
    BY DEF Start, localOnly, ledgerOnly, queueVars, boundVars
  <1>2. /\ work[w] \in Work /\ Msg(w) \in Msgs /\ ~work[w].failed /\ ~At(w, "idle")
    BY <1>1 DEF WorkersInv, Working, Fits, At, Msg, Work, RenderInv, Learned
  <1>3. \/ p = "settle" /\ OnTurn(Msg(w))
        \/ p = "ack" /\ ~OnTurn(Msg(w)) /\ Msg(w) \in applied
        \/ p = "apply" /\ Msg(w) \in Intents \ applied
        \/ p = "resolve" /\ (OnTurn(Msg(w)) \/ Msg(w) \notin applied)
    OBVIOUS
  <1> HIDE DEF p
  <1>4. PICK r : /\ work' = [work EXCEPT ![w] = r] /\ r.pc = p /\ r.msg = Msg(w)
                 /\ r.cids = work[w].cids /\ r.failed = work[w].failed
    BY <1>1, GotoRecord
  <1>5. \A v \in Workers : work'[v] = IF v = w THEN r ELSE work[v]
    BY <1>4 DEF WorkersInv, Working
  <1>6. ASSUME NEW c \in Cids
        PROVE  Remembered(c)'
    <2>1. ASSUME NEW m \in Forgets, Owes(m, c)
          PROVE  Owes(m, c)'
      <3>1. Names(m, c)' /\ Names(m, c) /\ m \notin applied
        BY <1>1, <2>1 DEF Owes, Names, ledgerVars
      <3>2. ~OnTurn(m) /\ m \notin Intents
        BY <3>1, WorkerConstants DEF Names, OnTurn
      <3>3. m = Msg(w) => Unfinished(r, c)
        BY <1>3, <1>4, <3>1, <3>2 DEF Unfinished
      <3> QED
        BY <1>1, <1>4, <2>1, <3>1, <3>3, OwesKept
    <2>2. Remembered(c) /\ Fewer(c) /\ tombstones'[c] = tombstones[c]
      BY <1>1 DEF EraseInv, Fewer, Exists, ledgerVars, storeVars
    <2> QED
      BY <1>1, <2>1, <2>2, RememberedSame
  <1>7. ASSUME NEW i \in Intents, Settling(i)'
        PROVE  Settling(i)
    <2>1. CASE i = Msg(w)
      <3>1. p \in {"settle", "ack"} => i \in applied
        BY <1>3, <2>1, WorkerConstants DEF OnTurn
      <3>2. p \notin {"settle", "ack"} => status[i] = "acked" \/ i \in applied
        <4> SUFFICES ASSUME p \notin {"settle", "ack"}, NEW v \in Workers, Msg(v)' = i,
                            At(v, "ack")' \/ At(v, "settle")'
                     PROVE  FALSE
          BY <1>1, <1>7 DEF Settling
        <4>1. v # w
          BY <1>4, <1>5 DEF At
        <4>2. At(v, "idle")
          BY <1>2, <4>1 DEF EraseInv, Alone
        <4> QED
          BY <1>5, <4>1, <4>2 DEF At
      <3> QED
        BY <3>1, <3>2 DEF Settling
    <2>2. CASE i # Msg(w)
      BY <1>1, <1>4, <1>5, <1>7, <2>2 DEF Settling, Msg, At
    <2> QED
      BY <2>1, <2>2
  <1>8. \A i \in Intents : Accounted(i)'
    BY <1>1, <1>7 DEF EraseInv, Accounted, ledgerVars
  <1>9. Erases(w)'
    <2>1. OnTurn(Msg(w)) => work[w].cids = {}
      BY DEF EraseInv, Erases
    <2>2. p \notin Applying \cup CidsPcs
      BY <1>3 DEF Applying, ApplyPcs, CidsPcs
    <2>3. p = "resolve" /\ ~OnTurn(Msg(w)) => Msg(w) \notin applied
      BY <1>3
    <2>4. work'[w] = r /\ Msg(w)' = Msg(w)
      BY <1>4, <1>5 DEF Msg
    <2> QED
      BY <1>1, <1>4, <2>1, <2>2, <2>3, <2>4 DEF Erases, At
  <1> QED
    BY <1>1, <1>2, <1>4, <1>6, <1>8, <1>9, EraseStep

LEMMA EraseInit == Init => EraseInv
  <1> SUFFICES ASSUME Init
               PROVE  EraseInv
    OBVIOUS
  <1>1. PICK s \in Scenarios :
            /\ LedgerInit /\ said = s.said
            /\ status = [m \in Msgs |->
                   IF m \notin said \/ (m \in Forgets /\ ForgetOf[m].by = "id")
                   THEN "unsent" ELSE "queued"]
            /\ applied = {} /\ work = [w \in Workers |-> Idle]
    BY DEF Init
  <1>2. \A w \in Workers : work[w].pc = "idle" /\ work[w].cids = {}
    BY <1>1 DEF Idle
  <1>3. \A c \in Cids : Remembered(c)
    BY <1>1 DEF LedgerInit, NoTombstone, Remembered, Forgotten
  <1>4. \A w \in Workers : Erases(w)
    BY <1>2 DEF Erases, At, Applying, ApplyPcs, CidsPcs
  <1>5. \A i \in Intents : ~Settling(i)
    BY <1>1, <1>2 DEF Settling, At, Msgs
  <1>6. Sent /\ Alone
    BY <1>1, <1>2 DEF Sent, Alone, At
  <1> QED
    BY <1>3, <1>4, <1>5, <1>6 DEF EraseInv, Accounted

LEMMA EraseNext ==
    ASSUME WorkersInv, WorkersInv', RenderInv, OneWorker, EraseInv, [Next]_vars
    PROVE  EraseInv'
  <1>1. ASSUME NEW w \in Workers, Step(w)
        PROVE  EraseInv'
    BY <1>1, TakeErases, StartErases, ApplyStepsErase, ForgetStepsErase, SettleErases,
       FinishErases DEF Step
  <1>2. ASSUME UNCHANGED vars
        PROVE  EraseInv'
    BY <1>2 DEF EraseInv, Sent, Alone, Remembered, Covered, Marked, Owes, Names, Unfinished, Gone,
           Softened, Erases, Erasing, Reached, Accounted, Settling, Hard, Recallable, RevisionsOf,
           Exists, Forgotten, At, Msg, Cid, vars, ledgerVars, queueVars, storeVars, boundVars
  <1> QED
    BY <1>1, <1>2, FailErases, CrashErases, PublishErases DEF Next, IdlePoll

\* What is said is settled at the start.
LEMMA SaidKept ==
    ASSUME [Next]_vars
    PROVE  said' = said
  <1>1. ASSUME NEW w \in Workers, Step(w)
        PROVE  said' = said
    <2>1. ASSUME ApplySteps(w)
          PROVE  said' = said
      BY <2>1 DEF ApplySteps, ApplyIntent, FindPrevious, ArchivePrevious, FindCurrent, PutDrawer,
             MarkDrawer, LookKg, AddKg, EndKg, MarkKg, MarkEnded, Mark, localOnly, ledgerOnly,
             storeOnly, boundVars
    <2>2. ASSUME ForgetSteps(w)
          PROVE  said' = said
      BY <2>2
         DEF ForgetSteps, ForgetResolve, ForgetStatements, ForgetBegin, ForgetRedact, ForgetKg,
             ForgetKgMark, ForgetScan, ForgetDrawers, ForgetDrawerMark, ForgetFinalize, Checkpoint,
             RedactEvent, localOnly, ledgerOnly, storeOnly, boundVars
    <2>3. ASSUME (\E m \in Msgs : Take(w, m)) \/ Start(w) \/ Settle(w) \/ Ack(w) \/ RejectAck(w)
          PROVE  said' = said
      BY <2>3 DEF Take, Start, Settle, Ack, RejectAck, Finish, localOnly, ledgerOnly, boundVars
    <2> QED
      BY <1>1, <2>1, <2>2, <2>3 DEF Step
  <1>2. ASSUME NEW w \in Workers, Fail(w)
        PROVE  said' = said
    BY <1>2 DEF Fail
  <1>3. (\E m \in Msgs : Publish(m)) \/ Crash \/ UNCHANGED vars => said' = said
    BY DEF Publish, Crash, boundVars, vars
  <1> QED
    BY <1>1, <1>2, <1>3 DEF Next, IdlePoll

\* An erased record leaves no revision.
LEMMA NoRevisionLeft ==
    ASSUME CommitmentInv, NEW c \in Cids, ~Exists(c), NEW i \in Intents
    PROVE  revisions[i].cid # c
  <1>1. Cardinality(RevisionsOf(c)) = 0
    BY DEF CommitmentInv, Revised, RevisionsCounted
  <1>2. IsFiniteSet(RevisionsOf(c))
    BY CommitmentConstants, FS_Subset DEF RevisionsOf
  <1> QED
    BY <1>1, <1>2, FS_EmptySet DEF RevisionsOf

\* When one worker handles what is said, nothing that is left of a forgotten
\* commitment is left for good: as long as a projection of its tombstone is
\* unmarked, or anything remains after a delete, a message that comes back owes
\* the rest.
THEOREM ForgottenOwed == Spec => [](OneWorker => EraseInv)
  <1>1. Init => WorkersInv /\ RenderInv /\ (OneWorker => EraseInv)
    BY WorkersInit, RenderInit, EraseInit
  <1>2. /\ WorkersInv /\ WorkersInv' /\ RenderInv /\ [Next]_vars /\ (OneWorker => EraseInv)
        => (OneWorker => EraseInv)'
    <2> SUFFICES ASSUME WorkersInv, WorkersInv', RenderInv, [Next]_vars, OneWorker => EraseInv,
                        OneWorker'
                 PROVE  EraseInv'
      OBVIOUS
    <2>1. said' = said
      BY SaidKept
    <2>2. OneWorker
      BY <2>1 DEF OneWorker
    <2> QED
      BY <2>2, EraseNext
  <1> QED
    BY <1>1, <1>2, WorkersInvariant, CommitmentsRendered, PTL DEF Spec

\* What the stores show when every message has been handled.
LEMMA HandledShown ==
    ASSUME WorkersInv, RenderInv, AllHandled, NEW c \in Cids, ~Forgotten(c)
    PROVE  /\ IF Active(c) THEN Shown(c) ELSE Ended(c)
           /\ \A d \in Recallable(c) : d.revision + 1 # commitments[c].revision
  <1>1. Shelved(c) /\ commitments[c].revision \in Nat
    BY DEF RenderInv, WorkersInv, CommitmentInv, LedgerTypeOK, Record
  <1>2. CASE Exists(c)
    <2>1. PICK i \in RevisionsOf(c) : revisions[i].number = commitments[c].revision
      BY <1>2 DEF WorkersInv, CommitmentInv, HistoryLegal
    <2>2. i \in Intents /\ revisions[i].cid = c /\ c # NoCid
      BY <2>1, CommitmentConstants DEF RevisionsOf
    <2>3. IntentOf[i].cid = c /\ status[i] \notin {"unsent", "rejected"}
      BY <2>2 DEF RenderInv, Attributed
    <2>4. Settling(i)
      BY <2>2, <2>3 DEF AllHandled, Msgs, Settling
    <2>5. Rendered(c)
      BY <2>1, <2>2, <2>3, <2>4 DEF RenderInv, Delivered
    <2>6. Active(c) => Shown(c)
      BY <1>1, <2>5 DEF Rendered, Drawn, Stated, Shelved, Shown, RevisionDrawers, Recallable
    <2>7. ~Active(c) => Ended(c)
      <3> SUFFICES ASSUME ~Active(c)
                   PROVE  Ended(c)
        OBVIOUS
      <3>1. ASSUME NEW d \in Recallable(c)
            PROVE  d.revision < commitments[c].revision
        <4>1. d.revision \in 1 .. commitments[c].revision /\ d.revision # commitments[c].revision
          BY <1>1 DEF Shelved, Recallable
        <4> QED
          BY <1>1, <4>1
      <3> QED
        BY <2>5, <3>1 DEF Ended, Rendered, Stated
    <2>8. \A d \in Recallable(c) : d.revision + 1 # commitments[c].revision
      BY <2>5 DEF Rendered, Superseded, Recallable
    <2> QED
      BY <2>6, <2>7, <2>8
  <1>3. CASE ~Exists(c)
    <2>1. commitments[c].revision = 0 /\ ~Active(c)
      BY <1>3 DEF WorkersInv, CommitmentInv, Revised, Exists, Active, ActiveStatus
    <2>2. Recallable(c) = {} /\ c \notin rows
      BY <1>1, <1>3, <2>1 DEF Shelved, Recallable
    <2> QED
      BY <2>1, <2>2 DEF Ended
  <1> QED
    BY <1>2, <1>3

LEMMA NothingOwed ==
    ASSUME WorkersInv, AllHandled, NEW m \in Forgets, NEW c
    PROVE  ~Owes(m, c)
  <1>1. m \in Msgs /\ m # NoMsg /\ status[m] \notin {"queued", "dead", "held"}
    BY WorkerConstants DEF AllHandled, Msgs
  <1> QED
    BY <1>1 DEF Owes, WorkersInv, Working

\* When every message has been handled, an open commitment can be recalled from
\* both stores as it now stands, a closed one from neither in its last words,
\* the rendering before the current one is archived, and what one worker has
\* forgotten can be recalled from neither, whatever crashed or failed.
THEOREM WorkersConverged == Spec => []Converged
  <1>1. WorkersInv /\ RenderInv /\ (OneWorker => EraseInv) => Converged
    <2> SUFFICES ASSUME WorkersInv, RenderInv, OneWorker => EraseInv, AllHandled, NEW c \in Cids
                 PROVE  IF Forgotten(c) THEN OneWorker => Hidden(c)
                        ELSE /\ IF Active(c) THEN Shown(c) ELSE Ended(c)
                             /\ \A d \in Recallable(c) : d.revision + 1 # commitments[c].revision
      BY DEF Converged
    <2>1. ASSUME Forgotten(c), OneWorker
          PROVE  Hidden(c)
      <3>1. Remembered(c)
        BY <2>1 DEF EraseInv
      <3>2. Marked(c) /\ tombstones[c].proj = AllProjected
        BY <2>1, <3>1, NothingOwed DEF Remembered
      <3> QED
        BY <3>2 DEF Marked, AllProjected, Targets, Hidden
    <2> QED
      BY <2>1, HandledShown
  <1> QED
    BY <1>1, WorkersInvariant, CommitmentsRendered, ForgottenOwed, PTL

\* A delete that was asked for by command is carried to its end when every
\* message has been handled, however often it was interrupted: no record, no
\* drawer and no statement is left, and the events it was extracted from are
\* redacted - unless an archive came between the erasure of a source event and
\* its redelivery.
THEOREM WorkersEraseCompletes == Spec => []CommandEraseCompletes
  <1>1. WorkersInv /\ RenderInv /\ (OneWorker => EraseInv) => CommandEraseCompletes
    <2> SUFFICES ASSUME WorkersInv, RenderInv, EraseInv, AllHandled, NEW c \in Cids,
                        tombstones[c].action = "delete", ~Softened(c)
                 PROVE  Erased(c)
      BY DEF CommandEraseCompletes
    <2>1. Remembered(c) /\ Forgotten(c)
      BY DEF EraseInv, Forgotten
    <2>2. Gone(c)
      BY <2>1, NothingOwed DEF Remembered
    <2>3. ASSUME NEW i \in Intents, IntentOf[i].cid = c, status[i] = "acked"
          PROVE  i \in redacted
      <3>1. revisions[i].cid # c
        BY <2>2, NoRevisionLeft DEF Gone, WorkersInv
      <3> QED
        BY <2>3, <3>1 DEF EraseInv, Accounted, Settling
    <2> QED
      BY <2>2, <2>3 DEF Gone, Erased
  <1> QED
    BY <1>1, WorkersInvariant, CommitmentsRendered, ForgottenOwed, PTL

=============================================================================
