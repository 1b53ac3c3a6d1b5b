-------------------------- MODULE FactWorkersProofs --------------------------
(***************************************************************************)
(* Proofs about canonical facts, for every set of facts, intents,          *)
(* corrections, slots and projections.                                     *)
(*                                                                         *)
(* The ledger first.  The invariants of CanonicalFacts are not inductive   *)
(* by themselves: that a tombstoned fact cannot become active through      *)
(* register needs to know that a fact without a row has no tombstone, and  *)
(* that mark_reactivated moves to a later life needs to know the number    *)
(* register_reactivation wrote.  LedgerInv collects those facts.           *)
(*                                                                         *)
(* Then the workers that carry turns and commands into the stores.  They   *)
(* are callers of the ledger: whatever they interleave, repeat and leave   *)
(* half done, each step is one ledger call or leaves the tables alone, so  *)
(* what is proved of the ledger holds of the running system, for any       *)
(* messages, workers, crashes and failures.                                *)
(*                                                                         *)
(* A handler calls the ledger with what it learned in earlier steps, so    *)
(* the invariant says what a worker holds at each call: a fact to end      *)
(* while it ends one, a fact to assert while it asserts, known assertions  *)
(* while it forgets them.                                                  *)
(*                                                                         *)
(* Two promises of the write path follow from stronger invariants of what  *)
(* a handler knows between its steps: no acknowledged assertion is lost    *)
(* (RecordedInv), and a projected mark of an active fact is backed by the  *)
(* stores (BackedInv).                                                     *)
(***************************************************************************)
EXTENDS FactWorkers, FiniteSetTheorems, TLAPS

----------------------------------------------------------------------------
(* The ledger.                                                              *)

\* A fact without a row was never scrubbed or tombstoned.
Fresh ==
    \A f \in Facts :
        asrt[f].state = "absent" => ~asrt[f].redacted /\ ~forgets[f].present

\* A scrubbed row can be active only in a later life.
ScrubbedLater ==
    \A f \in Facts :
        asrt[f].redacted /\ asrt[f].state = "active" => asrt[f].activation_count > 1

\* A reactivation names a later life, and its intent is evidence for its fact.
ReactivationRecorded ==
    \A i \in Intents :
        reactivations[i].state # "none"
        => /\ reactivations[i].activation_number > 1
           /\ reactivations[i].fact \in Facts
           /\ evidence[i] = reactivations[i].fact

LedgerInv ==
    /\ LedgerTypeOK
    /\ Fresh
    /\ ScrubbedLater
    /\ ReactivationRecorded
    /\ EvidenceCounted
    /\ TombstoneBlocksReplay
    /\ FirstLifeSlotUnique
    /\ ActivationAccounted

\* Requiring targets keeps a row of projection states.
LEMMA RequireType ==
    ASSUME NEW p \in [Targets -> ProjectionState], NEW T
    PROVE  Require(p, T) \in [Targets -> ProjectionState]
  BY DEF Require, ProjectionState

\* Setting the states of some targets keeps a row of projection states.
LEMMA SetProjType ==
    ASSUME NEW p \in [Targets -> ProjectionState], NEW T, NEW v \in ProjectionState
    PROVE  SetProj(p, T, v) \in [Targets -> ProjectionState]
  BY DEF SetProj

\* The empty tables are well typed.
LEMMA TypeInit == LedgerInit => LedgerTypeOK
  BY DEF LedgerInit, LedgerTypeOK, NoAssertion, NoInvalidation, NoReactivation, NoForget,
         NotRequired, AssertionRow, InvalidationRow, ReactivationRow, ForgetRow,
         ProjectionState, EndedState, EventState

States == {"absent", "active", "forgotten"} \cup EndedState

\* A row of an event table that is marked applied keeps its other columns.
LEMMA EventRowsApplied ==
    /\ \A r \in InvalidationRow :
           LET q == [r EXCEPT !.state = "applied"]
           IN q \in InvalidationRow /\ q.fact = r.fact
    /\ \A r \in ReactivationRow :
           LET q == [r EXCEPT !.state = "applied"]
           IN /\ q \in ReactivationRow /\ q.fact = r.fact /\ q.state = "applied"
              /\ q.activation_number = r.activation_number
  BY DEF InvalidationRow, ReactivationRow, EventState

----------------------------------------------------------------------------
(* What each ledger call does to the tables, in terms of their columns.     *)

\* register: one row gains at most its evidence, and is active if it is new.
LEMMA RegisterEffect ==
    ASSUME LedgerTypeOK, NEW i \in Intents, NEW f \in Facts, NEW T, Register(i, f, T)
    PROVE  /\ asrt' \in [Facts -> AssertionRow]
           /\ \A g \in Facts : g # f => asrt'[g] = asrt[g]
           /\ asrt'[f].state = IF Exists(f) THEN asrt[f].state ELSE "active"
           /\ asrt'[f].evidence_count =
                  asrt[f].evidence_count + (IF evidence[i] = NoFact THEN 1 ELSE 0)
           /\ asrt'[f].activation_count = asrt[f].activation_count
           /\ asrt'[f].redacted = asrt[f].redacted
  <1> DEFINE s == IF Exists(f) THEN asrt[f].state ELSE "active"
             n == asrt[f].evidence_count + (IF evidence[i] = NoFact THEN 1 ELSE 0)
             p == Require(asrt[f].proj, T)
  <1>1. asrt[f] \in AssertionRow
    BY DEF LedgerTypeOK
  <1>2. s \in States
    BY <1>1 DEF AssertionRow, States
  <1>3. n \in Nat
    BY <1>1 DEF AssertionRow
  <1>4. p \in [Targets -> ProjectionState]
    BY <1>1, RequireType DEF AssertionRow
  <1> DEFINE q == [asrt[f] EXCEPT !.state = s, !.proj = p, !.evidence_count = n]
  <1>5. asrt' = [asrt EXCEPT ![f] = q]
    BY DEF Register, RegisteredRow
  <1> HIDE DEF s, n, p
  <1>6. /\ q \in AssertionRow /\ q.state = s /\ q.evidence_count = n
        /\ q.activation_count = asrt[f].activation_count /\ q.redacted = asrt[f].redacted
    BY <1>1, <1>2, <1>3, <1>4 DEF AssertionRow, States
  <1> HIDE DEF q
  <1>7. \A g \in Facts : asrt'[g] = IF g = f THEN q ELSE asrt[g]
    BY <1>5 DEF LedgerTypeOK
  <1>8. asrt' \in [Facts -> AssertionRow]
    BY <1>5, <1>6 DEF LedgerTypeOK
  <1> QED
    BY <1>6, <1>7, <1>8 DEF s, n

\* mark_invalidated: the fact of the row takes the state it asks for.
LEMMA MarkInvalidatedEffect ==
    ASSUME LedgerTypeOK, NEW i \in Corrections, MarkInvalidated(i)
    PROVE  /\ asrt' \in [Facts -> AssertionRow]
           /\ invalidations' \in [Corrections -> InvalidationRow]
           /\ \A g \in Facts :
                  \/ asrt'[g] = asrt[g]
                  \/ /\ asrt'[g].state \in EndedState
                     /\ asrt'[g].evidence_count = asrt[g].evidence_count
                     /\ asrt'[g].activation_count = asrt[g].activation_count
                     /\ asrt'[g].redacted = asrt[g].redacted
  <1> DEFINE row == invalidations[i]
             q == [asrt[row.fact] EXCEPT !.state = row.result_state]
  <1>1. row \in InvalidationRow /\ row.result_state \in EndedState
    BY DEF LedgerTypeOK, InvalidationRow
  <1>2. row.result_state \in States
    BY <1>1 DEF States
  <1>3. CASE row.state = "applied"
    BY <1>3 DEF MarkInvalidated, LedgerTypeOK
  <1>4. CASE row.state # "applied"
    <2>1. /\ invalidations' = [invalidations EXCEPT ![i] = [row EXCEPT !.state = "applied"]]
          /\ asrt' = [asrt EXCEPT ![row.fact] = q]
      BY <1>4 DEF MarkInvalidated
    <2>2. [row EXCEPT !.state = "applied"] \in InvalidationRow
      BY <1>1, EventRowsApplied
    <2>3. invalidations' \in [Corrections -> InvalidationRow]
      BY <2>1, <2>2 DEF LedgerTypeOK
    <2>4. CASE row.fact \in Facts
      <3>1. asrt[row.fact] \in AssertionRow
        BY <2>4 DEF LedgerTypeOK
      <3>2. /\ q \in AssertionRow /\ q.state = row.result_state
            /\ q.evidence_count = asrt[row.fact].evidence_count
            /\ q.activation_count = asrt[row.fact].activation_count
            /\ q.redacted = asrt[row.fact].redacted
        BY <1>2, <3>1 DEF AssertionRow, States
      <3> HIDE DEF q
      <3>3. \A g \in Facts : asrt'[g] = IF g = row.fact THEN q ELSE asrt[g]
        BY <2>1 DEF LedgerTypeOK
      <3>4. asrt' \in [Facts -> AssertionRow]
        BY <2>1, <3>2 DEF LedgerTypeOK
      <3> QED
        BY <1>1, <2>3, <3>2, <3>3, <3>4
    <2>5. CASE row.fact \notin Facts
      <3>1. asrt' = asrt
        BY <2>1, <2>5 DEF LedgerTypeOK
      <3> QED
        BY <2>3, <3>1 DEF LedgerTypeOK
    <2> QED
      BY <2>4, <2>5
  <1> QED
    BY <1>3, <1>4

\* register_reactivation: a replay changes nothing; a new request records its
\* intent as evidence and the number of the next life.
LEMMA RegisterReactivationEffect ==
    ASSUME LedgerTypeOK, NEW i \in Intents, NEW f \in Facts, NEW T,
           RegisterReactivation(i, f, T), reactivations[i].state = "none"
    PROVE  /\ asrt' \in [Facts -> AssertionRow]
           /\ \A g \in Facts : g # f => asrt'[g] = asrt[g]
           /\ asrt'[f].state = asrt[f].state
           /\ asrt'[f].evidence_count = asrt[f].evidence_count + 1
           /\ asrt'[f].activation_count = asrt[f].activation_count
           /\ asrt'[f].redacted = asrt[f].redacted
           /\ reactivations' \in [Intents -> ReactivationRow]
           /\ reactivations'[i] = [fact |-> f, state |-> "pending",
                                   activation_number |-> asrt[f].activation_count + 1]
           /\ \A j \in Intents : j # i => reactivations'[j] = reactivations[j]
           /\ evidence[i] = NoFact
           /\ evidence' = [evidence EXCEPT ![i] = f]
  <1> DEFINE p == SetProj(asrt[f].proj, T, "pending")
             n == asrt[f].evidence_count + 1
             q == [asrt[f] EXCEPT !.evidence_count = n, !.proj = p]
             r == [fact |-> f, state |-> "pending",
                   activation_number |-> asrt[f].activation_count + 1]
  <1>1. asrt[f] \in AssertionRow
    BY DEF LedgerTypeOK
  <1>2. n \in Nat
    BY <1>1 DEF AssertionRow
  <1>3. p \in [Targets -> ProjectionState]
    BY <1>1, SetProjType DEF AssertionRow, ProjectionState
  <1>4. /\ asrt' = [asrt EXCEPT ![f] = q]
        /\ reactivations' = [reactivations EXCEPT ![i] = r]
        /\ evidence' = [evidence EXCEPT ![i] = f]
    BY DEF RegisterReactivation
  <1>5. evidence[i] = NoFact
    BY DEF RegisterReactivation, RegisterReactivationRaises
  <1>6. r \in ReactivationRow
    BY <1>1 DEF AssertionRow, ReactivationRow, EventState
  <1> HIDE DEF n, p
  <1>7. /\ q \in AssertionRow /\ q.state = asrt[f].state /\ q.evidence_count = n
        /\ q.activation_count = asrt[f].activation_count /\ q.redacted = asrt[f].redacted
    BY <1>1, <1>2, <1>3 DEF AssertionRow
  <1> HIDE DEF q, r
  <1>8. \A g \in Facts : asrt'[g] = IF g = f THEN q ELSE asrt[g]
    BY <1>4 DEF LedgerTypeOK
  <1>9. \A j \in Intents : reactivations'[j] = IF j = i THEN r ELSE reactivations[j]
    BY <1>4 DEF LedgerTypeOK
  <1>10. asrt' \in [Facts -> AssertionRow] /\ reactivations' \in [Intents -> ReactivationRow]
    BY <1>4, <1>6, <1>7 DEF LedgerTypeOK
  <1> QED
    BY <1>4, <1>5, <1>7, <1>8, <1>9, <1>10 DEF n, r

\* A replayed reactivation request changes nothing.
LEMMA RegisterReactivationReplay ==
    ASSUME NEW i \in Intents, NEW f \in Facts, NEW T,
           RegisterReactivation(i, f, T), reactivations[i].state # "none"
    PROVE  UNCHANGED ledgerVars
  BY DEF RegisterReactivation, ledgerVars

\* mark_reactivated: the fact enters the life its reactivation was numbered.
LEMMA MarkReactivatedEffect ==
    ASSUME LedgerTypeOK, ReactivationRecorded, NEW i \in Intents, NEW T,
           MarkReactivated(i, T), reactivations[i].state # "applied"
    PROVE  LET f == reactivations[i].fact
           IN /\ f \in Facts
              /\ evidence[i] = f
              /\ reactivations[i].activation_number > 1
              /\ asrt' \in [Facts -> AssertionRow]
              /\ \A g \in Facts : g # f => asrt'[g] = asrt[g]
              /\ asrt[f].state \in EndedState
              /\ asrt'[f].state = "active"
              /\ asrt'[f].evidence_count = asrt[f].evidence_count
              /\ asrt'[f].activation_count = reactivations[i].activation_number
              /\ asrt'[f].redacted = asrt[f].redacted
              /\ reactivations' \in [Intents -> ReactivationRow]
              /\ reactivations'[i].fact = f
              /\ reactivations'[i].state = "applied"
              /\ reactivations'[i].activation_number = reactivations[i].activation_number
              /\ \A j \in Intents : j # i => reactivations'[j] = reactivations[j]
              /\ evidence' = evidence
  <1> DEFINE row == reactivations[i]
             f == row.fact
             n == row.activation_number
             q == [asrt[f] EXCEPT !.state = "active", !.activation_count = n]
             r == [row EXCEPT !.state = "applied"]
  <1>1. row \in ReactivationRow /\ row.state \in EventState /\ n \in Nat
    BY DEF LedgerTypeOK, ReactivationRow
  <1>2. ~MarkReactivatedRaises(i, T) /\ row.state # "none"
    BY DEF MarkReactivated, MarkReactivatedRaises
  <1>3. row.state = "pending"
    BY <1>1, <1>2 DEF EventState
  <1>4. f \in Facts /\ evidence[i] = f /\ n > 1
    BY <1>2 DEF ReactivationRecorded
  <1>5. asrt[f].state \in EndedState
    BY <1>2, <1>3 DEF MarkReactivatedRaises
  <1>6. /\ asrt' = [asrt EXCEPT ![f] = q]
        /\ reactivations' = [reactivations EXCEPT ![i] = r]
        /\ evidence' = evidence
    BY <1>3 DEF MarkReactivated
  <1>7. asrt[f] \in AssertionRow /\ n \in Nat \ {0} /\ "active" \in States
    BY <1>1, <1>4 DEF LedgerTypeOK, States
  <1>8. r \in ReactivationRow /\ r.fact = f /\ r.state = "applied" /\ r.activation_number = n
    BY <1>1, EventRowsApplied
  <1> HIDE DEF r, n
  <1>9. /\ q \in AssertionRow /\ q.state = "active"
        /\ q.evidence_count = asrt[f].evidence_count
        /\ q.activation_count = n /\ q.redacted = asrt[f].redacted
    BY <1>7 DEF AssertionRow, States
  <1> HIDE DEF q, f
  <1>10. \A g \in Facts : asrt'[g] = IF g = f THEN q ELSE asrt[g]
    BY <1>6 DEF LedgerTypeOK
  <1>11. \A j \in Intents : reactivations'[j] = IF j = i THEN r ELSE reactivations[j]
    BY <1>6 DEF LedgerTypeOK
  <1>12. asrt' \in [Facts -> AssertionRow] /\ reactivations' \in [Intents -> ReactivationRow]
    BY <1>4, <1>6, <1>8, <1>9 DEF LedgerTypeOK
  <1> QED
    BY <1>4, <1>5, <1>6, <1>8, <1>9, <1>10, <1>11, <1>12 DEF f, n

\* A row whose projection columns alone may have changed.
SameFact(g) ==
    /\ asrt'[g] \in AssertionRow
    /\ asrt'[g].state = asrt[g].state
    /\ asrt'[g].evidence_count = asrt[g].evidence_count
    /\ asrt'[g].activation_count = asrt[g].activation_count
    /\ asrt'[g].redacted = asrt[g].redacted

\* mark_projected and mark_projection_pending touch only a row's projections.
LEMMA SetProjectionStateEffect ==
    ASSUME LedgerTypeOK, NEW f \in Facts, NEW T, NEW v \in ProjectionState,
           SetProjectionState(f, T, v)
    PROVE  /\ asrt' \in [Facts -> AssertionRow]
           /\ \A g \in Facts : SameFact(g)
  <1> DEFINE p == SetProj(asrt[f].proj, T, v)
             q == [asrt[f] EXCEPT !.proj = p]
  <1>1. asrt[f] \in AssertionRow
    BY DEF LedgerTypeOK
  <1>2. p \in [Targets -> ProjectionState]
    BY <1>1, SetProjType DEF AssertionRow
  <1>3. asrt' = [asrt EXCEPT ![f] = q]
    BY DEF SetProjectionState
  <1> HIDE DEF p
  <1>4. /\ q \in AssertionRow /\ q.state = asrt[f].state
        /\ q.evidence_count = asrt[f].evidence_count
        /\ q.activation_count = asrt[f].activation_count /\ q.redacted = asrt[f].redacted
    BY <1>1, <1>2 DEF AssertionRow
  <1> HIDE DEF q
  <1>5. asrt' \in [Facts -> AssertionRow]
    BY <1>3, <1>4 DEF LedgerTypeOK
  <1>6. \A g \in Facts : asrt'[g] = IF g = f THEN q ELSE asrt[g]
    BY <1>3 DEF LedgerTypeOK
  <1> QED
    BY <1>4, <1>5, <1>6 DEF SameFact, LedgerTypeOK

\* begin_forget: the rows of the batch that exist become forgotten and get a
\* tombstone, which stays hard if it was.
LEMMA BeginForgetEffect ==
    ASSUME LedgerTypeOK, NEW F \in SUBSET Facts, NEW hard \in BOOLEAN, NEW T,
           BeginForget(F, hard, T)
    PROVE  /\ asrt' \in [Facts -> AssertionRow]
           /\ forgets' \in [Facts -> ForgetRow]
           /\ \A g \in Facts :
                  \/ asrt'[g] = asrt[g] /\ forgets'[g] = forgets[g]
                  \/ /\ Exists(g)
                     /\ asrt'[g].state = "forgotten"
                     /\ asrt'[g].evidence_count = asrt[g].evidence_count
                     /\ asrt'[g].activation_count = asrt[g].activation_count
                     /\ asrt'[g].redacted = asrt[g].redacted
                     /\ forgets'[g].present
                     /\ forgets'[g].hard = (forgets[g].hard \/ hard)
                     /\ forgets'[g].proj = Require(forgets[g].proj, T)
  <1> DEFINE p(g) == Require(forgets[g].proj, T)
             q(g) == [asrt[g] EXCEPT !.state = "forgotten", !.proj = p(g)]
             t(g) == [present |-> TRUE, hard |-> forgets[g].hard \/ hard, proj |-> p(g)]
  <1>1. ASSUME NEW g \in Facts
        PROVE  /\ q(g) \in AssertionRow /\ q(g).state = "forgotten"
               /\ q(g).evidence_count = asrt[g].evidence_count
               /\ q(g).activation_count = asrt[g].activation_count
               /\ q(g).redacted = asrt[g].redacted
               /\ t(g) \in ForgetRow
    <2>1. asrt[g] \in AssertionRow /\ forgets[g] \in ForgetRow
      BY <1>1 DEF LedgerTypeOK
    <2>2. forgets[g].proj \in [Targets -> ProjectionState]
      BY <2>1 DEF ForgetRow
    <2>3. p(g) \in [Targets -> ProjectionState]
      BY <2>2, RequireType
    <2> HIDE DEF p
    <2>4. t(g) \in ForgetRow
      BY <2>1, <2>3 DEF ForgetRow
    <2>5. /\ q(g) \in AssertionRow /\ q(g).state = "forgotten"
          /\ q(g).evidence_count = asrt[g].evidence_count
          /\ q(g).activation_count = asrt[g].activation_count
          /\ q(g).redacted = asrt[g].redacted
      BY <2>1, <2>3 DEF AssertionRow
    <2> QED
      BY <2>4, <2>5
  <1>2. /\ forgets' = [g \in Facts |-> IF g \in ForgetPlans(F) THEN t(g) ELSE forgets[g]]
        /\ asrt' = [g \in Facts |-> IF g \in ForgetPlans(F) THEN q(g) ELSE asrt[g]]
    BY DEF BeginForget, ForgetRowOf
  <1>3. \A g \in Facts : /\ t(g).present = TRUE
                         /\ t(g).hard = (forgets[g].hard \/ hard)
                         /\ t(g).proj = Require(forgets[g].proj, T)
    OBVIOUS
  <1> HIDE DEF q, t
  <1>4. asrt' \in [Facts -> AssertionRow] /\ forgets' \in [Facts -> ForgetRow]
    BY <1>1, <1>2 DEF LedgerTypeOK
  <1>5. \A g \in Facts : IF g \in ForgetPlans(F)
                         THEN asrt'[g] = q(g) /\ forgets'[g] = t(g) /\ Exists(g)
                         ELSE asrt'[g] = asrt[g] /\ forgets'[g] = forgets[g]
    BY <1>2 DEF ForgetPlans
  <1> QED
    BY <1>1, <1>3, <1>4, <1>5

\* scrub_forgotten_content: forgotten rows of the batch lose their content.
LEMMA ScrubEffect ==
    ASSUME LedgerTypeOK, NEW F \in SUBSET Facts, ScrubForgottenContent(F)
    PROVE  /\ asrt' \in [Facts -> AssertionRow]
           /\ \A g \in Facts :
                  \/ asrt'[g] = asrt[g]
                  \/ /\ g \in F
                     /\ asrt[g].state = "forgotten" /\ asrt'[g].state = "forgotten"
                     /\ asrt'[g].activation_count = asrt[g].activation_count
           /\ \A g \in F : forgets[g].hard
           /\ evidence' \in [Intents -> Facts \cup {NoFact}]
           /\ invalidations' \in [Corrections -> InvalidationRow]
           /\ reactivations' \in [Intents -> ReactivationRow]
           /\ \A i \in Intents :
                  evidence'[i] = IF evidence[i] \in F THEN NoFact ELSE evidence[i]
           /\ \A i \in Intents :
                  reactivations'[i] = IF reactivations[i].fact \in F THEN NoReactivation
                                      ELSE reactivations[i]
           /\ forgets' = forgets
  <1> DEFINE q(g) == [asrt[g] EXCEPT !.redacted = TRUE, !.evidence_count = 0]
  <1>1. ASSUME NEW g \in Facts
        PROVE  /\ q(g) \in AssertionRow /\ q(g).state = asrt[g].state
               /\ q(g).activation_count = asrt[g].activation_count
    BY <1>1 DEF LedgerTypeOK, AssertionRow
  <1>2. asrt' = [g \in Facts |-> IF g \in F /\ asrt[g].state = "forgotten"
                                 THEN q(g) ELSE asrt[g]]
    BY DEF ScrubForgottenContent
  <1> HIDE DEF q
  <1>3. asrt' \in [Facts -> AssertionRow]
    BY <1>1, <1>2 DEF LedgerTypeOK
  <1>4. \A g \in Facts : asrt'[g] = IF g \in F /\ asrt[g].state = "forgotten"
                                    THEN q(g) ELSE asrt[g]
    BY <1>2
  <1>5. evidence' \in [Intents -> Facts \cup {NoFact}]
    BY DEF ScrubForgottenContent, LedgerTypeOK
  <1>6. NoInvalidation \in InvalidationRow /\ NoReactivation \in ReactivationRow
    BY DEF NoInvalidation, NoReactivation, InvalidationRow, ReactivationRow, EventState,
           EndedState
  <1>7. /\ invalidations' \in [Corrections -> InvalidationRow]
        /\ reactivations' \in [Intents -> ReactivationRow]
    BY <1>6 DEF ScrubForgottenContent, LedgerTypeOK
  <1>8. /\ \A g \in F : forgets[g].hard
        /\ \A i \in Intents :
               evidence'[i] = IF evidence[i] \in F THEN NoFact ELSE evidence[i]
        /\ \A i \in Intents :
               reactivations'[i] = IF reactivations[i].fact \in F THEN NoReactivation
                                   ELSE reactivations[i]
        /\ forgets' = forgets
    BY DEF ScrubForgottenContent
  <1> QED
    BY <1>1, <1>3, <1>4, <1>5, <1>7, <1>8

\* mark_forget_projected closes projections of tombstones and rows, nothing else.
LEMMA MarkForgetProjectedEffect ==
    ASSUME LedgerTypeOK, NEW F \in SUBSET Facts, NEW T, MarkForgetProjected(F, T)
    PROVE  /\ asrt' \in [Facts -> AssertionRow]
           /\ forgets' \in [Facts -> ForgetRow]
           /\ \A g \in Facts :
                  /\ SameFact(g)
                  /\ forgets'[g].present = forgets[g].present
                  /\ forgets'[g].hard = forgets[g].hard
                  /\ \/ forgets'[g].proj = forgets[g].proj
                     \/ forgets'[g].proj = SetProj(forgets[g].proj, T, "projected")
  <1> DEFINE p(g) == SetProj(asrt[g].proj, T, "projected")
             u(g) == SetProj(forgets[g].proj, T, "projected")
             q(g) == [asrt[g] EXCEPT !.proj = p(g)]
             t(g) == [forgets[g] EXCEPT !.proj = u(g)]
  <1>1. ASSUME NEW g \in Facts
        PROVE  /\ q(g) \in AssertionRow /\ q(g).state = asrt[g].state
               /\ q(g).evidence_count = asrt[g].evidence_count
               /\ q(g).activation_count = asrt[g].activation_count
               /\ q(g).redacted = asrt[g].redacted
               /\ t(g) \in ForgetRow
               /\ t(g).present = forgets[g].present /\ t(g).hard = forgets[g].hard
               /\ t(g).proj = u(g)
    <2>1. asrt[g] \in AssertionRow /\ forgets[g] \in ForgetRow
      BY <1>1 DEF LedgerTypeOK
    <2>2. /\ asrt[g].proj \in [Targets -> ProjectionState]
          /\ forgets[g].proj \in [Targets -> ProjectionState]
      BY <2>1 DEF AssertionRow, ForgetRow
    <2>3. p(g) \in [Targets -> ProjectionState] /\ u(g) \in [Targets -> ProjectionState]
      BY <2>2, SetProjType DEF ProjectionState
    <2> HIDE DEF p, u
    <2>4. /\ q(g) \in AssertionRow /\ q(g).state = asrt[g].state
          /\ q(g).evidence_count = asrt[g].evidence_count
          /\ q(g).activation_count = asrt[g].activation_count
          /\ q(g).redacted = asrt[g].redacted
      BY <2>1, <2>3 DEF AssertionRow
    <2>5. /\ t(g) \in ForgetRow
          /\ t(g).present = forgets[g].present /\ t(g).hard = forgets[g].hard
          /\ t(g).proj = u(g)
      BY <2>1, <2>3 DEF ForgetRow
    <2> QED
      BY <2>4, <2>5
  <1>2. /\ forgets' = [g \in Facts |-> IF g \in F THEN t(g) ELSE forgets[g]]
        /\ asrt' = [g \in Facts |-> IF g \in F THEN q(g) ELSE asrt[g]]
    BY DEF MarkForgetProjected
  <1> HIDE DEF q, t
  <1>3. asrt' \in [Facts -> AssertionRow] /\ forgets' \in [Facts -> ForgetRow]
    BY <1>1, <1>2 DEF LedgerTypeOK
  <1>4. \A g \in Facts : /\ asrt'[g] = IF g \in F THEN q(g) ELSE asrt[g]
                         /\ forgets'[g] = IF g \in F THEN t(g) ELSE forgets[g]
    BY <1>2
  <1> QED
    BY <1>1, <1>3, <1>4 DEF SameFact, LedgerTypeOK

----------------------------------------------------------------------------
(* The invariant holds initially and every call preserves it.               *)

\* The invariant holds of the empty tables.
LEMMA InvInit == LedgerInit => LedgerInv
  <1> SUFFICES ASSUME LedgerInit PROVE LedgerInv
    OBVIOUS
  <1>1. LedgerTypeOK
    BY TypeInit
  <1>2. \A f \in Facts : EvidenceOf(f) = {}
    BY NoFactAssumption DEF LedgerInit, EvidenceOf
  <1>3. EvidenceCounted
    BY <1>2, FS_EmptySet DEF LedgerInit, EvidenceCounted, NoAssertion
  <1>4. Fresh /\ ScrubbedLater /\ TombstoneBlocksReplay /\ FirstLifeSlotUnique
    BY DEF LedgerInit, Fresh, ScrubbedLater, TombstoneBlocksReplay, FirstLifeSlotUnique,
           NoAssertion, NoForget
  <1>5. ReactivationRecorded /\ ActivationAccounted
    BY DEF LedgerInit, ReactivationRecorded, ActivationAccounted, NoAssertion, NoReactivation
  <1> QED
    BY <1>1, <1>3, <1>4, <1>5 DEF LedgerInv

\* Calls that touch only projection columns and invalidation rows.
LEMMA InvSameFacts ==
    ASSUME LedgerInv,
           asrt' \in [Facts -> AssertionRow], forgets' \in [Facts -> ForgetRow],
           invalidations' \in [Corrections -> InvalidationRow],
           \A g \in Facts : /\ SameFact(g)
                            /\ forgets'[g].present = forgets[g].present
                            /\ forgets'[g].hard = forgets[g].hard,
           evidence' = evidence, reactivations' = reactivations
    PROVE  LedgerInv'
  <1>1. LedgerTypeOK'
    BY DEF LedgerInv, LedgerTypeOK
  <1>2. \A g \in Facts : EvidenceOf(g)' = EvidenceOf(g)
    BY DEF EvidenceOf
  <1>3. EvidenceCounted'
    BY <1>2 DEF LedgerInv, EvidenceCounted, SameFact
  <1>4. Fresh' /\ ScrubbedLater' /\ TombstoneBlocksReplay' /\ FirstLifeSlotUnique'
    BY DEF LedgerInv, Fresh, ScrubbedLater, TombstoneBlocksReplay, FirstLifeSlotUnique, SameFact
  <1>5. ReactivationRecorded' /\ ActivationAccounted'
    BY DEF LedgerInv, ReactivationRecorded, ActivationAccounted, SameFact
  <1> QED
    BY <1>1, <1>3, <1>4, <1>5 DEF LedgerInv

\* A new piece of evidence is one more element of the set that is counted.
LEMMA EvidenceAdded ==
    ASSUME LedgerTypeOK, NEW i \in Intents, NEW f \in Facts,
           evidence[i] = NoFact, evidence' = [evidence EXCEPT ![i] = f]
    PROVE  /\ Cardinality(EvidenceOf(f)') = Cardinality(EvidenceOf(f)) + 1
           /\ \A g \in Facts : g # f => EvidenceOf(g)' = EvidenceOf(g)
  <1>1. EvidenceOf(f)' = EvidenceOf(f) \cup {i}
    BY DEF EvidenceOf, LedgerTypeOK
  <1>2. i \notin EvidenceOf(f)
    BY NoFactAssumption DEF EvidenceOf
  <1>3. IsFiniteSet(EvidenceOf(f))
    BY IntentsFinite, FS_Subset DEF EvidenceOf
  <1>4. Cardinality(EvidenceOf(f)') = Cardinality(EvidenceOf(f)) + 1
    BY <1>1, <1>2, <1>3, FS_AddElement
  <1>5. \A g \in Facts : g # f => EvidenceOf(g)' = EvidenceOf(g)
    BY NoFactAssumption DEF EvidenceOf, LedgerTypeOK
  <1> QED
    BY <1>4, <1>5

\* register keeps the invariant.
LEMMA InvRegister ==
    ASSUME LedgerInv, NEW i \in Intents, NEW f \in Facts, NEW T, Register(i, f, T)
    PROVE  LedgerInv'
  <1> USE DEF LedgerInv
  <1>1. /\ asrt' \in [Facts -> AssertionRow]
        /\ \A g \in Facts : g # f => asrt'[g] = asrt[g]
        /\ asrt'[f].state = IF Exists(f) THEN asrt[f].state ELSE "active"
        /\ asrt'[f].evidence_count =
               asrt[f].evidence_count + (IF evidence[i] = NoFact THEN 1 ELSE 0)
        /\ asrt'[f].activation_count = asrt[f].activation_count
        /\ asrt'[f].redacted = asrt[f].redacted
    BY RegisterEffect
  <1>2. /\ evidence' = [evidence EXCEPT ![i] = f]
        /\ invalidations' = invalidations /\ reactivations' = reactivations
        /\ forgets' = forgets
        /\ ~RegisterRaises(i, f)
    BY DEF Register
  <1>3. evidence[i] = NoFact \/ evidence[i] = f
    BY <1>2 DEF RegisterRaises
  <1>4. LedgerTypeOK'
    BY <1>1, <1>2 DEF LedgerTypeOK
  <1>5. EvidenceCounted'
    <2>1. CASE evidence[i] = NoFact
      <3>1. /\ Cardinality(EvidenceOf(f)') = Cardinality(EvidenceOf(f)) + 1
            /\ \A g \in Facts : g # f => EvidenceOf(g)' = EvidenceOf(g)
        BY <1>2, <2>1, EvidenceAdded
      <3>2. asrt'[f].evidence_count = asrt[f].evidence_count + 1
        BY <1>1, <2>1
      <3> QED
        BY <1>1, <1>2, <3>1, <3>2 DEF EvidenceCounted
    <2>2. CASE evidence[i] = f
      <3>1. evidence' = evidence
        BY <1>2, <2>2 DEF LedgerTypeOK
      <3>2. \A g \in Facts : EvidenceOf(g)' = EvidenceOf(g)
        BY <3>1 DEF EvidenceOf
      <3>3. f # NoFact
        BY NoFactAssumption
      <3>4. asrt'[f].evidence_count = asrt[f].evidence_count
        BY <1>1, <2>2, <3>3 DEF LedgerTypeOK, AssertionRow
      <3> QED
        BY <1>1, <1>2, <3>2, <3>4 DEF EvidenceCounted
    <2> QED
      BY <1>3, <2>1, <2>2
  <1>6. Fresh' /\ ScrubbedLater' /\ TombstoneBlocksReplay'
    BY <1>1, <1>2 DEF Fresh, ScrubbedLater, TombstoneBlocksReplay, Exists, LedgerTypeOK, AssertionRow
  <1>7. ReactivationRecorded'
    BY <1>2, <1>3, NoFactAssumption DEF ReactivationRecorded, LedgerTypeOK
  <1>8. ActivationAccounted'
    BY <1>1, <1>2, <1>3, NoFactAssumption DEF ActivationAccounted, LedgerTypeOK
  <1>9. FirstLifeSlotUnique'
    <2> SUFFICES ASSUME NEW g \in Facts, NEW h \in Facts, g # h, SlotOf[g] = SlotOf[h],
                        SlotOf[g] \in Single,
                        asrt'[g].state = "active", asrt'[h].state = "active"
                 PROVE  asrt'[g].activation_count > 1 \/ asrt'[h].activation_count > 1
      BY DEF FirstLifeSlotUnique
    <2>1. CASE Exists(f) \/ (g # f /\ h # f)
      BY <1>1, <2>1 DEF FirstLifeSlotUnique
    <2>2. CASE ~Exists(f) /\ (g = f \/ h = f)
      <3>1. ActiveForSlot(f) \ {f} = {} \/ SlotOf[f] \notin Single
        BY <1>2, <2>2 DEF RegisterRaises, Occupied
      <3>2. PICK k \in {g, h} : k # f
        OBVIOUS
      <3>3. k \in Facts /\ SlotOf[k] = SlotOf[f] /\ SlotOf[f] \in Single
        BY <2>2, <3>2
      <3>4. asrt'[k] = asrt[k] /\ asrt[k].state = "active"
        BY <1>1, <3>2, <3>3
      <3>5. asrt[k].redacted
        BY <3>1, <3>2, <3>3, <3>4 DEF ActiveForSlot
      <3> QED
        BY <3>2, <3>3, <3>4, <3>5 DEF ScrubbedLater
    <2> QED
      BY <2>1, <2>2
  <1> QED
    BY <1>4, <1>5, <1>6, <1>7, <1>8, <1>9

\* mark_invalidated keeps the invariant.
LEMMA InvMarkInvalidated ==
    ASSUME LedgerInv, NEW i \in Corrections, MarkInvalidated(i)
    PROVE  LedgerInv'
  <1> USE DEF LedgerInv
  <1>1. /\ asrt' \in [Facts -> AssertionRow]
        /\ invalidations' \in [Corrections -> InvalidationRow]
        /\ \A g \in Facts :
               \/ asrt'[g] = asrt[g]
               \/ /\ asrt'[g].state \in EndedState
                  /\ asrt'[g].evidence_count = asrt[g].evidence_count
                  /\ asrt'[g].activation_count = asrt[g].activation_count
                  /\ asrt'[g].redacted = asrt[g].redacted
    BY MarkInvalidatedEffect
  <1>2. evidence' = evidence /\ reactivations' = reactivations /\ forgets' = forgets
    BY DEF MarkInvalidated
  <1>3. LedgerTypeOK'
    BY <1>1, <1>2 DEF LedgerTypeOK
  <1>4. \A g \in Facts : EvidenceOf(g)' = EvidenceOf(g)
    BY <1>2 DEF EvidenceOf
  <1>5. EvidenceCounted'
    BY <1>1, <1>2, <1>4 DEF EvidenceCounted
  <1>6. Fresh' /\ ScrubbedLater' /\ TombstoneBlocksReplay' /\ FirstLifeSlotUnique'
    BY <1>1, <1>2 DEF Fresh, ScrubbedLater, TombstoneBlocksReplay, FirstLifeSlotUnique, EndedState
  <1>7. ReactivationRecorded' /\ ActivationAccounted'
    BY <1>1, <1>2 DEF ReactivationRecorded, ActivationAccounted
  <1> QED
    BY <1>3, <1>5, <1>6, <1>7

\* register_reactivation keeps the invariant.
LEMMA InvRegisterReactivation ==
    ASSUME LedgerInv, NEW i \in Intents, NEW f \in Facts, NEW T,
           RegisterReactivation(i, f, T), reactivations[i].state = "none"
    PROVE  LedgerInv'
  <1> USE DEF LedgerInv
  <1>1. /\ asrt' \in [Facts -> AssertionRow]
        /\ \A g \in Facts : g # f => asrt'[g] = asrt[g]
        /\ asrt'[f].state = asrt[f].state
        /\ asrt'[f].evidence_count = asrt[f].evidence_count + 1
        /\ asrt'[f].activation_count = asrt[f].activation_count
        /\ asrt'[f].redacted = asrt[f].redacted
        /\ reactivations' \in [Intents -> ReactivationRow]
        /\ reactivations'[i] = [fact |-> f, state |-> "pending",
                                activation_number |-> asrt[f].activation_count + 1]
        /\ \A j \in Intents : j # i => reactivations'[j] = reactivations[j]
        /\ evidence[i] = NoFact
        /\ evidence' = [evidence EXCEPT ![i] = f]
    BY RegisterReactivationEffect
  <1>2. invalidations' = invalidations /\ forgets' = forgets
    BY DEF RegisterReactivation
  <1>3. asrt[f].activation_count \in Nat \ {0}
    BY DEF LedgerTypeOK, AssertionRow
  <1>4. LedgerTypeOK'
    BY <1>1, <1>2 DEF LedgerTypeOK
  <1>5. EvidenceCounted'
    <2>1. /\ Cardinality(EvidenceOf(f)') = Cardinality(EvidenceOf(f)) + 1
          /\ \A g \in Facts : g # f => EvidenceOf(g)' = EvidenceOf(g)
      BY <1>1, EvidenceAdded
    <2> QED
      BY <1>1, <1>2, <2>1 DEF EvidenceCounted
  <1>6. Fresh' /\ ScrubbedLater' /\ TombstoneBlocksReplay'
    BY <1>1, <1>2 DEF Fresh, ScrubbedLater, TombstoneBlocksReplay
  <1>7. FirstLifeSlotUnique'
    BY <1>1 DEF FirstLifeSlotUnique
  <1>8. ReactivationRecorded'
    BY <1>1, <1>3 DEF ReactivationRecorded, LedgerTypeOK
  <1>9. ActivationAccounted'
    BY <1>1, <1>2 DEF ActivationAccounted, LedgerTypeOK
  <1> QED
    BY <1>4, <1>5, <1>6, <1>7, <1>8, <1>9

\* mark_reactivated keeps the invariant.
LEMMA InvMarkReactivated ==
    ASSUME LedgerInv, NEW i \in Intents, NEW T,
           MarkReactivated(i, T), reactivations[i].state # "applied"
    PROVE  LedgerInv'
  <1> USE DEF LedgerInv
  <1> DEFINE f == reactivations[i].fact
  <1>1. /\ f \in Facts
        /\ evidence[i] = f
        /\ reactivations[i].activation_number > 1
        /\ asrt' \in [Facts -> AssertionRow]
        /\ \A g \in Facts : g # f => asrt'[g] = asrt[g]
        /\ asrt[f].state \in EndedState
        /\ asrt'[f].state = "active"
        /\ asrt'[f].evidence_count = asrt[f].evidence_count
        /\ asrt'[f].activation_count = reactivations[i].activation_number
        /\ asrt'[f].redacted = asrt[f].redacted
        /\ reactivations' \in [Intents -> ReactivationRow]
        /\ reactivations'[i].fact = f
        /\ reactivations'[i].state = "applied"
        /\ reactivations'[i].activation_number = reactivations[i].activation_number
        /\ \A j \in Intents : j # i => reactivations'[j] = reactivations[j]
        /\ evidence' = evidence
    BY MarkReactivatedEffect
  <1>2. invalidations' = invalidations /\ forgets' = forgets
    BY DEF MarkReactivated
  <1> HIDE DEF f
  <1>3. LedgerTypeOK'
    BY <1>1, <1>2 DEF LedgerTypeOK
  <1>4. \A g \in Facts : EvidenceOf(g)' = EvidenceOf(g)
    BY <1>1 DEF EvidenceOf
  <1>5. EvidenceCounted'
    BY <1>1, <1>2, <1>4 DEF EvidenceCounted
  <1>6. Fresh' /\ ScrubbedLater' /\ TombstoneBlocksReplay' /\ FirstLifeSlotUnique'
    BY <1>1, <1>2 DEF Fresh, ScrubbedLater, TombstoneBlocksReplay, FirstLifeSlotUnique
  <1>7. ReactivationRecorded'
    BY <1>1 DEF ReactivationRecorded
  <1>8. ActivationAccounted'
    <2> SUFFICES ASSUME NEW g \in Facts, asrt'[g].activation_count > 1, ~forgets'[g].hard
                 PROVE  \E j \in Intents :
                            /\ reactivations'[j].fact = g
                            /\ reactivations'[j].state = "applied"
                            /\ reactivations'[j].activation_number = asrt'[g].activation_count
                            /\ evidence'[j] = g
      BY DEF ActivationAccounted
    <2>1. CASE g = f
      BY <1>1, <2>1
    <2>2. CASE g # f
      <3>1. PICK j \in Intents : /\ reactivations[j].fact = g
                                 /\ reactivations[j].state = "applied"
                                 /\ reactivations[j].activation_number = asrt[g].activation_count
                                 /\ evidence[j] = g
        BY <1>1, <1>2, <2>2 DEF ActivationAccounted
      <3>2. j # i
        BY <1>1, <2>2, <3>1
      <3> QED
        BY <1>1, <2>2, <3>1, <3>2
    <2> QED
      BY <2>1, <2>2
  <1> QED
    BY <1>3, <1>5, <1>6, <1>7, <1>8

\* begin_forget keeps the invariant.
LEMMA InvBeginForget ==
    ASSUME LedgerInv, NEW F \in SUBSET Facts, NEW hard \in BOOLEAN, NEW T,
           BeginForget(F, hard, T)
    PROVE  LedgerInv'
  <1> USE DEF LedgerInv
  <1>1. /\ asrt' \in [Facts -> AssertionRow]
        /\ forgets' \in [Facts -> ForgetRow]
        /\ \A g \in Facts :
               \/ asrt'[g] = asrt[g] /\ forgets'[g] = forgets[g]
               \/ /\ Exists(g)
                  /\ asrt'[g].state = "forgotten"
                  /\ asrt'[g].evidence_count = asrt[g].evidence_count
                  /\ asrt'[g].activation_count = asrt[g].activation_count
                  /\ asrt'[g].redacted = asrt[g].redacted
                  /\ forgets'[g].present
                  /\ forgets'[g].hard = (forgets[g].hard \/ hard)
    BY BeginForgetEffect
  <1>2. evidence' = evidence /\ reactivations' = reactivations /\ invalidations' = invalidations
    BY DEF BeginForget
  <1>3. LedgerTypeOK'
    BY <1>1, <1>2 DEF LedgerTypeOK
  <1>4. \A g \in Facts : EvidenceOf(g)' = EvidenceOf(g)
    BY <1>2 DEF EvidenceOf
  <1>5. EvidenceCounted'
    BY <1>1, <1>4 DEF EvidenceCounted
  <1>6. Fresh' /\ ScrubbedLater' /\ TombstoneBlocksReplay' /\ FirstLifeSlotUnique'
    BY <1>1 DEF Fresh, ScrubbedLater, TombstoneBlocksReplay, FirstLifeSlotUnique
  <1>7. ReactivationRecorded'
    BY <1>2 DEF ReactivationRecorded
  <1>8. \A g \in Facts : /\ asrt'[g].activation_count = asrt[g].activation_count
                         /\ forgets[g].hard => forgets'[g].hard
    BY <1>1
  <1>9. ActivationAccounted'
    BY <1>2, <1>8 DEF ActivationAccounted
  <1> QED
    BY <1>3, <1>5, <1>6, <1>7, <1>9

\* scrub_forgotten_content keeps the invariant.
LEMMA InvScrub ==
    ASSUME LedgerInv, NEW F \in SUBSET Facts, ScrubForgottenContent(F)
    PROVE  LedgerInv'
  <1> USE DEF LedgerInv
  <1>1. /\ asrt' \in [Facts -> AssertionRow]
        /\ \A g \in Facts :
               \/ asrt'[g] = asrt[g]
               \/ /\ g \in F
                  /\ asrt[g].state = "forgotten" /\ asrt'[g].state = "forgotten"
                  /\ asrt'[g].activation_count = asrt[g].activation_count
        /\ \A g \in F : forgets[g].hard
        /\ evidence' \in [Intents -> Facts \cup {NoFact}]
        /\ invalidations' \in [Corrections -> InvalidationRow]
        /\ reactivations' \in [Intents -> ReactivationRow]
        /\ \A i \in Intents :
               evidence'[i] = IF evidence[i] \in F THEN NoFact ELSE evidence[i]
        /\ \A i \in Intents :
               reactivations'[i] = IF reactivations[i].fact \in F THEN NoReactivation
                                   ELSE reactivations[i]
        /\ forgets' = forgets
    BY ScrubEffect
  <1>2. LedgerTypeOK'
    BY <1>1 DEF LedgerTypeOK
  <1>3. \A g \in Facts : g \notin F => EvidenceOf(g)' = EvidenceOf(g)
    BY <1>1, NoFactAssumption DEF EvidenceOf
  <1>4. EvidenceCounted'
    BY <1>1, <1>3 DEF EvidenceCounted
  <1>5. Fresh' /\ ScrubbedLater' /\ TombstoneBlocksReplay' /\ FirstLifeSlotUnique'
    BY <1>1 DEF Fresh, ScrubbedLater, TombstoneBlocksReplay, FirstLifeSlotUnique
  <1>6. ReactivationRecorded'
    BY <1>1 DEF ReactivationRecorded, NoReactivation
  <1>7. ActivationAccounted'
    BY <1>1 DEF ActivationAccounted
  <1> QED
    BY <1>2, <1>4, <1>5, <1>6, <1>7

\* Every call keeps the invariant.
LEMMA InvNext == LedgerInv /\ [LedgerNext]_ledgerVars => LedgerInv'
  <1> SUFFICES ASSUME LedgerInv, [LedgerNext]_ledgerVars PROVE LedgerInv'
    OBVIOUS
  <1>0. LedgerTypeOK
    BY DEF LedgerInv
  <1>1. ASSUME NEW i \in Intents, NEW f \in Facts, NEW T, Register(i, f, T)
        PROVE  LedgerInv'
    BY <1>1, InvRegister
  <1>2. ASSUME NEW i \in Corrections, NEW f \in Facts, NEW r \in EndedState,
               RegisterInvalidation(i, f, r)
        PROVE  LedgerInv'
    <2>1. /\ asrt' = asrt /\ evidence' = evidence /\ reactivations' = reactivations
          /\ forgets' = forgets
      BY <1>2 DEF RegisterInvalidation
    <2>2. [fact |-> f, state |-> "pending", result_state |-> r] \in InvalidationRow
      BY DEF InvalidationRow, EventState
    <2>3. invalidations' \in [Corrections -> InvalidationRow]
      BY <1>0, <1>2, <2>2 DEF RegisterInvalidation, LedgerTypeOK
    <2>4. \A g \in Facts : SameFact(g)
      BY <1>0, <2>1 DEF SameFact, LedgerTypeOK
    <2> QED
      BY <1>0, <2>1, <2>3, <2>4, InvSameFacts DEF LedgerTypeOK
  <1>3. ASSUME NEW i \in Corrections, MarkInvalidated(i)
        PROVE  LedgerInv'
    BY <1>3, InvMarkInvalidated
  <1>4. CASE UNCHANGED ledgerVars
    <2>1. /\ asrt' = asrt /\ evidence' = evidence /\ invalidations' = invalidations
          /\ reactivations' = reactivations /\ forgets' = forgets
      BY <1>4 DEF ledgerVars
    <2>2. \A g \in Facts : SameFact(g)
      BY <1>0, <2>1 DEF SameFact, LedgerTypeOK
    <2> QED
      BY <1>0, <2>1, <2>2, InvSameFacts DEF LedgerTypeOK
  <1>5. ASSUME NEW i \in Intents, NEW f \in Facts, NEW T, RegisterReactivation(i, f, T)
        PROVE  LedgerInv'
    BY <1>4, <1>5, InvRegisterReactivation, RegisterReactivationReplay
  <1>6. ASSUME NEW i \in Intents, NEW T, MarkReactivated(i, T)
        PROVE  LedgerInv'
    <2>1. CASE reactivations[i].state = "applied"
      BY <1>4, <1>6, <2>1 DEF MarkReactivated, ledgerVars
    <2>2. CASE reactivations[i].state # "applied"
      BY <1>6, <2>2, InvMarkReactivated
    <2> QED
      BY <2>1, <2>2
  <1>7. ASSUME NEW f \in Facts, NEW T, NEW v \in ProjectionState, SetProjectionState(f, T, v)
        PROVE  LedgerInv'
    <2>1. /\ evidence' = evidence /\ invalidations' = invalidations
          /\ reactivations' = reactivations /\ forgets' = forgets
      BY <1>7 DEF SetProjectionState
    <2>2. asrt' \in [Facts -> AssertionRow] /\ \A g \in Facts : SameFact(g)
      BY <1>0, <1>7, SetProjectionStateEffect
    <2> QED
      BY <1>0, <2>1, <2>2, InvSameFacts DEF LedgerTypeOK
  <1>8. ASSUME NEW F \in SUBSET Facts, NEW hard \in BOOLEAN, NEW T, BeginForget(F, hard, T)
        PROVE  LedgerInv'
    BY <1>8, InvBeginForget
  <1>9. ASSUME NEW F \in SUBSET Facts, ScrubForgottenContent(F)
        PROVE  LedgerInv'
    BY <1>9, InvScrub
  <1>10. ASSUME NEW F \in SUBSET Facts, NEW T, MarkForgetProjected(F, T)
         PROVE  LedgerInv'
    <2>1. evidence' = evidence /\ invalidations' = invalidations /\ reactivations' = reactivations
      BY <1>10 DEF MarkForgetProjected
    <2>2. /\ asrt' \in [Facts -> AssertionRow]
          /\ forgets' \in [Facts -> ForgetRow]
          /\ \A g \in Facts : /\ SameFact(g)
                              /\ forgets'[g].present = forgets[g].present
                              /\ forgets'[g].hard = forgets[g].hard
      BY <1>0, <1>10, MarkForgetProjectedEffect
    <2> QED
      BY <1>0, <2>1, <2>2, InvSameFacts DEF LedgerTypeOK
  <1>11. "pending" \in ProjectionState /\ "projected" \in ProjectionState
    BY DEF ProjectionState
  <1>12. CASE LedgerNext
    BY <1>12, <1>1, <1>2, <1>3, <1>5, <1>6, <1>7, <1>8, <1>9, <1>10, <1>11
       DEF LedgerNext, MarkProjected, MarkProjectionPending
  <1> QED
    BY <1>4, <1>12

\* Every state of the ledger, reached by any callers in any order, satisfies
\* the inductive invariant.
THEOREM LedgerInvariant == LedgerSpec => []LedgerInv
  <1> QED
    BY InvInit, InvNext, PTL DEF LedgerSpec

\* The tables always hold rows of their types.
THEOREM LedgerTypeCorrect == LedgerSpec => []LedgerTypeOK
  BY LedgerInvariant, PTL DEF LedgerInv

\* evidence_count never drifts from the evidence table, for any number of
\* intents and any replay of register and register_reactivation.
THEOREM LedgerEvidenceCounted == LedgerSpec => []EvidenceCounted
  BY LedgerInvariant, PTL DEF LedgerInv

\* register never revives a tombstoned assertion, whatever the other callers
\* of the ledger do in between.
THEOREM LedgerTombstoneBlocksReplay == LedgerSpec => []TombstoneBlocksReplay
  BY LedgerInvariant, PTL DEF LedgerInv

\* register keeps every SINGLE slot to one value.
THEOREM LedgerFirstLifeSlotUnique == LedgerSpec => []FirstLifeSlotUnique
  BY LedgerInvariant, PTL DEF LedgerInv

\* No life of a fact without the applied reactivation that began it.
THEOREM LedgerActivationAccounted == LedgerSpec => []ActivationAccounted
  BY LedgerInvariant, PTL DEF LedgerInv

----------------------------------------------------------------------------
(* What a single call may never do.                                         *)

\* An evidence row changes only by being scrubbed, under a hard tombstone.
LEMMA EvidenceStep ==
    ASSUME LedgerInv, [LedgerNext]_ledgerVars, NEW i \in Intents,
           evidence[i] # NoFact, evidence'[i] # evidence[i]
    PROVE  evidence'[i] = NoFact /\ forgets[evidence[i]].hard
  <1>0. LedgerTypeOK
    BY DEF LedgerInv
  <1>1. ASSUME NEW j \in Intents, NEW f \in Facts, NEW T, Register(j, f, T)
        PROVE  FALSE
    BY <1>0, <1>1 DEF Register, RegisterRaises, LedgerTypeOK
  <1>2. ASSUME NEW j \in Intents, NEW f \in Facts, NEW T, RegisterReactivation(j, f, T)
        PROVE  FALSE
    <2>1. CASE reactivations[j].state = "none"
      <3>1. evidence[j] = NoFact /\ evidence' = [evidence EXCEPT ![j] = f]
        BY <1>0, <1>2, <2>1, RegisterReactivationEffect
      <3> QED
        BY <1>0, <3>1 DEF LedgerTypeOK
    <2>2. CASE reactivations[j].state # "none"
      BY <1>2, <2>2 DEF RegisterReactivation
    <2> QED
      BY <2>1, <2>2
  <1>3. ASSUME NEW F \in SUBSET Facts, ScrubForgottenContent(F)
        PROVE  evidence'[i] = NoFact /\ forgets[evidence[i]].hard
    BY <1>0, <1>3, ScrubEffect
  <1>4. evidence' # evidence
    OBVIOUS
  <1> QED
    BY <1>1, <1>2, <1>3, <1>4
       DEF LedgerNext, ledgerVars, RegisterInvalidation, MarkInvalidated, MarkReactivated,
           MarkProjected, MarkProjectionPending, SetProjectionState, BeginForget,
           MarkForgetProjected

\* Provenance is rewritten by no call: an intent's evidence row either stays
\* as it is or is erased by the hard forget of its fact.
THEOREM LedgerEvidenceImmutable == LedgerSpec => EvidenceImmutable
  <1>1. LedgerInv /\ [LedgerNext]_ledgerVars
        => [\A i \in Intents :
                evidence[i] # NoFact /\ evidence'[i] # evidence[i]
                => evidence'[i] = NoFact /\ forgets[evidence[i]].hard]_ledgerVars
    BY EvidenceStep
  <1> QED
    BY <1>1, LedgerInvariant, PTL DEF LedgerSpec, EvidenceImmutable

\* A tombstone stays, stays hard, and keeps the projections it closed.
LEMMA TombstoneStep ==
    ASSUME LedgerInv, [LedgerNext]_ledgerVars, NEW f \in Facts, forgets[f].present
    PROVE  /\ forgets'[f].present
           /\ forgets[f].hard => forgets'[f].hard
           /\ \A t \in Targets :
                  forgets[f].proj[t] = "projected" => forgets'[f].proj[t] = "projected"
  <1>0. LedgerTypeOK
    BY DEF LedgerInv
  <1> DEFINE Kept == /\ forgets'[f].present
                     /\ forgets[f].hard => forgets'[f].hard
                     /\ \A t \in Targets :
                            forgets[f].proj[t] = "projected" => forgets'[f].proj[t] = "projected"
  <1>1. ASSUME NEW F \in SUBSET Facts, NEW hard \in BOOLEAN, NEW T, BeginForget(F, hard, T)
        PROVE  Kept
    <2>1. \/ forgets'[f] = forgets[f]
          \/ /\ forgets'[f].present
             /\ forgets'[f].hard = (forgets[f].hard \/ hard)
             /\ forgets'[f].proj = Require(forgets[f].proj, T)
      BY <1>0, <1>1, BeginForgetEffect
    <2>2. \A t \in Targets : forgets[f].proj[t] = "projected"
                             => Require(forgets[f].proj, T)[t] = "projected"
      BY DEF Require
    <2> QED
      BY <2>1, <2>2
  <1>2. ASSUME NEW F \in SUBSET Facts, NEW T, MarkForgetProjected(F, T)
        PROVE  Kept
    <2>1. /\ forgets'[f].present = forgets[f].present
          /\ forgets'[f].hard = forgets[f].hard
          /\ \/ forgets'[f].proj = forgets[f].proj
             \/ forgets'[f].proj = SetProj(forgets[f].proj, T, "projected")
      BY <1>0, <1>2, MarkForgetProjectedEffect
    <2>2. \A t \in Targets : forgets[f].proj[t] = "projected"
                             => SetProj(forgets[f].proj, T, "projected")[t] = "projected"
      BY DEF SetProj
    <2> QED
      BY <2>1, <2>2
  <1>3. ASSUME forgets' = forgets
        PROVE  Kept
    BY <1>3
  <1> HIDE DEF Kept
  <1>4. \/ forgets' = forgets
        \/ \E F \in SUBSET Facts, hard \in BOOLEAN, T \in SUBSET Targets : BeginForget(F, hard, T)
        \/ \E F \in SUBSET Facts, T \in SUBSET Targets : MarkForgetProjected(F, T)
    BY DEF LedgerNext, ledgerVars, Register, RegisterInvalidation, MarkInvalidated,
           RegisterReactivation, MarkReactivated, MarkProjected, MarkProjectionPending,
           SetProjectionState, ScrubForgottenContent
  <1>5. Kept
    BY <1>1, <1>2, <1>3, <1>4
  <1> QED
    BY <1>5 DEF Kept

\* No call removes a tombstone, softens it or reopens a projection it closed.
THEOREM LedgerTombstonePermanent == LedgerSpec => TombstonePermanent
  <1>1. LedgerInv /\ [LedgerNext]_ledgerVars
        => [\A f \in Facts : forgets[f].present =>
                /\ forgets'[f].present
                /\ forgets[f].hard => forgets'[f].hard
                /\ \A t \in Targets :
                       forgets[f].proj[t] = "projected"
                       => forgets'[f].proj[t] = "projected"]_ledgerVars
    BY TombstoneStep
  <1> QED
    BY <1>1, LedgerInvariant, PTL DEF LedgerSpec, TombstonePermanent

----------------------------------------------------------------------------
(* The workers.                                                             *)

AssertPcs ==
    {"read_fact", "supersede", "register", "reactivate", "check_drawer", "reopen_drawer",
     "look", "relook", "put_drawer", "mark_drawer", "check_kg", "reopen_kg", "put_kg",
     "mark_kg", "finish_reactivation"}

\* Where a worker forgets the assertions it has resolved.
FactsPcs ==
    {"forget_scan", "forget_begin", "forget_redact", "forget_scrub", "forget_kg",
     "forget_kg_mark", "forget_drawers", "forget_drawer_mark"}
ForgetPcs == FactsPcs \cup {"forget_resolve", "forget_source"}
Pcs == {"idle", "start", "settle", "ack", "reject"} \cup Ending \cup AssertPcs \cup ForgetPcs

Registration ==
    [state : States, pending : SUBSET Targets, evidence_created : BOOLEAN, evidence_count : Nat,
     activation : Nat, reactivation_pending : BOOLEAN]

Work ==
    [pc : Pcs, msg : Msgs \cup {NoMsg}, fact : Facts \cup {NoFact}, matched : BOOLEAN,
     reg : Registration, plan : {"register", "reactivate"}, seen : SUBSET Drawer,
     missing : SUBSET Targets, recovered : SUBSET Targets, facts : SUBSET Facts,
     events : SUBSET Msgs, failed : BOOLEAN]

\* What a message that says c may have a worker do.
Asks(c, p) ==
    /\ p \in AssertPcs => c.adds \in Facts
    /\ p = "read_fact" => c.kind \in {"turn", "update"}
    /\ p = "supersede" => c.kind = "update"
    /\ p \in ForgetPcs => c.kind \in {"forget_drawers", "forget_source"}
    /\ p = "forget_source" => c.kind = "forget_source"

\* The fact that is being ended.
EndOf(r) == IF content[r.msg].kind = "update" THEN r.fact ELSE content[r.msg].ends

\* What worker w may be doing.
Fits(w, r) ==
    /\ r \in Work
    /\ r.pc = "idle" <=> r.msg = NoMsg
    /\ r.msg # NoMsg => content[r.msg].worker = w /\ content[r.msg].kind # "none"
    /\ r.msg # NoMsg => Asks(content[r.msg], r.pc)
    /\ r.pc \in Ending => EndOf(r) \in Facts
    /\ r.pc \in FactsPcs => r.facts # {}

Working ==
    /\ work \in [Workers -> Work]
    /\ \A w \in Workers : Fits(w, work[w])
    /\ \A w \in Workers : Msg(w) # NoMsg => status[Msg(w)] = "held"

QueuesOK ==
    /\ content \in [Msgs -> Content]
    /\ status \in [Msgs -> Status]
    /\ deliveries \in [Msgs -> Nat]
    /\ previewed \in [Msgs -> SUBSET Drawer]
    /\ redactedEvents \subseteq Msgs /\ applied \subseteq Msgs
    /\ \A m \in Msgs : content[m].kind = "none" => status[m] = "unsent"

StoresOK ==
    /\ drawers \subseteq Drawer /\ archived \subseteq drawers
    /\ kgrows \subseteq KgRow /\ closed \subseteq kgrows

WorkersInv ==
    /\ LedgerInv
    /\ QueuesOK
    /\ StoresOK
    /\ Working

----------------------------------------------------------------------------
(* Steps of a worker.                                                       *)

\* Both projections are targets.
LEMMA TargetSets ==
    /\ Targets \in (SUBSET Targets) \ {{}}
    /\ {"drawer"} \in (SUBSET Targets) \ {{}}
    /\ {"kg"} \in (SUBSET Targets) \ {{}}
  BY MessageIds

LEMMA IdleFits ==
    /\ Idle \in Work /\ Idle.msg = NoMsg
    /\ \A w \in Workers : Fits(w, Idle)
  <1>1. NoReg \in Registration
    BY DEF NoReg, Registration, States
  <1>2. Idle \in Work /\ Idle.msg = NoMsg /\ Idle.pc = "idle"
    BY <1>1 DEF Idle, Work, Pcs
  <1> QED
    BY <1>2 DEF Fits, Ending, FactsPcs

\* A worker that keeps its message goes on to what it may be doing.
LEMMA WorkStep ==
    ASSUME Working, NEW w \in Workers, NEW r, Fits(w, r), r.msg = Msg(w),
           work' = [work EXCEPT ![w] = r], status' = status, content' = content
    PROVE  Working'
  <1>1. work' \in [Workers -> Work]
    BY DEF Working, Fits
  <1>2. \A v \in Workers : work'[v] = IF v = w THEN r ELSE work[v]
    BY DEF Working
  <1>3. \A v \in Workers : Fits(v, work'[v])
    BY <1>2 DEF Working
  <1>4. \A v \in Workers : work'[v].msg # NoMsg => status'[work'[v].msg] = "held"
    BY <1>2 DEF Working, Msg
  <1> QED
    BY <1>1, <1>3, <1>4 DEF Working, Fits, EndOf, Msg

\* A worker lets go of its message, which gets a new status.
LEMMA WorkEnds ==
    ASSUME Working, QueuesOK, NEW w \in Workers, ~At(w, "idle"), NEW s \in Status,
           work' = [work EXCEPT ![w] = Idle], status' = [status EXCEPT ![Msg(w)] = s],
           content' = content
    PROVE  /\ Working' /\ status' \in [Msgs -> Status]
           /\ \A m \in Msgs : content'[m].kind = "none" => status'[m] = "unsent"
  <1>1. \A v \in Workers : work'[v] = IF v = w THEN Idle ELSE work[v]
    BY DEF Working
  <1>2. Msg(w) \in Msgs /\ content[Msg(w)].worker = w /\ content[Msg(w)].kind # "none"
    BY DEF Working, Fits, At, Msg, Work
  <1>3. work' \in [Workers -> Work] /\ \A v \in Workers : Fits(v, work'[v])
    BY <1>1, IdleFits DEF Working
  <1>4. ASSUME NEW v \in Workers, work'[v].msg # NoMsg
        PROVE  status'[work'[v].msg] = "held"
    <2>1. v # w /\ work'[v] = work[v]
      BY <1>1, <1>4, IdleFits
    <2>2. content[Msg(v)].worker = v /\ Msg(v) \in Msgs
      BY <2>1, <1>4 DEF Working, Fits, Msg, Work
    <2>3. status'[Msg(v)] = status[Msg(v)]
      BY <2>1, <2>2, <1>2 DEF QueuesOK
    <2> QED
      BY <2>1, <2>3, <1>4 DEF Working, Msg
  <1>5. Working'
    BY <1>3, <1>4 DEF Working, Fits, EndOf, Msg
  <1>6. /\ status' \in [Msgs -> Status]
        /\ \A m \in Msgs : content'[m].kind = "none" => status'[m] = "unsent"
    BY <1>2 DEF QueuesOK
  <1> QED
    BY <1>5, <1>6

\* What a worker with a message holds.
LEMMA Holding ==
    ASSUME WorkersInv, NEW w \in Workers, ~At(w, "idle")
    PROVE  /\ work[w] \in Work /\ Fits(w, work[w]) /\ Msg(w) # NoMsg
           /\ Msg(w) \in Msgs /\ Msg(w) \in Intents /\ Body(w) \in Content
           /\ Asks(Body(w), work[w].pc)
  BY MessageIds DEF WorkersInv, Working, QueuesOK, Fits, At, Msg, Body, Work

\* Going on, where what is needed there is at hand.
LEMMA GotoStep ==
    ASSUME WorkersInv, NEW w \in Workers, NEW p \in Pcs \ {"idle"}, Goto(w, p),
           status' = status, content' = content, ~At(w, "idle"),
           Asks(Body(w), p),
           p \in Ending => EndOf(work[w]) \in Facts,
           p \in FactsPcs => work[w].facts # {}
    PROVE  Working'
  <1> DEFINE r == [work[w] EXCEPT !.pc = p]
  <1>1. work[w] \in Work /\ Fits(w, work[w]) /\ Msg(w) # NoMsg
    BY Holding
  <1>2. /\ r \in Work /\ r.msg = work[w].msg /\ r.pc = p /\ r.facts = work[w].facts
        /\ r.fact = work[w].fact
    BY <1>1 DEF Work
  <1>3. work' = [work EXCEPT ![w] = r]
    BY DEF Goto
  <1> HIDE DEF r
  <1>4. Fits(w, r)
    BY <1>1, <1>2 DEF Fits, EndOf, At, Msg, Body
  <1> QED
    BY <1>2, <1>3, <1>4, WorkStep DEF WorkersInv, Msg

\* Where a handler goes when it has ended a fact.
LEMMA AfterEndAsked ==
    ASSUME WorkersInv, NEW w \in Workers, ~At(w, "idle")
    PROVE  /\ AfterEnd(w) \in {"settle", "read_fact", "register", "reactivate"}
           /\ Asks(Body(w), AfterEnd(w))
  <1>1. Body(w) \in Content /\ work[w].plan \in {"register", "reactivate"}
    BY Holding DEF Work
  <1>2. /\ Body(w).adds \in Facts \cup {NoFact}
        /\ Body(w).kind = "update" => Body(w).adds \in Facts
    BY <1>1 DEF Content, Payload
  <1> QED
    BY <1>1, <1>2 DEF AfterEnd, Asks, IsTurn, AssertPcs, ForgetPcs, FactsPcs

\* A call raises.
LEMMA RaiseStep ==
    ASSUME WorkersInv, NEW w \in Workers, Raise(w), status' = status, content' = content,
           ~At(w, "idle")
    PROVE  Working'
  <1> DEFINE p == IF IsTurn(w) /\ work[w].pc \in Ending THEN AfterEnd(w) ELSE "settle"
             r == [work[w] EXCEPT !.failed = TRUE, !.seen = {}, !.pc = p]
  <1>1. work[w] \in Work /\ Fits(w, work[w]) /\ Msg(w) # NoMsg
    BY Holding
  <1>2. work' = [work EXCEPT ![w] = r]
    BY DEF Raise, RaiseRecord
  <1>3. /\ p \in {"settle", "read_fact", "register", "reactivate"} /\ Asks(Body(w), p)
    BY AfterEndAsked DEF Asks, AssertPcs, ForgetPcs, FactsPcs
  <1> HIDE DEF p
  <1>4. r \in Work /\ r.msg = work[w].msg /\ r.pc = p
    BY <1>1, <1>3 DEF Work, Pcs, AssertPcs
  <1> HIDE DEF r
  <1>5. Fits(w, r)
    BY <1>1, <1>3, <1>4 DEF Fits, At, Msg, Body, Ending, FactsPcs
  <1> QED
    BY <1>2, <1>4, <1>5, WorkStep DEF WorkersInv, Msg

\* Going on with an assertion.
LEMMA AssertGoto ==
    ASSUME WorkersInv, NEW w \in Workers, work[w].pc \in AssertPcs, status' = status,
           content' = content, NEW p \in (AssertPcs \ {"read_fact", "supersede"}) \cup {"settle", "reject"},
           Goto(w, p)
    PROVE  Working'
  <1>1. ~At(w, "idle") /\ p \in Pcs \ {"idle"} /\ p \notin ForgetPcs /\ p \notin Ending
    BY DEF At, Pcs, AssertPcs, ForgetPcs, FactsPcs, Ending
  <1>2. Asks(Body(w), p)
    BY <1>1, Holding DEF Asks, ForgetPcs
  <1> QED
    BY <1>1, <1>2, GotoStep DEF ForgetPcs

\* Going on with a forget.
LEMMA ForgetGoto ==
    ASSUME WorkersInv, NEW w \in Workers, work[w].pc \in FactsPcs, status' = status,
           content' = content, NEW p \in FactsPcs \cup {"settle"}, Goto(w, p)
    PROVE  Working'
  <1>1. ~At(w, "idle") /\ p \in Pcs \ {"idle"} /\ p \notin AssertPcs /\ p \notin Ending
    BY DEF At, Pcs, AssertPcs, ForgetPcs, FactsPcs, Ending
  <1>2. Asks(Body(w), p) /\ work[w].facts # {}
    BY <1>1, Holding DEF Asks, Fits, FactsPcs, ForgetPcs
  <1> QED
    BY <1>1, <1>2, GotoStep

----------------------------------------------------------------------------
(* What each step preserves: the ledger sees one of its own calls or        *)
(* nothing, and queues, stores and workers stay as the invariant says.      *)

Kept == [LedgerNext]_ledgerVars /\ QueuesOK' /\ StoresOK' /\ Working'

LEMMA QueuesSame ==
    ASSUME QueuesOK, UNCHANGED <<content, queueVars, previewed, redactedEvents>>
    PROVE  QueuesOK'
  BY DEF QueuesOK, queueVars

LEMMA StoresSame ==
    ASSUME StoresOK, UNCHANGED storeVars
    PROVE  StoresOK'
  BY DEF StoresOK, storeVars

\* A step that only moves on, one that calls the ledger, and one that writes
\* to a store.
LEMMA LocalKept ==
    ASSUME WorkersInv, UNCHANGED localOnly, Working'
    PROVE  Kept
  BY QueuesSame, StoresSame DEF WorkersInv, Kept, localOnly, ledgerOnly
LEMMA LedgerKept ==
    ASSUME WorkersInv, UNCHANGED ledgerOnly, Working', [LedgerNext]_ledgerVars
    PROVE  Kept
  BY QueuesSame, StoresSame DEF WorkersInv, Kept, ledgerOnly
LEMMA StoreKept ==
    ASSUME WorkersInv, UNCHANGED storeOnly, Working', StoresOK'
    PROVE  Kept
  BY QueuesSame DEF WorkersInv, Kept, storeOnly

LEMMA TakeKept ==
    ASSUME WorkersInv, NEW w \in Workers, NEW m \in Msgs, Take(w, m)
    PROVE  Kept
  <1> DEFINE r == [Idle EXCEPT !.pc = "start", !.msg = m]
  <1>1. /\ work' = [work EXCEPT ![w] = r]
        /\ status' = [status EXCEPT ![m] = "held"] /\ status[m] = "queued"
        /\ deliveries' = [deliveries EXCEPT ![m] = @ + 1]
        /\ content[m].worker = w
        /\ UNCHANGED <<ledgerVars, content, applied, previewed, storeVars, redactedEvents, boundVars>>
    BY DEF Take
  <1>2. m # NoMsg /\ content[m].kind # "none"
    BY <1>1, MessageIds DEF WorkersInv, QueuesOK
  <1>3. r \in Work /\ r.pc = "start" /\ r.msg = m
    BY IdleFits DEF Work, Pcs
  <1> HIDE DEF r
  <1>4. Fits(w, r)
    BY <1>1, <1>2, <1>3 DEF Fits, Asks, AssertPcs, ForgetPcs, FactsPcs, Ending
  <1>5. \A v \in Workers : work'[v] = IF v = w THEN r ELSE work[v]
    BY <1>1 DEF WorkersInv, Working
  <1>6. work' \in [Workers -> Work] /\ \A v \in Workers : Fits(v, work'[v])
    BY <1>1, <1>3, <1>4, <1>5 DEF WorkersInv, Working
  <1>7. \A n \in Msgs : status'[n] = IF n = m THEN "held" ELSE status[n]
    BY <1>1 DEF WorkersInv, QueuesOK
  <1>8. ASSUME NEW v \in Workers, work'[v].msg # NoMsg
        PROVE  status'[work'[v].msg] = "held"
    <2>1. CASE v = w
      BY <2>1, <1>3, <1>5, <1>7
    <2>2. CASE v # w
      <3>1. work'[v] = work[v] /\ work[v].msg \in Msgs
        BY <2>2, <1>5, <1>8 DEF WorkersInv, Working, Work
      <3>2. status[work[v].msg] = "held"
        BY <3>1, <1>8 DEF WorkersInv, Working, Msg
      <3> QED
        BY <3>1, <3>2, <1>7
    <2> QED
      BY <2>1, <2>2
  <1>9. Working'
    BY <1>1, <1>6, <1>8 DEF Working, Fits, EndOf, Msg
  <1>10. QueuesOK'
    <2>1. status' \in [Msgs -> Status]
      BY <1>1 DEF WorkersInv, QueuesOK, Status
    <2>2. deliveries' \in [Msgs -> Nat]
      BY <1>1 DEF WorkersInv, QueuesOK
    <2>3. \A n \in Msgs : content'[n].kind = "none" => status'[n] = "unsent"
      BY <1>1, <1>2, <1>7 DEF WorkersInv, QueuesOK
    <2> QED
      BY <1>1, <2>1, <2>2, <2>3 DEF WorkersInv, QueuesOK
  <1> QED
    BY <1>1, <1>9, <1>10, StoresSame DEF WorkersInv, Kept

\* A handler starts with what its message asks for.
LEMMA StartKept ==
    ASSUME WorkersInv, NEW w \in Workers, Start(w)
    PROVE  Kept
  <1>1. At(w, "start") /\ ~At(w, "idle") /\ UNCHANGED localOnly /\ status' = status /\ content' = content
    BY DEF Start, localOnly, ledgerOnly, queueVars, At
  <1>2. Body(w) \in Content /\ Fits(w, work[w]) /\ Msg(w) # NoMsg
    BY <1>1, Holding
  <1>3. /\ Body(w).kind \in {"turn", "assert", "update", "correct", "forget_drawers", "forget_source"}
        /\ Body(w).kind \in {"assert", "update"} => Body(w).adds \in Facts
        /\ Body(w).kind = "correct" => Body(w).ends \in Facts
        /\ Body(w).ends \in Facts \cup {NoFact}
    BY <1>2 DEF Content, Payload, Fits, Body, Msg
  <1> DEFINE p == IF IsTurn(w) THEN AfterDecision(w) ELSE AfterStatus(w)
  <1>4. Goto(w, p)
    BY DEF Start
  <1>5. /\ p \in Pcs \ {"idle"} /\ p \notin FactsPcs
        /\ Asks(Body(w), p)
        /\ p \in Ending => EndOf(work[w]) \in Facts
    <2>1. CASE IsTurn(w)
      <3>1. \/ p = "settle"
            \/ p = "end_register" /\ Body(w).ends \in Facts
            \/ p = AfterEnd(w)
        BY <2>1, <1>3 DEF AfterDecision
      <3>2. p = AfterEnd(w) => p \in {"settle", "read_fact", "register", "reactivate"} /\ Asks(Body(w), p)
        BY <1>1, AfterEndAsked
      <3> QED
        BY <2>1, <3>1, <3>2
           DEF Asks, EndOf, IsTurn, Body, Msg, Pcs, AssertPcs, ForgetPcs, FactsPcs,
                                 Ending
    <2>2. CASE ~IsTurn(w)
      <3>1. \/ p = "ack"
            \/ p = "register" /\ Body(w).kind = "assert"
            \/ p = "read_fact" /\ Body(w).kind = "update"
            \/ p = "end_register" /\ Body(w).kind = "correct"
            \/ p = "forget_resolve" /\ Body(w).kind \in {"forget_drawers", "forget_source"}
        BY <2>2, <1>3 DEF AfterStatus, IsTurn
      <3> QED
        BY <3>1, <1>3 DEF Asks, EndOf, Body, Msg, Pcs, AssertPcs, ForgetPcs, FactsPcs, Ending
    <2> QED
      BY <2>1, <2>2
  <1> HIDE DEF p
  <1>6. Working'
    BY <1>1, <1>4, <1>5, GotoStep
  <1> QED
    BY <1>1, <1>6, LocalKept

----------------------------------------------------------------------------
(* invalidate_exact_canonical_fact                                          *)

\* A worker that ends a fact has one to end.
LEMMA EndHeld ==
    ASSUME WorkersInv, NEW w \in Workers, work[w].pc \in Ending
    PROVE  /\ ~At(w, "idle") /\ EndFact(w) \in Facts /\ EndId(w) \in Corrections
           /\ EndResult(w) \in EndedState /\ EndOf(work[w]) \in Facts
  <1>1. ~At(w, "idle")
    BY DEF At, Ending
  <1>2. EndOf(work[w]) \in Facts /\ Msg(w) \in Msgs
    BY <1>1, Holding DEF Fits
  <1>3. EndFact(w) = EndOf(work[w])
    BY DEF EndFact, EndOf, Body, Msg
  <1> QED
    BY <1>1, <1>2, <1>3, MessageIds DEF EndId, EndResult, EndedState

\* Going on with the ending, or past it.
LEMMA EndGoto ==
    ASSUME WorkersInv, NEW w \in Workers, work[w].pc \in Ending, status' = status,
           content' = content, NEW p \in Ending \cup {"reject", AfterEnd(w)}, Goto(w, p)
    PROVE  Working'
  <1>1. ~At(w, "idle") /\ EndOf(work[w]) \in Facts
    BY EndHeld
  <1>2. p = AfterEnd(w) => p \in {"settle", "read_fact", "register", "reactivate"} /\ Asks(Body(w), p)
    BY <1>1, AfterEndAsked
  <1>3. p \in Pcs \ {"idle"} /\ p \notin FactsPcs /\ Asks(Body(w), p)
    BY <1>2 DEF Asks, Pcs, AssertPcs, ForgetPcs, FactsPcs, Ending
  <1> QED
    BY <1>1, <1>3, GotoStep

LEMMA EndRegisterKept ==
    ASSUME WorkersInv, NEW w \in Workers, EndRegister(w)
    PROVE  Kept
  <1> DEFINE i == EndId(w)
             f == EndFact(w)
             res == RegisterInvalidationResult(i, f)
  <1>1. /\ work[w].pc \in Ending /\ UNCHANGED ledgerOnly /\ status' = status /\ content' = content
    BY DEF EndRegister, ledgerOnly, queueVars, At, Ending
  <1>2. /\ ~At(w, "idle") /\ f \in Facts /\ i \in Corrections /\ EndResult(w) \in EndedState
        /\ EndOf(work[w]) \in Facts
    BY <1>1, EndHeld
  <1>3. CASE RegisterInvalidationRaises(i, f, EndResult(w))
    <2>1. Raise(w) /\ UNCHANGED ledgerVars
      BY <1>3 DEF EndRegister
    <2>2. Working'
      BY <1>1, <1>2, <2>1, RaiseStep
    <2> QED
      BY <1>1, <2>1, <2>2, LedgerKept
  <1>4. CASE ~RegisterInvalidationRaises(i, f, EndResult(w))
    <2>1. RegisterInvalidation(i, f, EndResult(w))
      BY <1>4 DEF EndRegister
    <2>2. LedgerNext
      BY <1>2, <2>1 DEF LedgerNext
    <2>3. CASE Goto(w, AfterEnd(w))
      <3>1. Working'
        BY <1>1, <2>3, EndGoto
      <3> QED
        BY <1>1, <2>2, <3>1, LedgerKept
    <2>4. ASSUME work' = [work EXCEPT ![w] = [@ EXCEPT
                     !.pc = "end_find", !.fact = f, !.matched = res.matched,
                     !.reg = [NoReg EXCEPT !.activation = res.activation]]]
          PROVE  Kept
      <3> DEFINE b == res.matched
                 q == [NoReg EXCEPT !.activation = res.activation]
                 r == [work[w] EXCEPT !.pc = "end_find", !.fact = f, !.matched = b, !.reg = q]
      <3>1. work' = [work EXCEPT ![w] = r]
        BY <2>4
      <3>2. b \in BOOLEAN
        BY DEF RegisterInvalidationResult, Exists
      <3>3. q \in Registration
        <4>1. asrt[f].activation_count \in Nat
          BY <1>2 DEF WorkersInv, LedgerInv, LedgerTypeOK, AssertionRow
        <4> QED
          BY <4>1 DEF NoReg, Registration, States, RegisterInvalidationResult
      <3>4. work[w] \in Work /\ Fits(w, work[w]) /\ Msg(w) # NoMsg
        BY <1>2, Holding
      <3> HIDE DEF b, q, f
      <3>5. r \in Work /\ r.msg = work[w].msg /\ r.pc = "end_find" /\ r.fact = f
        BY <1>2, <3>2, <3>3, <3>4 DEF Work, Pcs, Ending
      <3> HIDE DEF r
      <3>6. EndOf(r) \in Facts
        BY <1>2, <3>5 DEF EndOf
      <3>7. Fits(w, r)
        BY <3>4, <3>5, <3>6 DEF Fits, Asks, At, Msg, AssertPcs, ForgetPcs, FactsPcs
      <3>8. Working'
        BY <1>1, <3>1, <3>5, <3>7, WorkStep DEF WorkersInv, Msg
      <3> QED
        BY <1>1, <2>2, <3>8, LedgerKept
    <2> QED
      BY <1>4, <2>3, <2>4 DEF EndRegister
  <1> QED
    BY <1>3, <1>4

LEMMA EndFindKept ==
    ASSUME WorkersInv, NEW w \in Workers, EndFind(w)
    PROVE  Kept
  <1>1. /\ work[w].pc \in Ending /\ UNCHANGED localOnly /\ status' = status /\ content' = content
    BY DEF EndFind, localOnly, ledgerOnly, queueVars, At, Ending
  <1>2. ~At(w, "idle") /\ EndOf(work[w]) \in Facts
    BY <1>1, EndHeld
  <1>3. CASE Goto(w, "end_kg")
    <2>1. Working'
      BY <1>1, <1>3, EndGoto DEF Ending
    <2> QED
      BY <1>1, <2>1, LocalKept
  <1>4. ASSUME NEW d \in drawers,
               work' = [work EXCEPT ![w] = [@ EXCEPT
                   !.pc = IF d \in archived THEN "end_kg" ELSE "end_archive", !.seen = {d}]]
        PROVE  Kept
    <2> DEFINE p == IF d \in archived THEN "end_kg" ELSE "end_archive"
               r == [work[w] EXCEPT !.pc = p, !.seen = {d}]
    <2>1. work' = [work EXCEPT ![w] = r] /\ p \in {"end_kg", "end_archive"}
      BY <1>4
    <2>2. work[w] \in Work /\ Fits(w, work[w]) /\ Msg(w) # NoMsg /\ d \in Drawer
      BY <1>2, <1>4, Holding DEF WorkersInv, StoresOK
    <2> HIDE DEF p
    <2>3. r \in Work /\ r.msg = work[w].msg /\ r.pc = p /\ r.fact = work[w].fact
      BY <2>1, <2>2 DEF Work, Pcs, Ending
    <2> HIDE DEF r
    <2>4. Fits(w, r)
      BY <1>2, <2>1, <2>2, <2>3 DEF Fits, Asks, EndOf, At, Msg, AssertPcs, ForgetPcs, FactsPcs
    <2>5. Working'
      BY <1>1, <2>1, <2>3, <2>4, WorkStep DEF WorkersInv, Msg
    <2> QED
      BY <1>1, <2>5, LocalKept
  <1> QED
    BY <1>3, <1>4 DEF EndFind, ProjectionDrawers

LEMMA EndStoresKept ==
    ASSUME WorkersInv, NEW w \in Workers, EndArchive(w) \/ EndKg(w)
    PROVE  Kept
  <1>1. /\ work[w].pc \in Ending /\ UNCHANGED storeOnly /\ status' = status /\ content' = content
    BY DEF EndArchive, EndKg, storeOnly, queueVars, At, Ending
  <1>2. ~At(w, "idle")
    BY <1>1, EndHeld
  <1>3. StoresOK'
    BY DEF EndArchive, EndKg, ArchiveDrawers, InvalidateTriple, OpenRows, WorkersInv, StoresOK
  <1>4. \/ Raise(w) \/ Goto(w, "end_kg") \/ Goto(w, "end_mark") \/ Goto(w, AfterEnd(w))
        \/ Goto(w, "reject")
    BY DEF EndArchive, EndKg, Reject
  <1>5. Working'
    BY <1>1, <1>2, <1>4, RaiseStep, EndGoto DEF Ending
  <1> QED
    BY <1>1, <1>3, <1>5, StoreKept

LEMMA EndMarkKept ==
    ASSUME WorkersInv, NEW w \in Workers, EndMark(w)
    PROVE  Kept
  <1>1. /\ work[w].pc \in Ending /\ UNCHANGED ledgerOnly /\ status' = status /\ content' = content
    BY DEF EndMark, ledgerOnly, queueVars, At, Ending
  <1>2. ~At(w, "idle") /\ EndId(w) \in Corrections
    BY <1>1, EndHeld
  <1>3. CASE invalidations[EndId(w)].state = "none"
    <2>1. Raise(w) /\ UNCHANGED ledgerVars
      BY <1>3 DEF EndMark
    <2>2. Working'
      BY <1>1, <1>2, <2>1, RaiseStep
    <2> QED
      BY <1>1, <2>1, <2>2, LedgerKept
  <1>4. CASE invalidations[EndId(w)].state # "none"
    <2> DEFINE p == AfterEnd(w)
               r == [work[w] EXCEPT !.pc = p, !.fact = NoFact, !.matched = FALSE,
                                    !.seen = {}, !.reg = NoReg]
    <2>1. MarkInvalidated(EndId(w)) /\ work' = [work EXCEPT ![w] = r]
      BY <1>4 DEF EndMark
    <2>2. LedgerNext
      BY <1>2, <2>1 DEF LedgerNext
    <2>3. p \in {"settle", "read_fact", "register", "reactivate"} /\ Asks(Body(w), p)
      BY <1>2, AfterEndAsked
    <2>4. work[w] \in Work /\ Fits(w, work[w]) /\ Msg(w) # NoMsg
      BY <1>2, Holding
    <2>5. NoReg \in Registration
      BY DEF NoReg, Registration, States
    <2> HIDE DEF p
    <2>6. r \in Work /\ r.msg = work[w].msg /\ r.pc = p
      <3>1. p \in Pcs
        BY <2>3 DEF Pcs, AssertPcs
      <3> QED
        BY <2>4, <2>5, <3>1 DEF Work
    <2> HIDE DEF r
    <2>7. Fits(w, r)
      BY <2>3, <2>4, <2>6 DEF Fits, At, Msg, Body, Ending, FactsPcs
    <2>8. Working'
      BY <1>1, <2>1, <2>6, <2>7, WorkStep DEF WorkersInv, Msg
    <2> QED
      BY <1>1, <2>2, <2>8, LedgerKept
  <1> QED
    BY <1>3, <1>4

LEMMA EndStepsKept ==
    ASSUME WorkersInv, NEW w \in Workers, EndSteps(w)
    PROVE  Kept
  BY EndRegisterKept, EndFindKept, EndStoresKept, EndMarkKept DEF EndSteps

----------------------------------------------------------------------------
(* Asserting a fact.                                                        *)

\* A worker that asserts has a fact to assert, and what its registration told
\* it.
LEMMA Asserting ==
    ASSUME WorkersInv, NEW w \in Workers, work[w].pc \in AssertPcs
    PROVE  /\ ~At(w, "idle") /\ Body(w).adds \in Facts /\ Msg(w) \in Intents /\ Msg(w) \in Msgs
           /\ work[w] \in Work /\ Fits(w, work[w]) /\ work[w].reg \in Registration
  <1>1. ~At(w, "idle")
    BY DEF At, AssertPcs
  <1> QED
    BY <1>1, Holding DEF Asks, Work

\* A worker that asserts goes on asserting, or is done, with a new registration.
LEMMA AssertStep ==
    ASSUME WorkersInv, NEW w \in Workers, work[w].pc \in AssertPcs, status' = status,
           content' = content, NEW r \in Work, r.msg = Msg(w),
           r.pc \in (AssertPcs \ {"read_fact", "supersede"}) \cup {"settle"},
           work' = [work EXCEPT ![w] = r]
    PROVE  Working'
  <1>1. /\ Fits(w, work[w]) /\ ~At(w, "idle") /\ Asks(Body(w), work[w].pc)
        /\ r.pc # "idle" /\ r.pc \notin Ending /\ r.pc \notin ForgetPcs
    BY Asserting, Holding DEF AssertPcs, ForgetPcs, FactsPcs, Ending
  <1>2. Fits(w, r)
    BY <1>1 DEF Fits, Asks, At, Msg, Body, ForgetPcs
  <1> QED
    BY <1>2, WorkStep DEF WorkersInv

\* Where the next projection to look at may be.
LEMMA NextAssertPcs ==
    ASSUME NEW w, NEW reg
    PROVE  {AfterRegister(w, reg), ToKg(w, reg), AfterKg(w)}
               \subseteq (AssertPcs \ {"read_fact", "supersede"}) \cup {"settle"}
  BY DEF AfterRegister, ToKg, AfterKg, AssertPcs

LEMMA ReadFactKept ==
    ASSUME WorkersInv, NEW w \in Workers, ReadFact(w)
    PROVE  Kept
  <1>1. /\ work[w].pc \in AssertPcs /\ UNCHANGED localOnly /\ status' = status /\ content' = content
    BY DEF ReadFact, localOnly, ledgerOnly, queueVars, At, AssertPcs
  <1>2. PICK p \in {"register", "reactivate"}, n \in {"register", "reactivate", "supersede", "reject"} :
            /\ work' = [work EXCEPT ![w] = [@ EXCEPT !.plan = p, !.pc = n]]
            /\ n = "supersede" => ~IsTurn(w)
    BY DEF ReadFact
  <1> DEFINE r == [work[w] EXCEPT !.plan = p, !.pc = n]
  <1>3. work' = [work EXCEPT ![w] = r]
    BY <1>2
  <1>4. /\ Fits(w, work[w]) /\ work[w] \in Work /\ ~At(w, "idle") /\ Asks(Body(w), work[w].pc)
        /\ work[w].pc = "read_fact"
    BY <1>1, Asserting, Holding DEF ReadFact, At
  <1>5. r \in Work /\ r.msg = work[w].msg /\ r.pc = n
    <2>1. n \in Pcs
      BY DEF Pcs, AssertPcs
    <2> QED
      BY <1>4, <2>1 DEF Work
  <1> HIDE DEF r
  <1>6. Fits(w, r)
    BY <1>1, <1>2, <1>4, <1>5
       DEF Fits, Asks, IsTurn, At, Msg, Body, AssertPcs, ForgetPcs, FactsPcs, Ending
  <1>7. Working'
    BY <1>1, <1>3, <1>5, <1>6, WorkStep DEF WorkersInv, Msg
  <1> QED
    BY <1>1, <1>7, LocalKept

LEMMA SupersedeKept ==
    ASSUME WorkersInv, NEW w \in Workers, Supersede(w)
    PROVE  Kept
  <1>1. /\ work[w].pc \in AssertPcs /\ UNCHANGED localOnly /\ status' = status /\ content' = content
    BY DEF Supersede, localOnly, ledgerOnly, queueVars, At, AssertPcs
  <1>2. work[w].plan \in {"register", "reactivate"} /\ Fits(w, work[w]) /\ work[w] \in Work /\ ~At(w, "idle")
        /\ Body(w).adds \in Facts /\ Msg(w) # NoMsg
    BY <1>1, Asserting, Holding DEF Work, AssertPcs
  <1>3. ASSUME Goto(w, work[w].plan) \/ Reject(w)
        PROVE  Kept
    <2>1. Working'
      BY <1>1, <1>2, <1>3, AssertGoto DEF Reject, AssertPcs
    <2> QED
      BY <1>1, <2>1, LocalKept
  <1>4. ASSUME NEW old \in Facts, Body(w).kind = "update",
               work' = [work EXCEPT ![w] = [@ EXCEPT !.fact = old, !.pc = "end_register"]]
        PROVE  Kept
    <2> DEFINE r == [work[w] EXCEPT !.fact = old, !.pc = "end_register"]
    <2>1. work' = [work EXCEPT ![w] = r]
      BY <1>4
    <2>2. r \in Work /\ r.msg = work[w].msg /\ r.pc = "end_register" /\ r.fact = old
      BY <1>2, <1>4 DEF Work, Pcs, Ending
    <2> HIDE DEF r
    <2>3. Fits(w, r)
      BY <1>2, <1>4, <2>2 DEF Fits, Asks, EndOf, At, Msg, Body, AssertPcs, ForgetPcs, FactsPcs
    <2>4. Working'
      BY <1>1, <2>1, <2>2, <2>3, WorkStep DEF WorkersInv, Msg
    <2> QED
      BY <1>1, <2>4, LocalKept
  <1>5. Body(w).kind = "update"
    BY <1>2, Holding DEF Asks, Supersede, At
  <1> QED
    BY <1>3, <1>4, <1>5 DEF Supersede, ActiveForSlot

\* What a registration returns.
LEMMA RegisterReturns ==
    ASSUME LedgerTypeOK, NEW i \in Intents, NEW f \in Facts
    PROVE  /\ RegisterResult(i, f, Targets) \in Registration
           /\ RegisterReactivationResult(i, f, Targets) \in Registration
  <1>1. /\ asrt[f].state \in States /\ asrt[f].evidence_count \in Nat
        /\ asrt[f].activation_count \in Nat
    BY DEF LedgerTypeOK, AssertionRow, States
  <1>2. /\ reactivations[i].activation_number \in Nat
    BY DEF LedgerTypeOK, ReactivationRow
  <1>3. \A p : NotProjected(p, Targets) \in SUBSET Targets
    BY DEF NotProjected
  <1>4. "active" \in States
    BY DEF States
  <1>5. RegisterResult(i, f, Targets) \in Registration
    BY <1>1, <1>3, <1>4 DEF RegisterResult, Registration
  <1>6. RegisterReactivationResult(i, f, Targets) \in Registration
    BY <1>1, <1>2, <1>3, <1>4 DEF RegisterReactivationResult, Registration
  <1> QED
    BY <1>5, <1>6

\* A registration sends the worker on with what it returned.
LEMMA RegisteredStep ==
    ASSUME WorkersInv, NEW w \in Workers, work[w].pc \in AssertPcs, status' = status,
           content' = content, NEW reg \in Registration,
           work' = [work EXCEPT ![w] = [@ EXCEPT !.reg = reg, !.pc = AfterRegister(w, reg)]]
    PROVE  Working'
  <1> DEFINE p == AfterRegister(w, reg)
             r == [work[w] EXCEPT !.reg = reg, !.pc = p]
  <1>1. work' = [work EXCEPT ![w] = r]
    OBVIOUS
  <1>2. work[w] \in Work /\ p \in (AssertPcs \ {"read_fact", "supersede"}) \cup {"settle"}
    BY Asserting, NextAssertPcs
  <1> HIDE DEF p
  <1>3. r \in Work /\ r.msg = Msg(w) /\ r.pc = p
    BY <1>2 DEF Work, Pcs, Msg
  <1> HIDE DEF r
  <1> QED
    BY <1>1, <1>2, <1>3, AssertStep

LEMMA RegisterFactKept ==
    ASSUME WorkersInv, NEW w \in Workers, RegisterFact(w)
    PROVE  Kept
  <1> DEFINE f == Body(w).adds
             reg == RegisterResult(Msg(w), f, Targets)
  <1>1. /\ work[w].pc \in AssertPcs /\ UNCHANGED ledgerOnly /\ status' = status /\ content' = content
    BY DEF RegisterFact, ledgerOnly, queueVars, At, AssertPcs
  <1>2. ~At(w, "idle") /\ f \in Facts /\ Msg(w) \in Intents
    BY <1>1, Asserting
  <1>3. CASE RegisterRaises(Msg(w), f)
    <2>1. Raise(w) /\ UNCHANGED ledgerVars
      BY <1>3 DEF RegisterFact
    <2>2. Working'
      BY <1>1, <1>2, <2>1, RaiseStep
    <2> QED
      BY <1>1, <2>1, <2>2, LedgerKept
  <1>4. CASE ~RegisterRaises(Msg(w), f)
    <2>1. /\ Register(Msg(w), f, Targets)
          /\ work' = [work EXCEPT ![w] = [@ EXCEPT !.reg = reg, !.pc = AfterRegister(w, reg)]]
      BY <1>4 DEF RegisterFact
    <2>2. LedgerNext
      BY <1>2, <2>1, TargetSets DEF LedgerNext
    <2>3. reg \in Registration
      BY <1>2, RegisterReturns DEF WorkersInv, LedgerInv
    <2> HIDE DEF reg
    <2>4. Working'
      BY <1>1, <2>1, <2>3, RegisteredStep
    <2> QED
      BY <1>1, <2>2, <2>4, LedgerKept
  <1> QED
    BY <1>3, <1>4

LEMMA ReactivateFactKept ==
    ASSUME WorkersInv, NEW w \in Workers, ReactivateFact(w)
    PROVE  Kept
  <1> DEFINE f == Body(w).adds
             reg == RegisterReactivationResult(Msg(w), f, Targets)
  <1>1. /\ work[w].pc \in AssertPcs /\ UNCHANGED ledgerOnly /\ status' = status /\ content' = content
    BY DEF ReactivateFact, ledgerOnly, queueVars, At, AssertPcs
  <1>2. ~At(w, "idle") /\ f \in Facts /\ Msg(w) \in Intents
    BY <1>1, Asserting
  <1>3. CASE RegisterReactivationRaises(Msg(w), f)
    <2>1. Raise(w) /\ UNCHANGED ledgerVars
      BY <1>3 DEF ReactivateFact
    <2>2. Working'
      BY <1>1, <1>2, <2>1, RaiseStep
    <2> QED
      BY <1>1, <2>1, <2>2, LedgerKept
  <1>4. CASE ~RegisterReactivationRaises(Msg(w), f)
    <2>1. /\ RegisterReactivation(Msg(w), f, Targets)
          /\ work' = [work EXCEPT ![w] = [@ EXCEPT !.reg = reg, !.pc = AfterRegister(w, reg)]]
      BY <1>4 DEF ReactivateFact
    <2>2. LedgerNext
      BY <1>2, <2>1, TargetSets DEF LedgerNext
    <2>3. reg \in Registration
      BY <1>2, RegisterReturns DEF WorkersInv, LedgerInv
    <2> HIDE DEF reg
    <2>4. Working'
      BY <1>1, <2>1, <2>3, RegisteredStep
    <2> QED
      BY <1>1, <2>2, <2>4, LedgerKept
  <1> QED
    BY <1>3, <1>4

\* Looking whether a projection is there.
LEMMA CheckKept ==
    ASSUME WorkersInv, NEW w \in Workers, CheckDrawer(w) \/ CheckKg(w)
    PROVE  Kept
  <1>1. /\ work[w].pc \in AssertPcs /\ UNCHANGED localOnly /\ status' = status /\ content' = content
    BY DEF CheckDrawer, CheckKg, localOnly, ledgerOnly, queueVars, At, AssertPcs
  <1>2. \/ Goto(w, "mark_drawer") \/ Goto(w, ToKg(w, work[w].reg)) \/ Goto(w, "reopen_drawer")
        \/ Goto(w, "put_drawer") \/ Goto(w, "mark_kg") \/ Goto(w, AfterKg(w))
        \/ Goto(w, "reopen_kg") \/ Goto(w, "put_kg")
    BY DEF CheckDrawer, CheckKg
  <1>3. Working'
    BY <1>1, <1>2, AssertGoto, NextAssertPcs DEF AssertPcs
  <1> QED
    BY <1>1, <1>3, LocalKept

\* Marking a projection written, or to be written again.
LEMMA MarkKept ==
    ASSUME WorkersInv, NEW w \in Workers,
           ReopenDrawer(w) \/ MarkDrawer(w) \/ ReopenKg(w) \/ MarkKg(w)
    PROVE  Kept
  <1>1. /\ work[w].pc \in AssertPcs /\ UNCHANGED ledgerOnly /\ status' = status /\ content' = content
    BY DEF ReopenDrawer, MarkDrawer, ReopenKg, MarkKg, ledgerOnly, queueVars, At, AssertPcs
  <1>2. \/ Goto(w, "put_drawer") \/ Goto(w, ToKg(w, work[w].reg)) \/ Goto(w, "put_kg")
        \/ Goto(w, AfterKg(w))
    BY DEF ReopenDrawer, MarkDrawer, ReopenKg, MarkKg
  <1>3. Working'
    BY <1>1, <1>2, AssertGoto, NextAssertPcs DEF AssertPcs
  <1>4. \E T \in (SUBSET Targets) \ {{}} :
            MarkProjected(Body(w).adds, T) \/ MarkProjectionPending(Body(w).adds, T)
    BY TargetSets DEF ReopenDrawer, MarkDrawer, ReopenKg, MarkKg
  <1>5. LedgerNext
    BY <1>1, <1>4, Asserting DEF LedgerNext
  <1> QED
    BY <1>1, <1>3, <1>5, LedgerKept

LEMMA LookKept ==
    ASSUME WorkersInv, NEW w \in Workers, Look(w)
    PROVE  Kept
  <1>1. /\ work[w].pc \in AssertPcs /\ UNCHANGED localOnly /\ status' = status /\ content' = content
    BY DEF Look, localOnly, ledgerOnly, queueVars, At, AssertPcs
  <1>2. work[w] \in Work /\ work[w].reg \in Registration
    BY <1>1, Asserting
  <1> DEFINE reg == work[w].reg
             projected == Targets \ reg.pending
             asked == projected \cup (IF ~reg.evidence_created \/ reg.evidence_count > 1
                                      THEN reg.pending ELSE {})
             visible == {t \in asked :
                            \/ t = "drawer" /\ ProjectionDrawers(Body(w).adds, reg.activation) # {}
                            \/ t = "kg" /\ OpenRows({Body(w).adds}) # {}}
             missing == projected \ visible
             recovered == visible \cap reg.pending
             pending == (reg.pending \cup missing) \ visible
  <1>3. pending \in SUBSET Targets /\ missing \in SUBSET Targets /\ recovered \in SUBSET Targets
    BY <1>2 DEF Registration
  <1> DEFINE q == [reg EXCEPT !.pending = pending]
             r == [work[w] EXCEPT !.reg = q, !.missing = missing, !.recovered = recovered,
                                  !.pc = "relook"]
  <1>4. work' = [work EXCEPT ![w] = r]
    BY DEF Look
  <1> HIDE DEF pending, missing, recovered
  <1>5. q \in Registration
    BY <1>2, <1>3 DEF Registration
  <1> HIDE DEF q
  <1>6. r \in Work /\ r.msg = Msg(w) /\ r.pc = "relook"
    BY <1>2, <1>3, <1>5 DEF Work, Pcs, AssertPcs, Msg
  <1> HIDE DEF r
  <1>7. Working'
    BY <1>1, <1>4, <1>6, AssertStep DEF AssertPcs
  <1> QED
    BY <1>1, <1>7, LocalKept

\* Each half of the relook is one ledger call or none.
LEMMA RelookKept ==
    ASSUME WorkersInv, NEW w \in Workers, Relook(w)
    PROVE  Kept
  <1>1. /\ work[w].pc \in AssertPcs /\ UNCHANGED ledgerOnly /\ status' = status /\ content' = content
    BY DEF Relook, ledgerOnly, queueVars, At, AssertPcs
  <1>2. /\ work[w] \in Work /\ Body(w).adds \in Facts
        /\ work[w].missing \in SUBSET Targets /\ work[w].recovered \in SUBSET Targets
    BY <1>1, Asserting DEF Work
  <1>3. CASE work[w].missing # {}
    <2> DEFINE r == [work[w] EXCEPT !.missing = {}]
    <2>1. MarkProjectionPending(Body(w).adds, work[w].missing) /\ work' = [work EXCEPT ![w] = r]
      BY <1>3 DEF Relook
    <2>2. LedgerNext
      BY <1>2, <1>3, <2>1 DEF LedgerNext
    <2>3. r \in Work /\ r.msg = Msg(w) /\ r.pc = "relook"
      BY <1>2 DEF Work, Msg, Relook, At
    <2> HIDE DEF r
    <2>4. Working'
      BY <1>1, <2>1, <2>3, AssertStep DEF AssertPcs
    <2> QED
      BY <1>1, <2>2, <2>4, LedgerKept
  <1>4. CASE work[w].missing = {}
    <2> DEFINE p == IF "drawer" \in work[w].reg.pending THEN "put_drawer" ELSE ToKg(w, work[w].reg)
               r == [work[w] EXCEPT !.recovered = {}, !.pc = p]
    <2>1. /\ IF work[w].recovered # {} THEN MarkProjected(Body(w).adds, work[w].recovered)
             ELSE UNCHANGED ledgerVars
          /\ work' = [work EXCEPT ![w] = r]
      BY <1>4 DEF Relook
    <2>2. [LedgerNext]_ledgerVars
      BY <1>2, <2>1 DEF LedgerNext
    <2>3. p \in (AssertPcs \ {"read_fact", "supersede"}) \cup {"settle"}
      BY NextAssertPcs DEF AssertPcs
    <2> HIDE DEF p
    <2>4. r \in Work /\ r.msg = Msg(w) /\ r.pc = p
      BY <1>2, <2>3 DEF Work, Pcs, Msg
    <2> HIDE DEF r
    <2>5. Working'
      BY <1>1, <2>1, <2>3, <2>4, AssertStep
    <2> QED
      BY <1>1, <2>2, <2>5, LedgerKept
  <1> QED
    BY <1>3, <1>4

LEMMA PutKept ==
    ASSUME WorkersInv, NEW w \in Workers, PutDrawer(w) \/ PutKg(w)
    PROVE  Kept
  <1>1. /\ work[w].pc \in AssertPcs /\ UNCHANGED storeOnly /\ status' = status /\ content' = content
        /\ Goto(w, "mark_drawer") \/ Goto(w, "mark_kg")
    BY DEF PutDrawer, PutKg, storeOnly, queueVars, At, AssertPcs
  <1>2. Working'
    BY <1>1, AssertGoto DEF AssertPcs
  <1>3. Body(w).adds \in Facts /\ work[w].reg.activation \in Nat /\ Msg(w) \in Msgs
    BY <1>1, Asserting DEF Registration
  <1>4. CASE PutDrawer(w)
    <2> DEFINE d == [fact |-> Body(w).adds, activation |-> work[w].reg.activation, text |-> Msg(w)]
    <2>1. drawers' = drawers \cup {d} /\ UNCHANGED <<archived, kgrows, closed>>
      BY <1>4 DEF PutDrawer, IngestDrawer
    <2>2. d \in Drawer
      BY <1>3 DEF Drawer
    <2> HIDE DEF d
    <2>3. StoresOK'
      BY <2>1, <2>2 DEF WorkersInv, StoresOK
    <2> QED
      BY <1>1, <1>2, <2>3, StoreKept
  <1>5. CASE PutKg(w)
    <2> DEFINE k == [fact |-> Body(w).adds, activation |-> work[w].reg.activation]
    <2>1. kgrows' \in {kgrows, kgrows \cup {k}} /\ UNCHANGED <<drawers, archived, closed>>
      BY <1>5 DEF PutKg, AddTriple
    <2>2. k \in KgRow
      BY <1>3 DEF KgRow
    <2> HIDE DEF k
    <2>3. StoresOK'
      BY <2>1, <2>2 DEF WorkersInv, StoresOK
    <2> QED
      BY <1>1, <1>2, <2>3, StoreKept
  <1> QED
    BY <1>4, <1>5

LEMMA FinishReactivationKept ==
    ASSUME WorkersInv, NEW w \in Workers, FinishReactivation(w)
    PROVE  Kept
  <1>1. /\ work[w].pc \in AssertPcs /\ UNCHANGED ledgerOnly /\ status' = status /\ content' = content
    BY DEF FinishReactivation, ledgerOnly, queueVars, At, AssertPcs
  <1>2. ~At(w, "idle") /\ Msg(w) \in Intents
    BY <1>1, Asserting
  <1>3. \/ Raise(w) /\ UNCHANGED ledgerVars
        \/ MarkReactivated(Msg(w), Targets) /\ Goto(w, "settle")
    BY DEF FinishReactivation
  <1>4. Working'
    BY <1>1, <1>2, <1>3, RaiseStep, AssertGoto
  <1>5. [LedgerNext]_ledgerVars
    BY <1>2, <1>3, TargetSets DEF LedgerNext
  <1> QED
    BY <1>1, <1>4, <1>5, LedgerKept

LEMMA AssertStepsKept ==
    ASSUME WorkersInv, NEW w \in Workers, AssertSteps(w)
    PROVE  Kept
  BY ReadFactKept, SupersedeKept, RegisterFactKept, ReactivateFactKept, CheckKept, MarkKept,
     LookKept, RelookKept, PutKept, FinishReactivationKept DEF AssertSteps

----------------------------------------------------------------------------
(* forget_resolved_projections / forget_canonical_assertions                *)

\* A worker that forgets knows what.
LEMMA Forgetting ==
    ASSUME WorkersInv, NEW w \in Workers, work[w].pc \in FactsPcs
    PROVE  /\ ~At(w, "idle") /\ work[w].facts \in (SUBSET Facts) \ {{}} /\ Body(w).hard \in BOOLEAN
           /\ work[w] \in Work /\ Fits(w, work[w]) /\ Msg(w) \in Msgs
           /\ work[w].seen \subseteq Drawer /\ work[w].events \subseteq Msgs
  <1>1. ~At(w, "idle")
    BY DEF At, FactsPcs
  <1> QED
    BY <1>1, Holding DEF Fits, Work, Content, Payload

\* A worker that keeps forgetting, with more in hand.
LEMMA ForgetStep ==
    ASSUME WorkersInv, NEW w \in Workers, work[w].pc \in ForgetPcs, status' = status,
           content' = content, NEW r \in Work, r.msg = Msg(w), r.pc \in FactsPcs, r.facts # {},
           work' = [work EXCEPT ![w] = r]
    PROVE  Working'
  <1>1. /\ ~At(w, "idle") /\ r.pc # "idle" /\ r.pc \notin Ending /\ r.pc \notin AssertPcs
        /\ r.pc \in ForgetPcs /\ r.pc # "forget_source"
    BY DEF At, AssertPcs, ForgetPcs, FactsPcs, Ending
  <1>2. Fits(w, work[w]) /\ Asks(Body(w), work[w].pc) /\ Msg(w) # NoMsg
    BY <1>1, Holding
  <1>3. Fits(w, r)
    BY <1>1, <1>2 DEF Fits, Asks, Msg, Body, AssertPcs
  <1> QED
    BY <1>3, WorkStep DEF WorkersInv

LEMMA ForgetResolveKept ==
    ASSUME WorkersInv, NEW w \in Workers, ForgetResolve(w)
    PROVE  Kept
  <1>1. /\ work[w].pc \in ForgetPcs /\ work[w].pc = "forget_resolve" /\ UNCHANGED localOnly
        /\ status' = status /\ content' = content /\ ~At(w, "idle")
    BY DEF ForgetResolve, localOnly, ledgerOnly, queueVars, At, ForgetPcs
  <1>2. Body(w).kind \in {"forget_drawers", "forget_source"} /\ work[w] \in Work
    BY <1>1, Holding DEF Asks
  <1>3. ASSUME Raise(w)
        PROVE  Kept
    <2>1. Working'
      BY <1>1, <1>3, RaiseStep
    <2> QED
      BY <1>1, <2>1, LocalKept
  <1>4. ASSUME Body(w).kind = "forget_source", Goto(w, "forget_source")
        PROVE  Kept
    <2>1. Working'
      BY <1>1, <1>4, GotoStep DEF Asks, Pcs, AssertPcs, ForgetPcs, FactsPcs, Ending
    <2> QED
      BY <1>1, <2>1, LocalKept
  <1>5. ASSUME Resolved(w) # {},
               work' = [work EXCEPT ![w] = [@ EXCEPT !.facts = Resolved(w), !.pc = "forget_scan"]]
        PROVE  Kept
    <2> DEFINE F == Resolved(w)
               r == [work[w] EXCEPT !.facts = F, !.pc = "forget_scan"]
    <2>1. work' = [work EXCEPT ![w] = r]
      BY <1>5
    <2>2. F \in SUBSET Facts
      <3>1. drawers \subseteq Drawer
        BY DEF WorkersInv, StoresOK
      <3> QED
        BY <3>1 DEF Resolved, Drawer
    <2>3. F # {}
      BY <1>5
    <2> HIDE DEF F
    <2>4. r \in Work /\ r.msg = Msg(w) /\ r.pc = "forget_scan" /\ r.facts # {}
      BY <1>2, <2>2, <2>3 DEF Work, Msg, Pcs, ForgetPcs, FactsPcs
    <2> HIDE DEF r
    <2>5. Working'
      BY <1>1, <2>1, <2>4, ForgetStep DEF FactsPcs
    <2> QED
      BY <1>1, <2>5, LocalKept
  <1> QED
    BY <1>2, <1>3, <1>4, <1>5 DEF ForgetResolve

LEMMA ForgetScanKept ==
    ASSUME WorkersInv, NEW w \in Workers, ForgetScan(w)
    PROVE  Kept
  <1>1. /\ work[w].pc \in FactsPcs /\ work[w].pc \in ForgetPcs /\ UNCHANGED localOnly
        /\ status' = status /\ content' = content
    BY DEF ForgetScan, localOnly, ledgerOnly, queueVars, At, FactsPcs, ForgetPcs
  <1> DEFINE D == DrawersOf(work[w].facts) \cup previewed[Msg(w)]
             r == [work[w] EXCEPT !.seen = D, !.pc = "forget_begin"]
  <1>2. work' = [work EXCEPT ![w] = r]
    BY DEF ForgetScan
  <1>3. work[w] \in Work /\ Msg(w) \in Msgs /\ work[w].facts # {}
    BY <1>1, Forgetting
  <1>4. D \in SUBSET Drawer
    BY <1>3 DEF DrawersOf, WorkersInv, StoresOK, QueuesOK
  <1> HIDE DEF D
  <1>5. r \in Work /\ r.msg = Msg(w) /\ r.pc = "forget_begin" /\ r.facts # {}
    BY <1>3, <1>4 DEF Work, Msg, Pcs, ForgetPcs, FactsPcs
  <1> HIDE DEF r
  <1>6. Working'
    BY <1>1, <1>2, <1>5, ForgetStep DEF FactsPcs
  <1> QED
    BY <1>1, <1>6, LocalKept

\* The source events of intents are messages.
LEMMA EventsAreMessages ==
    ASSUME NEW F
    PROVE  {EventOf(i) : i \in SourceIntents(F)} \in SUBSET Msgs
  <1>1. ASSUME NEW i \in SourceIntents(F)
        PROVE  EventOf(i) \in Msgs
    <2>1. i \in Msgs \/ i \in Msgs \X Facts
      BY MessageIds DEF SourceIntents
    <2> QED
      BY <2>1 DEF EventOf
  <1> QED
    BY <1>1

LEMMA ForgetBeginKept ==
    ASSUME WorkersInv, NEW w \in Workers, ForgetBegin(w)
    PROVE  Kept
  <1>1. /\ work[w].pc \in FactsPcs /\ work[w].pc \in ForgetPcs /\ UNCHANGED ledgerOnly
        /\ status' = status /\ content' = content /\ BeginForget(work[w].facts, Body(w).hard, Targets)
    BY DEF ForgetBegin, ledgerOnly, queueVars, At, FactsPcs, ForgetPcs
  <1>2. /\ work[w].facts \in (SUBSET Facts) \ {{}} /\ Body(w).hard \in BOOLEAN /\ work[w] \in Work
    BY <1>1, Forgetting
  <1>3. LedgerNext
    BY <1>1, <1>2, TargetSets DEF LedgerNext
  <1> DEFINE E == IF Body(w).hard THEN {EventOf(i) : i \in SourceIntents(work[w].facts)} ELSE {}
             p == IF Body(w).hard THEN "forget_redact" ELSE "forget_kg"
             r == [work[w] EXCEPT !.events = E, !.pc = p]
  <1>4. work' = [work EXCEPT ![w] = r]
    BY DEF ForgetBegin
  <1>5. E \in SUBSET Msgs /\ p \in {"forget_redact", "forget_kg"}
    BY EventsAreMessages
  <1> HIDE DEF E, p
  <1>6. r \in Work /\ r.msg = Msg(w) /\ r.pc = p /\ r.facts # {}
    BY <1>2, <1>5 DEF Work, Msg, Pcs, ForgetPcs, FactsPcs
  <1> HIDE DEF r
  <1>7. Working'
    BY <1>1, <1>4, <1>5, <1>6, ForgetStep DEF FactsPcs
  <1> QED
    BY <1>1, <1>3, <1>7, LedgerKept

LEMMA ForgetRedactKept ==
    ASSUME WorkersInv, NEW w \in Workers, ForgetRedact(w)
    PROVE  Kept
  <1> DEFINE r == [work[w] EXCEPT !.events = {}, !.pc = "forget_scrub"]
  <1>1. /\ work[w].pc \in FactsPcs /\ work[w].pc \in ForgetPcs /\ work' = [work EXCEPT ![w] = r]
        /\ redactedEvents' = redactedEvents \cup work[w].events
        /\ UNCHANGED <<ledgerVars, content, queueVars, previewed, storeVars, boundVars>>
        /\ status' = status /\ content' = content
    BY DEF ForgetRedact, queueVars, At, FactsPcs, ForgetPcs
  <1>2. work[w] \in Work /\ work[w].facts # {} /\ work[w].events \subseteq Msgs
    BY <1>1, Forgetting
  <1>3. r \in Work /\ r.msg = Msg(w) /\ r.pc = "forget_scrub" /\ r.facts # {}
    BY <1>2 DEF Work, Msg, Pcs, ForgetPcs, FactsPcs
  <1> HIDE DEF r
  <1>4. Working'
    BY <1>1, <1>3, ForgetStep DEF FactsPcs
  <1>5. QueuesOK'
    BY <1>1, <1>2 DEF WorkersInv, QueuesOK, queueVars
  <1> QED
    BY <1>1, <1>4, <1>5, StoresSame DEF WorkersInv, Kept

\* The last event is the one the message names.
LEMMA ForgetSourceKept ==
    ASSUME WorkersInv, NEW w \in Workers, ForgetSource(w)
    PROVE  Kept
  <1>1. /\ work[w].pc = "forget_source" /\ ~At(w, "idle") /\ Goto(w, "settle")
        /\ redactedEvents' = redactedEvents \cup {Body(w).source}
        /\ UNCHANGED <<ledgerVars, content, queueVars, previewed, storeVars, boundVars>>
        /\ status' = status /\ content' = content
    BY DEF ForgetSource, queueVars, At
  <1>2. Body(w).source \in Msgs
    BY <1>1, Holding DEF Asks, Content
  <1>3. Working'
    BY <1>1, GotoStep DEF Asks, Pcs, AssertPcs, ForgetPcs, FactsPcs, Ending
  <1>4. QueuesOK'
    BY <1>1, <1>2 DEF WorkersInv, QueuesOK, queueVars
  <1> QED
    BY <1>1, <1>3, <1>4, StoresSame DEF WorkersInv, Kept

LEMMA ForgetMarksKept ==
    ASSUME WorkersInv, NEW w \in Workers,
           ForgetScrub(w) \/ ForgetKgMark(w) \/ ForgetDrawerMark(w)
    PROVE  Kept
  <1>1. /\ work[w].pc \in FactsPcs /\ UNCHANGED ledgerOnly /\ status' = status /\ content' = content
        /\ \/ Goto(w, "forget_kg") \/ Goto(w, "forget_drawers") \/ Goto(w, "settle")
           \/ Body(w).kind = "forget_source" /\ Goto(w, "forget_source")
    BY DEF ForgetScrub, ForgetKgMark, ForgetDrawerMark, ledgerOnly, queueVars, At, FactsPcs
  <1>2. work[w].facts \in (SUBSET Facts) \ {{}} /\ ~At(w, "idle")
    BY <1>1, Forgetting
  <1>3. ASSUME Body(w).kind = "forget_source", Goto(w, "forget_source")
        PROVE  Working'
    BY <1>1, <1>2, <1>3, GotoStep DEF Asks, Pcs, AssertPcs, ForgetPcs, FactsPcs, Ending
  <1>4. Working'
    BY <1>1, <1>3, ForgetGoto DEF FactsPcs
  <1>5. \/ ScrubForgottenContent(work[w].facts)
        \/ \E T \in (SUBSET Targets) \ {{}} : MarkForgetProjected(work[w].facts, T)
    BY TargetSets DEF ForgetScrub, ForgetKgMark, ForgetDrawerMark
  <1>6. LedgerNext
    BY <1>2, <1>5 DEF LedgerNext
  <1> QED
    BY <1>1, <1>4, <1>6, LedgerKept

LEMMA ForgetStoresKept ==
    ASSUME WorkersInv, NEW w \in Workers, ForgetKg(w) \/ ForgetDrawers(w)
    PROVE  Kept
  <1>1. /\ work[w].pc \in FactsPcs /\ UNCHANGED storeOnly /\ status' = status /\ content' = content
        /\ Goto(w, "forget_kg_mark") \/ Goto(w, "forget_drawer_mark")
    BY DEF ForgetKg, ForgetDrawers, storeOnly, queueVars, At, FactsPcs
  <1>2. Working'
    BY <1>1, ForgetGoto DEF FactsPcs
  <1>3. StoresOK'
    BY DEF ForgetKg, ForgetDrawers, ForgetAssertions, InvalidateTriple, OpenRows, ArchiveDrawers,
           DeleteDrawers, WorkersInv, StoresOK
  <1> QED
    BY <1>1, <1>2, <1>3, StoreKept

LEMMA ForgetStepsKept ==
    ASSUME WorkersInv, NEW w \in Workers, ForgetSteps(w)
    PROVE  Kept
  BY ForgetResolveKept, ForgetScanKept, ForgetBeginKept, ForgetRedactKept, ForgetSourceKept,
     ForgetMarksKept, ForgetStoresKept DEF ForgetSteps

----------------------------------------------------------------------------
(* Settling, failing, crashing.                                             *)

LEMMA SettleKept ==
    ASSUME WorkersInv, NEW w \in Workers, Settle(w)
    PROVE  Kept
  <1>1. /\ At(w, "settle") /\ ~At(w, "idle") /\ content' = content
        /\ UNCHANGED <<ledgerVars, content, deliveries, previewed, storeVars, redactedEvents, boundVars>>
    BY DEF Settle, At
  <1>2. Msg(w) \in Msgs
    BY <1>1, Holding
  <1>3. CASE work[w].failed
    <2> DEFINE s == IF deliveries[Msg(w)] >= MaxDeliveries THEN "dead" ELSE "queued"
    <2>1. /\ work' = [work EXCEPT ![w] = Idle] /\ status' = [status EXCEPT ![Msg(w)] = s]
          /\ applied' = applied
      BY <1>3 DEF Settle
    <2>2. s \in Status
      BY DEF Status, Terminal
    <2> HIDE DEF s
    <2>3. /\ Working' /\ status' \in [Msgs -> Status]
          /\ \A m \in Msgs : content'[m].kind = "none" => status'[m] = "unsent"
      BY <1>1, <2>1, <2>2, WorkEnds DEF WorkersInv
    <2>4. QueuesOK'
      BY <1>1, <2>1, <2>3 DEF WorkersInv, QueuesOK
    <2> QED
      BY <1>1, <2>3, <2>4, StoresSame DEF WorkersInv, Kept
  <1>4. CASE ~work[w].failed
    <2>1. /\ Goto(w, "ack") /\ status' = status
          /\ applied' = applied \/ applied' = applied \cup {Msg(w)}
      BY <1>4 DEF Settle
    <2>2. Working'
      BY <1>1, <2>1, GotoStep DEF Asks, Pcs, AssertPcs, ForgetPcs, FactsPcs, Ending
    <2>3. QueuesOK'
      BY <1>1, <1>2, <2>1 DEF WorkersInv, QueuesOK
    <2> QED
      BY <1>1, <2>2, <2>3, StoresSame DEF WorkersInv, Kept
  <1> QED
    BY <1>3, <1>4

LEMMA FinishKept ==
    ASSUME WorkersInv, NEW w \in Workers, Ack(w) \/ RejectAck(w)
    PROVE  Kept
  <1>1. ASSUME NEW pc \in {"ack", "reject"}, NEW s \in Status, Finish(w, pc, s)
        PROVE  Kept
    <2>1. /\ ~At(w, "idle") /\ content' = content
          /\ UNCHANGED <<ledgerVars, deliveries, applied, previewed, storeVars, redactedEvents>>
          /\ work' = [work EXCEPT ![w] = Idle] /\ status' = [status EXCEPT ![Msg(w)] = s]
      BY <1>1 DEF Finish, At
    <2>2. /\ Working' /\ status' \in [Msgs -> Status]
          /\ \A m \in Msgs : content'[m].kind = "none" => status'[m] = "unsent"
      BY <2>1, WorkEnds DEF WorkersInv
    <2>3. QueuesOK'
      BY <2>1, <2>2 DEF WorkersInv, QueuesOK
    <2> QED
      BY <2>1, <2>2, <2>3, StoresSame DEF WorkersInv, Kept
  <1> QED
    BY <1>1 DEF Ack, RejectAck, Status, Terminal

LEMMA FailKept ==
    ASSUME WorkersInv, NEW w \in Workers, Fail(w)
    PROVE  Kept
  <1>1. /\ Raise(w) /\ ~At(w, "idle") /\ status' = status /\ content' = content
        /\ UNCHANGED <<ledgerVars, content, queueVars, previewed, storeVars, redactedEvents, crashes>>
    BY DEF Fail, At, queueVars
  <1>2. Working'
    BY <1>1, RaiseStep
  <1>3. QueuesOK'
    BY <1>1, QueuesSame DEF WorkersInv
  <1> QED
    BY <1>1, <1>2, <1>3, StoresSame DEF WorkersInv, Kept

\* Every worker is gone, and what was held comes back.
LEMMA CrashKept ==
    ASSUME WorkersInv, Crash
    PROVE  Kept
  <1>1. /\ work' = [w \in Workers |-> Idle]
        /\ status' = [m \in Msgs |-> IF status[m] = "held" THEN "queued" ELSE status[m]]
        /\ UNCHANGED <<ledgerVars, content, applied, previewed, storeVars, redactedEvents, fails>>
    BY DEF Crash
  <1>2. Working'
    BY <1>1, IdleFits DEF Working, Fits, EndOf, Msg
  <1>3. deliveries' \in [Msgs -> Nat]
    <2>1. PICK batch : deliveries' = [m \in Msgs |-> deliveries[m] + (IF m \in batch THEN 1 ELSE 0)]
      BY DEF Crash
    <2> QED
      BY <2>1 DEF WorkersInv, QueuesOK
  <1>4. status' \in [Msgs -> Status]
    BY <1>1 DEF WorkersInv, QueuesOK, Status
  <1>5. QueuesOK'
    BY <1>1, <1>3, <1>4 DEF WorkersInv, QueuesOK
  <1> QED
    BY <1>1, <1>2, <1>5, StoresSame DEF WorkersInv, Kept

\* A command is sent when its preview has been confirmed.
LEMMA PublishKept ==
    ASSUME WorkersInv, NEW m \in Msgs, Publish(m)
    PROVE  Kept
  <1> DEFINE ids == DrawersOf({content[m].adds}) \ archived
  <1>1. /\ status[m] = "unsent" /\ status' = [status EXCEPT ![m] = "queued"]
        /\ content[m].kind = "forget_drawers" /\ previewed' = [previewed EXCEPT ![m] = ids]
        /\ UNCHANGED <<ledgerVars, content, deliveries, applied, storeVars, redactedEvents, work,
                       boundVars>>
    BY DEF Publish
  <1>2. ids \in SUBSET Drawer
    BY DEF DrawersOf, WorkersInv, StoresOK
  <1> HIDE DEF ids
  <1>3. QueuesOK'
    <2>1. status' \in [Msgs -> Status] /\ previewed' \in [Msgs -> SUBSET Drawer]
      BY <1>1, <1>2 DEF WorkersInv, QueuesOK, Status
    <2>2. \A n \in Msgs : content'[n].kind = "none" => status'[n] = "unsent"
      BY <1>1 DEF WorkersInv, QueuesOK
    <2> QED
      BY <1>1, <2>1, <2>2 DEF WorkersInv, QueuesOK
  <1>4. ASSUME NEW v \in Workers, work'[v].msg # NoMsg
        PROVE  status'[work'[v].msg] = "held"
    <2>1. work'[v] = work[v] /\ work[v].msg \in Msgs /\ status[work[v].msg] = "held"
      BY <1>1, <1>4 DEF WorkersInv, Working, Work, Msg
    <2> QED
      BY <2>1, <1>1 DEF WorkersInv, QueuesOK
  <1>5. Working'
    BY <1>1, <1>4 DEF WorkersInv, Working, Fits, EndOf, Msg
  <1> QED
    BY <1>1, <1>3, <1>5, StoresSame DEF WorkersInv, Kept

----------------------------------------------------------------------------
(* The theorems.                                                            *)

LEMMA WorkersInit == Init => WorkersInv
  <1> SUFFICES ASSUME Init
               PROVE  WorkersInv
    OBVIOUS
  <1>1. PICK s \in Scenarios :
            /\ LedgerInit
            /\ content = s.content
            /\ status = [m \in Msgs |->
                   IF content[m].kind \in {"forget_drawers", "none"} THEN "unsent" ELSE "queued"]
            /\ deliveries = [m \in Msgs |-> 0]
            /\ previewed = [m \in Msgs |-> {}]
            /\ drawers = {} /\ archived = {} /\ kgrows = {} /\ closed = {}
            /\ redactedEvents = {} /\ applied = {}
            /\ work = [w \in Workers |-> Idle]
    BY DEF Init
  <1>2. LedgerInv
    BY <1>1, InvInit
  <1>3. QueuesOK
    BY <1>1, ScenarioAssumption DEF QueuesOK, Status
  <1>4. StoresOK
    BY <1>1 DEF StoresOK
  <1>5. Working
    BY <1>1, IdleFits DEF Working, Msg
  <1> QED
    BY <1>2, <1>3, <1>4, <1>5 DEF WorkersInv

LEMMA WorkersNext == WorkersInv /\ [Next]_vars => WorkersInv' /\ [LedgerNext]_ledgerVars
  <1> SUFFICES ASSUME WorkersInv, [Next]_vars
               PROVE  WorkersInv' /\ [LedgerNext]_ledgerVars
    OBVIOUS
  <1>1. ASSUME NEW w \in Workers, Step(w)
        PROVE  Kept
    BY <1>1, TakeKept, StartKept, EndStepsKept, AssertStepsKept, ForgetStepsKept, SettleKept,
       FinishKept DEF Step
  <1>2. ASSUME UNCHANGED vars
        PROVE  Kept
    <2>1. /\ UNCHANGED <<content, queueVars, previewed, redactedEvents>>
          /\ UNCHANGED ledgerVars /\ UNCHANGED storeVars /\ work' = work
          /\ status' = status /\ content' = content
      BY <1>2 DEF vars, queueVars
    <2>2. Working'
      BY <2>1 DEF WorkersInv, Working, Fits, EndOf, Msg
    <2> QED
      BY <2>1, <2>2, QueuesSame, StoresSame DEF WorkersInv, Kept
  <1>3. Kept
    BY <1>1, <1>2, PublishKept, FailKept, CrashKept DEF Next, IdlePoll
  <1>4. LedgerInv'
    BY <1>3, InvNext DEF Kept, WorkersInv
  <1> QED
    BY <1>3, <1>4 DEF Kept, WorkersInv

\* Whatever the workers interleave, repeat and leave half done, the ledger
\* keeps its invariant and every worker holds what its next call needs.
THEOREM FactWorkersInvariant == Spec => []WorkersInv
  BY WorkersInit, WorkersNext, PTL DEF Spec

\* The stores, queues and handlers hold what they may, and a message is held
\* exactly while a worker works on it.
THEOREM FactWorkersTypeCorrect == Spec => []TypeOK
  <1>1. WorkersInv => TypeOK
    BY DEF WorkersInv, LedgerInv, QueuesOK, StoresOK, Working, Fits, Work, TypeOK, Msg
  <1> QED
    BY <1>1, FactWorkersInvariant, PTL

\* The workers are callers of the ledger and nothing else: whatever they do is
\* one ledger call or leaves its tables alone.
THEOREM FactWorkersImplementLedger == Spec => ImplementsLedger
  <1>1. Init => LedgerInit
    BY DEF Init
  <1> QED
    BY <1>1, FactWorkersInvariant, WorkersNext, PTL DEF Spec, ImplementsLedger, LedgerSpec

\* Redelivered, interrupted and interleaved turns and commands count the
\* evidence of a fact once.
THEOREM FactWorkersEvidenceCounted == Spec => []EvidenceCounted
  BY FactWorkersImplementLedger, LedgerEvidenceCounted, PTL DEF ImplementsLedger

\* Two workers asserting different values of one slot cannot both have their
\* first life current.
THEOREM FactWorkersFirstLifeSlotUnique == Spec => []FirstLifeSlotUnique
  BY FactWorkersImplementLedger, LedgerFirstLifeSlotUnique, PTL DEF ImplementsLedger

\* A redelivered turn never revives what a privacy command removed.
THEOREM FactWorkersTombstoneBlocksReplay == Spec => []TombstoneBlocksReplay
  BY FactWorkersImplementLedger, LedgerTombstoneBlocksReplay, PTL DEF ImplementsLedger

\* However a reactivation is interrupted and retried, the life a fact is in
\* was brought about by one that was applied.
THEOREM FactWorkersActivationAccounted == Spec => []ActivationAccounted
  BY FactWorkersImplementLedger, LedgerActivationAccounted, PTL DEF ImplementsLedger

\* No interleaving of the workers rewrites provenance.
THEOREM FactWorkersEvidenceImmutable == Spec => EvidenceImmutable
  BY FactWorkersImplementLedger, LedgerEvidenceImmutable, PTL DEF ImplementsLedger

\* No interleaving of the workers removes or weakens a tombstone.
THEOREM FactWorkersTombstonePermanent == Spec => TombstonePermanent
  BY FactWorkersImplementLedger, LedgerTombstonePermanent, PTL DEF ImplementsLedger

----------------------------------------------------------------------------
(* No assertion is lost: the mark an acknowledged assertion has left.       *)

\* A message that asserts a fact, and what is left of it.
Asserts(m) == content[m].kind \in {"turn", "assert", "update"} /\ content[m].adds # NoFact
Recorded(m) ==
    \/ evidence[m] = content[m].adds
    \/ m \in redactedEvents
    \/ forgets[content[m].adds].hard

\* Where a handler that asserts is past its registration, and whether r may
\* still be acknowledged without registering again: a delivery one of whose
\* steps raised is redelivered instead.
PastRegister ==
    {"check_drawer", "reopen_drawer", "look", "relook", "put_drawer", "mark_drawer", "check_kg",
     "reopen_kg", "put_kg", "mark_kg", "finish_reactivation", "settle"}
Recording(r) == r.pc = "ack" \/ (r.pc \in PastRegister /\ ~r.failed)

\* AckedRecorded is not inductive: a worker about to acknowledge, and a
\* command the status ledger calls applied, must have left their mark already,
\* and a plain assertion, which has nothing to end, is never ending a fact.
RecordedInv ==
    /\ \A w \in Workers : Msg(w) # NoMsg /\ Asserts(Msg(w)) /\ Recording(work[w]) => Recorded(Msg(w))
    /\ \A w \in Workers : work[w].pc \in Ending => content[Msg(w)].kind # "assert"
    /\ \A m \in applied : Asserts(m) => Recorded(m)
    /\ AckedRecorded

\* A hard forget stays hard.
LEMMA HardStays ==
    ASSUME LedgerTypeOK, [LedgerNext]_ledgerVars, NEW f \in Facts, forgets[f].hard
    PROVE  forgets'[f].hard
  <1>1. ASSUME NEW F \in SUBSET Facts, NEW hard \in BOOLEAN, NEW T, BeginForget(F, hard, T)
        PROVE  forgets'[f].hard
    BY <1>1, BeginForgetEffect
  <1>2. ASSUME NEW F \in SUBSET Facts, NEW T, MarkForgetProjected(F, T)
        PROVE  forgets'[f].hard
    BY <1>2, MarkForgetProjectedEffect
  <1>3. \/ forgets' = forgets
        \/ \E F \in SUBSET Facts, hard \in BOOLEAN, T \in SUBSET Targets : BeginForget(F, hard, T)
        \/ \E F \in SUBSET Facts, T \in SUBSET Targets : MarkForgetProjected(F, T)
    BY DEF LedgerNext, ledgerVars, Register, RegisterInvalidation, MarkInvalidated,
           RegisterReactivation, MarkReactivated, MarkProjected, MarkProjectionPending,
           SetProjectionState, ScrubForgottenContent
  <1> QED
    BY <1>1, <1>2, <1>3

\* The mark of an assertion stays: evidence goes only with a hard forget.
LEMMA RecordedStays ==
    ASSUME WorkersInv, [LedgerNext]_ledgerVars, content' = content,
           redactedEvents \subseteq redactedEvents', NEW m \in Msgs, Asserts(m), Recorded(m)
    PROVE  Recorded(m)'
  <1>1. content[m].adds \in Facts /\ content[m].adds # NoFact /\ m \in Intents /\ LedgerInv
    BY MessageIds DEF WorkersInv, QueuesOK, Content, Payload, Asserts
  <1>2. CASE evidence[m] = content[m].adds
    <2>1. CASE evidence'[m] = evidence[m]
      BY <1>2, <2>1 DEF Recorded
    <2>2. CASE evidence'[m] # evidence[m]
      <3>1. forgets[content[m].adds].hard
        BY <1>1, <1>2, <2>2, EvidenceStep
      <3> QED
        BY <1>1, <3>1, HardStays DEF LedgerInv, Recorded
    <2> QED
      BY <2>1, <2>2
  <1>3. CASE m \in redactedEvents
    BY <1>3 DEF Recorded
  <1>4. CASE forgets[content[m].adds].hard
    BY <1>1, <1>4, HardStays DEF LedgerInv, Recorded
  <1> QED
    BY <1>2, <1>3, <1>4 DEF Recorded

\* A step of worker w with its message in hand that lets it acknowledge an
\* assertion only when the mark was left, before the step or by it.
Careful(w) ==
    /\ content' = content /\ status' = status /\ applied' = applied
    /\ redactedEvents \subseteq redactedEvents'
    /\ \A v \in Workers : v # w => work'[v] = work[v]
    /\ work'[w].msg = Msg(w)
    /\ Asserts(Msg(w)) /\ Recording(work'[w]) => Recording(work[w]) \/ Recorded(Msg(w))'
    /\ work'[w].pc \in Ending => work[w].pc \in Ending \/ content[Msg(w)].kind # "assert"

\* The fields of a handler that goes on with r.
LEMMA WorkerSet ==
    ASSUME WorkersInv, NEW w \in Workers, NEW r, work' = [work EXCEPT ![w] = r]
    PROVE  work'[w] = r /\ \A v \in Workers : v # w => work'[v] = work[v]
  BY DEF WorkersInv, Working

LEMMA GotoFields ==
    ASSUME WorkersInv, NEW w \in Workers, NEW p, Goto(w, p)
    PROVE  /\ work'[w].pc = p /\ work'[w].msg = Msg(w) /\ work'[w].failed = work[w].failed
           /\ work'[w].reg = work[w].reg /\ work'[w].seen = work[w].seen
           /\ work'[w].facts = work[w].facts /\ work'[w].recovered = work[w].recovered
           /\ work'[w].fact = work[w].fact /\ work'[w].matched = work[w].matched
           /\ work'[w].plan = work[w].plan /\ work'[w].missing = work[w].missing
           /\ \A v \in Workers : v # w => work'[v] = work[v]
  <1> DEFINE r == [work[w] EXCEPT !.pc = p]
  <1>1. work' = [work EXCEPT ![w] = r]
    BY DEF Goto
  <1>2. work[w] \in Work
    BY DEF WorkersInv, Working
  <1>3. /\ r.pc = p /\ r.msg = Msg(w) /\ r.failed = work[w].failed
        /\ r.reg = work[w].reg /\ r.seen = work[w].seen
        /\ r.facts = work[w].facts /\ r.recovered = work[w].recovered /\ r.fact = work[w].fact
        /\ r.matched = work[w].matched /\ r.plan = work[w].plan /\ r.missing = work[w].missing
    BY <1>2 DEF Work, Msg
  <1> HIDE DEF r
  <1> QED
    BY <1>1, <1>3, WorkerSet

LEMMA RaiseFields ==
    ASSUME WorkersInv, NEW w \in Workers, Raise(w)
    PROVE  /\ work'[w].pc = IF IsTurn(w) /\ work[w].pc \in Ending THEN AfterEnd(w) ELSE "settle"
           /\ work'[w].failed /\ work'[w].msg = Msg(w)
           /\ work'[w].fact = work[w].fact /\ work'[w].seen = {}
           /\ \A v \in Workers : v # w => work'[v] = work[v]
  <1> DEFINE p == IF IsTurn(w) /\ work[w].pc \in Ending THEN AfterEnd(w) ELSE "settle"
             r == [work[w] EXCEPT !.failed = TRUE, !.seen = {}, !.pc = p]
  <1>1. work' = [work EXCEPT ![w] = r]
    BY DEF Raise, RaiseRecord
  <1>2. work[w] \in Work
    BY DEF WorkersInv, Working
  <1>3. r.pc = p /\ r.failed /\ r.msg = Msg(w) /\ r.fact = work[w].fact /\ r.seen = {}
    BY <1>2 DEF Work, Msg
  <1> HIDE DEF r
  <1> QED
    BY <1>1, <1>3, WorkerSet

\* A handler whose delivery failed is never acknowledged.
LEMMA RaiseCareful ==
    ASSUME WorkersInv, NEW w \in Workers, ~At(w, "idle"), Raise(w), content' = content,
           status' = status, applied' = applied, redactedEvents' = redactedEvents
    PROVE  Careful(w)
  <1>1. work'[w].pc # "ack" /\ work'[w].failed
    BY RaiseFields, AfterEndAsked
  <1>2. work'[w].pc \notin Ending
    BY RaiseFields, AfterEndAsked DEF Ending
  <1> QED
    BY <1>1, <1>2, RaiseFields DEF Careful, Recording

\* A handler that goes on to p in one step of its message, and may have been
\* recording before if it is after.
LEMMA GotoCareful ==
    ASSUME WorkersInv, NEW w \in Workers, content' = content, status' = status,
           applied' = applied, redactedEvents \subseteq redactedEvents', NEW p, Goto(w, p),
           Asserts(Msg(w)) /\ p \in PastRegister \cup {"ack"} /\ (p # "ack" => ~work[w].failed)
               => Recording(work[w]) \/ Recorded(Msg(w))',
           p \in Ending => work[w].pc \in Ending \/ content[Msg(w)].kind # "assert"
    PROVE  Careful(w)
  BY GotoFields DEF Careful, Recording

LEMMA StartCareful ==
    ASSUME WorkersInv, RecordedInv, NEW w \in Workers, Start(w)
    PROVE  Careful(w)
  <1> DEFINE p == IF IsTurn(w) THEN AfterDecision(w) ELSE AfterStatus(w)
  <1>1. /\ Goto(w, p) /\ ~At(w, "idle") /\ UNCHANGED ledgerVars
        /\ content' = content /\ status' = status /\ applied' = applied
        /\ redactedEvents' = redactedEvents
    BY DEF Start, localOnly, ledgerOnly, queueVars, At
  <1>2. Body(w).kind # "none" /\ Body(w) \in Content
    BY <1>1, Holding DEF Fits, Body, Msg
  <1>3. ASSUME Asserts(Msg(w)), p \in PastRegister \cup {"ack"}
        PROVE  Recorded(Msg(w))
    <2>1. CASE IsTurn(w)
      <3>1. Body(w).adds # NoFact /\ AfterEnd(w) = "read_fact"
        BY <2>1, <1>3 DEF AfterEnd, Asserts, Body
      <3>2. Msg(w) \in redactedEvents
        BY <2>1, <1>3, <3>1 DEF AfterDecision, PastRegister
      <3> QED
        BY <3>2 DEF Recorded
    <2>2. CASE ~IsTurn(w)
      <3>1. Msg(w) \in applied
        BY <2>2, <1>3, <1>2 DEF AfterStatus, PastRegister, Asserts, Body
      <3> QED
        BY <3>1, <1>3 DEF RecordedInv
    <2> QED
      BY <2>1, <2>2
  <1>4. Recorded(Msg(w)) => Recorded(Msg(w))'
    <2>1. work'[w].msg = Msg(w)
      BY <1>1, GotoFields
    <2> QED
      BY <1>1, <2>1 DEF Recorded, Msg, ledgerVars
  <1>5. p \in Ending => content[Msg(w)].kind # "assert"
    BY DEF AfterStatus, IsTurn, Body, Ending
  <1> HIDE DEF p
  <1> QED
    BY <1>1, <1>3, <1>4, <1>5, GotoCareful

\* Having ended a fact is no reason to acknowledge an assertion.
LEMMA AfterEndCareful ==
    ASSUME WorkersInv, RecordedInv, NEW w \in Workers, work[w].pc \in Ending, Asserts(Msg(w))
    PROVE  AfterEnd(w) \notin PastRegister \cup {"ack"}
  <1>1. work[w].plan \in {"register", "reactivate"} /\ content[Msg(w)].kind # "assert"
    BY EndHeld, Holding DEF Work, RecordedInv, At, Ending
  <1> QED
    BY <1>1 DEF Asserts, AfterEnd, IsTurn, Body, PastRegister

LEMMA EndStepsCareful ==
    ASSUME WorkersInv, RecordedInv, NEW w \in Workers, EndSteps(w)
    PROVE  Careful(w)
  <1>1. /\ ~At(w, "idle") /\ content' = content /\ status' = status /\ applied' = applied
        /\ redactedEvents' = redactedEvents /\ work[w].pc \in Ending
    BY DEF EndSteps, EndRegister, EndFind, EndArchive, EndKg, EndMark, localOnly, ledgerOnly,
           storeOnly, queueVars, At, Ending
  <1>2. work[w] \in Work
    BY <1>1, Holding
  <1>3. ASSUME NEW p \in {"end_kg", "end_mark", "reject", AfterEnd(w)}, Goto(w, p)
        PROVE  Careful(w)
    <2>1. ~(Asserts(Msg(w)) /\ p \in PastRegister \cup {"ack"})
      BY <1>1, AfterEndCareful DEF PastRegister
    <2> QED
      BY <1>1, <1>3, <2>1, GotoCareful
  <1>4. ASSUME NEW r, r.msg = Msg(w), r.pc \in {"end_find", "end_archive", "end_kg", AfterEnd(w)},
               work' = [work EXCEPT ![w] = r]
        PROVE  Careful(w)
    <2>1. ~(Asserts(Msg(w)) /\ Recording(r))
      BY <1>1, <1>4, AfterEndCareful DEF PastRegister, Recording
    <2> QED
      BY <1>1, <1>4, <2>1, WorkerSet DEF Careful
  <1>5. ASSUME Raise(w)
        PROVE  Careful(w)
    BY <1>1, <1>5, RaiseCareful
  <1>6. CASE EndRegister(w)
    <2> DEFINE res == RegisterInvalidationResult(EndId(w), EndFact(w))
               r == [work[w] EXCEPT !.pc = "end_find", !.fact = EndFact(w), !.matched = res.matched,
                                    !.reg = [NoReg EXCEPT !.activation = res.activation]]
    <2>1. Raise(w) \/ Goto(w, AfterEnd(w)) \/ work' = [work EXCEPT ![w] = r]
      BY <1>6 DEF EndRegister
    <2> HIDE DEF res
    <2>2. r.msg = Msg(w) /\ r.pc = "end_find"
      BY <1>2 DEF Work, Msg
    <2> HIDE DEF r
    <2> QED
      BY <2>1, <2>2, <1>3, <1>4, <1>5
  <1>7. CASE EndFind(w)
    <2>1. CASE Goto(w, "end_kg")
      BY <2>1, <1>3
    <2>2. ASSUME NEW d, work' = [work EXCEPT ![w] = [@ EXCEPT
                     !.pc = IF d \in archived THEN "end_kg" ELSE "end_archive", !.seen = {d}]]
          PROVE  Careful(w)
      <3> DEFINE p == IF d \in archived THEN "end_kg" ELSE "end_archive"
                 r == [work[w] EXCEPT !.pc = p, !.seen = {d}]
      <3>1. work' = [work EXCEPT ![w] = r] /\ p \in {"end_kg", "end_archive"}
        BY <2>2
      <3> HIDE DEF p
      <3>2. r.msg = Msg(w) /\ r.pc = p
        BY <1>2 DEF Work, Msg
      <3> HIDE DEF r
      <3> QED
        BY <3>1, <3>2, <1>4
    <2> QED
      BY <1>7, <2>1, <2>2 DEF EndFind
  <1>8. CASE EndArchive(w) \/ EndKg(w)
    BY <1>3, <1>5, <1>8 DEF EndArchive, EndKg, Reject
  <1>9. CASE EndMark(w)
    <2> DEFINE p == AfterEnd(w)
               r == [work[w] EXCEPT !.pc = p, !.fact = NoFact, !.matched = FALSE,
                                    !.seen = {}, !.reg = NoReg]
    <2>1. Raise(w) \/ work' = [work EXCEPT ![w] = r]
      BY <1>9 DEF EndMark
    <2>2. p = AfterEnd(w)
      OBVIOUS
    <2> HIDE DEF p
    <2>3. r.msg = Msg(w) /\ r.pc = p
      BY <1>2 DEF Work, Msg
    <2> HIDE DEF r
    <2> QED
      BY <2>1, <2>2, <2>3, <1>4, <1>5
  <1> QED
    BY <1>6, <1>7, <1>8, <1>9 DEF EndSteps

\* A registration leaves the evidence: its own row, or the one a replay finds.
LEMMA RegisterCareful ==
    ASSUME WorkersInv, NEW w \in Workers, RegisterFact(w) \/ ReactivateFact(w)
    PROVE  Careful(w)
  <1> DEFINE f == Body(w).adds
  <1>1. /\ work[w].pc \in AssertPcs /\ content' = content /\ status' = status
        /\ applied' = applied /\ redactedEvents' = redactedEvents /\ f = content[Msg(w)].adds
    BY DEF RegisterFact, ReactivateFact, ledgerOnly, queueVars, At, AssertPcs, Body
  <1>2. ~At(w, "idle") /\ f \in Facts /\ Msg(w) \in Intents /\ work[w] \in Work
    BY <1>1, Asserting
  <1>3. ASSUME Raise(w)
        PROVE  Careful(w)
    BY <1>1, <1>2, <1>3, RaiseCareful
  <1>4. ASSUME evidence'[Msg(w)] = f, NEW reg,
               work' = [work EXCEPT ![w] = [@ EXCEPT !.reg = reg, !.pc = AfterRegister(w, reg)]]
        PROVE  Careful(w)
    <2> DEFINE p == AfterRegister(w, reg)
               r == [work[w] EXCEPT !.reg = reg, !.pc = p]
    <2>1. work' = [work EXCEPT ![w] = r] /\ p \notin Ending
      BY <1>4, NextAssertPcs DEF AssertPcs, Ending
    <2> HIDE DEF p
    <2>2. r.msg = Msg(w) /\ r.pc = p
      BY <1>2 DEF Work, Msg
    <2> HIDE DEF r
    <2>3. work'[w] = r /\ \A v \in Workers : v # w => work'[v] = work[v]
      BY <2>1, WorkerSet
    <2>4. Recorded(Msg(w))'
      BY <1>1, <1>4, <2>2, <2>3 DEF Recorded, Msg
    <2> QED
      BY <1>1, <2>1, <2>2, <2>3, <2>4 DEF Careful
  <1>5. CASE RegisterFact(w)
    <2>1. CASE RegisterRaises(Msg(w), f)
      BY <1>3, <1>5, <2>1 DEF RegisterFact
    <2>2. CASE ~RegisterRaises(Msg(w), f)
      <3>1. /\ Register(Msg(w), f, Targets)
            /\ \E reg : work' = [work EXCEPT ![w] = [@ EXCEPT !.reg = reg, !.pc = AfterRegister(w, reg)]]
        BY <1>5, <2>2 DEF RegisterFact
      <3>2. evidence'[Msg(w)] = f
        BY <1>2, <3>1 DEF Register, WorkersInv, LedgerInv, LedgerTypeOK
      <3> QED
        BY <3>1, <3>2, <1>4
    <2> QED
      BY <2>1, <2>2
  <1>6. CASE ReactivateFact(w)
    <2>1. CASE RegisterReactivationRaises(Msg(w), f)
      BY <1>3, <1>6, <2>1 DEF ReactivateFact
    <2>2. CASE ~RegisterReactivationRaises(Msg(w), f)
      <3>1. /\ RegisterReactivation(Msg(w), f, Targets)
            /\ \E reg : work' = [work EXCEPT ![w] = [@ EXCEPT !.reg = reg, !.pc = AfterRegister(w, reg)]]
        BY <1>6, <2>2 DEF ReactivateFact
      <3>2. CASE reactivations[Msg(w)].state = "none"
        <4>1. evidence' = [evidence EXCEPT ![Msg(w)] = f]
          BY <3>1, <3>2 DEF RegisterReactivation
        <4>2. evidence'[Msg(w)] = f
          BY <1>2, <4>1 DEF WorkersInv, LedgerInv, LedgerTypeOK
        <4> QED
          BY <3>1, <4>2, <1>4
      <3>3. CASE reactivations[Msg(w)].state # "none"
        <4>1. evidence' = evidence /\ reactivations[Msg(w)].fact = f
          BY <3>1, <3>3, <2>2 DEF RegisterReactivation, RegisterReactivationRaises
        <4>2. evidence[Msg(w)] = f
          BY <1>2, <4>1, <3>3 DEF WorkersInv, LedgerInv, ReactivationRecorded
        <4> QED
          BY <3>1, <4>1, <4>2, <1>4
      <3> QED
        BY <3>2, <3>3
    <2> QED
      BY <2>1, <2>2
  <1> QED
    BY <1>5, <1>6

\* Choosing how to register is no reason to acknowledge an assertion.
LEMMA ChooseCareful ==
    ASSUME WorkersInv, NEW w \in Workers, ReadFact(w) \/ Supersede(w)
    PROVE  Careful(w)
  <1>1. /\ ~At(w, "idle") /\ content' = content /\ status' = status /\ applied' = applied
        /\ redactedEvents' = redactedEvents /\ work[w].pc \in AssertPcs
        /\ work[w].pc \in {"read_fact", "supersede"}
    BY DEF ReadFact, Supersede, localOnly, ledgerOnly, queueVars, At, AssertPcs
  <1>2. /\ work[w] \in Work /\ work[w].plan \in {"register", "reactivate"}
        /\ content[Msg(w)].kind # "assert"
    BY <1>1, Holding DEF Work, Asks, Body
  <1>3. ASSUME NEW r, r.msg = Msg(w), work' = [work EXCEPT ![w] = r],
               r.pc \in {"register", "reactivate", "supersede", "reject", "end_register"}
        PROVE  Careful(w)
    <2>1. ~Recording(r)
      BY <1>3 DEF Recording, PastRegister
    <2> QED
      BY <1>1, <1>2, <1>3, <2>1, WorkerSet DEF Careful
  <1>4. ASSUME NEW p \in {"register", "reactivate"},
               NEW n \in {"register", "reactivate", "supersede", "reject"},
               work' = [work EXCEPT ![w] = [@ EXCEPT !.plan = p, !.pc = n]]
        PROVE  Careful(w)
    <2> DEFINE r == [work[w] EXCEPT !.plan = p, !.pc = n]
    <2>1. r.msg = Msg(w) /\ r.pc = n /\ work' = [work EXCEPT ![w] = r]
      BY <1>2, <1>4 DEF Work, Msg
    <2> HIDE DEF r
    <2> QED
      BY <2>1, <1>3
  <1>5. ASSUME NEW p \in {"register", "reactivate", "reject"}, Goto(w, p)
        PROVE  Careful(w)
    <2>1. p \notin PastRegister \cup {"ack"} /\ p \notin Ending
      BY DEF PastRegister, Ending
    <2> QED
      BY <1>1, <1>5, <2>1, GotoCareful
  <1>6. ASSUME NEW old, work' = [work EXCEPT ![w] = [@ EXCEPT !.fact = old, !.pc = "end_register"]]
        PROVE  Careful(w)
    <2> DEFINE r == [work[w] EXCEPT !.fact = old, !.pc = "end_register"]
    <2>1. r.msg = Msg(w) /\ r.pc = "end_register" /\ work' = [work EXCEPT ![w] = r]
      BY <1>2, <1>6 DEF Work, Msg
    <2> HIDE DEF r
    <2> QED
      BY <2>1, <1>3
  <1>7. CASE ReadFact(w)
    <2>1. \E p \in {"register", "reactivate"}, n \in {"register", "reactivate", "supersede", "reject"} :
              work' = [work EXCEPT ![w] = [@ EXCEPT !.plan = p, !.pc = n]]
      BY <1>7 DEF ReadFact
    <2> QED
      BY <2>1, <1>4
  <1>8. CASE Supersede(w)
    BY <1>2, <1>5, <1>6, <1>8 DEF Supersede, Reject
  <1> QED
    BY <1>7, <1>8

\* Past the registration, only a delivery that did not fail settles well.
LEMMA ProjectCareful ==
    ASSUME WorkersInv, NEW w \in Workers,
           \/ CheckDrawer(w) \/ ReopenDrawer(w) \/ Look(w) \/ Relook(w) \/ PutDrawer(w)
           \/ MarkDrawer(w) \/ CheckKg(w) \/ ReopenKg(w) \/ PutKg(w) \/ MarkKg(w)
           \/ FinishReactivation(w)
    PROVE  Careful(w)
  <1>1. /\ content' = content /\ status' = status /\ applied' = applied
        /\ redactedEvents' = redactedEvents /\ work[w].pc \in PastRegister
        /\ work[w].pc \in AssertPcs
    BY DEF CheckDrawer, ReopenDrawer, Look, Relook, PutDrawer, MarkDrawer, CheckKg, ReopenKg,
           PutKg, MarkKg, FinishReactivation, At, PastRegister, AssertPcs, localOnly, ledgerOnly,
           storeOnly, queueVars
  <1>2. work[w] \in Work /\ ~At(w, "idle")
    BY <1>1, Asserting
  <1>3. ASSUME NEW p \in (AssertPcs \ {"read_fact", "supersede"}) \cup {"settle"}, Goto(w, p)
        PROVE  Careful(w)
    <2>1. p # "ack" /\ p \notin Ending
      BY DEF AssertPcs, Ending
    <2> QED
      BY <1>1, <1>3, <2>1, GotoCareful DEF Recording
  <1>4. ASSUME NEW r, r.msg = Msg(w), r.failed = work[w].failed,
               r.pc \in (AssertPcs \ {"read_fact", "supersede"}) \cup {"settle"},
               work' = [work EXCEPT ![w] = r]
        PROVE  Careful(w)
    <2>1. r.pc # "ack" /\ r.pc \notin Ending
      BY <1>4 DEF AssertPcs, Ending
    <2> QED
      BY <1>1, <1>4, <2>1, WorkerSet DEF Careful, Recording
  <1>5. CASE CheckDrawer(w) \/ ReopenDrawer(w) \/ PutDrawer(w) \/ MarkDrawer(w)
             \/ CheckKg(w) \/ ReopenKg(w) \/ PutKg(w) \/ MarkKg(w)
    <2>1. \E p \in {"mark_drawer", ToKg(w, work[w].reg), "reopen_drawer", "put_drawer", "mark_kg",
                    AfterKg(w), "reopen_kg", "put_kg"} : Goto(w, p)
      BY <1>5
         DEF CheckDrawer, ReopenDrawer, PutDrawer, MarkDrawer, CheckKg, ReopenKg, PutKg, MarkKg
    <2> QED
      BY <2>1, <1>3, NextAssertPcs DEF AssertPcs
  <1>6. CASE Look(w)
    <2>1. \E reg, missing, recovered :
              work' = [work EXCEPT ![w] = [@ EXCEPT !.reg = reg, !.missing = missing,
                                                    !.recovered = recovered, !.pc = "relook"]]
      BY <1>6, Zenon DEF Look
    <2>2. ASSUME NEW reg, NEW missing, NEW recovered,
                 work' = [work EXCEPT ![w] = [@ EXCEPT !.reg = reg, !.missing = missing,
                                                       !.recovered = recovered, !.pc = "relook"]]
          PROVE  Careful(w)
      <3> DEFINE r == [work[w] EXCEPT !.reg = reg, !.missing = missing, !.recovered = recovered,
                                      !.pc = "relook"]
      <3>1. /\ r.msg = Msg(w) /\ r.failed = work[w].failed /\ r.pc = "relook"
            /\ work' = [work EXCEPT ![w] = r]
        BY <1>2, <2>2 DEF Work, Msg
      <3> HIDE DEF r
      <3> QED
        BY <3>1, <1>4 DEF AssertPcs
    <2> QED
      BY <2>1, <2>2
  <1>7. CASE Relook(w)
    <2> DEFINE p == IF "drawer" \in work[w].reg.pending THEN "put_drawer" ELSE ToKg(w, work[w].reg)
               r == [work[w] EXCEPT !.missing = {}]
               q == [work[w] EXCEPT !.recovered = {}, !.pc = p]
    <2>1. work' = [work EXCEPT ![w] = r] \/ work' = [work EXCEPT ![w] = q]
      BY <1>7 DEF Relook
    <2>2. work[w].pc = "relook" /\ p \in (AssertPcs \ {"read_fact", "supersede"}) \cup {"settle"}
      BY <1>7, NextAssertPcs DEF Relook, At, AssertPcs
    <2> HIDE DEF p
    <2>3. /\ r.msg = Msg(w) /\ r.failed = work[w].failed /\ r.pc = "relook"
          /\ q.msg = Msg(w) /\ q.failed = work[w].failed /\ q.pc = p
      BY <1>2, <2>2 DEF Work, Msg
    <2> HIDE DEF r, q
    <2> QED
      BY <2>1, <2>2, <2>3, <1>4 DEF AssertPcs
  <1>8. CASE FinishReactivation(w)
    <2>1. Raise(w) \/ Goto(w, "settle")
      BY <1>8 DEF FinishReactivation
    <2> QED
      BY <2>1, <1>1, <1>2, <1>3, RaiseCareful
  <1> QED
    BY <1>5, <1>6, <1>7, <1>8

LEMMA AssertStepsCareful ==
    ASSUME WorkersInv, NEW w \in Workers, AssertSteps(w)
    PROVE  Careful(w)
  BY RegisterCareful, ChooseCareful, ProjectCareful DEF AssertSteps

\* A forget asserts nothing.
LEMMA ForgetStepsCareful ==
    ASSUME WorkersInv, NEW w \in Workers, ForgetSteps(w)
    PROVE  Careful(w)
  <1>1. /\ ~At(w, "idle") /\ content' = content /\ status' = status /\ applied' = applied
        /\ redactedEvents \subseteq redactedEvents' /\ work[w].pc \in ForgetPcs
    BY DEF ForgetSteps, ForgetResolve, ForgetScan, ForgetBegin, ForgetRedact, ForgetScrub,
           ForgetKg, ForgetKgMark, ForgetDrawers, ForgetDrawerMark, ForgetSource, localOnly,
           ledgerOnly, storeOnly, queueVars, At, ForgetPcs, FactsPcs
  <1>2. /\ work[w] \in Work /\ ~Asserts(Msg(w)) /\ content[Msg(w)].kind # "assert"
    BY <1>1, Holding DEF Asks, Asserts, Body
  <1>3. ASSUME NEW r, r.msg = Msg(w), work' = [work EXCEPT ![w] = r]
        PROVE  Careful(w)
    BY <1>1, <1>2, <1>3, WorkerSet DEF Careful
  <1>4. ASSUME NEW p, Goto(w, p)
        PROVE  Careful(w)
    BY <1>1, <1>2, <1>4, GotoFields DEF Careful
  <1>5. CASE ForgetResolve(w)
    <2>1. ASSUME Raise(w)
          PROVE  Careful(w)
      BY <1>1, <1>2, <2>1, RaiseFields DEF Careful
    <2>2. ASSUME work' = [work EXCEPT ![w] = [@ EXCEPT !.facts = Resolved(w), !.pc = "forget_scan"]]
          PROVE  Careful(w)
      <3> DEFINE r == [work[w] EXCEPT !.facts = Resolved(w), !.pc = "forget_scan"]
      <3>1. r.msg = Msg(w) /\ work' = [work EXCEPT ![w] = r]
        BY <1>2, <2>2 DEF Work, Msg
      <3> HIDE DEF r
      <3> QED
        BY <3>1, <1>3
    <2> QED
      BY <1>5, <2>1, <2>2, <1>4 DEF ForgetResolve
  <1>6. CASE ForgetScan(w)
    <2> DEFINE D == DrawersOf(work[w].facts) \cup previewed[Msg(w)]
               r == [work[w] EXCEPT !.seen = D, !.pc = "forget_begin"]
    <2>1. work' = [work EXCEPT ![w] = r]
      BY <1>6 DEF ForgetScan
    <2> HIDE DEF D
    <2>2. r.msg = Msg(w)
      BY <1>2 DEF Work, Msg
    <2> HIDE DEF r
    <2> QED
      BY <2>1, <2>2, <1>3
  <1>7. CASE ForgetBegin(w)
    <2> DEFINE E == IF Body(w).hard THEN {EventOf(i) : i \in SourceIntents(work[w].facts)} ELSE {}
               p == IF Body(w).hard THEN "forget_redact" ELSE "forget_kg"
               r == [work[w] EXCEPT !.events = E, !.pc = p]
    <2>1. work' = [work EXCEPT ![w] = r]
      BY <1>7 DEF ForgetBegin
    <2> HIDE DEF E, p
    <2>2. r.msg = Msg(w)
      BY <1>2 DEF Work, Msg
    <2> HIDE DEF r
    <2> QED
      BY <2>1, <2>2, <1>3
  <1>8. CASE ForgetRedact(w)
    <2> DEFINE r == [work[w] EXCEPT !.events = {}, !.pc = "forget_scrub"]
    <2>1. work' = [work EXCEPT ![w] = r]
      BY <1>8 DEF ForgetRedact
    <2>2. r.msg = Msg(w)
      BY <1>2 DEF Work, Msg
    <2> HIDE DEF r
    <2> QED
      BY <2>1, <2>2, <1>3
  <1>9. CASE ForgetScrub(w) \/ ForgetKg(w) \/ ForgetKgMark(w) \/ ForgetDrawers(w)
             \/ ForgetDrawerMark(w) \/ ForgetSource(w)
    <2>1. \E p : Goto(w, p)
      BY <1>9
         DEF ForgetScrub, ForgetKg, ForgetKgMark, ForgetDrawers, ForgetDrawerMark, ForgetSource
    <2> QED
      BY <2>1, <1>4
  <1> QED
    BY <1>5, <1>6, <1>7, <1>8, <1>9 DEF ForgetSteps

\* What a careful step leaves behind.
LEMMA CarefulRecorded ==
    ASSUME WorkersInv, WorkersInv', RecordedInv, [LedgerNext]_ledgerVars, NEW w \in Workers,
           Msg(w) # NoMsg, Careful(w)
    PROVE  RecordedInv'
  <1>1. \A m \in Msgs : Asserts(m) /\ Recorded(m) => Recorded(m)'
    BY RecordedStays DEF Careful
  <1>2. /\ \A m \in Msgs : Asserts(m)' <=> Asserts(m)
        /\ \A v \in Workers : work[v].msg \in Msgs \cup {NoMsg}
        /\ applied \subseteq Msgs
    BY DEF Careful, Asserts, WorkersInv, Working, Work, QueuesOK
  <1>3. ASSUME NEW v \in Workers, Msg(v)' # NoMsg, Asserts(Msg(v))', Recording(work[v])'
        PROVE  Recorded(Msg(v))'
    <2>1. /\ Msg(v)' = Msg(v) /\ Msg(v) \in Msgs
          /\ Asserts(Msg(v)) /\ Recording(work'[v])
      BY <1>2, <1>3 DEF Careful, Msg, Asserts, Recording
    <2>2. Recording(work[v]) \/ (v = w /\ Recorded(Msg(v))')
      BY <2>1 DEF Careful
    <2>3. Recording(work[v]) => Recorded(Msg(v))
      BY <1>3, <2>1 DEF RecordedInv
    <2>4. Recorded(Msg(v)) => Recorded(Msg(v))'
      BY <1>1, <2>1 DEF Recorded
    <2> QED
      BY <2>2, <2>3, <2>4
  <1>4. ASSUME NEW v \in Workers, work'[v].pc \in Ending
        PROVE  content'[work'[v].msg].kind # "assert"
    BY <1>4 DEF Careful, RecordedInv, Msg
  <1>5. \A m \in applied' : Asserts(m)' => Recorded(m)'
    BY <1>1, <1>2 DEF Careful, RecordedInv
  <1>6. AckedRecorded'
    <2>1. \A m \in Msgs : status[m] = "acked" /\ Asserts(m) => Recorded(m)
      BY DEF RecordedInv, AckedRecorded, Asserts, Recorded
    <2>2. \A m \in Msgs : status'[m] = "acked" /\ Asserts(m)' => Recorded(m)'
      BY <1>1, <1>2, <2>1 DEF Careful
    <2> QED
      BY <2>2 DEF AckedRecorded, Asserts, Recorded
  <1> QED
    BY <1>3, <1>4, <1>5, <1>6 DEF RecordedInv, Msg

\* Steps that only move a message, and what they may acknowledge.
LEMMA QueueRecorded ==
    ASSUME WorkersInv, RecordedInv, UNCHANGED <<ledgerVars, content, redactedEvents>>,
           \A v \in Workers : work'[v].msg # NoMsg /\ Asserts(work'[v].msg) /\ Recording(work'[v])
                                  => Recorded(work'[v].msg),
           \A v \in Workers : work'[v].pc \in Ending => content[work'[v].msg].kind # "assert",
           \A m \in applied' : Asserts(m) => Recorded(m),
           \A m \in Msgs : status'[m] = "acked" /\ Asserts(m) => Recorded(m)
    PROVE  RecordedInv'
  BY DEF RecordedInv, AckedRecorded, Asserts, Recorded, Recording, Msg, ledgerVars

LEMMA QueueStepsRecorded ==
    ASSUME WorkersInv, RecordedInv,
           \/ \E w \in Workers, m \in Msgs : Take(w, m)
           \/ \E w \in Workers : Settle(w) \/ Ack(w) \/ RejectAck(w)
           \/ \E m \in Msgs : Publish(m)
           \/ Crash \/ UNCHANGED vars
    PROVE  RecordedInv'
  <1>1. ~Recording(Idle) /\ Idle.pc \notin Ending
    BY DEF Idle, Recording, PastRegister, Ending
  <1>2. \A m \in Msgs : status[m] = "acked" /\ Asserts(m) => Recorded(m)
    BY DEF RecordedInv, AckedRecorded, Asserts, Recorded
  <1>3. status \in [Msgs -> Status] /\ work \in [Workers -> Work]
    BY DEF WorkersInv, QueuesOK, Working
  <1>4. ASSUME NEW w \in Workers, NEW m \in Msgs, Take(w, m)
        PROVE  RecordedInv'
    <2> DEFINE r == [Idle EXCEPT !.pc = "start", !.msg = m]
    <2>1. /\ work' = [work EXCEPT ![w] = r] /\ status' = [status EXCEPT ![m] = "held"]
          /\ UNCHANGED <<ledgerVars, content, redactedEvents, applied>>
      BY <1>4 DEF Take
    <2>2. ~Recording(r) /\ r.pc \notin Ending
      BY DEF Idle, Recording, PastRegister, Ending
    <2> HIDE DEF r
    <2>3. \A v \in Workers : work'[v] = IF v = w THEN r ELSE work[v]
      BY <2>1, <1>3
    <2>4. \A n \in Msgs : status'[n] = "acked" => status[n] = "acked"
      BY <2>1, <1>3
    <2> QED
      BY <2>1, <2>2, <2>3, <2>4, <1>2, QueueRecorded DEF RecordedInv, Msg
  <1>5. ASSUME NEW w \in Workers, ~At(w, "idle"), NEW s, work' = [work EXCEPT ![w] = Idle],
               status' = [status EXCEPT ![Msg(w)] = s],
               s = "acked" => work[w].pc = "ack", applied' = applied,
               UNCHANGED <<ledgerVars, content, redactedEvents>>
        PROVE  RecordedInv'
    <2>1. \A v \in Workers : work'[v] = IF v = w THEN Idle ELSE work[v]
      BY <1>3, <1>5
    <2>2. \A n \in Msgs : status'[n] = IF n = Msg(w) THEN s ELSE status[n]
      BY <1>3, <1>5
    <2>3. s = "acked" /\ Asserts(Msg(w)) => Recorded(Msg(w))
      BY <1>5, Holding DEF RecordedInv, Recording
    <2> QED
      BY <1>1, <1>2, <1>5, <2>1, <2>2, <2>3, QueueRecorded DEF RecordedInv, Msg
  <1>6. ASSUME NEW w \in Workers, Ack(w) \/ RejectAck(w)
        PROVE  RecordedInv'
    <2>1. /\ ~At(w, "idle") /\ work' = [work EXCEPT ![w] = Idle] /\ applied' = applied
          /\ UNCHANGED <<ledgerVars, content, redactedEvents>>
          /\ \E s : /\ status' = [status EXCEPT ![Msg(w)] = s]
                    /\ s = "acked" => work[w].pc = "ack"
      BY <1>6 DEF Ack, RejectAck, Finish, At
    <2> QED
      BY <2>1, <1>5
  <1>7. ASSUME NEW w \in Workers, Settle(w)
        PROVE  RecordedInv'
    <2>1. CASE work[w].failed
      <3>1. /\ ~At(w, "idle") /\ work' = [work EXCEPT ![w] = Idle] /\ applied' = applied
            /\ UNCHANGED <<ledgerVars, content, redactedEvents>>
            /\ \E s : status' = [status EXCEPT ![Msg(w)] = s] /\ s # "acked"
        BY <1>7, <2>1 DEF Settle, At
      <3> QED
        BY <3>1, <1>5
    <2>2. CASE ~work[w].failed
      <3>1. /\ Goto(w, "ack") /\ status' = status /\ work[w].pc = "settle"
            /\ applied' \subseteq applied \cup {Msg(w)}
            /\ UNCHANGED <<ledgerVars, content, redactedEvents>>
        BY <1>7, <2>2 DEF Settle, At
      <3>2. Asserts(Msg(w)) => Recorded(Msg(w))
        BY <2>2, <3>1, Holding DEF RecordedInv, Recording, PastRegister, At
      <3>3. /\ work'[w].msg = Msg(w) /\ work'[w].pc = "ack"
            /\ \A v \in Workers : v # w => work'[v] = work[v]
        BY <3>1, GotoFields
      <3>4. "ack" \notin Ending
        BY DEF Ending
      <3> QED
        BY <1>2, <3>1, <3>2, <3>3, <3>4, QueueRecorded DEF RecordedInv, Msg
    <2> QED
      BY <2>1, <2>2
  <1>8. ASSUME NEW m \in Msgs, Publish(m)
        PROVE  RecordedInv'
    <2>1. /\ UNCHANGED <<ledgerVars, content, redactedEvents, applied, work>>
          /\ status' = [status EXCEPT ![m] = "queued"]
      BY <1>8 DEF Publish
    <2>2. \A n \in Msgs : status'[n] = "acked" => status[n] = "acked"
      BY <2>1, <1>3
    <2> QED
      BY <2>1, <2>2, <1>2, QueueRecorded DEF RecordedInv, Msg
  <1>9. CASE Crash
    <2>1. /\ UNCHANGED <<ledgerVars, content, redactedEvents, applied>>
          /\ work' = [v \in Workers |-> Idle]
          /\ status' = [m \in Msgs |-> IF status[m] = "held" THEN "queued" ELSE status[m]]
      BY <1>9 DEF Crash
    <2> QED
      BY <2>1, <1>1, <1>2, QueueRecorded DEF RecordedInv
  <1>10. CASE UNCHANGED vars
    BY <1>10, <1>2, QueueRecorded DEF RecordedInv, vars, Msg, queueVars
  <1> QED
    BY <1>4, <1>6, <1>7, <1>8, <1>9, <1>10

LEMMA RecordedNext == WorkersInv /\ RecordedInv /\ [Next]_vars => RecordedInv'
  <1> SUFFICES ASSUME WorkersInv, RecordedInv, [Next]_vars
               PROVE  RecordedInv'
    OBVIOUS
  <1>1. WorkersInv' /\ [LedgerNext]_ledgerVars
    BY WorkersNext
  <1>2. ASSUME NEW w \in Workers, Start(w) \/ EndSteps(w) \/ AssertSteps(w) \/ ForgetSteps(w)
        PROVE  RecordedInv'
    <2>1. Careful(w)
      BY <1>2, StartCareful, EndStepsCareful, AssertStepsCareful, ForgetStepsCareful
    <2>2. ~At(w, "idle")
      BY <1>2 DEF Start, EndSteps, EndRegister, EndFind, EndArchive, EndKg, EndMark, AssertSteps,
             ReadFact, Supersede, RegisterFact, ReactivateFact, CheckDrawer, ReopenDrawer, Look,
             Relook, PutDrawer, MarkDrawer, CheckKg, ReopenKg, PutKg, MarkKg, FinishReactivation,
             ForgetSteps, ForgetResolve, ForgetScan, ForgetBegin, ForgetRedact, ForgetScrub,
             ForgetKg, ForgetKgMark, ForgetDrawers, ForgetDrawerMark, ForgetSource, At
    <2> QED
      BY <1>1, <2>1, <2>2, Holding, CarefulRecorded
  <1>3. ASSUME NEW w \in Workers, Fail(w)
        PROVE  RecordedInv'
    <2>1. /\ ~At(w, "idle") /\ Raise(w) /\ content' = content /\ status' = status
          /\ applied' = applied /\ redactedEvents' = redactedEvents
      BY <1>3 DEF Fail, At, queueVars
    <2> QED
      BY <1>1, <2>1, Holding, RaiseCareful, CarefulRecorded
  <1> QED
    BY <1>2, <1>3, QueueStepsRecorded DEF Next, Step, IdlePoll

\* Whatever crashes, raises and is redelivered, a turn or command that was
\* acknowledged has left its evidence, unless it was erased by a hard forget.
THEOREM FactWorkersAckedRecorded == Spec => []AckedRecorded
  <1>1. Init => RecordedInv
    <2> SUFFICES ASSUME Init
                 PROVE  RecordedInv
      OBVIOUS
    <2>1. /\ work = [w \in Workers |-> Idle] /\ applied = {}
          /\ status = [m \in Msgs |->
                 IF content[m].kind \in {"forget_drawers", "none"} THEN "unsent" ELSE "queued"]
      BY DEF Init
    <2>2. \A w \in Workers : Msg(w) = NoMsg /\ work[w].pc \notin Ending
      BY <2>1, IdleFits DEF Msg, Idle, Ending
    <2>3. AckedRecorded
      BY <2>1 DEF AckedRecorded
    <2> QED
      BY <2>1, <2>2, <2>3 DEF RecordedInv
  <1>2. RecordedInv => AckedRecorded
    BY DEF RecordedInv
  <1> QED
    BY <1>1, <1>2, FactWorkersInvariant, RecordedNext, PTL DEF Spec

----------------------------------------------------------------------------
(* Projected marks are backed: what the ledger keeps of a fact.             *)

\* No privacy request has touched f; f was asked to be brought back; the
\* graph has a statement of f.
Untouched(f) == ~forgets[f].present
Later(f) == \E i \in Intents : reactivations[i].state # "none" /\ reactivations[i].fact = f
HasRow(f) == \E r \in kgrows : r.fact = f

\* Every row of the ledger is about an assertion it has, and a fact that is
\* being brought back for the first time has not become current meanwhile.
Known ==
    /\ \A f \in Facts : forgets[f].hard => forgets[f].present
    /\ \A i \in Intents : evidence[i] # NoFact => Exists(evidence[i])
    /\ \A i \in Intents : reactivations[i].fact # NoFact => Exists(reactivations[i].fact)
    /\ \A i \in Corrections : invalidations[i].fact # NoFact => Exists(invalidations[i].fact)
    /\ \A f \in Facts :
           Untouched(f) /\ Later(f) /\ asrt[f].activation_count = 1 => asrt[f].state \in EndedState

\* What no ledger call takes back.
Grows ==
    /\ \A f \in Facts : Exists(f) => Exists(f)'
    /\ \A f \in Facts : forgets[f].present => forgets'[f].present
    /\ \A i \in Intents :
           reactivations[i].state # "none" /\ ~forgets'[reactivations[i].fact].present =>
               /\ reactivations'[i].state # "none"
               /\ reactivations'[i].fact = reactivations[i].fact
               /\ reactivations'[i].activation_number = reactivations[i].activation_number

\* A call that starts no new life of f and marks nothing of it as written.
Steady(f) ==
    /\ asrt'[f].activation_count = asrt[f].activation_count
    /\ \A t \in Targets : asrt'[f].proj[t] = "projected" => asrt[f].proj[t] = "projected"

\* The same, but for the facts a privacy request has touched.
Quiescent == \A f \in Facts : ~forgets'[f].present => Steady(f)

\* Rows about the same facts, of assertions that are still there.
LEMMA KnownRows ==
    ASSUME Known, \A f \in Facts : Exists(f) => Exists(f)', LedgerTypeOK, LedgerTypeOK',
           \A i \in Intents : evidence'[i] \in {evidence[i], NoFact}
                              \/ (evidence[i] # NoFact => Exists(evidence[i]))',
           \A i \in Intents : reactivations'[i].fact \in {reactivations[i].fact, NoFact}
                              \/ (reactivations[i].fact # NoFact => Exists(reactivations[i].fact))',
           \A i \in Corrections : invalidations'[i].fact \in {invalidations[i].fact, NoFact}
                              \/ (invalidations[i].fact # NoFact => Exists(invalidations[i].fact))',
           \A f \in Facts : forgets'[f].hard => forgets'[f].present,
           \A f \in Facts :
               /\ ~forgets'[f].present /\ Later(f)' /\ asrt'[f].activation_count = 1
               => asrt'[f].state \in EndedState
    PROVE  Known'
  <1>1. /\ \A i \in Intents : evidence[i] \in Facts \cup {NoFact}
        /\ \A i \in Intents : reactivations[i].fact \in Facts \cup {NoFact}
        /\ \A i \in Corrections : invalidations[i].fact \in Facts \cup {NoFact}
    BY DEF LedgerTypeOK, ReactivationRow, InvalidationRow
  <1> QED
    BY <1>1 DEF Known, Untouched, Exists

\* Later is about the reactivation rows alone.
LEMMA LaterSame ==
    ASSUME NEW f, reactivations' = reactivations
    PROVE  Later(f)' <=> Later(f)
  BY DEF Later

LEMMA RegisterKnown ==
    ASSUME LedgerInv, LedgerInv', Known, NEW i \in Intents, NEW f \in Facts, NEW T, Register(i, f, T)
    PROVE  Known' /\ Grows /\ Quiescent /\ Exists(f)' /\ evidence'[i] = f
  <1>1. LedgerTypeOK /\ LedgerTypeOK' /\ asrt[f] \in AssertionRow
    BY DEF LedgerInv, LedgerTypeOK
  <1>2. /\ \A g \in Facts : g # f => asrt'[g] = asrt[g]
        /\ asrt'[f].state = IF Exists(f) THEN asrt[f].state ELSE "active"
        /\ asrt'[f].activation_count = asrt[f].activation_count
    BY <1>1, RegisterEffect
  <1>3. /\ forgets' = forgets /\ reactivations' = reactivations /\ invalidations' = invalidations
        /\ evidence' = [evidence EXCEPT ![i] = f]
        /\ asrt' = [asrt EXCEPT ![f] = RegisteredRow(i, f, T)]
    BY DEF Register
  <1>4. \A j \in Intents : evidence'[j] = IF j = i THEN f ELSE evidence[j]
    BY <1>1, <1>3 DEF LedgerTypeOK
  <1>5. Exists(f)' /\ \A g \in Facts : Exists(g) => Exists(g)'
    BY <1>2 DEF Exists
  <1>6. \A t \in Targets : asrt'[f].proj[t] = "projected" => asrt[f].proj[t] = "projected"
    <2> DEFINE s == IF Exists(f) THEN asrt[f].state ELSE "active"
               n == asrt[f].evidence_count + (IF evidence[i] = NoFact THEN 1 ELSE 0)
               p == Require(asrt[f].proj, T)
               q == [asrt[f] EXCEPT !.state = s, !.proj = p, !.evidence_count = n]
    <2>1. asrt' = [asrt EXCEPT ![f] = q]
      BY <1>3 DEF RegisteredRow
    <2> HIDE DEF s, n, p
    <2>2. q.proj = p
      BY <1>1 DEF AssertionRow
    <2> HIDE DEF q
    <2>3. asrt'[f].proj = p
      BY <1>1, <2>1, <2>2 DEF LedgerTypeOK
    <2> QED
      BY <2>3 DEF Require, p
  <1>7. ASSUME NEW g \in Facts, ~forgets'[g].present, Later(g)', asrt'[g].activation_count = 1
        PROVE  asrt'[g].state \in EndedState
    <2>1. asrt[g].state \in EndedState
      BY <1>2, <1>3, <1>7, LaterSame DEF Known, Untouched
    <2> QED
      BY <1>2, <2>1 DEF Exists, EndedState
  <1>8. /\ \A j \in Intents : evidence'[j] \in {evidence[j], NoFact}
                              \/ (evidence[j] # NoFact => Exists(evidence[j]))'
        /\ \A g \in Facts : forgets'[g].hard => forgets'[g].present
    BY <1>3, <1>4, <1>5 DEF Known
  <1>9. Known'
    BY <1>1, <1>3, <1>5, <1>7, <1>8, KnownRows
  <1>10. Grows
    BY <1>3, <1>5 DEF Grows
  <1>11. Quiescent
    BY <1>2, <1>6 DEF Quiescent, Steady
  <1> QED
    BY <1>4, <1>5, <1>9, <1>10, <1>11

\* Calls that change what the ledger knows about endings.
LEMMA RegisterInvalidationKnown ==
    ASSUME LedgerInv, LedgerInv', Known, NEW i \in Corrections, NEW f \in Facts,
           NEW r \in EndedState, RegisterInvalidation(i, f, r)
    PROVE  Known' /\ Grows /\ Quiescent
  <1>1. LedgerTypeOK /\ LedgerTypeOK'
    BY DEF LedgerInv
  <1>2. UNCHANGED <<asrt, evidence, reactivations, forgets>>
    BY DEF RegisterInvalidation
  <1>3. \A j \in Corrections : invalidations'[j].fact = invalidations[j].fact
                               \/ (invalidations'[j].fact = f /\ Exists(f))
    BY <1>1 DEF RegisterInvalidation, LedgerTypeOK
  <1>4. \A g \in Facts : Exists(g) => Exists(g)'
    BY <1>2 DEF Exists
  <1>5. \A j \in Corrections : invalidations'[j].fact \in {invalidations[j].fact, NoFact}
                               \/ (invalidations[j].fact # NoFact => Exists(invalidations[j].fact))'
    BY <1>2, <1>3 DEF Exists
  <1>6. Known'
    <2>1. \A g \in Facts : /\ ~forgets'[g].present /\ Later(g)' /\ asrt'[g].activation_count = 1
                           => asrt'[g].state \in EndedState
      BY <1>2, LaterSame DEF Known, Untouched
    <2> QED
      BY <1>1, <1>2, <1>4, <1>5, <2>1, KnownRows DEF Known
  <1> QED
    BY <1>2, <1>4, <1>6 DEF Grows, Quiescent, Steady

LEMMA MarkInvalidatedKnown ==
    ASSUME LedgerInv, LedgerInv', Known, NEW i \in Corrections, MarkInvalidated(i)
    PROVE  Known' /\ Grows /\ Quiescent
  <1>1. LedgerTypeOK /\ LedgerTypeOK'
    BY DEF LedgerInv
  <1>2. UNCHANGED <<evidence, reactivations, forgets>>
    BY DEF MarkInvalidated
  <1>3. \A g \in Facts :
            \/ asrt'[g] = asrt[g]
            \/ /\ asrt'[g].state \in EndedState
               /\ asrt'[g].activation_count = asrt[g].activation_count
    BY <1>1, MarkInvalidatedEffect
  <1> DEFINE row == invalidations[i]
             q == [asrt[row.fact] EXCEPT !.state = row.result_state]
  <1>4. CASE row.state = "applied"
    BY <1>1, <1>2, <1>4, LaterSame, KnownRows
       DEF MarkInvalidated, Known, Grows, Quiescent, Steady, Untouched, Exists
  <1>5. CASE row.state # "applied"
    <2>1. /\ asrt' = [asrt EXCEPT ![row.fact] = q]
          /\ invalidations' = [invalidations EXCEPT ![i] = [row EXCEPT !.state = "applied"]]
      BY <1>5 DEF MarkInvalidated
    <2>2. row \in InvalidationRow /\ [row EXCEPT !.state = "applied"].fact = row.fact
      BY <1>1 DEF LedgerTypeOK, InvalidationRow
    <2> DEFINE done == [row EXCEPT !.state = "applied"]
    <2>3. \A j \in Corrections : invalidations'[j].fact = invalidations[j].fact
      <3>1. invalidations' = [invalidations EXCEPT ![i] = done] /\ done.fact = row.fact
        BY <2>1, <2>2
      <3> HIDE DEF done
      <3> QED
        BY <1>1, <3>1 DEF LedgerTypeOK
    <2>4. \A g \in Facts : asrt'[g].proj = asrt[g].proj
      <3>1. row.fact \in Facts => q.proj = asrt[row.fact].proj
        BY <1>1 DEF LedgerTypeOK, AssertionRow
      <3> HIDE DEF q, row
      <3> QED
        BY <1>1, <2>1, <3>1 DEF LedgerTypeOK
    <2>5. \A g \in Facts : Exists(g) => Exists(g)'
      BY <1>3 DEF Exists, EndedState
    <2>6. \A g \in Facts : /\ ~forgets'[g].present /\ Later(g)' /\ asrt'[g].activation_count = 1
                           => asrt'[g].state \in EndedState
      BY <1>2, <1>3, LaterSame DEF Known, Untouched
    <2>7. Known'
      BY <1>1, <1>2, <2>3, <2>5, <2>6, KnownRows DEF Known
    <2> QED
      BY <1>2, <1>3, <2>4, <2>5, <2>7 DEF Grows, Quiescent, Steady
  <1> QED
    BY <1>4, <1>5

\* Only an ended fact is asked to be brought back, and it is not before its
\* reactivation is marked.
LEMMA RegisterReactivationKnown ==
    ASSUME LedgerInv, LedgerInv', Known, NEW i \in Intents, NEW f \in Facts, NEW T,
           RegisterReactivation(i, f, T)
    PROVE  /\ Known' /\ Grows /\ Quiescent /\ Exists(f)'
           /\ reactivations'[i].state # "none" /\ reactivations'[i].fact = f
           /\ reactivations'[i].activation_number =
                  (IF reactivations[i].state = "none" THEN asrt[f].activation_count + 1
                   ELSE reactivations[i].activation_number)
           /\ \A j \in Intents : j # i => reactivations'[j] = reactivations[j]
  <1>1. LedgerTypeOK /\ LedgerTypeOK' /\ asrt[f] \in AssertionRow
    BY DEF LedgerInv, LedgerTypeOK
  <1>2. UNCHANGED <<invalidations, forgets>> /\ Exists(f)
    BY DEF RegisterReactivation, RegisterReactivationRaises
  <1>3. CASE reactivations[i].state # "none"
    <2>1. UNCHANGED <<asrt, evidence, reactivations>> /\ reactivations[i].fact = f
      BY <1>3 DEF RegisterReactivation, RegisterReactivationRaises
    <2>2. \A g \in Facts : Exists(g) <=> Exists(g)'
      BY <2>1 DEF Exists
    <2>3. Known'
      BY <1>1, <1>2, <2>1, <2>2, LaterSame, KnownRows DEF Known, Untouched
    <2>4. Grows /\ Quiescent
      BY <1>2, <2>1, <2>2 DEF Grows, Quiescent, Steady
    <2> QED
      BY <1>2, <1>3, <2>1, <2>2, <2>3, <2>4
  <1>4. CASE reactivations[i].state = "none"
    <2>1. /\ \A g \in Facts : g # f => asrt'[g] = asrt[g]
          /\ asrt'[f].state = asrt[f].state
          /\ asrt'[f].activation_count = asrt[f].activation_count
          /\ reactivations'[i] = [fact |-> f, state |-> "pending",
                                  activation_number |-> asrt[f].activation_count + 1]
          /\ \A j \in Intents : j # i => reactivations'[j] = reactivations[j]
          /\ evidence' = [evidence EXCEPT ![i] = f]
      BY <1>1, <1>4, RegisterReactivationEffect
    <2>2. reactivations'[i].fact = f /\ reactivations'[i].state = "pending"
          /\ reactivations'[i].activation_number = asrt[f].activation_count + 1
      BY <2>1
    <2>3. /\ asrt[f].state \in EndedState
          /\ asrt' = [asrt EXCEPT ![f] =
                 [asrt[f] EXCEPT !.evidence_count = asrt[f].evidence_count + 1,
                                 !.proj = SetProj(asrt[f].proj, T, "pending")]]
      BY <1>4 DEF RegisterReactivation, RegisterReactivationRaises
    <2>4. \A g \in Facts : Exists(g) <=> Exists(g)'
      BY <2>1 DEF Exists
    <2>5. \A t \in Targets : asrt'[f].proj[t] = "projected" => asrt[f].proj[t] = "projected"
      <3> DEFINE n == asrt[f].evidence_count + 1
                 p == SetProj(asrt[f].proj, T, "pending")
                 q == [asrt[f] EXCEPT !.evidence_count = n, !.proj = p]
      <3>1. asrt' = [asrt EXCEPT ![f] = q]
        BY <2>3
      <3> HIDE DEF n, p
      <3>2. q.proj = p
        BY <1>1 DEF AssertionRow
      <3> HIDE DEF q
      <3>3. asrt'[f].proj = p
        BY <1>1, <3>1, <3>2 DEF LedgerTypeOK
      <3> QED
        BY <3>3 DEF SetProj, p
    <2>6. ASSUME NEW g \in Facts, ~forgets'[g].present, Later(g)', asrt'[g].activation_count = 1
          PROVE  asrt'[g].state \in EndedState
      <3>1. CASE g = f
        BY <2>1, <2>3, <3>1
      <3>2. CASE g # f
        <4>1. Later(g)
          BY <2>1, <2>2, <2>6, <3>2 DEF Later
        <4> QED
          BY <1>2, <2>1, <2>6, <3>2, <4>1 DEF Known, Untouched
      <3> QED
        BY <3>1, <3>2
    <2>7. \A j \in Intents : evidence'[j] = IF j = i THEN f ELSE evidence[j]
      BY <1>1, <2>1 DEF LedgerTypeOK
    <2>8. /\ \A j \in Intents : evidence'[j] \in {evidence[j], NoFact}
                                \/ (evidence[j] # NoFact => Exists(evidence[j]))'
          /\ \A j \in Intents : reactivations'[j].fact \in {reactivations[j].fact, NoFact}
                                \/ (reactivations[j].fact # NoFact => Exists(reactivations[j].fact))'
          /\ \A g \in Facts : forgets'[g].hard => forgets'[g].present
      BY <1>2, <2>1, <2>2, <2>4, <2>7 DEF Known
    <2>9. Known'
      BY <1>1, <1>2, <2>4, <2>6, <2>8, KnownRows
    <2>10. Grows
      BY <1>2, <1>4, <2>1, <2>4 DEF Grows
    <2>11. Quiescent
      BY <2>1, <2>5 DEF Quiescent, Steady
    <2> QED
      BY <1>2, <1>4, <2>1, <2>2, <2>4, <2>9, <2>10, <2>11
  <1> QED
    BY <1>3, <1>4

\* A new life is one whose number the reactivation row holds.
LEMMA MarkReactivatedKnown ==
    ASSUME LedgerInv, LedgerInv', Known, NEW i \in Intents, NEW T, MarkReactivated(i, T)
    PROVE  /\ Known' /\ Grows
           /\ \A g \in Facts : asrt'[g].proj = asrt[g].proj
           /\ \A g \in Facts :
                  \/ asrt'[g].activation_count = asrt[g].activation_count
                  \/ /\ g = reactivations[i].fact
                     /\ asrt'[g].activation_count = reactivations[i].activation_number
           /\ \A j \in Intents : reactivations'[j].state # "none" => reactivations[j].state # "none"
           /\ \A j \in Intents : reactivations'[j].fact = reactivations[j].fact
  <1>1. LedgerTypeOK /\ LedgerTypeOK' /\ reactivations[i].state # "none" /\ ReactivationRecorded
    BY DEF LedgerInv, MarkReactivated, MarkReactivatedRaises
  <1>2. UNCHANGED <<invalidations, forgets, evidence>>
    BY DEF MarkReactivated
  <1>3. CASE reactivations[i].state = "applied"
    <2>1. UNCHANGED <<asrt, reactivations>>
      BY <1>3 DEF MarkReactivated
    <2>2. \A g \in Facts : Exists(g) <=> Exists(g)'
      BY <2>1 DEF Exists
    <2>3. Known'
      BY <1>1, <1>2, <2>1, <2>2, LaterSame, KnownRows DEF Known, Untouched
    <2> QED
      BY <1>2, <2>1, <2>2, <2>3 DEF Grows
  <1>4. CASE reactivations[i].state # "applied"
    <2> DEFINE row == reactivations[i]
               f == row.fact
    <2>1. /\ f \in Facts /\ row.activation_number > 1
          /\ \A g \in Facts : g # f => asrt'[g] = asrt[g]
          /\ asrt'[f].state = "active"
          /\ asrt'[f].activation_count = row.activation_number
          /\ reactivations'[i].fact = f /\ reactivations'[i].state = "applied"
          /\ reactivations'[i].activation_number = row.activation_number
          /\ \A j \in Intents : j # i => reactivations'[j] = reactivations[j]
      BY <1>1, <1>4, MarkReactivatedEffect
    <2>2. asrt' = [asrt EXCEPT ![f] = [asrt[f] EXCEPT !.state = "active",
                                                      !.activation_count = row.activation_number]]
      BY <1>4 DEF MarkReactivated
    <2>3. asrt'[f].proj = asrt[f].proj
      <3> DEFINE q == [asrt[f] EXCEPT !.state = "active", !.activation_count = row.activation_number]
      <3>1. q.proj = asrt[f].proj
        BY <1>1, <2>1 DEF LedgerTypeOK, AssertionRow
      <3> HIDE DEF q
      <3> QED
        BY <1>1, <2>1, <2>2, <3>1 DEF LedgerTypeOK
    <2>4. \A g \in Facts : Exists(g) => Exists(g)'
      BY <2>1 DEF Exists
    <2>5. ASSUME NEW g \in Facts, ~forgets'[g].present, Later(g)', asrt'[g].activation_count = 1
          PROVE  asrt'[g].state \in EndedState
      <3>1. row.activation_number \in Nat
        BY <1>1 DEF LedgerTypeOK, ReactivationRow
      <3>2. g # f
        BY <2>1, <2>5, <3>1
      <3>3. Later(g)
        BY <1>1, <2>1, <2>5, <3>2 DEF Later
      <3> QED
        BY <1>2, <2>1, <2>5, <3>2, <3>3 DEF Known, Untouched
    <2>6. \A j \in Intents : reactivations'[j].fact = reactivations[j].fact
      BY <2>1
    <2>7. Known'
      BY <1>1, <1>2, <2>4, <2>5, <2>6, KnownRows DEF Known
    <2>8. Grows
      BY <1>2, <2>1, <2>4 DEF Grows
    <2> QED
      BY <1>1, <2>1, <2>3, <2>6, <2>7, <2>8
  <1> QED
    BY <1>3, <1>4

LEMMA SetProjectionKnown ==
    ASSUME LedgerInv, LedgerInv', Known, NEW f \in Facts, NEW T, NEW v \in ProjectionState,
           SetProjectionState(f, T, v)
    PROVE  /\ Known' /\ Grows
           /\ reactivations' = reactivations
           /\ \A g \in Facts : asrt'[g].activation_count = asrt[g].activation_count
           /\ \A g \in Facts : g # f => asrt'[g].proj = asrt[g].proj
           /\ asrt'[f].proj = SetProj(asrt[f].proj, T, v)
  <1>1. LedgerTypeOK /\ LedgerTypeOK' /\ asrt[f] \in AssertionRow
    BY DEF LedgerInv, LedgerTypeOK
  <1>2. UNCHANGED <<evidence, invalidations, reactivations, forgets>>
    BY DEF SetProjectionState
  <1>3. \A g \in Facts : asrt'[g].state = asrt[g].state
                         /\ asrt'[g].activation_count = asrt[g].activation_count
    BY <1>1, SetProjectionStateEffect DEF SameFact
  <1>4. \A g \in Facts : Exists(g) <=> Exists(g)'
    BY <1>3 DEF Exists
  <1>5. Known'
    BY <1>1, <1>2, <1>3, <1>4, LaterSame, KnownRows DEF Known, Untouched
  <1>6. Grows
    BY <1>2, <1>4 DEF Grows
  <1> DEFINE p == SetProj(asrt[f].proj, T, v)
             q == [asrt[f] EXCEPT !.proj = p]
  <1>7. asrt' = [asrt EXCEPT ![f] = q]
    BY DEF SetProjectionState
  <1> HIDE DEF p
  <1>8. q.proj = p
    BY <1>1 DEF AssertionRow
  <1> HIDE DEF q
  <1>9. asrt'[f].proj = p /\ \A g \in Facts : g # f => asrt'[g].proj = asrt[g].proj
    BY <1>1, <1>7, <1>8 DEF LedgerTypeOK
  <1> QED
    BY <1>2, <1>3, <1>5, <1>6, <1>9 DEF p

\* The calls of a forget change nothing but what they touch.
LEMMA BeginForgetKnown ==
    ASSUME LedgerInv, LedgerInv', Known, NEW F \in SUBSET Facts, NEW hard \in BOOLEAN, NEW T,
           BeginForget(F, hard, T)
    PROVE  /\ Known' /\ Grows /\ Quiescent /\ reactivations' = reactivations
           /\ \A f \in F : Exists(f) => forgets'[f].present
  <1>1. LedgerTypeOK /\ LedgerTypeOK'
    BY DEF LedgerInv
  <1>2. UNCHANGED <<evidence, invalidations, reactivations>>
    BY DEF BeginForget
  <1>3. \A g \in Facts :
            \/ asrt'[g] = asrt[g] /\ forgets'[g] = forgets[g]
            \/ Exists(g) /\ asrt'[g].state = "forgotten" /\ forgets'[g].present
    BY <1>1, BeginForgetEffect
  <1>4. \A g \in Facts : Exists(g) => Exists(g)'
    BY <1>3 DEF Exists
  <1>5. /\ \A g \in Facts : forgets'[g].hard => forgets'[g].present
        /\ \A g \in Facts : forgets[g].present => forgets'[g].present
    BY <1>3 DEF Known
  <1>6. \A g \in Facts : /\ ~forgets'[g].present /\ Later(g)' /\ asrt'[g].activation_count = 1
                         => asrt'[g].state \in EndedState
    BY <1>2, <1>3, LaterSame DEF Known, Untouched
  <1>7. Known'
    BY <1>1, <1>2, <1>4, <1>5, <1>6, KnownRows DEF Known
  <1>8. Grows /\ Quiescent
    BY <1>2, <1>3, <1>4, <1>5 DEF Grows, Quiescent, Steady
  <1>9. ASSUME NEW f \in F, Exists(f)
        PROVE  forgets'[f].present
    <2>1. forgets'[f] = ForgetRowOf(f, hard, T)
      BY <1>9 DEF BeginForget, ForgetPlans
    <2> QED
      BY <2>1 DEF ForgetRowOf
  <1> QED
    BY <1>2, <1>7, <1>8, <1>9

LEMMA ScrubKnown ==
    ASSUME LedgerInv, LedgerInv', Known, NEW F \in SUBSET Facts, ScrubForgottenContent(F)
    PROVE  /\ Known' /\ Grows /\ Quiescent
           /\ \A j \in Intents : reactivations'[j] \in {reactivations[j], NoReactivation}
  <1>1. LedgerTypeOK /\ LedgerTypeOK'
    BY DEF LedgerInv
  <1>2. /\ forgets' = forgets /\ \A f \in F : forgets[f].present
        /\ \A j \in Corrections : invalidations'[j].fact \in {invalidations[j].fact, NoFact}
    BY DEF ScrubForgottenContent, NoInvalidation
  <1>3. /\ \A j \in Intents : evidence'[j] = IF evidence[j] \in F THEN NoFact ELSE evidence[j]
        /\ \A j \in Intents :
               reactivations'[j] = IF reactivations[j].fact \in F THEN NoReactivation
                                   ELSE reactivations[j]
        /\ \A g \in Facts :
                  \/ asrt'[g] = asrt[g]
                  \/ /\ g \in F
                     /\ asrt[g].state = "forgotten" /\ asrt'[g].state = "forgotten"
                     /\ asrt'[g].activation_count = asrt[g].activation_count
    BY <1>1, ScrubEffect
  <1>4. \A g \in Facts : Exists(g) => Exists(g)'
    BY <1>3 DEF Exists
  <1>5. NoReactivation.fact = NoFact /\ NoReactivation.state = "none"
    BY DEF NoReactivation
  <1>6. /\ \A j \in Intents : evidence'[j] \in {evidence[j], NoFact}
        /\ \A j \in Intents : reactivations'[j].fact \in {reactivations[j].fact, NoFact}
    BY <1>3, <1>5
  <1>7. ASSUME NEW g \in Facts, ~forgets'[g].present, Later(g)', asrt'[g].activation_count = 1
        PROVE  asrt'[g].state \in EndedState
    <2>1. Later(g)
      BY <1>3, <1>5, <1>7 DEF Later
    <2>2. asrt'[g] = asrt[g]
      BY <1>2, <1>3, <1>7
    <2> QED
      BY <1>2, <1>7, <2>1, <2>2 DEF Known, Untouched
  <1>8. Known'
    BY <1>1, <1>2, <1>4, <1>6, <1>7, KnownRows DEF Known
  <1>9. Grows
    <2>1. ASSUME NEW j \in Intents, reactivations[j].state # "none",
                 ~forgets'[reactivations[j].fact].present
          PROVE  reactivations'[j] = reactivations[j]
      BY <1>2, <1>3, <2>1
    <2> QED
      BY <1>2, <1>4, <2>1 DEF Grows
  <1>10. Quiescent
    BY <1>2, <1>3 DEF Quiescent, Steady
  <1> QED
    BY <1>3, <1>8, <1>9, <1>10

LEMMA MarkForgetProjectedKnown ==
    ASSUME LedgerInv, LedgerInv', Known, NEW F \in SUBSET Facts, NEW T, MarkForgetProjected(F, T)
    PROVE  /\ Known' /\ Grows /\ Quiescent /\ reactivations' = reactivations
  <1>1. LedgerTypeOK /\ LedgerTypeOK'
    BY DEF LedgerInv
  <1>2. /\ UNCHANGED <<evidence, invalidations, reactivations>> /\ \A f \in F : forgets[f].present
        /\ \A g \in Facts : g \notin F => asrt'[g] = asrt[g]
    BY DEF MarkForgetProjected
  <1>3. \A g \in Facts : /\ asrt'[g].state = asrt[g].state
                         /\ asrt'[g].activation_count = asrt[g].activation_count
                         /\ forgets'[g].present = forgets[g].present
                         /\ forgets'[g].hard = forgets[g].hard
    BY <1>1, MarkForgetProjectedEffect DEF SameFact
  <1>4. \A g \in Facts : Exists(g) <=> Exists(g)'
    BY <1>3 DEF Exists
  <1>5. Known'
    BY <1>1, <1>2, <1>3, <1>4, LaterSame, KnownRows DEF Known, Untouched
  <1>6. Grows
    BY <1>2, <1>3, <1>4 DEF Grows, LedgerTypeOK, ReactivationRow
  <1>7. Quiescent
    BY <1>2, <1>3 DEF Quiescent, Steady
  <1> QED
    BY <1>2, <1>5, <1>6, <1>7

----------------------------------------------------------------------------
(* Projected marks are backed: the stores and the handlers.                 *)

\* Where a handler has registered its fact, where it has seen or written the
\* drawer of the life it registered, and where its tombstones are written.
Registered == PastRegister \ {"settle"}
DrawerWritten ==
    {"mark_drawer", "check_kg", "reopen_kg", "put_kg", "mark_kg", "finish_reactivation"}
Begun ==
    {"forget_redact", "forget_scrub", "forget_kg", "forget_kg_mark", "forget_drawers",
     "forget_drawer_mark"}

\* The marks of the facts no privacy request has touched.  A mark of the
\* drawer may be one of an earlier life, left by a handler that registered
\* before the fact was brought back; it does no harm, because a later life
\* begins with its drawer in place.
Backed ==
    /\ \A f \in Facts : Untouched(f) /\ asrt[f].proj["kg"] = "projected" => HasRow(f)
    /\ \A f \in Facts :
           Untouched(f) /\ ~Later(f) /\ asrt[f].proj["drawer"] = "projected"
           => ProjectionDrawers(f, 1) # {}
    /\ \A f \in Facts :
           Untouched(f) /\ asrt[f].activation_count > 1
           => ProjectionDrawers(f, asrt[f].activation_count) # {}

\* Where drawers, previews and reactivations come from.
Sources ==
    /\ \A d \in drawers : Exists(d.fact)
    /\ \A m \in Msgs : \A d \in previewed[m] : d \in drawers \/ ~Untouched(d.fact)
    /\ \A m \in Msgs : previewed[m] # {} => content[m].kind = "forget_drawers"
    /\ \A m \in Msgs : reactivations[m].state # "none" => reactivations[m].fact = content[m].adds

\* What the handler of worker w knows of the fact it has registered.
Told(w) ==
    LET f == Body(w).adds
        reg == work[w].reg
    IN /\ Exists(f) /\ reg.activation # 0
       /\ At(w, "finish_reactivation") => reg.reactivation_pending
       /\ Untouched(f) =>
              /\ reg.activation > 1 => Later(f)
              /\ reg.reactivation_pending =>
                     /\ reactivations[Msg(w)].state # "none"
                     /\ reactivations[Msg(w)].activation_number = reg.activation
              /\ work[w].pc \in DrawerWritten => ProjectionDrawers(f, reg.activation) # {}
              /\ At(w, "mark_kg") => HasRow(f)
              /\ At(w, "relook") =>
                     /\ "drawer" \in work[w].recovered => ProjectionDrawers(f, reg.activation) # {}
                     /\ "kg" \in work[w].recovered => HasRow(f)
                     /\ "drawer" \notin reg.pending => ProjectionDrawers(f, reg.activation) # {}

\* What the handler of worker w knows of the facts it forgets: it deletes the
\* drawers and rows of facts that have their tombstones.
Erasing(w) ==
    /\ \A f \in work[w].facts : Exists(f)
    /\ work[w].pc \in Begun => \A f \in work[w].facts : ~Untouched(f)
    /\ At(w, "forget_scan") =>
           \A d \in previewed[Msg(w)] : d.fact \in work[w].facts \/ ~Untouched(d.fact)
    /\ ~At(w, "forget_scan") =>
           \A d \in work[w].seen : d.fact \in work[w].facts \/ ~Untouched(d.fact)

Informed(w) ==
    /\ work[w].pc \in Registered => Told(w)
    /\ work[w].pc \in FactsPcs => Erasing(w)

BackedInv == Known /\ Backed /\ Sources /\ \A w \in Workers : Informed(w)

\* What no step takes back of a fact no privacy request has touched.
Lasting ==
    /\ Grows /\ content' = content
    /\ \A d \in drawers : ~forgets'[d.fact].present => d \in drawers'
    /\ \A r \in kgrows : ~forgets'[r.fact].present => r \in kgrows'

LEMMA LastingFact ==
    ASSUME WorkersInv, Lasting, NEW f \in Facts, ~forgets'[f].present
    PROVE  /\ Untouched(f)
           /\ HasRow(f) => HasRow(f)'
           /\ Later(f) => Later(f)'
           /\ \A a : ProjectionDrawers(f, a) # {} => ProjectionDrawers(f, a)' # {}
  <1>1. Untouched(f)
    BY DEF Lasting, Grows, Untouched
  <1>2. HasRow(f) => HasRow(f)'
    BY DEF Lasting, HasRow
  <1>3. Later(f) => Later(f)'
    BY DEF Lasting, Grows, Later
  <1>4. \A a : ProjectionDrawers(f, a) # {} => ProjectionDrawers(f, a)' # {}
    BY DEF Lasting, ProjectionDrawers
  <1> QED
    BY <1>1, <1>2, <1>3, <1>4

LEMMA BackedStays ==
    ASSUME WorkersInv, Backed, Lasting, Quiescent
    PROVE  Backed'
  <1>1. ASSUME NEW f \in Facts, Untouched(f)'
        PROVE  /\ asrt'[f].proj["kg"] = "projected" => HasRow(f)'
               /\ ~Later(f)' /\ asrt'[f].proj["drawer"] = "projected" => ProjectionDrawers(f, 1)' # {}
               /\ asrt'[f].activation_count > 1
                  => ProjectionDrawers(f, asrt[f].activation_count)' # {}
    <2>1. /\ Untouched(f)
          /\ HasRow(f) => HasRow(f)'
          /\ Later(f) => Later(f)'
          /\ \A a : ProjectionDrawers(f, a) # {} => ProjectionDrawers(f, a)' # {}
      BY <1>1, LastingFact DEF Untouched
    <2>2. Steady(f) /\ {"drawer", "kg"} \subseteq Targets
      BY <1>1, MessageIds DEF Quiescent, Untouched
    <2>3. asrt'[f].proj["kg"] = "projected" => HasRow(f)'
      BY <2>1, <2>2 DEF Backed, Steady
    <2>4. ~Later(f)' /\ asrt'[f].proj["drawer"] = "projected" => ProjectionDrawers(f, 1)' # {}
      BY <2>1, <2>2 DEF Backed, Steady
    <2>5. asrt'[f].activation_count > 1 => ProjectionDrawers(f, asrt[f].activation_count)' # {}
      BY <2>1, <2>2 DEF Backed, Steady, ProjectionDrawers
    <2> QED
      BY <2>3, <2>4, <2>5
  <1> QED
    BY <1>1 DEF Backed

LEMMA SourcesStay ==
    ASSUME WorkersInv, Sources, Lasting, previewed' = previewed,
           \A d \in drawers' : Exists(d.fact)',
           \A m \in Msgs : reactivations'[m].state # "none" => reactivations'[m].fact = content[m].adds
    PROVE  Sources'
  <1>1. ASSUME NEW m \in Msgs, NEW d \in previewed[m]
        PROVE  d \in drawers' \/ ~Untouched(d.fact)'
    <2>1. d.fact \in Facts
      BY DEF WorkersInv, QueuesOK, Drawer
    <2> QED
      BY <2>1 DEF Sources, Lasting, Grows, Untouched
  <1> QED
    BY <1>1 DEF Sources, Lasting

\* A handler that does not step still knows what it knew.
LEMMA ToldStays ==
    ASSUME WorkersInv, Sources, Lasting, NEW w \in Workers, work'[w] = work[w],
           work[w].pc \in Registered, Told(w)
    PROVE  Told(w)'
  <1> DEFINE f == Body(w).adds
             n == work[w].reg.activation
  <1>1. f \in Facts /\ Msg(w) \in Msgs /\ Body(w)' = Body(w) /\ Msg(w)' = Msg(w)
    BY Asserting DEF Registered, PastRegister, AssertPcs, Body, Msg, Lasting
  <1>2. Exists(f)'
    BY <1>1 DEF Told, Lasting, Grows
  <1>3. ASSUME ~forgets'[f].present
        PROVE  /\ Untouched(f)
               /\ HasRow(f) => HasRow(f)'
               /\ Later(f) => Later(f)'
               /\ ProjectionDrawers(f, n) # {} => ProjectionDrawers(f, n)' # {}
               /\ reactivations[Msg(w)].state # "none" =>
                      /\ reactivations'[Msg(w)].state # "none"
                      /\ reactivations'[Msg(w)].activation_number
                             = reactivations[Msg(w)].activation_number
    <2>1. /\ Untouched(f)
          /\ HasRow(f) => HasRow(f)'
          /\ Later(f) => Later(f)'
      BY <1>1, <1>3, LastingFact
    <2>2. ProjectionDrawers(f, n) # {} => ProjectionDrawers(f, n)' # {}
      BY <1>1, <1>3 DEF Lasting, ProjectionDrawers
    <2>3. reactivations[Msg(w)].state # "none" => reactivations[Msg(w)].fact = f
      BY <1>1 DEF Sources, Body
    <2> QED
      BY <1>1, <1>3, <2>1, <2>2, <2>3, MessageIds DEF Lasting, Grows
  <1> QED
    BY <1>1, <1>2, <1>3 DEF Told, Untouched, At, Body, HasRow, Later, ProjectionDrawers

LEMMA ErasingStays ==
    ASSUME WorkersInv, Lasting, NEW w \in Workers, work'[w] = work[w], work[w].pc \in FactsPcs,
           previewed'[Msg(w)] = previewed[Msg(w)], Erasing(w)
    PROVE  Erasing(w)'
  <1>1. /\ work[w].facts \subseteq Facts /\ work[w].seen \subseteq Drawer /\ Msg(w) \in Msgs
        /\ previewed[Msg(w)] \subseteq Drawer /\ Msg(w)' = Msg(w)
    BY Forgetting DEF WorkersInv, QueuesOK, Msg
  <1>2. \A f \in Facts : /\ Exists(f) => Exists(f)'
                         /\ ~Untouched(f) => ~Untouched(f)'
    BY DEF Lasting, Grows, Untouched
  <1>3. \A d \in Drawer : d.fact \in Facts
    BY DEF Drawer
  <1> QED
    BY <1>1, <1>2, <1>3 DEF Erasing, At

LEMMA InformedStays ==
    ASSUME WorkersInv, Sources, Lasting, NEW w \in Workers, work'[w] = work[w], Informed(w),
           work[w].pc \in FactsPcs => previewed'[Msg(w)] = previewed[Msg(w)]
    PROVE  Informed(w)'
  BY ToldStays, ErasingStays DEF Informed

\* A handler that has nothing to know.
LEMMA Uninformed ==
    ASSUME NEW w, work'[w].pc \notin Registered \cup FactsPcs
    PROVE  Informed(w)'
  BY DEF Informed

\* A step of worker w with its message in hand that keeps marks backed.
Backing(w) ==
    /\ Known' /\ Lasting /\ Backed' /\ Sources' /\ previewed' = previewed
    /\ \A v \in Workers : v # w => work'[v] = work[v]
    /\ Informed(w)'

LEMMA BackingKeeps ==
    ASSUME WorkersInv, BackedInv, NEW w \in Workers, Backing(w)
    PROVE  BackedInv'
  <1>1. ASSUME NEW v \in Workers
        PROVE  Informed(v)'
    BY InformedStays DEF Backing, BackedInv
  <1> QED
    BY <1>1 DEF Backing, BackedInv

\* Steps that touch neither the ledger nor the stores, and calls of the
\* ledger that mark nothing as written.
LEMMA LedgerBacking ==
    ASSUME WorkersInv, BackedInv, NEW w \in Workers, Known', Grows, Quiescent,
           UNCHANGED <<content, previewed, storeVars>>,
           \A v \in Workers : v # w => work'[v] = work[v],
           \A m \in Msgs : reactivations'[m].state # "none" => reactivations'[m].fact = content[m].adds,
           Lasting => Informed(w)'
    PROVE  Backing(w)
  <1>1. content' = content /\ previewed' = previewed /\ UNCHANGED storeVars
    OBVIOUS
  <1>2. Lasting
    BY <1>1 DEF Lasting, storeVars
  <1>3. \A d \in drawers' : Exists(d.fact)'
    BY <1>1 DEF BackedInv, Sources, Grows, storeVars, WorkersInv, StoresOK, Drawer
  <1>4. Sources'
    BY <1>1, <1>2, <1>3, SourcesStay DEF BackedInv
  <1> QED
    BY <1>1, <1>2, <1>4, BackedStays DEF Backing, BackedInv

LEMMA LocalBacking ==
    ASSUME WorkersInv, BackedInv, NEW w \in Workers,
           UNCHANGED <<ledgerVars, content, previewed, storeVars>>,
           \A v \in Workers : v # w => work'[v] = work[v],
           Lasting => Informed(w)'
    PROVE  Backing(w)
  <1>1. /\ asrt' = asrt /\ evidence' = evidence /\ forgets' = forgets
        /\ invalidations' = invalidations /\ reactivations' = reactivations
    BY DEF ledgerVars
  <1>2. Known'
    BY <1>1 DEF BackedInv, Known, Untouched, Exists, Later
  <1>3. Grows /\ Quiescent
    BY <1>1 DEF Grows, Quiescent, Steady, Exists
  <1>4. \A m \in Msgs : reactivations'[m].state # "none" => reactivations'[m].fact = content[m].adds
    BY <1>1 DEF BackedInv, Sources
  <1> QED
    BY <1>1, <1>2, <1>3, <1>4, LedgerBacking

\* Writes to the stores.
LEMMA StoreBacking ==
    ASSUME WorkersInv, BackedInv, NEW w \in Workers,
           UNCHANGED <<ledgerVars, content, previewed>>,
           \A d \in drawers : ~forgets[d.fact].present => d \in drawers',
           \A r \in kgrows : ~forgets[r.fact].present => r \in kgrows',
           \A d \in drawers' : Exists(d.fact),
           \A v \in Workers : v # w => work'[v] = work[v],
           Lasting => Informed(w)'
    PROVE  Backing(w)
  <1>1. /\ asrt' = asrt /\ evidence' = evidence /\ forgets' = forgets
        /\ invalidations' = invalidations /\ reactivations' = reactivations
        /\ content' = content /\ previewed' = previewed
    BY DEF ledgerVars
  <1>2. Known'
    BY <1>1 DEF BackedInv, Known, Untouched, Exists, Later
  <1>3. Lasting /\ Quiescent
    BY <1>1 DEF Lasting, Grows, Quiescent, Steady, Exists
  <1>4. Sources'
    <2>1. \A d \in drawers' : Exists(d.fact)'
      BY <1>1 DEF Exists
    <2> QED
      BY <1>1, <1>3, <2>1, SourcesStay DEF BackedInv, Sources
  <1> QED
    BY <1>1, <1>2, <1>3, <1>4, BackedStays DEF Backing, BackedInv

----------------------------------------------------------------------------
(* Projected marks are backed: asserting a fact.                            *)

\* What a registration told lasts while no privacy request touches the fact.
LEMMA ToldLasts ==
    ASSUME WorkersInv, BackedInv, Lasting, NEW w \in Workers, work[w].pc \in Registered,
           NEW f, f = Body(w).adds, NEW n, n = work[w].reg.activation
    PROVE  /\ f \in Facts /\ Msg(w) \in Msgs /\ Exists(f)' /\ n # 0 /\ n \in Nat /\ Told(w)
           /\ ~forgets'[f].present =>
                  /\ Untouched(f)
                  /\ HasRow(f) => HasRow(f)'
                  /\ n > 1 => Later(f)'
                  /\ (\E d \in drawers : d.fact = f /\ d.activation = n)
                         => (\E d \in drawers' : d.fact = f /\ d.activation = n)
                  /\ work[w].reg.reactivation_pending =>
                         /\ reactivations'[Msg(w)].state # "none"
                         /\ reactivations'[Msg(w)].activation_number = n
  <1>1. f \in Facts /\ Msg(w) \in Msgs /\ Told(w) /\ n \in Nat
    BY Asserting DEF Registered, PastRegister, AssertPcs, BackedInv, Informed, Registration
  <1>2. Exists(f)' /\ n # 0
    BY <1>1 DEF Told, Lasting, Grows
  <1>3. ASSUME ~forgets'[f].present
        PROVE  /\ Untouched(f)
               /\ HasRow(f) => HasRow(f)'
               /\ Later(f) => Later(f)'
    BY <1>1, <1>3, LastingFact
  <1>4. ASSUME ~forgets'[f].present, \E d \in drawers : d.fact = f /\ d.activation = n
        PROVE  \E d \in drawers' : d.fact = f /\ d.activation = n
    BY <1>4 DEF Lasting
  <1>5. ASSUME ~forgets'[f].present, work[w].reg.reactivation_pending
        PROVE  /\ reactivations'[Msg(w)].state # "none"
               /\ reactivations'[Msg(w)].activation_number = n
    <2>1. /\ reactivations[Msg(w)].state # "none" /\ reactivations[Msg(w)].activation_number = n
      BY <1>1, <1>3, <1>5 DEF Told
    <2>2. reactivations[Msg(w)].fact = f
      BY <1>1, <2>1 DEF BackedInv, Sources, Body
    <2> QED
      BY <1>1, <1>5, <2>1, <2>2, MessageIds DEF Lasting, Grows
  <1>6. ASSUME ~forgets'[f].present, n > 1
        PROVE  Later(f)'
    BY <1>1, <1>3, <1>6 DEF Told
  <1> QED
    BY <1>1, <1>2, <1>3, <1>4, <1>5, <1>6

\* Going on with an assertion, with what the next step relies on at hand.
LEMMA ToldGoto ==
    ASSUME WorkersInv, BackedInv, Lasting, NEW w \in Workers, work[w].pc \in Registered,
           NEW f, f = Body(w).adds, NEW n, n = work[w].reg.activation,
           NEW p, p # "relook", p \notin FactsPcs, Goto(w, p),
           p = "finish_reactivation" => work[w].reg.reactivation_pending,
           ~forgets'[f].present /\ p \in DrawerWritten
               => (\E d \in drawers' : d.fact = f /\ d.activation = n),
           ~forgets'[f].present /\ p = "mark_kg" => (\E r \in kgrows' : r.fact = f)
    PROVE  Informed(w)'
  <1>1. /\ work'[w].pc = p /\ work'[w].msg = Msg(w) /\ work'[w].reg = work[w].reg
    BY GotoFields
  <1>2. /\ f \in Facts /\ Exists(f)' /\ n # 0
        /\ ~forgets'[f].present =>
                  /\ n > 1 => Later(f)'
                  /\ work[w].reg.reactivation_pending =>
                         /\ reactivations'[Msg(w)].state # "none"
                         /\ reactivations'[Msg(w)].activation_number = n
    BY ToldLasts
  <1>3. Body(w)'.adds = f
    BY <1>1 DEF Body, Msg, Lasting
  <1>4. Told(w)'
    BY <1>1, <1>2, <1>3 DEF Told, Untouched, At, Msg, HasRow, ProjectionDrawers, Later, Exists
  <1> QED
    BY <1>1, <1>4 DEF Informed

\* Where a handler goes when the drawer, or the graph row, is settled.
LEMMA ToKgNext ==
    ASSUME NEW w, NEW reg
    PROVE  /\ ToKg(w, reg) \in {"put_kg", "check_kg", "settle", "finish_reactivation"}
           /\ ToKg(w, reg) = "finish_reactivation" => reg.reactivation_pending
           /\ AfterKg(w) \in {"settle", "finish_reactivation"}
           /\ AfterKg(w) = "finish_reactivation" => work[w].reg.reactivation_pending
  BY DEF ToKg, AfterKg

\* Marking projections of f as written, when they are.
LEMMA MarkBacking ==
    ASSUME WorkersInv, WorkersInv', BackedInv, NEW w \in Workers, NEW f \in Facts, NEW T,
           MarkProjected(f, T), UNCHANGED ledgerOnly,
           "drawer" \in T /\ Untouched(f) /\ ~Later(f) => ProjectionDrawers(f, 1) # {},
           "kg" \in T /\ Untouched(f) => HasRow(f),
           \A v \in Workers : v # w => work'[v] = work[v],
           Lasting => Informed(w)'
    PROVE  Backing(w)
  <1>1. /\ content' = content /\ previewed' = previewed /\ UNCHANGED storeVars
        /\ UNCHANGED <<drawers, kgrows>>
    BY DEF ledgerOnly, storeVars
  <1>2. /\ Known' /\ Grows /\ reactivations' = reactivations
        /\ \A g \in Facts : asrt'[g].activation_count = asrt[g].activation_count
        /\ \A g \in Facts : g # f => asrt'[g].proj = asrt[g].proj
        /\ asrt'[f].proj = SetProj(asrt[f].proj, T, "projected")
    BY SetProjectionKnown DEF WorkersInv, BackedInv, MarkProjected, ProjectionState
  <1>3. Lasting
    BY <1>1, <1>2 DEF Lasting
  <1>4. \A t \in Targets : t \notin T => asrt'[f].proj[t] = asrt[f].proj[t]
    BY <1>2 DEF SetProj
  <1>5. ASSUME NEW g \in Facts, Untouched(g)'
        PROVE  /\ asrt'[g].proj["kg"] = "projected" => HasRow(g)'
               /\ ~Later(g)' /\ asrt'[g].proj["drawer"] = "projected" => ProjectionDrawers(g, 1)' # {}
               /\ asrt'[g].activation_count > 1
                  => ProjectionDrawers(g, asrt[g].activation_count)' # {}
    <2>1. Untouched(g) /\ {"drawer", "kg"} \subseteq Targets
      BY <1>3, <1>5, LastingFact, MessageIds DEF Untouched
    <2>2. /\ HasRow(g)' <=> HasRow(g)
          /\ Later(g)' <=> Later(g)
          /\ ProjectionDrawers(g, 1)' = ProjectionDrawers(g, 1)
          /\ ProjectionDrawers(g, asrt[g].activation_count)'
                 = ProjectionDrawers(g, asrt[g].activation_count)
      BY <1>1, <1>2, LaterSame DEF HasRow, ProjectionDrawers
    <2>3. asrt'[g].proj["kg"] = "projected" => asrt[g].proj["kg"] = "projected" \/ ("kg" \in T /\ g = f)
      BY <1>2, <1>4, <2>1
    <2>4. asrt'[g].proj["drawer"] = "projected"
          => asrt[g].proj["drawer"] = "projected" \/ ("drawer" \in T /\ g = f)
      BY <1>2, <1>4, <2>1
    <2>5. asrt'[g].proj["kg"] = "projected" => HasRow(g)'
      BY <2>1, <2>2, <2>3 DEF BackedInv, Backed
    <2>6. ~Later(g)' /\ asrt'[g].proj["drawer"] = "projected" => ProjectionDrawers(g, 1)' # {}
      BY <2>1, <2>2, <2>4 DEF BackedInv, Backed
    <2>7. asrt'[g].activation_count > 1 => ProjectionDrawers(g, asrt[g].activation_count)' # {}
      BY <1>2, <2>1, <2>2 DEF BackedInv, Backed
    <2> QED
      BY <2>5, <2>6, <2>7
  <1>6. Backed'
    BY <1>5 DEF Backed
  <1>7. Sources'
    <2>1. \A d \in drawers' : Exists(d.fact)'
      BY <1>1, <1>2 DEF BackedInv, Sources, Grows, WorkersInv, StoresOK, Drawer
    <2> QED
      BY <1>1, <1>2, <1>3, <2>1, SourcesStay DEF BackedInv, Sources
  <1> QED
    BY <1>1, <1>2, <1>3, <1>6, <1>7 DEF Backing

LEMMA CheckDrawerBacking ==
    ASSUME WorkersInv, BackedInv, NEW w \in Workers, CheckDrawer(w)
    PROVE  Backing(w)
  <1> DEFINE f == Body(w).adds
             n == work[w].reg.activation
             found == ProjectionDrawers(f, n)
  <1>1. /\ work[w].pc \in Registered
        /\ UNCHANGED <<ledgerVars, content, previewed, storeVars>> /\ drawers' = drawers
    BY DEF CheckDrawer, At, Registered, PastRegister, localOnly, ledgerOnly, storeVars
  <1>2. \E p : /\ Goto(w, p)
               /\ \/ p \in {"mark_drawer", ToKg(w, work[w].reg)} /\ found # {}
                  \/ p \in {"reopen_drawer", "put_drawer"}
    BY DEF CheckDrawer
  <1>3. PICK p : /\ Goto(w, p)
                 /\ \/ p \in {"mark_drawer", ToKg(w, work[w].reg)} /\ found # {}
                    \/ p \in {"reopen_drawer", "put_drawer"}
    BY <1>2
  <1>4. /\ p \in {"mark_drawer", "put_kg", "check_kg", "settle", "finish_reactivation",
                  "reopen_drawer", "put_drawer"}
        /\ p = "finish_reactivation" => work[w].reg.reactivation_pending
    BY <1>3, ToKgNext
  <1>5. p \in DrawerWritten => (\E d \in drawers' : d.fact = f /\ d.activation = n)
    BY <1>1, <1>3, <1>4 DEF DrawerWritten, ProjectionDrawers
  <1>6. p # "relook" /\ p # "mark_kg" /\ p \notin FactsPcs
    BY <1>4 DEF FactsPcs
  <1>7. Lasting => Informed(w)'
    BY <1>1, <1>3, <1>4, <1>5, <1>6, ToldGoto
  <1> QED
    BY <1>1, <1>3, <1>7, GotoFields, LocalBacking

LEMMA CheckKgBacking ==
    ASSUME WorkersInv, BackedInv, NEW w \in Workers, CheckKg(w)
    PROVE  Backing(w)
  <1> DEFINE f == Body(w).adds
             n == work[w].reg.activation
  <1>1. /\ work[w].pc \in Registered /\ work[w].pc \in DrawerWritten
        /\ UNCHANGED <<ledgerVars, content, previewed, storeVars>> /\ drawers' = drawers
        /\ kgrows' = kgrows
    BY DEF CheckKg, At, Registered, PastRegister, DrawerWritten, localOnly, ledgerOnly, storeVars
  <1>2. \E p : /\ Goto(w, p)
               /\ \/ p \in {"mark_kg", AfterKg(w)} /\ OpenRows({f}) # {}
                  \/ p \in {"reopen_kg", "put_kg"}
    BY DEF CheckKg
  <1>3. PICK p : /\ Goto(w, p)
                 /\ \/ p \in {"mark_kg", AfterKg(w)} /\ OpenRows({f}) # {}
                    \/ p \in {"reopen_kg", "put_kg"}
    BY <1>2
  <1>4. /\ p \in {"mark_kg", "settle", "finish_reactivation", "reopen_kg", "put_kg"}
        /\ p = "finish_reactivation" => work[w].reg.reactivation_pending
    BY <1>3, ToKgNext
  <1>5. p = "mark_kg" => (\E r \in kgrows' : r.fact = f)
    BY <1>1, <1>3 DEF OpenRows
  <1>6. ASSUME Lasting, ~forgets'[f].present
        PROVE  \E d \in drawers' : d.fact = f /\ d.activation = n
    BY <1>1, <1>6, ToldLasts DEF Told, ProjectionDrawers
  <1>7. p # "relook" /\ p \notin FactsPcs
    BY <1>4 DEF FactsPcs
  <1>8. Lasting => Informed(w)'
    BY <1>1, <1>3, <1>4, <1>5, <1>6, <1>7, ToldGoto
  <1> QED
    BY <1>1, <1>3, <1>8, GotoFields, LocalBacking

\* Marking a projection as pending again takes no mark's backing away.
LEMMA ReopenBacking ==
    ASSUME WorkersInv, WorkersInv', BackedInv, NEW w \in Workers, NEW f \in Facts, NEW T,
           MarkProjectionPending(f, T), UNCHANGED ledgerOnly,
           \A v \in Workers : v # w => work'[v] = work[v], Lasting => Informed(w)'
    PROVE  Backing(w)
  <1>1. content' = content /\ previewed' = previewed /\ UNCHANGED storeVars
    BY DEF ledgerOnly
  <1>2. /\ Known' /\ Grows /\ reactivations' = reactivations
        /\ \A g \in Facts : asrt'[g].activation_count = asrt[g].activation_count
        /\ \A g \in Facts : g # f => asrt'[g].proj = asrt[g].proj
        /\ asrt'[f].proj = SetProj(asrt[f].proj, T, "pending")
    BY SetProjectionKnown DEF WorkersInv, BackedInv, MarkProjectionPending, ProjectionState
  <1>3. Quiescent
    BY <1>2 DEF Quiescent, Steady, SetProj
  <1> QED
    BY <1>1, <1>2, <1>3, LedgerBacking DEF BackedInv, Sources

LEMMA ReopensBacking ==
    ASSUME WorkersInv, WorkersInv', BackedInv, NEW w \in Workers, ReopenDrawer(w) \/ ReopenKg(w)
    PROVE  Backing(w)
  <1> DEFINE f == Body(w).adds
             n == work[w].reg.activation
  <1>1. /\ work[w].pc \in Registered /\ work[w].pc \in AssertPcs /\ UNCHANGED ledgerOnly
        /\ \E T : MarkProjectionPending(f, T)
        /\ \/ Goto(w, "put_drawer")
           \/ Goto(w, "put_kg") /\ work[w].pc \in DrawerWritten
    BY DEF ReopenDrawer, ReopenKg, At, Registered, PastRegister, AssertPcs, DrawerWritten
  <1>2. f \in Facts
    BY <1>1, Asserting
  <1>3. PICK p : Goto(w, p) /\ (p = "put_drawer" \/ (p = "put_kg" /\ work[w].pc \in DrawerWritten))
    BY <1>1
  <1>4. ASSUME Lasting
        PROVE  Informed(w)'
    <2>1. drawers' = drawers
      BY <1>1 DEF ledgerOnly, storeVars
    <2>2. ~forgets'[f].present /\ p = "put_kg" => (\E d \in drawers' : d.fact = f /\ d.activation = n)
      BY <1>1, <1>3, <1>4, <2>1, ToldLasts DEF Told, ProjectionDrawers
    <2>3. p \notin FactsPcs /\ p # "relook" /\ p # "mark_kg" /\ p # "finish_reactivation"
          /\ (p \in DrawerWritten => p = "put_kg")
      BY <1>3 DEF FactsPcs, DrawerWritten
    <2> QED
      BY <1>1, <1>3, <1>4, <2>2, <2>3, ToldGoto
  <1> QED
    BY <1>1, <1>2, <1>3, <1>4, GotoFields, ReopenBacking

LEMMA PutDrawerBacking ==
    ASSUME WorkersInv, BackedInv, NEW w \in Workers, PutDrawer(w)
    PROVE  Backing(w)
  <1> DEFINE f == Body(w).adds
             n == work[w].reg.activation
             d == [fact |-> f, activation |-> n, text |-> Msg(w)]
  <1>1. /\ work[w].pc \in Registered /\ drawers' = drawers \cup {d} /\ kgrows' = kgrows
        /\ UNCHANGED <<ledgerVars, content, previewed>> /\ Goto(w, "mark_drawer")
    BY DEF PutDrawer, IngestDrawer, At, Registered, PastRegister, storeOnly
  <1>2. d.fact = f /\ d.activation = n
    OBVIOUS
  <1> HIDE DEF d
  <1>3. Told(w)
    BY <1>1 DEF BackedInv, Informed
  <1>4. \A e \in drawers' : Exists(e.fact)
    BY <1>1, <1>2, <1>3 DEF BackedInv, Sources, Told
  <1>5. Lasting => Informed(w)'
    <2>1. \E e \in drawers' : e.fact = f /\ e.activation = n
      BY <1>1, <1>2
    <2> QED
      BY <1>1, <2>1, ToldGoto DEF FactsPcs
  <1> QED
    BY <1>1, <1>4, <1>5, GotoFields, StoreBacking

LEMMA PutKgBacking ==
    ASSUME WorkersInv, BackedInv, NEW w \in Workers, PutKg(w)
    PROVE  Backing(w)
  <1> DEFINE f == Body(w).adds
             n == work[w].reg.activation
             r == [fact |-> f, activation |-> n]
  <1>1. /\ work[w].pc \in Registered /\ work[w].pc \in DrawerWritten /\ drawers' = drawers
        /\ kgrows' = IF OpenRows({f}) = {} THEN kgrows \cup {r} ELSE kgrows
        /\ UNCHANGED <<ledgerVars, content, previewed>> /\ Goto(w, "mark_kg")
    BY DEF PutKg, AddTriple, At, Registered, PastRegister, DrawerWritten, storeOnly
  <1>2. r.fact = f
    OBVIOUS
  <1> HIDE DEF r
  <1>3. \E q \in kgrows' : q.fact = f
    BY <1>1, <1>2 DEF OpenRows
  <1>4. Lasting => Informed(w)'
    <2> SUFFICES ASSUME Lasting PROVE Informed(w)'
      OBVIOUS
    <2>1. ~forgets'[f].present => (\E d \in drawers' : d.fact = f /\ d.activation = n)
      BY <1>1, ToldLasts DEF Told, ProjectionDrawers
    <2> QED
      BY <1>1, <1>3, <2>1, ToldGoto DEF FactsPcs
  <1> QED
    BY <1>1, <1>4, GotoFields, StoreBacking DEF BackedInv, Sources

LEMMA MarksBacking ==
    ASSUME WorkersInv, WorkersInv', BackedInv, NEW w \in Workers, MarkDrawer(w) \/ MarkKg(w)
    PROVE  Backing(w)
  <1> DEFINE f == Body(w).adds
             n == work[w].reg.activation
  <1>1. /\ work[w].pc \in Registered /\ work[w].pc \in AssertPcs /\ UNCHANGED ledgerOnly
        /\ work[w].pc \in DrawerWritten /\ drawers' = drawers
        /\ \/ MarkProjected(f, {"drawer"}) /\ Goto(w, ToKg(w, work[w].reg))
           \/ MarkProjected(f, {"kg"}) /\ Goto(w, AfterKg(w)) /\ At(w, "mark_kg")
    BY DEF MarkDrawer, MarkKg, At, Registered, PastRegister, AssertPcs, DrawerWritten, ledgerOnly,
           storeVars
  <1>2. f \in Facts /\ Told(w) /\ n \in Nat
    BY <1>1, Asserting DEF BackedInv, Informed, Registration
  <1>3. Untouched(f) => /\ ~Later(f) => ProjectionDrawers(f, 1) # {}
                        /\ At(w, "mark_kg") => HasRow(f)
    <2>1. n > 1 \/ n = 1
      BY <1>2 DEF Told
    <2> QED
      BY <1>1, <1>2, <2>1 DEF Told
  <1>4. PICK p : /\ Goto(w, p) /\ p \in {"put_kg", "check_kg", "settle", "finish_reactivation"}
                 /\ p = "finish_reactivation" => work[w].reg.reactivation_pending
    BY <1>1, ToKgNext
  <1>5. Lasting => Informed(w)'
    <2> SUFFICES ASSUME Lasting PROVE Informed(w)'
      OBVIOUS
    <2>1. ~forgets'[f].present => (\E d \in drawers' : d.fact = f /\ d.activation = n)
      BY <1>1, ToldLasts DEF Told, ProjectionDrawers
    <2>2. p \notin FactsPcs /\ p # "relook" /\ p # "mark_kg"
      BY <1>4 DEF FactsPcs
    <2> QED
      BY <1>1, <1>4, <2>1, <2>2, ToldGoto
  <1>6. \A v \in Workers : v # w => work'[v] = work[v]
    BY <1>4, GotoFields
  <1> QED
    BY <1>1, <1>2, <1>3, <1>5, <1>6, MarkBacking

LEMMA LookBacking ==
    ASSUME WorkersInv, BackedInv, NEW w \in Workers, Look(w)
    PROVE  Backing(w)
  <1> DEFINE f == Body(w).adds
             reg == work[w].reg
             n == reg.activation
             projected == Targets \ reg.pending
             asked == projected \cup (IF ~reg.evidence_created \/ reg.evidence_count > 1
                                      THEN reg.pending ELSE {})
             visible == {t \in asked : \/ t = "drawer" /\ ProjectionDrawers(f, n) # {}
                                       \/ t = "kg" /\ OpenRows({f}) # {}}
             missing == projected \ visible
             recovered == visible \cap reg.pending
             pending == (reg.pending \cup missing) \ visible
             q == [reg EXCEPT !.pending = pending]
             r == [work[w] EXCEPT !.reg = q, !.missing = missing, !.recovered = recovered,
                                  !.pc = "relook"]
  <1>1. /\ work[w].pc \in Registered /\ work[w].pc \in AssertPcs /\ work' = [work EXCEPT ![w] = r]
        /\ UNCHANGED <<ledgerVars, content, previewed, storeVars>>
    BY DEF Look, At, Registered, PastRegister, AssertPcs, localOnly, ledgerOnly
  <1>2. work[w] \in Work /\ reg \in Registration
    BY <1>1, Asserting
  <1>3. /\ "drawer" \in recovered => ProjectionDrawers(f, n) # {}
        /\ "kg" \in recovered => HasRow(f)
        /\ "drawer" \notin pending => ProjectionDrawers(f, n) # {}
    BY MessageIds DEF OpenRows, HasRow
  <1> HIDE DEF missing, recovered, pending
  <1>4. q.pending = pending /\ q.activation = n /\ q.reactivation_pending = reg.reactivation_pending
    BY <1>2 DEF Registration
  <1> HIDE DEF q
  <1>5. r.msg = Msg(w) /\ r.reg = q /\ r.recovered = recovered /\ r.pc = "relook"
    BY <1>2 DEF Work, Msg
  <1> HIDE DEF r
  <1>6. work'[w] = r /\ \A v \in Workers : v # w => work'[v] = work[v]
    BY <1>1, WorkerSet
  <1>7. Told(w)
    BY <1>1 DEF BackedInv, Informed
  <1>8. Told(w)'
    <2>1. Body(w)' = Body(w) /\ Msg(w)' = Msg(w)
      BY <1>1, <1>5, <1>6 DEF Body, Msg
    <2>2. UNCHANGED <<asrt, forgets, reactivations, drawers, kgrows>>
      BY <1>1 DEF ledgerVars, storeVars
    <2> QED
      BY <1>3, <1>4, <1>5, <1>6, <1>7, <2>1, <2>2
         DEF Told, Untouched, At, HasRow, Later, ProjectionDrawers, Exists, DrawerWritten
  <1>9. Informed(w)'
    BY <1>5, <1>6, <1>8 DEF Informed, FactsPcs
  <1> QED
    BY <1>1, <1>6, <1>9, LocalBacking

\* The two halves of a command's relook.
LEMMA RelookBacking ==
    ASSUME WorkersInv, WorkersInv', BackedInv, NEW w \in Workers, Relook(w)
    PROVE  Backing(w)
  <1>0. PICK f, n, reg : f = Body(w).adds /\ reg = work[w].reg /\ n = reg.activation
    OBVIOUS
  <1>1. /\ work[w].pc = "relook" /\ work[w].pc \in Registered /\ work[w].pc \in AssertPcs
        /\ UNCHANGED ledgerOnly /\ content' = content /\ previewed' = previewed
        /\ UNCHANGED <<drawers, kgrows>> /\ UNCHANGED storeVars
    BY DEF Relook, At, Registered, PastRegister, AssertPcs, ledgerOnly, storeVars
  <1>2. f \in Facts /\ work[w] \in Work /\ Told(w) /\ n \in Nat /\ reg.activation # 0
    BY <1>0, <1>1, Asserting DEF BackedInv, Informed, Registration, Told
  <1>3. CASE work[w].missing # {}
    <2> DEFINE r == [work[w] EXCEPT !.missing = {}]
    <2>1. MarkProjectionPending(f, work[w].missing) /\ work' = [work EXCEPT ![w] = r]
      BY <1>0, <1>3 DEF Relook
    <2>2. /\ r.pc = "relook" /\ r.msg = Msg(w) /\ r.reg = reg /\ r.recovered = work[w].recovered
      BY <1>0, <1>1, <1>2 DEF Work, Msg
    <2> HIDE DEF r
    <2>3. work'[w] = r /\ \A v \in Workers : v # w => work'[v] = work[v]
      BY <2>1, WorkerSet
    <2>4. ASSUME Lasting
          PROVE  Informed(w)'
      <3>1. /\ Exists(f)' /\ n # 0
            /\ ~forgets'[f].present =>
                  /\ Untouched(f)
                  /\ HasRow(f) => HasRow(f)'
                  /\ n > 1 => Later(f)'
                  /\ reg.reactivation_pending =>
                         /\ reactivations'[Msg(w)].state # "none"
                         /\ reactivations'[Msg(w)].activation_number = n
        BY <1>0, <1>1, <2>4, ToldLasts
      <3>2. Body(w)'.adds = f /\ Msg(w)' = Msg(w)
        BY <1>0, <1>1, <2>2, <2>3 DEF Body, Msg
      <3>3. Told(w)'
        BY <1>0, <1>1, <1>2, <2>2, <2>3, <3>1, <3>2
           DEF Told, Untouched, At, HasRow, ProjectionDrawers, Later, Exists, DrawerWritten
      <3> QED
        BY <2>2, <2>3, <3>3 DEF Informed, FactsPcs
    <2> QED
      BY <1>1, <1>2, <2>1, <2>3, <2>4, ReopenBacking
  <1>4. CASE work[w].missing = {}
    <2> DEFINE R == work[w].recovered
               p == IF "drawer" \in reg.pending THEN "put_drawer" ELSE ToKg(w, reg)
               r == [work[w] EXCEPT !.recovered = {}, !.pc = p]
    <2>1. /\ IF R # {} THEN MarkProjected(f, R) ELSE UNCHANGED ledgerVars
          /\ work' = [work EXCEPT ![w] = r]
      BY <1>0, <1>4 DEF Relook
    <2>2. /\ p \in {"put_drawer", "put_kg", "check_kg", "settle", "finish_reactivation"}
          /\ p = "finish_reactivation" => reg.reactivation_pending
          /\ p # "put_drawer" => "drawer" \notin reg.pending
      BY ToKgNext
    <2> HIDE DEF p
    <2>3. r.pc = p /\ r.msg = Msg(w) /\ r.reg = reg
      BY <1>0, <1>2 DEF Work, Msg
    <2> HIDE DEF r
    <2>4. work'[w] = r /\ \A v \in Workers : v # w => work'[v] = work[v]
      BY <2>1, WorkerSet
    <2>5. Untouched(f) => /\ n > 1 => Later(f)
                          /\ "drawer" \in R => ProjectionDrawers(f, n) # {}
                          /\ "kg" \in R => HasRow(f)
                          /\ "drawer" \notin reg.pending => ProjectionDrawers(f, n) # {}
      BY <1>0, <1>1, <1>2 DEF Told, At
    <2>6. ASSUME Lasting
          PROVE  Informed(w)'
      <3>1. /\ Exists(f)' /\ n # 0
            /\ ~forgets'[f].present =>
                  /\ Untouched(f)
                  /\ n > 1 => Later(f)'
                  /\ reg.reactivation_pending =>
                         /\ reactivations'[Msg(w)].state # "none"
                         /\ reactivations'[Msg(w)].activation_number = n
        BY <1>0, <1>1, <2>6, ToldLasts
      <3>2. Body(w)'.adds = f /\ Msg(w)' = Msg(w)
        BY <1>0, <1>1, <2>3, <2>4 DEF Body, Msg
      <3>3. ~forgets'[f].present /\ p # "put_drawer" => ProjectionDrawers(f, n) # {}
        BY <2>2, <2>5, <3>1
      <3>4. p # "mark_kg" /\ p # "relook" /\ p \notin FactsPcs /\ "put_drawer" \notin DrawerWritten
        BY <2>2 DEF FactsPcs, DrawerWritten
      <3>5. Told(w)'
        BY <1>0, <1>1, <1>2, <2>2, <2>3, <2>4, <3>1, <3>2, <3>3, <3>4
           DEF Told, Untouched, At, HasRow, ProjectionDrawers, Later, Exists
      <3> QED
        BY <2>3, <2>4, <3>4, <3>5 DEF Informed
    <2>7. CASE R # {}
      <3>1. "drawer" \in R /\ Untouched(f) /\ ~Later(f) => ProjectionDrawers(f, 1) # {}
        <4>1. n > 1 \/ n = 1
          BY <1>0, <1>2
        <4> QED
          BY <2>5, <4>1
      <3> QED
        BY <1>1, <1>2, <2>1, <2>4, <2>5, <2>6, <2>7, <3>1, MarkBacking
    <2>8. CASE R = {}
      BY <1>1, <2>1, <2>4, <2>6, <2>8, LocalBacking
    <2> QED
      BY <2>7, <2>8
  <1> QED
    BY <1>3, <1>4

\* The new life of a fact begins with the drawer its reactivation wrote.
LEMMA FinishReactivationBacking ==
    ASSUME WorkersInv, WorkersInv', BackedInv, NEW w \in Workers, FinishReactivation(w)
    PROVE  Backing(w)
  <1> DEFINE f == Body(w).adds
             n == work[w].reg.activation
  <1>1. /\ work[w].pc \in Registered /\ work[w].pc \in AssertPcs /\ At(w, "finish_reactivation")
        /\ work[w].pc \in DrawerWritten /\ UNCHANGED ledgerOnly
        /\ content' = content /\ previewed' = previewed
        /\ UNCHANGED <<drawers, kgrows>> /\ UNCHANGED storeVars
    BY DEF FinishReactivation, At, Registered, PastRegister, AssertPcs, DrawerWritten, ledgerOnly,
           storeVars
  <1>2. f \in Facts /\ Told(w) /\ Msg(w) \in Msgs /\ Msg(w) \in Intents
    BY <1>1, Asserting DEF BackedInv, Informed
  <1>3. ASSUME Raise(w), UNCHANGED ledgerVars
        PROVE  Backing(w)
    <2>1. work'[w].pc \notin Registered \cup FactsPcs /\ \A v \in Workers : v # w => work'[v] = work[v]
      <3>1. work'[w].pc = "settle" \/ work'[w].pc = AfterEnd(w)
        BY <1>3, RaiseFields
      <3>2. AfterEnd(w) \in {"settle", "read_fact", "register", "reactivate"}
        BY <1>1, AfterEndAsked, Asserting
      <3> QED
        BY <1>3, <3>1, <3>2, RaiseFields DEF Registered, PastRegister, FactsPcs
    <2> QED
      BY <1>1, <1>3, <2>1, Uninformed, LocalBacking
  <1>4. ASSUME MarkReactivated(Msg(w), Targets), Goto(w, "settle")
        PROVE  Backing(w)
    <2>1. /\ Known' /\ Grows
          /\ \A g \in Facts : asrt'[g].proj = asrt[g].proj
          /\ \A g \in Facts :
                  \/ asrt'[g].activation_count = asrt[g].activation_count
                  \/ /\ g = reactivations[Msg(w)].fact
                     /\ asrt'[g].activation_count = reactivations[Msg(w)].activation_number
          /\ \A j \in Intents : reactivations'[j].state # "none" => reactivations[j].state # "none"
          /\ \A j \in Intents : reactivations'[j].fact = reactivations[j].fact
      BY <1>2, <1>4, MarkReactivatedKnown DEF WorkersInv, BackedInv
    <2>2. reactivations[Msg(w)].fact = f
      BY <1>2, <1>4 DEF MarkReactivated, MarkReactivatedRaises, BackedInv, Sources, Body
    <2>3. Lasting
      BY <1>1, <2>1 DEF Lasting
    <2>4. ASSUME NEW g \in Facts, Untouched(g)'
          PROVE  /\ asrt'[g].proj["kg"] = "projected" => HasRow(g)'
                 /\ ~Later(g)' /\ asrt'[g].proj["drawer"] = "projected"
                    => ProjectionDrawers(g, 1)' # {}
                 /\ asrt'[g].activation_count > 1
                    => {d \in drawers : d.fact = g /\ d.activation = asrt'[g].activation_count} # {}
      <3>1. /\ Untouched(g) /\ (Later(g) => Later(g)') /\ (HasRow(g) => HasRow(g)')
            /\ ProjectionDrawers(g, 1)' = ProjectionDrawers(g, 1)
        BY <1>1, <2>3, <2>4, LastingFact DEF Untouched, ProjectionDrawers
      <3>2. CASE asrt'[g].activation_count = asrt[g].activation_count
        BY <2>1, <3>1, <3>2 DEF BackedInv, Backed, ProjectionDrawers
      <3>3. CASE asrt'[g].activation_count # asrt[g].activation_count
        <4>1. g = f /\ asrt'[g].activation_count = n
          BY <1>1, <1>2, <2>1, <2>2, <3>1, <3>3 DEF Told
        <4>2. ProjectionDrawers(g, n) # {}
          BY <1>1, <1>2, <3>1, <4>1 DEF Told
        <4> QED
          BY <2>1, <3>1, <4>1, <4>2 DEF BackedInv, Backed, ProjectionDrawers
      <3> QED
        BY <3>2, <3>3
    <2>5. Backed'
      BY <1>1, <2>4 DEF Backed, ProjectionDrawers
    <2>6. Sources'
      <3>1. \A d \in drawers' : Exists(d.fact)'
        BY <1>1, <2>1 DEF BackedInv, Sources, Grows, WorkersInv, StoresOK, Drawer
      <3>2. \A m \in Msgs : reactivations'[m].state # "none" => reactivations'[m].fact = content[m].adds
        BY <2>1, MessageIds DEF BackedInv, Sources
      <3> QED
        BY <1>1, <2>3, <3>1, <3>2, SourcesStay DEF BackedInv
    <2>7. "settle" \notin Registered \cup FactsPcs
      BY DEF Registered, FactsPcs
    <2> QED
      BY <1>1, <1>4, <2>1, <2>3, <2>5, <2>6, <2>7, GotoFields, Uninformed DEF Backing
  <1> QED
    BY <1>3, <1>4 DEF FinishReactivation

\* What a registration tells the handler is so.
LEMMA RegisteredBacking ==
    ASSUME WorkersInv, WorkersInv', BackedInv, NEW w \in Workers, work[w].pc \in AssertPcs,
           NEW f, f = Body(w).adds, NEW reg,
           work' = [work EXCEPT ![w] = [@ EXCEPT !.reg = reg, !.pc = AfterRegister(w, reg)]],
           Known', Grows, Quiescent, UNCHANGED ledgerOnly, Exists(f)', reg.activation # 0,
           \A m \in Msgs : reactivations'[m].state # "none" => reactivations'[m].fact = content[m].adds,
           ~forgets'[f].present /\ reg.activation > 1 => Later(f)',
           reg.reactivation_pending =>
               /\ reactivations'[Msg(w)].state # "none"
               /\ reactivations'[Msg(w)].activation_number = reg.activation
    PROVE  Backing(w)
  <1> DEFINE p == AfterRegister(w, reg)
             r == [work[w] EXCEPT !.reg = reg, !.pc = p]
  <1>1. work' = [work EXCEPT ![w] = r]
    OBVIOUS
  <1>2. work[w] \in Work /\ UNCHANGED <<content, previewed, storeVars>> /\ content' = content
    BY Asserting DEF ledgerOnly
  <1>3. p \in {"settle", "look", "put_drawer", "check_drawer"}
    BY DEF AfterRegister
  <1> HIDE DEF p
  <1>4. r.pc = p /\ r.msg = Msg(w) /\ r.reg = reg
    BY <1>2 DEF Work, Msg
  <1> HIDE DEF r
  <1>5. work'[w] = r /\ \A v \in Workers : v # w => work'[v] = work[v]
    BY <1>1, WorkerSet
  <1>6. Body(w)'.adds = f /\ Msg(w)' = Msg(w)
    BY <1>2, <1>4, <1>5 DEF Body, Msg
  <1>7. p \notin DrawerWritten /\ p \notin FactsPcs /\ p # "relook" /\ p # "mark_kg"
        /\ p # "finish_reactivation"
    BY <1>3 DEF DrawerWritten, FactsPcs
  <1>8. Told(w)'
    BY <1>4, <1>5, <1>6, <1>7 DEF Told, Untouched, At, Exists, Later
  <1>9. Informed(w)'
    BY <1>4, <1>5, <1>7, <1>8 DEF Informed
  <1> QED
    BY <1>2, <1>5, <1>9, LedgerBacking

\* A call that raises leaves nothing to know.
LEMMA RaiseBacking ==
    ASSUME WorkersInv, BackedInv, NEW w \in Workers, ~At(w, "idle"), Raise(w),
           UNCHANGED <<ledgerVars, content, previewed, storeVars>>
    PROVE  Backing(w)
  <1>1. work'[w].pc = "settle" \/ work'[w].pc = AfterEnd(w)
    BY RaiseFields
  <1>2. AfterEnd(w) \in {"settle", "read_fact", "register", "reactivate"}
    BY AfterEndAsked
  <1>3. work'[w].pc \notin Registered \cup FactsPcs
    BY <1>1, <1>2 DEF Registered, PastRegister, FactsPcs
  <1> QED
    BY <1>3, RaiseFields, Uninformed, LocalBacking

LEMMA RegisterFactBacking ==
    ASSUME WorkersInv, WorkersInv', BackedInv, NEW w \in Workers, RegisterFact(w)
    PROVE  Backing(w)
  <1>0. PICK f, m : f = Body(w).adds /\ m = Msg(w)
    OBVIOUS
  <1>1. work[w].pc \in AssertPcs /\ UNCHANGED ledgerOnly
        /\ UNCHANGED <<content, previewed, storeVars>>
    BY DEF RegisterFact, At, AssertPcs, ledgerOnly
  <1>2. f \in Facts /\ m \in Intents /\ ~At(w, "idle") /\ LedgerInv /\ LedgerInv' /\ Known
    BY <1>0, <1>1, Asserting DEF WorkersInv, BackedInv
  <1>3. CASE RegisterRaises(m, f)
    <2>1. Raise(w) /\ UNCHANGED ledgerVars
      BY <1>0, <1>3 DEF RegisterFact
    <2> QED
      BY <1>1, <1>2, <2>1, RaiseBacking
  <1>4. CASE ~RegisterRaises(m, f)
    <2> DEFINE reg == RegisterResult(m, f, Targets)
    <2>1. /\ Register(m, f, Targets)
          /\ work' = [work EXCEPT ![w] = [@ EXCEPT !.reg = reg, !.pc = AfterRegister(w, reg)]]
      BY <1>0, <1>4 DEF RegisterFact
    <2>2. Known' /\ Grows /\ Quiescent /\ Exists(f)'
      BY <1>2, <2>1, RegisterKnown
    <2>3. reg.activation = asrt[f].activation_count /\ ~reg.reactivation_pending
      BY DEF RegisterResult
    <2> HIDE DEF reg
    <2>4. asrt[f].activation_count \in Nat \ {0}
      BY <1>2 DEF LedgerInv, LedgerTypeOK, AssertionRow
    <2>5. reactivations' = reactivations /\ forgets' = forgets
      BY <2>1 DEF Register
    <2>6. ASSUME ~forgets'[f].present, reg.activation > 1
          PROVE  Later(f)'
      <3>1. ~forgets[f].hard
        BY <1>2, <2>5, <2>6 DEF Known
      <3>2. PICK i \in Intents : reactivations[i].fact = f /\ reactivations[i].state = "applied"
        BY <1>2, <2>3, <2>6, <3>1 DEF LedgerInv, ActivationAccounted
      <3> QED
        BY <2>5, <3>2 DEF Later
    <2>7. \A n \in Msgs : reactivations'[n].state # "none" => reactivations'[n].fact = content[n].adds
      BY <2>5 DEF BackedInv, Sources
    <2>8. reg.activation # 0
      BY <2>3, <2>4
    <2> QED
      BY <1>0, <1>1, <2>1, <2>2, <2>3, <2>6, <2>7, <2>8, RegisteredBacking
  <1> QED
    BY <1>3, <1>4

LEMMA ReactivateFactBacking ==
    ASSUME WorkersInv, WorkersInv', BackedInv, NEW w \in Workers, ReactivateFact(w)
    PROVE  Backing(w)
  <1>0. PICK f, m : f = Body(w).adds /\ m = Msg(w)
    OBVIOUS
  <1>1. work[w].pc \in AssertPcs /\ UNCHANGED ledgerOnly
        /\ UNCHANGED <<content, previewed, storeVars>>
    BY DEF ReactivateFact, At, AssertPcs, ledgerOnly
  <1>2. f \in Facts /\ m \in Intents /\ ~At(w, "idle") /\ LedgerInv /\ LedgerInv' /\ Known
    BY <1>0, <1>1, Asserting DEF WorkersInv, BackedInv
  <1>3. CASE RegisterReactivationRaises(m, f)
    <2>1. Raise(w) /\ UNCHANGED ledgerVars
      BY <1>0, <1>3 DEF ReactivateFact
    <2> QED
      BY <1>1, <1>2, <2>1, RaiseBacking
  <1>4. CASE ~RegisterReactivationRaises(m, f)
    <2> DEFINE reg == RegisterReactivationResult(m, f, Targets)
               n == IF reactivations[m].state = "none" THEN asrt[f].activation_count + 1
                    ELSE reactivations[m].activation_number
    <2>1. /\ RegisterReactivation(m, f, Targets)
          /\ work' = [work EXCEPT ![w] = [@ EXCEPT !.reg = reg, !.pc = AfterRegister(w, reg)]]
      BY <1>0, <1>4 DEF ReactivateFact
    <2>2. /\ Known' /\ Grows /\ Quiescent /\ Exists(f)'
          /\ reactivations'[m].state # "none" /\ reactivations'[m].fact = f
          /\ reactivations'[m].activation_number = n
          /\ \A j \in Intents : j # m => reactivations'[j] = reactivations[j]
      BY <1>2, <2>1, RegisterReactivationKnown
    <2>3. reg.activation = n
      BY DEF RegisterReactivationResult
    <2> HIDE DEF reg
    <2>4. asrt[f].activation_count \in Nat \ {0}
      BY <1>2 DEF LedgerInv, LedgerTypeOK, AssertionRow
    <2>5. reactivations[m].state # "none" =>
              reactivations[m].activation_number > 1 /\ reactivations[m].activation_number \in Nat
      BY <1>2 DEF LedgerInv, LedgerTypeOK, ReactivationRecorded, ReactivationRow
    <2>6. reg.activation # 0
      BY <2>3, <2>4, <2>5
    <2> HIDE DEF n
    <2>7. Later(f)'
      BY <1>2, <2>2 DEF Later
    <2>8. \A k \in Msgs : reactivations'[k].state # "none" => reactivations'[k].fact = content[k].adds
      BY <1>0, <2>2, MessageIds DEF BackedInv, Sources, Body
    <2> QED
      BY <1>0, <1>1, <2>1, <2>2, <2>3, <2>6, <2>7, <2>8, RegisteredBacking
  <1> QED
    BY <1>3, <1>4

\* Reading, and choosing what to supersede, tells nothing that lasts.
LEMMA ChooseBacking ==
    ASSUME WorkersInv, BackedInv, NEW w \in Workers, ReadFact(w) \/ Supersede(w)
    PROVE  Backing(w)
  <1>1. work[w].pc \in AssertPcs /\ UNCHANGED <<ledgerVars, content, previewed, storeVars>>
    BY DEF ReadFact, Supersede, At, AssertPcs, localOnly, ledgerOnly
  <1>2. work[w] \in Work /\ ~At(w, "idle") /\ work[w].plan \in {"register", "reactivate"}
    BY <1>1, Asserting DEF Work
  <1> DEFINE quiet == {"register", "reactivate", "supersede", "reject", "end_register"}
  <1>3. quiet \cap (Registered \cup FactsPcs) = {}
    BY DEF Registered, PastRegister, FactsPcs
  <1>4. ASSUME NEW p \in quiet, NEW r, r.pc = p, work' = [work EXCEPT ![w] = r]
        PROVE  Backing(w)
    <2>1. work'[w].pc = p /\ \A v \in Workers : v # w => work'[v] = work[v]
      BY <1>4, WorkerSet
    <2> QED
      BY <1>1, <1>3, <2>1, Uninformed, LocalBacking
  <1>5. CASE ReadFact(w)
    <2>1. PICK plan, p :
              /\ p \in quiet
              /\ work' = [work EXCEPT ![w] = [@ EXCEPT !.plan = plan, !.pc = p]]
      BY <1>5 DEF ReadFact
    <2> DEFINE r == [work[w] EXCEPT !.plan = plan, !.pc = p]
    <2>2. r.pc = p
      BY <1>2 DEF Work
    <2> QED
      BY <1>4, <2>1, <2>2
  <1>6. CASE Supersede(w)
    <2>1. \/ \E p \in quiet : Goto(w, p)
          \/ \E old : work' = [work EXCEPT ![w] = [@ EXCEPT !.fact = old, !.pc = "end_register"]]
      BY <1>2, <1>6 DEF Supersede, Reject
    <2>2. ASSUME NEW p \in quiet, Goto(w, p)
          PROVE  Backing(w)
      <3> DEFINE r == [work[w] EXCEPT !.pc = p]
      <3>1. r.pc = p /\ work' = [work EXCEPT ![w] = r]
        BY <1>2, <2>2 DEF Work, Goto
      <3> QED
        BY <1>4, <3>1
    <2>3. ASSUME NEW old, work' = [work EXCEPT ![w] = [@ EXCEPT !.fact = old, !.pc = "end_register"]]
          PROVE  Backing(w)
      <3> DEFINE r == [work[w] EXCEPT !.fact = old, !.pc = "end_register"]
      <3>1. r.pc = "end_register" /\ work' = [work EXCEPT ![w] = r]
        BY <1>2, <2>3 DEF Work
      <3> QED
        BY <1>4, <3>1
    <2> QED
      BY <2>1, <2>2, <2>3
  <1> QED
    BY <1>5, <1>6

LEMMA AssertStepsBacking ==
    ASSUME WorkersInv, WorkersInv', BackedInv, NEW w \in Workers, AssertSteps(w)
    PROVE  Backing(w)
  BY ChooseBacking, RegisterFactBacking, ReactivateFactBacking, CheckDrawerBacking,
     CheckKgBacking,
     ReopensBacking, LookBacking, RelookBacking, PutDrawerBacking, PutKgBacking, MarksBacking,
     FinishReactivationBacking DEF AssertSteps

----------------------------------------------------------------------------
(* Projected marks are backed: ending and forgetting facts.                 *)

\* A handler that ends a fact knows nothing of the one it may assert later.
LEMMA EndStepsGo ==
    ASSUME WorkersInv, NEW w \in Workers, EndSteps(w)
    PROVE  /\ work[w].pc \in Ending /\ ~At(w, "idle")
           /\ work'[w].pc \notin Registered \cup FactsPcs
           /\ \A v \in Workers : v # w => work'[v] = work[v]
  <1>1. work[w].pc \in Ending
    BY DEF EndSteps, EndRegister, EndFind, EndArchive, EndKg, EndMark, At, Ending
  <1>2. ~At(w, "idle") /\ work[w] \in Work
    BY <1>1, EndHeld, Holding
  <1> DEFINE quiet == Ending \cup {"reject", "settle", "read_fact", "register", "reactivate"}
  <1>3. quiet \cap (Registered \cup FactsPcs) = {} /\ AfterEnd(w) \in quiet
    BY <1>2, AfterEndAsked DEF Registered, PastRegister, FactsPcs, Ending
  <1>4. ASSUME NEW p \in quiet, NEW r, r.pc = p, work' = [work EXCEPT ![w] = r]
        PROVE  work'[w].pc \in quiet /\ \A v \in Workers : v # w => work'[v] = work[v]
    BY <1>4, WorkerSet
  <1>5. ASSUME Raise(w)
        PROVE  work'[w].pc \in quiet /\ \A v \in Workers : v # w => work'[v] = work[v]
    BY <1>3, <1>5, RaiseFields
  <1>6. ASSUME NEW p \in quiet, Goto(w, p)
        PROVE  work'[w].pc \in quiet /\ \A v \in Workers : v # w => work'[v] = work[v]
    BY <1>6, GotoFields
  <1>7. CASE EndRegister(w)
    <2>1. \/ Raise(w) \/ Goto(w, AfterEnd(w))
          \/ \E f, b, q : work' = [work EXCEPT ![w] = [@ EXCEPT
                 !.pc = "end_find", !.fact = f, !.matched = b, !.reg = q]]
      BY <1>7 DEF EndRegister
    <2>2. ASSUME NEW f, NEW b, NEW q,
                 work' = [work EXCEPT ![w] = [@ EXCEPT
                     !.pc = "end_find", !.fact = f, !.matched = b, !.reg = q]]
          PROVE  work'[w].pc \in quiet /\ \A v \in Workers : v # w => work'[v] = work[v]
      <3> DEFINE r == [work[w] EXCEPT !.pc = "end_find", !.fact = f, !.matched = b, !.reg = q]
      <3>1. r.pc = "end_find" /\ work' = [work EXCEPT ![w] = r]
        BY <1>2, <2>2 DEF Work
      <3>2. "end_find" \in quiet
        BY DEF Ending
      <3> HIDE DEF r
      <3> QED
        BY <1>4, <3>1, <3>2
    <2> QED
      BY <1>1, <1>2, <1>3, <1>5, <1>6, <2>1, <2>2
  <1>8. CASE EndFind(w)
    <2>1. \/ Goto(w, "end_kg")
          \/ \E s : \E p \in {"end_kg", "end_archive"} :
                 work' = [work EXCEPT ![w] = [@ EXCEPT !.pc = p, !.seen = s]]
      BY <1>8 DEF EndFind
    <2>2. ASSUME NEW p \in {"end_kg", "end_archive"}, NEW s,
                 work' = [work EXCEPT ![w] = [@ EXCEPT !.pc = p, !.seen = s]]
          PROVE  work'[w].pc \in quiet /\ \A v \in Workers : v # w => work'[v] = work[v]
      <3> DEFINE r == [work[w] EXCEPT !.pc = p, !.seen = s]
      <3>1. r.pc = p /\ work' = [work EXCEPT ![w] = r]
        BY <1>2, <2>2 DEF Work
      <3>2. p \in quiet
        BY DEF Ending
      <3> HIDE DEF r
      <3> QED
        BY <1>4, <3>1, <3>2
    <2> QED
      BY <1>1, <1>2, <1>3, <1>6, <2>1, <2>2 DEF Ending
  <1>9. CASE EndArchive(w) \/ EndKg(w)
    <2>1. \/ Raise(w) \/ Goto(w, "end_kg") \/ Goto(w, "end_mark") \/ Goto(w, AfterEnd(w))
          \/ Goto(w, "reject")
      BY <1>9 DEF EndArchive, EndKg, Reject
    <2> QED
      BY <1>1, <1>2, <1>3, <1>5, <1>6, <2>1 DEF Ending
  <1>10. CASE EndMark(w)
    <2>1. \/ Raise(w)
          \/ work' = [work EXCEPT ![w] = [@ EXCEPT !.pc = AfterEnd(w), !.fact = NoFact,
                          !.matched = FALSE, !.seen = {}, !.reg = NoReg]]
      BY <1>10 DEF EndMark
    <2>2. ASSUME work' = [work EXCEPT ![w] = [@ EXCEPT !.pc = AfterEnd(w), !.fact = NoFact,
                              !.matched = FALSE, !.seen = {}, !.reg = NoReg]]
          PROVE  work'[w].pc \in quiet /\ \A v \in Workers : v # w => work'[v] = work[v]
      <3> DEFINE p == AfterEnd(w)
                 r == [work[w] EXCEPT !.pc = p, !.fact = NoFact, !.matched = FALSE, !.seen = {},
                                      !.reg = NoReg]
      <3>1. r.pc = p /\ work' = [work EXCEPT ![w] = r]
        BY <1>2, <2>2 DEF Work
      <3>2. p \in quiet
        BY <1>3
      <3> HIDE DEF r, p
      <3> QED
        BY <1>4, <3>1, <3>2
    <2> QED
      BY <1>1, <1>2, <1>3, <1>5, <2>1, <2>2
  <1> QED
    BY <1>1, <1>2, <1>3, <1>7, <1>8, <1>9, <1>10 DEF EndSteps

\* Ending a fact takes no mark's backing away: it closes rows and archives
\* drawers, and removes neither.
LEMMA EndStepsBacking ==
    ASSUME WorkersInv, WorkersInv', BackedInv, NEW w \in Workers, EndSteps(w)
    PROVE  Backing(w)
  <1>1. /\ work[w].pc \in Ending /\ Informed(w)'
        /\ \A v \in Workers : v # w => work'[v] = work[v]
    BY EndStepsGo, Uninformed
  <1>2. /\ EndFact(w) \in Facts /\ EndId(w) \in Corrections /\ EndResult(w) \in EndedState
        /\ LedgerInv /\ LedgerInv' /\ Known
    BY <1>1, EndHeld DEF WorkersInv, BackedInv
  <1>3. CASE EndRegister(w) \/ EndMark(w)
    <2>1. /\ UNCHANGED <<content, previewed, storeVars>>
          /\ \/ UNCHANGED ledgerVars
             \/ RegisterInvalidation(EndId(w), EndFact(w), EndResult(w))
             \/ MarkInvalidated(EndId(w))
      BY <1>3 DEF EndRegister, EndMark, ledgerOnly
    <2>2. ASSUME NEW i \in Corrections, NEW f \in Facts, NEW r \in EndedState,
                 RegisterInvalidation(i, f, r) \/ MarkInvalidated(i)
          PROVE  Backing(w)
      <3>1. Known' /\ Grows /\ Quiescent
        BY <1>2, <2>2, RegisterInvalidationKnown, MarkInvalidatedKnown
      <3>2. reactivations' = reactivations
        BY <2>2 DEF RegisterInvalidation, MarkInvalidated
      <3> QED
        BY <1>1, <2>1, <3>1, <3>2, LedgerBacking DEF BackedInv, Sources
    <2> QED
      BY <1>1, <1>2, <2>1, <2>2, LocalBacking
  <1>4. CASE EndFind(w)
    <2>1. UNCHANGED <<ledgerVars, content, previewed, storeVars>>
      BY <1>4 DEF EndFind, localOnly, ledgerOnly
    <2> QED
      BY <1>1, <2>1, LocalBacking
  <1>5. CASE EndArchive(w) \/ EndKg(w)
    <2>1. UNCHANGED <<ledgerVars, content, previewed>> /\ drawers' = drawers /\ kgrows' = kgrows
      BY <1>5 DEF EndArchive, EndKg, ArchiveDrawers, InvalidateTriple, storeOnly
    <2> QED
      BY <1>1, <2>1, StoreBacking DEF BackedInv, Sources
  <1> QED
    BY <1>3, <1>4, <1>5 DEF EndSteps

\* A handler that forgets goes on with what it knows.
LEMMA ErasingGoto ==
    ASSUME WorkersInv, BackedInv, Lasting, NEW w \in Workers, work[w].pc \in FactsPcs,
           work'[w].facts = work[w].facts, work'[w].seen = work[w].seen, work'[w].msg = Msg(w),
           work'[w].pc \in Begun, work[w].pc # "forget_scan",
           work[w].pc \in Begun \/ \A f \in work[w].facts : forgets'[f].present
    PROVE  Informed(w)'
  <1>1. /\ Erasing(w) /\ work[w].facts \subseteq Facts /\ work[w].seen \subseteq Drawer
        /\ \A d \in Drawer : d.fact \in Facts
    BY Forgetting DEF BackedInv, Informed, Drawer
  <1>2. \A f \in Facts : /\ Exists(f) => Exists(f)'
                         /\ ~Untouched(f) => ~Untouched(f)'
    BY DEF Lasting, Grows, Untouched
  <1>3. ~At(w, "forget_scan") /\ ~At(w, "forget_scan")' /\ work'[w].pc \notin Registered
    BY DEF At, Begun, Registered, PastRegister
  <1>4. \A f \in work[w].facts : ~Untouched(f)'
    BY <1>1, <1>2 DEF Erasing, Untouched
  <1>5. Erasing(w)'
    <2>1. \A d \in work[w].seen : d.fact \in work[w].facts \/ ~Untouched(d.fact)'
      BY <1>1, <1>2, <1>3 DEF Erasing
    <2>2. \A f \in work[w].facts : Exists(f)'
      BY <1>1, <1>2 DEF Erasing
    <2> QED
      BY <1>3, <1>4, <2>1, <2>2 DEF Erasing, Exists, Untouched
  <1> QED
    BY <1>3, <1>5 DEF Informed

\* What is to be forgotten are assertions the ledger has, and every drawer of
\* the preview belongs to one of them or to one forgotten before.
LEMMA ForgetResolveBacking ==
    ASSUME WorkersInv, BackedInv, NEW w \in Workers, ForgetResolve(w)
    PROVE  Backing(w)
  <1>1. /\ UNCHANGED <<ledgerVars, content, previewed, storeVars>> /\ ~At(w, "idle")
        /\ Sources /\ Known
    BY DEF ForgetResolve, At, localOnly, ledgerOnly, BackedInv
  <1>2. /\ work[w] \in Work /\ Msg(w) \in Msgs /\ Body(w) \in Content
        /\ Body(w).kind \in {"forget_drawers", "forget_source"}
    BY <1>1, Holding DEF ForgetResolve, At, Asks, ForgetPcs
  <1>3. ASSUME Raise(w)
        PROVE  Backing(w)
    BY <1>1, <1>3, RaiseBacking
  <1>4. ASSUME Goto(w, "forget_source")
        PROVE  Backing(w)
    <2>1. "forget_source" \notin Registered \cup FactsPcs
      BY DEF Registered, PastRegister, FactsPcs
    <2> QED
      BY <1>1, <1>4, <2>1, GotoFields, Uninformed, LocalBacking
  <1>5. ASSUME work' = [work EXCEPT ![w] = [@ EXCEPT !.facts = Resolved(w), !.pc = "forget_scan"]]
        PROVE  Backing(w)
    <2> DEFINE F == Resolved(w)
               r == [work[w] EXCEPT !.facts = F, !.pc = "forget_scan"]
    <2>1. F \subseteq Facts /\ \A f \in F : Exists(f)
      <3>1. CASE Body(w).kind = "forget_drawers"
        BY <1>1, <3>1 DEF Resolved, Sources, WorkersInv, StoresOK, Drawer
      <3>2. CASE Body(w).kind = "forget_source"
        <4>1. Body(w).source \in Msgs
          BY <1>2, <3>2 DEF Content
        <4>2. \A f \in Facts : Body(w).source \in Intents /\ <<Body(w).source, f>> \in Corrections
          BY <4>1, MessageIds
        <4> QED
          BY <1>1, <3>2, <4>2, NoFactAssumption DEF Resolved, Known
      <3> QED
        BY <1>2, <3>1, <3>2
    <2>2. \A d \in previewed[Msg(w)] : d.fact \in F \/ ~Untouched(d.fact)
      <3>1. CASE Body(w).kind = "forget_drawers"
        BY <1>1, <1>2, <3>1 DEF Resolved, Sources
      <3>2. CASE Body(w).kind = "forget_source"
        BY <1>1, <1>2, <3>2 DEF Sources, Body
      <3> QED
        BY <1>2, <3>1, <3>2
    <2>3. work' = [work EXCEPT ![w] = r]
      BY <1>5
    <2> HIDE DEF F
    <2>4. r.facts = F /\ r.pc = "forget_scan" /\ r.msg = Msg(w)
      BY <1>2 DEF Work, Msg
    <2> HIDE DEF r
    <2>5. work'[w] = r /\ \A v \in Workers : v # w => work'[v] = work[v]
      BY <2>3, WorkerSet
    <2>6. "forget_scan" \notin Registered \cup Begun
      BY DEF Registered, PastRegister, Begun
    <2>7. asrt' = asrt /\ forgets' = forgets /\ previewed' = previewed
      BY <1>1 DEF ledgerVars
    <2>8. Erasing(w)'
      BY <2>1, <2>2, <2>4, <2>5, <2>6, <2>7 DEF Erasing, At, Msg, Exists, Untouched
    <2>9. Informed(w)'
      BY <2>4, <2>5, <2>6, <2>8 DEF Informed
    <2> QED
      BY <1>1, <2>5, <2>9, LocalBacking
  <1> QED
    BY <1>3, <1>4, <1>5 DEF ForgetResolve

LEMMA ForgetScanBacking ==
    ASSUME WorkersInv, BackedInv, NEW w \in Workers, ForgetScan(w)
    PROVE  Backing(w)
  <1> DEFINE D == DrawersOf(work[w].facts) \cup previewed[Msg(w)]
             r == [work[w] EXCEPT !.seen = D, !.pc = "forget_begin"]
  <1>1. /\ UNCHANGED <<ledgerVars, content, previewed, storeVars>> /\ work' = [work EXCEPT ![w] = r]
        /\ work[w].pc \in FactsPcs /\ At(w, "forget_scan")
    BY DEF ForgetScan, At, localOnly, ledgerOnly, FactsPcs
  <1>2. work[w] \in Work /\ Msg(w) \in Msgs /\ Erasing(w)
    BY <1>1, Forgetting DEF BackedInv, Informed
  <1>3. \A d \in D : d.fact \in work[w].facts \/ ~Untouched(d.fact)
    BY <1>1, <1>2 DEF Erasing, DrawersOf
  <1> HIDE DEF D
  <1>4. r.facts = work[w].facts /\ r.seen = D /\ r.pc = "forget_begin" /\ r.msg = Msg(w)
    BY <1>2 DEF Work, Msg
  <1> HIDE DEF r
  <1>5. work'[w] = r /\ \A v \in Workers : v # w => work'[v] = work[v]
    BY <1>1, WorkerSet
  <1>6. "forget_begin" \notin Registered \cup Begun
    BY DEF Registered, PastRegister, Begun
  <1>7. asrt' = asrt /\ forgets' = forgets
    BY <1>1 DEF ledgerVars
  <1>8. Erasing(w)'
    BY <1>2, <1>3, <1>4, <1>5, <1>6, <1>7 DEF Erasing, At, Exists, Untouched
  <1>9. Informed(w)'
    BY <1>4, <1>5, <1>6, <1>8 DEF Informed
  <1> QED
    BY <1>1, <1>5, <1>9, LocalBacking

LEMMA ForgetBeginBacking ==
    ASSUME WorkersInv, WorkersInv', BackedInv, NEW w \in Workers, ForgetBegin(w)
    PROVE  Backing(w)
  <1> DEFINE E == IF Body(w).hard THEN {EventOf(i) : i \in SourceIntents(work[w].facts)} ELSE {}
             p == IF Body(w).hard THEN "forget_redact" ELSE "forget_kg"
             r == [work[w] EXCEPT !.events = E, !.pc = p]
  <1>1. /\ UNCHANGED <<content, previewed, storeVars>> /\ work' = [work EXCEPT ![w] = r]
        /\ work[w].pc \in FactsPcs /\ At(w, "forget_begin")
        /\ BeginForget(work[w].facts, Body(w).hard, Targets)
    BY DEF ForgetBegin, At, ledgerOnly, FactsPcs
  <1>2. /\ work[w] \in Work /\ work[w].facts \in SUBSET Facts /\ Body(w).hard \in BOOLEAN
        /\ Erasing(w) /\ LedgerInv /\ LedgerInv' /\ Known
    BY <1>1, Forgetting DEF BackedInv, Informed, WorkersInv
  <1>3. PICK F, hard : F = work[w].facts /\ hard = Body(w).hard
    OBVIOUS
  <1>4. /\ Known' /\ Grows /\ Quiescent /\ reactivations' = reactivations
        /\ \A f \in F : Exists(f) => forgets'[f].present
    BY <1>1, <1>2, <1>3, BeginForgetKnown
  <1>5. p \in Begun
    BY DEF Begun
  <1> HIDE DEF E, p
  <1>6. r.facts = work[w].facts /\ r.seen = work[w].seen /\ r.pc = p /\ r.msg = Msg(w)
    BY <1>2 DEF Work, Msg
  <1> HIDE DEF r
  <1>7. work'[w] = r /\ \A v \in Workers : v # w => work'[v] = work[v]
    BY <1>1, WorkerSet
  <1>8. \A f \in work[w].facts : forgets'[f].present
    BY <1>2, <1>3, <1>4 DEF Erasing
  <1>9. Lasting => Informed(w)'
    BY <1>1, <1>5, <1>6, <1>7, <1>8, ErasingGoto DEF At
  <1> QED
    BY <1>1, <1>4, <1>7, <1>9, LedgerBacking DEF BackedInv, Sources

LEMMA ForgetRedactBacking ==
    ASSUME WorkersInv, BackedInv, NEW w \in Workers, ForgetRedact(w)
    PROVE  Backing(w)
  <1> DEFINE r == [work[w] EXCEPT !.events = {}, !.pc = "forget_scrub"]
  <1>1. /\ UNCHANGED <<ledgerVars, content, previewed, storeVars>> /\ work' = [work EXCEPT ![w] = r]
        /\ work[w].pc \in FactsPcs /\ work[w].pc \in Begun /\ work[w].pc # "forget_scan"
    BY DEF ForgetRedact, At, FactsPcs, Begun
  <1>2. r.facts = work[w].facts /\ r.seen = work[w].seen /\ r.pc = "forget_scrub" /\ r.msg = Msg(w)
    BY <1>1, Forgetting DEF Work, Msg
  <1> HIDE DEF r
  <1>3. work'[w] = r /\ \A v \in Workers : v # w => work'[v] = work[v]
    BY <1>1, WorkerSet
  <1>4. "forget_scrub" \in Begun
    BY DEF Begun
  <1>5. Lasting => Informed(w)'
    BY <1>1, <1>2, <1>3, <1>4, ErasingGoto
  <1> QED
    BY <1>1, <1>3, <1>5, LocalBacking

\* The ledger calls of a forget after its tombstones are written.
LEMMA ForgetMarksBacking ==
    ASSUME WorkersInv, WorkersInv', BackedInv, NEW w \in Workers,
           ForgetScrub(w) \/ ForgetKgMark(w) \/ ForgetDrawerMark(w)
    PROVE  Backing(w)
  <1>1. /\ UNCHANGED <<content, previewed, storeVars>>
        /\ work[w].pc \in FactsPcs /\ work[w].pc \in Begun /\ work[w].pc # "forget_scan"
        /\ \/ ScrubForgottenContent(work[w].facts)
           \/ \E T : MarkForgetProjected(work[w].facts, T)
    BY DEF ForgetScrub, ForgetKgMark, ForgetDrawerMark, At, ledgerOnly, FactsPcs, Begun
  <1>2. PICK p \in {"forget_kg", "forget_drawers", "forget_source", "settle"} : Goto(w, p)
    BY DEF ForgetScrub, ForgetKgMark, ForgetDrawerMark
  <1>3. PICK F : F = work[w].facts
    OBVIOUS
  <1>4. F \in SUBSET Facts /\ LedgerInv /\ LedgerInv' /\ Known
    BY <1>1, <1>3, Forgetting DEF WorkersInv, BackedInv
  <1>5. /\ Known' /\ Grows /\ Quiescent
        /\ \A j \in Intents : reactivations'[j] \in {reactivations[j], NoReactivation}
    BY <1>1, <1>3, <1>4, ScrubKnown, MarkForgetProjectedKnown
  <1>6. \A m \in Msgs : reactivations'[m].state # "none" => reactivations'[m].fact = content[m].adds
    BY <1>5, MessageIds DEF BackedInv, Sources, NoReactivation
  <1>7. ASSUME Lasting
        PROVE  Informed(w)'
    <2>1. CASE p \in Begun
      BY <1>1, <1>2, <1>7, <2>1, GotoFields, ErasingGoto
    <2>2. CASE p \notin Begun
      <3>1. p \notin Registered \cup FactsPcs
        BY <2>2 DEF Begun, Registered, PastRegister, FactsPcs
      <3> QED
        BY <1>2, <3>1, GotoFields, Uninformed
    <2> QED
      BY <2>1, <2>2
  <1> QED
    BY <1>1, <1>2, <1>5, <1>6, <1>7, GotoFields, LedgerBacking

\* What a forget deletes is of facts with a tombstone.
LEMMA ForgetStoresBacking ==
    ASSUME WorkersInv, BackedInv, NEW w \in Workers, ForgetKg(w) \/ ForgetDrawers(w)
    PROVE  Backing(w)
  <1>1. /\ UNCHANGED <<ledgerVars, content, previewed>>
        /\ work[w].pc \in FactsPcs /\ work[w].pc \in Begun /\ ~At(w, "forget_scan")
    BY DEF ForgetKg, ForgetDrawers, At, storeOnly, FactsPcs, Begun
  <1>2. PICK p \in {"forget_kg_mark", "forget_drawer_mark"} : Goto(w, p)
    BY DEF ForgetKg, ForgetDrawers
  <1>3. Erasing(w)
    BY <1>1 DEF BackedInv, Informed
  <1>4. /\ \A f \in work[w].facts : forgets[f].present
        /\ \A d \in work[w].seen : forgets[d.fact].present
    BY <1>1, <1>3 DEF Erasing, Untouched
  <1>5. /\ \A d \in drawers : d \in work[w].seen \/ d \in drawers'
        /\ \A k \in kgrows : k.fact \in work[w].facts \/ k \in kgrows'
        /\ drawers' \subseteq drawers
    BY 
       DEF ForgetKg, ForgetDrawers, ForgetAssertions, InvalidateTriple, ArchiveDrawers,
           DeleteDrawers
  <1>6. Lasting => Informed(w)'
    <2>1. p \in Begun
      BY DEF Begun
    <2> QED
      BY <1>1, <1>2, <2>1, GotoFields, ErasingGoto DEF At
  <1>7. \A d \in drawers' : Exists(d.fact)
    BY <1>5 DEF BackedInv, Sources
  <1> QED
    BY <1>1, <1>2, <1>4, <1>5, <1>6, <1>7, GotoFields, StoreBacking

LEMMA ForgetSourceBacking ==
    ASSUME WorkersInv, BackedInv, NEW w \in Workers, ForgetSource(w)
    PROVE  Backing(w)
  <1>1. UNCHANGED <<ledgerVars, content, previewed, storeVars>> /\ Goto(w, "settle")
    BY DEF ForgetSource
  <1>2. "settle" \notin Registered \cup FactsPcs
    BY DEF Registered, FactsPcs
  <1> QED
    BY <1>1, <1>2, GotoFields, Uninformed, LocalBacking

LEMMA ForgetStepsBacking ==
    ASSUME WorkersInv, WorkersInv', BackedInv, NEW w \in Workers, ForgetSteps(w)
    PROVE  Backing(w)
  BY ForgetResolveBacking, ForgetScanBacking, ForgetBeginBacking, ForgetRedactBacking,
     ForgetMarksBacking, ForgetStoresBacking, ForgetSourceBacking DEF ForgetSteps

----------------------------------------------------------------------------
(* Projected marks are backed: taking, settling, failing, crashing.         *)

\* A worker that starts, or is done with its message, knows nothing.
LEMMA QueueStepsBacking ==
    ASSUME WorkersInv, BackedInv, NEW w \in Workers,
           \/ \E m \in Msgs : Take(w, m)
           \/ Start(w) \/ Settle(w) \/ Ack(w) \/ RejectAck(w) \/ Fail(w)
    PROVE  Backing(w)
  <1>1. UNCHANGED <<ledgerVars, content, previewed, storeVars>>
    BY DEF Take, Start, Settle, Ack, RejectAck, Finish, Fail, localOnly, ledgerOnly
  <1> DEFINE quiet == {"idle", "start", "settle", "ack", "reject", "read_fact", "register",
                       "reactivate", "end_register", "forget_resolve"}
  <1>2. quiet \cap (Registered \cup FactsPcs) = {}
    BY DEF Registered, PastRegister, FactsPcs
  <1>3. ASSUME NEW r, r.pc \in quiet, work' = [work EXCEPT ![w] = r]
        PROVE  Backing(w)
    <2>1. work'[w].pc \in quiet /\ \A v \in Workers : v # w => work'[v] = work[v]
      BY <1>3, WorkerSet
    <2> QED
      BY <1>1, <1>2, <2>1, Uninformed, LocalBacking
  <1>4. ASSUME NEW p \in quiet, Goto(w, p)
        PROVE  Backing(w)
    BY <1>1, <1>2, <1>4, GotoFields, Uninformed, LocalBacking
  <1>5. Idle \in Work /\ Idle.pc = "idle"
    BY IdleFits DEF Idle
  <1>6. ASSUME NEW m \in Msgs, Take(w, m)
        PROVE  Backing(w)
    <2> DEFINE r == [Idle EXCEPT !.pc = "start", !.msg = m]
    <2>1. r.pc = "start" /\ work' = [work EXCEPT ![w] = r]
      BY <1>5, <1>6 DEF Take, Work
    <2>2. r.pc \in quiet
      BY <2>1
    <2> HIDE DEF r, quiet
    <2> QED
      BY <1>3, <2>1, <2>2
  <1>7. CASE Start(w)
    <2>1. ~At(w, "idle")
      BY <1>7 DEF Start, At
    <2>2. AfterEnd(w) \in quiet
      BY <2>1, AfterEndAsked
    <2>3. AfterDecision(w) \in quiet /\ AfterStatus(w) \in quiet
      BY <2>2 DEF AfterDecision, AfterStatus
    <2> QED
      BY <1>4, <1>7, <2>3 DEF Start
  <1>8. CASE Settle(w) \/ Ack(w) \/ RejectAck(w)
    <2>1. Goto(w, "ack") \/ work' = [work EXCEPT ![w] = Idle]
      BY <1>8 DEF Settle, Ack, RejectAck, Finish
    <2> QED
      BY <1>3, <1>4, <1>5, <2>1
  <1>9. CASE Fail(w)
    BY <1>1, <1>9, RaiseBacking DEF Fail, At
  <1> QED
    BY <1>6, <1>7, <1>8, <1>9

\* Steps that leave the ledger and the stores alone, and every worker that
\* goes on where it was.
LEMMA SameBacked ==
    ASSUME WorkersInv, BackedInv, UNCHANGED <<ledgerVars, content, storeVars>>, Sources',
           \A w \in Workers :
               \/ work'[w].pc \notin Registered \cup FactsPcs
               \/ work'[w] = work[w]
                  /\ (work[w].pc \in FactsPcs => previewed'[Msg(w)] = previewed[Msg(w)])
    PROVE  BackedInv'
  <1>1. /\ asrt' = asrt /\ evidence' = evidence /\ forgets' = forgets
        /\ invalidations' = invalidations /\ reactivations' = reactivations
        /\ content' = content /\ drawers' = drawers /\ kgrows' = kgrows
    BY DEF ledgerVars, storeVars
  <1>2. Known'
    BY <1>1 DEF BackedInv, Known, Untouched, Exists, Later
  <1>3. Lasting /\ Quiescent
    BY <1>1 DEF Lasting, Grows, Quiescent, Steady, Exists
  <1>4. ASSUME NEW w \in Workers
        PROVE  Informed(w)'
    BY <1>3, Uninformed, InformedStays DEF BackedInv
  <1> QED
    BY <1>2, <1>3, <1>4, BackedStays DEF BackedInv

\* A preview names drawers that are there.
LEMMA PublishBacked ==
    ASSUME WorkersInv, BackedInv, NEW m \in Msgs, Publish(m)
    PROVE  BackedInv'
  <1> DEFINE ids == DrawersOf({content[m].adds}) \ archived
  <1>1. /\ status[m] = "unsent" /\ content[m].kind = "forget_drawers"
        /\ previewed' = [previewed EXCEPT ![m] = ids]
        /\ UNCHANGED <<ledgerVars, content, storeVars>> /\ work' = work
    BY DEF Publish
  <1>2. ids \subseteq drawers
    BY DEF DrawersOf
  <1> HIDE DEF ids
  <1>3. \A n \in Msgs : previewed'[n] = IF n = m THEN ids ELSE previewed[n]
    BY <1>1 DEF WorkersInv, QueuesOK
  <1>4. /\ asrt' = asrt /\ forgets' = forgets /\ reactivations' = reactivations
        /\ content' = content /\ drawers' = drawers
    BY <1>1 DEF ledgerVars, storeVars
  <1>5. Sources'
    BY <1>1, <1>2, <1>3, <1>4 DEF BackedInv, Sources, Exists, Untouched
  <1>6. ASSUME NEW w \in Workers, work[w].pc \in FactsPcs
        PROVE  previewed'[Msg(w)] = previewed[Msg(w)]
    <2>1. Msg(w) \in Msgs /\ Msg(w) # NoMsg
      BY <1>6, Forgetting, MessageIds
    <2>2. status[Msg(w)] = "held"
      BY <2>1 DEF WorkersInv, Working
    <2> QED
      BY <1>1, <1>3, <2>1, <2>2
  <1> QED
    BY <1>1, <1>5, <1>6, SameBacked

LEMMA CrashBacked ==
    ASSUME WorkersInv, BackedInv, Crash
    PROVE  BackedInv'
  <1>1. /\ UNCHANGED <<ledgerVars, content, storeVars, previewed>>
        /\ work' = [w \in Workers |-> Idle]
    BY DEF Crash
  <1>2. \A w \in Workers : work'[w].pc \notin Registered \cup FactsPcs
    BY <1>1 DEF Idle, Registered, PastRegister, FactsPcs
  <1>3. Sources'
    BY <1>1 DEF BackedInv, Sources, Exists, Untouched, ledgerVars, storeVars
  <1> QED
    BY <1>1, <1>2, <1>3, SameBacked

LEMMA BackedNext == WorkersInv /\ BackedInv /\ [Next]_vars => BackedInv'
  <1> SUFFICES ASSUME WorkersInv, BackedInv, [Next]_vars
               PROVE  BackedInv'
    OBVIOUS
  <1>1. WorkersInv'
    BY WorkersNext
  <1>2. ASSUME NEW w \in Workers, Step(w) \/ Fail(w)
        PROVE  BackedInv'
    <2>1. Backing(w)
      BY <1>1, <1>2, QueueStepsBacking, EndStepsBacking, AssertStepsBacking, ForgetStepsBacking
         DEF Step
    <2> QED
      BY <2>1, BackingKeeps
  <1>3. CASE UNCHANGED vars
    <2>1. UNCHANGED <<ledgerVars, content, storeVars>> /\ previewed' = previewed /\ work' = work
      BY <1>3 DEF vars
    <2>2. Sources'
      BY <2>1 DEF BackedInv, Sources, Exists, Untouched, ledgerVars, storeVars
    <2> QED
      BY <2>1, <2>2, SameBacked
  <1> QED
    BY <1>2, <1>3, PublishBacked, CrashBacked DEF Next, IdlePoll

LEMMA BackedInit == Init => BackedInv
  <1> SUFFICES ASSUME Init
               PROVE  BackedInv
    OBVIOUS
  <1>1. /\ LedgerInit /\ drawers = {} /\ kgrows = {}
        /\ previewed = [m \in Msgs |-> {}] /\ work = [w \in Workers |-> Idle]
    BY DEF Init
  <1>2. /\ asrt = [f \in Facts |-> NoAssertion] /\ evidence = [i \in Intents |-> NoFact]
        /\ \A f \in Facts : asrt[f].activation_count = 1
        /\ \A f \in Facts : \A t \in Targets : asrt[f].proj[t] = "not_required"
        /\ \A f \in Facts : ~forgets[f].present /\ ~forgets[f].hard
        /\ \A i \in Intents : reactivations[i].state = "none" /\ reactivations[i].fact = NoFact
        /\ \A i \in Corrections : invalidations[i].fact = NoFact
    BY <1>1 DEF LedgerInit, NoAssertion, NotRequired, NoForget, NoReactivation, NoInvalidation
  <1>3. Known
    BY <1>2 DEF Known, Later
  <1>4. Backed
    BY <1>2, MessageIds DEF Backed
  <1>5. Sources
    BY <1>1, <1>2, MessageIds DEF Sources
  <1>6. \A w \in Workers : Informed(w)
    BY <1>1 DEF Informed, Idle, Registered, PastRegister, FactsPcs
  <1> QED
    BY <1>3, <1>4, <1>5, <1>6 DEF BackedInv

\* An active fact no privacy request has touched is in a later life, which
\* began with its drawer, or was never asked to be brought back.
LEMMA BackedIsActiveBacked == WorkersInv /\ BackedInv => ActiveBacked
  <1> SUFFICES ASSUME WorkersInv, BackedInv, NEW f \in Facts, asrt[f].state = "active",
                      ~forgets[f].present
               PROVE  /\ asrt[f].proj["drawer"] = "projected"
                         => ProjectionDrawers(f, asrt[f].activation_count) # {}
                      /\ asrt[f].proj["kg"] = "projected" => \E r \in kgrows : r.fact = f
    BY DEF ActiveBacked
  <1>1. asrt[f].activation_count \in Nat \ {0}
    BY DEF WorkersInv, LedgerInv, LedgerTypeOK, AssertionRow
  <1>2. CASE asrt[f].activation_count = 1
    <2>1. ~Later(f)
      BY <1>2 DEF BackedInv, Known, Untouched, EndedState
    <2> QED
      BY <1>2, <2>1 DEF BackedInv, Backed, Untouched, HasRow
  <1>3. CASE asrt[f].activation_count > 1
    BY <1>3 DEF BackedInv, Backed, Untouched, HasRow
  <1> QED
    BY <1>1, <1>2, <1>3

\* Whatever the workers interleave, a projected mark of an active fact no
\* privacy request has touched is backed by a drawer of its current life and
\* by a graph row.
THEOREM FactWorkersActiveBacked == Spec => []ActiveBacked
  BY BackedInit, BackedNext, BackedIsActiveBacked, FactWorkersInvariant, PTL DEF Spec

=============================================================================
