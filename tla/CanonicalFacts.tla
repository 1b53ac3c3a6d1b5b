--------------------------- MODULE CanonicalFacts ---------------------------
(***************************************************************************)
(* The canonical fact ledger of one memory space                           *)
(* (eidolon/memory/infrastructure/canonical_facts.py).                     *)
(*                                                                         *)
(* Five tables record which facts the owner has confirmed: one assertion   *)
(* per (subject, predicate, object), the evidence that confirmed it, the   *)
(* requests that ended it or brought it back, and the privacy tombstones   *)
(* that removed it.  Every public method of the ledger is one SQLite       *)
(* transaction (BEGIN IMMEDIATE ... COMMIT, or rolled back by the          *)
(* exception it raises), so every method is one action here.  A call that  *)
(* raises changes nothing; the predicates named ...Raises say when, and    *)
(* the operators named ...Result say what a call that returns tells its    *)
(* caller.                                                                 *)
(*                                                                         *)
(* This module lets any caller make any call at any moment: what holds     *)
(* here holds for every order in which the workers, the HTTP surface and   *)
(* redelivered messages reach the ledger.                                  *)
(***************************************************************************)
EXTENDS Integers, FiniteSets

CONSTANTS
    Facts,          \* assertion ids: sha of (space, audience, s, p, o)
    NoFact,         \* "no row"
    Intents,        \* ids of the intents that assert a fact (evidence rows)
    Corrections,    \* ids of the intents that end one (invalidation rows)
    Dated,          \* the intents that carry an occurred_at of their own
    SlotOf,         \* the (audience, subject, predicate) a fact fills
    Targets,        \* the projections of a fact: {"drawer", "kg"}
    Single,         \* the slots whose predicate has cardinality SINGLE
    MaxActivations, \* bound on activation_count (model only)
    MaxEvidence     \* bound on evidence_count (model only)

ASSUME IntentsFinite == IsFiniteSet(Intents)
ASSUME NoFactAssumption == NoFact \notin Facts
ASSUME DatedAssumption == Dated \subseteq Intents
ASSUME BoundsAssumption == MaxActivations \in Nat /\ MaxEvidence \in Nat

VARIABLES
    asrt,           \* canonical_assertions
    evidence,       \* canonical_evidence: intent -> the fact it confirms
    invalidations,  \* canonical_invalidations
    reactivations,  \* canonical_reactivations
    forgets         \* canonical_forgets

ledgerVars == <<asrt, evidence, invalidations, reactivations, forgets>>

ProjectionState == {"not_required", "pending", "projected"}
EndedState == {"invalidated", "superseded"}

AssertionRow ==
    [state : {"absent", "active", "forgotten"} \cup EndedState,
     proj : [Targets -> ProjectionState],
     evidence_count : Nat,
     activation_count : Nat \ {0},
     redacted : BOOLEAN]          \* the fact fields were scrubbed

EventState == {"none", "pending", "applied"}

InvalidationRow ==
    [fact : Facts \cup {NoFact}, state : EventState, result_state : EndedState]

ReactivationRow ==
    [fact : Facts \cup {NoFact}, state : EventState, activation_number : Nat]

ForgetRow == [present : BOOLEAN, hard : BOOLEAN, proj : [Targets -> ProjectionState]]

NotRequired == [t \in Targets |-> "not_required"]

NoAssertion ==
    [state |-> "absent", proj |-> NotRequired, evidence_count |-> 0,
     activation_count |-> 1, redacted |-> FALSE]
NoInvalidation ==
    [fact |-> NoFact, state |-> "none", result_state |-> "invalidated"]
NoReactivation == [fact |-> NoFact, state |-> "none", activation_number |-> 0]
NoForget == [present |-> FALSE, hard |-> FALSE, proj |-> NotRequired]

LedgerInit ==
    /\ asrt = [f \in Facts |-> NoAssertion]
    /\ evidence = [i \in Intents |-> NoFact]
    /\ invalidations = [i \in Corrections |-> NoInvalidation]
    /\ reactivations = [i \in Intents |-> NoReactivation]
    /\ forgets = [f \in Facts |-> NoForget]

----------------------------------------------------------------------------
(* Reads and helpers.                                                       *)

Exists(f) == asrt[f].state # "absent"

\* The columns of the targets named go from not_required to pending.
Require(proj, T) ==
    [t \in Targets |-> IF t \in T /\ proj[t] = "not_required" THEN "pending" ELSE proj[t]]

SetProj(proj, T, value) == [t \in Targets |-> IF t \in T THEN value ELSE proj[t]]

\* The targets still to be written, as a registration reports them.
NotProjected(proj, T) == {t \in T : proj[t] # "projected"}

\* active_for_slot: the active facts of the slot of f.  A scrubbed row has
\* lost its subject and predicate and matches no slot.
ActiveForSlot(f) ==
    {g \in Facts : SlotOf[g] = SlotOf[f] /\ asrt[g].state = "active" /\ ~asrt[g].redacted}

Occupied(f) == SlotOf[f] \in Single /\ ActiveForSlot(f) \ {f} # {}

----------------------------------------------------------------------------
(* register: record evidence i for fact f, creating the assertion if new.   *)

\* Mutant: the SINGLE slot of a new fact is not checked.
RegisterRaisesNoSlotCheck(i, f) ==
    \/ asrt[f].state = "forgotten"
    \/ Exists(f) /\ asrt[f].redacted
    \/ evidence[i] \notin {NoFact, f}
    \/ evidence[i] = NoFact /\ asrt[f].state \in EndedState

RegisterRaises(i, f) ==
    \/ asrt[f].state = "forgotten"                      \* CanonicalFactInactive
    \/ ~Exists(f) /\ Occupied(f)                        \* CanonicalFactConflict
    \/ Exists(f) /\ asrt[f].redacted                    \* CanonicalEvidenceConflict
    \/ evidence[i] \notin {NoFact, f}                   \* CanonicalEvidenceConflict
    \/ evidence[i] = NoFact /\ asrt[f].state \in EndedState  \* CanonicalFactInactive

\* A new row is active; one that exists keeps its state.
RegisteredRow(i, f, T) ==
    [asrt[f] EXCEPT !.state = IF Exists(f) THEN asrt[f].state ELSE "active",
                    !.proj = Require(asrt[f].proj, T),
                    !.evidence_count =
                        asrt[f].evidence_count + (IF evidence[i] = NoFact THEN 1 ELSE 0)]

Register(i, f, T) ==
    /\ ~RegisterRaises(i, f)
    /\ evidence[i] = NoFact => asrt[f].evidence_count < MaxEvidence   \* bound
    /\ asrt' = [asrt EXCEPT ![f] = RegisteredRow(i, f, T)]
    /\ evidence' = [evidence EXCEPT ![i] = f]
    /\ UNCHANGED <<invalidations, reactivations, forgets>>

\* A replay for a fact that has since ended returns its state and no work.
RegisterResult(i, f, T) ==
    LET ended == asrt[f].state \in EndedState
    IN [state |-> IF ended THEN asrt[f].state ELSE "active",
        pending |-> IF ended THEN {} ELSE NotProjected(Require(asrt[f].proj, T), T),
        evidence_created |-> evidence[i] = NoFact,
        evidence_count |-> asrt[f].evidence_count + (IF evidence[i] = NoFact THEN 1 ELSE 0),
        activation |-> asrt[f].activation_count,
        reactivation_pending |-> FALSE]

----------------------------------------------------------------------------
(* register_invalidation / mark_invalidated: end a fact.  The assertion     *)
(* row is not consulted beyond its existence, whatever its state is.        *)

RegisterInvalidationRaises(i, f, r) ==
    /\ Exists(f)
    /\ invalidations[i].state # "none"
    /\ invalidations[i].fact # f \/ invalidations[i].result_state # r

RegisterInvalidation(i, f, r) ==
    /\ ~RegisterInvalidationRaises(i, f, r)
    /\ invalidations' =
           IF Exists(f) /\ invalidations[i].state = "none"
           THEN [invalidations EXCEPT
                     ![i] = [fact |-> f, state |-> "pending", result_state |-> r]]
           ELSE invalidations
    /\ UNCHANGED <<asrt, evidence, reactivations, forgets>>

RegisterInvalidationResult(i, f) ==
    [matched |-> Exists(f),
     applied |-> Exists(f) /\ invalidations[i].state = "applied",
     activation |-> asrt[f].activation_count]

MarkInvalidated(i) ==
    LET row == invalidations[i]
    IN /\ row.state # "none"                            \* else LookupError
       /\ IF row.state = "applied"
          THEN UNCHANGED <<asrt, invalidations>>
          ELSE /\ invalidations' = [invalidations EXCEPT ![i] = [row EXCEPT !.state = "applied"]]
               /\ asrt' = [asrt EXCEPT ![row.fact] =
                      [asrt[row.fact] EXCEPT !.state = row.result_state]]
       /\ UNCHANGED <<evidence, reactivations, forgets>>

----------------------------------------------------------------------------
(* register_reactivation / mark_reactivated: bring an ended fact back.      *)

\* A replay compares reactivated_at, which is the clock for an undated intent.
RegisterReactivationRaises(i, f) ==
    \/ ~Exists(f)                                       \* LookupError
    \/ /\ reactivations[i].state # "none"               \* CanonicalEvidenceConflict
       /\ reactivations[i].fact # f \/ i \notin Dated
    \/ /\ reactivations[i].state = "none"
       /\ \/ asrt[f].state \notin EndedState            \* CanonicalFactConflict
          \/ Occupied(f)                                \* CanonicalFactConflict
          \/ evidence[i] # NoFact                       \* CanonicalEvidenceConflict

RegisterReactivation(i, f, T) ==
    /\ ~RegisterReactivationRaises(i, f)
    /\ IF reactivations[i].state # "none"
       THEN UNCHANGED <<asrt, evidence, reactivations>>
       ELSE /\ asrt[f].activation_count < MaxActivations   \* bound
            /\ asrt[f].evidence_count < MaxEvidence        \* bound
            /\ reactivations' = [reactivations EXCEPT ![i] =
                   [fact |-> f, state |-> "pending",
                    activation_number |-> asrt[f].activation_count + 1]]
            /\ evidence' = [evidence EXCEPT ![i] = f]
            /\ asrt' = [asrt EXCEPT ![f] =
                   [asrt[f] EXCEPT !.evidence_count = asrt[f].evidence_count + 1,
                                   !.proj = SetProj(asrt[f].proj, T, "pending")]]
    /\ UNCHANGED <<invalidations, forgets>>

RegisterReactivationResult(i, f, T) ==
    LET row == reactivations[i]
        new == row.state = "none"
        done == row.state = "applied"
    IN [state |-> IF done THEN "active" ELSE asrt[f].state,
        pending |-> IF new THEN T
                    ELSE IF done THEN {} ELSE NotProjected(asrt[f].proj, T),
        evidence_created |-> new,
        evidence_count |-> asrt[f].evidence_count + (IF new THEN 1 ELSE 0),
        activation |-> IF new THEN asrt[f].activation_count + 1 ELSE row.activation_number,
        reactivation_pending |-> ~done]

MarkReactivatedRaises(i, T) ==
    LET row == reactivations[i]
    IN \/ row.state = "none"                            \* LookupError
       \/ /\ row.state = "pending"
          /\ \/ NotProjected(asrt[row.fact].proj, T) # {}    \* RuntimeError
             \/ asrt[row.fact].state \notin EndedState       \* CanonicalFactConflict

\* Mutant: the reactivation row is left pending.
MarkReactivatedUnsettled(i, T) ==
    LET row == reactivations[i]
    IN /\ ~MarkReactivatedRaises(i, T)
       /\ IF row.state = "applied"
          THEN UNCHANGED asrt
          ELSE asrt' = [asrt EXCEPT ![row.fact] =
                   [asrt[row.fact] EXCEPT !.state = "active",
                                          !.activation_count = row.activation_number]]
       /\ UNCHANGED <<evidence, invalidations, reactivations, forgets>>

MarkReactivated(i, T) ==
    LET row == reactivations[i]
    IN /\ ~MarkReactivatedRaises(i, T)
       /\ IF row.state = "applied"
          THEN UNCHANGED <<asrt, reactivations>>
          ELSE /\ asrt' = [asrt EXCEPT ![row.fact] =
                      [asrt[row.fact] EXCEPT !.state = "active",
                                             !.activation_count = row.activation_number]]
               /\ reactivations' = [reactivations EXCEPT ![i] = [row EXCEPT !.state = "applied"]]
       /\ UNCHANGED <<evidence, invalidations, forgets>>

----------------------------------------------------------------------------
(* mark_projected / mark_projection_pending: one unconditional UPDATE.      *)

SetProjectionState(f, T, value) ==
    /\ Exists(f)                                        \* else LookupError
    /\ asrt' = [asrt EXCEPT ![f] = [asrt[f] EXCEPT !.proj = SetProj(asrt[f].proj, T, value)]]
    /\ UNCHANGED <<evidence, invalidations, reactivations, forgets>>

MarkProjected(f, T) == SetProjectionState(f, T, "projected")
MarkProjectionPending(f, T) == SetProjectionState(f, T, "pending")

----------------------------------------------------------------------------
(* begin_forget / scrub_forgotten_content / mark_forget_projected.          *)

\* The assertions of the batch that exist; the others get no plan.
ForgetPlans(F) == {f \in F : Exists(f)}

\* The intents whose source events a hard forget must redact.
SourceIntents(F) ==
    {i \in Intents : evidence[i] \in F \/ reactivations[i].fact \in F}
        \cup {i \in Corrections : invalidations[i].fact \in F}

ForgetRowOf(f, hard, T) ==
    [present |-> TRUE, hard |-> forgets[f].hard \/ hard, proj |-> Require(forgets[f].proj, T)]

BeginForget(F, hard, T) ==
    /\ forgets' = [f \in Facts |->
           IF f \in ForgetPlans(F) THEN ForgetRowOf(f, hard, T) ELSE forgets[f]]
    /\ asrt' = [f \in Facts |->
           IF f \in ForgetPlans(F)
           THEN [asrt[f] EXCEPT !.state = "forgotten", !.proj = Require(forgets[f].proj, T)]
           ELSE asrt[f]]
    /\ UNCHANGED <<evidence, invalidations, reactivations>>

ScrubForgottenContent(F) ==
    /\ \A f \in F : forgets[f].present /\ forgets[f].hard    \* else RuntimeError
    /\ evidence' = [i \in Intents |-> IF evidence[i] \in F THEN NoFact ELSE evidence[i]]
    /\ invalidations' = [i \in Corrections |->
           IF invalidations[i].fact \in F THEN NoInvalidation ELSE invalidations[i]]
    /\ reactivations' = [i \in Intents |->
           IF reactivations[i].fact \in F THEN NoReactivation ELSE reactivations[i]]
    /\ asrt' = [f \in Facts |->
           IF f \in F /\ asrt[f].state = "forgotten"
           THEN [asrt[f] EXCEPT !.redacted = TRUE, !.evidence_count = 0]
           ELSE asrt[f]]
    /\ UNCHANGED forgets

MarkForgetProjected(F, T) ==
    /\ \A f \in F : forgets[f].present                  \* else LookupError
    /\ forgets' = [f \in Facts |->
           IF f \in F THEN [forgets[f] EXCEPT !.proj = SetProj(forgets[f].proj, T, "projected")]
           ELSE forgets[f]]
    /\ asrt' = [f \in Facts |->
           IF f \in F THEN [asrt[f] EXCEPT !.proj = SetProj(asrt[f].proj, T, "projected")]
           ELSE asrt[f]]
    /\ UNCHANGED <<evidence, invalidations, reactivations>>

----------------------------------------------------------------------------
LedgerNext ==
    \/ \E i \in Intents, f \in Facts, T \in (SUBSET Targets) \ {{}} :
           Register(i, f, T)
    \/ \E i \in Corrections, f \in Facts, r \in EndedState : RegisterInvalidation(i, f, r)
    \/ \E i \in Corrections : MarkInvalidated(i)
    \/ \E i \in Intents, f \in Facts, T \in (SUBSET Targets) \ {{}} :
           RegisterReactivation(i, f, T)
    \/ \E i \in Intents, T \in (SUBSET Targets) \ {{}} : MarkReactivated(i, T)
    \/ \E f \in Facts, T \in (SUBSET Targets) \ {{}} : MarkProjected(f, T)
    \/ \E f \in Facts, T \in (SUBSET Targets) \ {{}} : MarkProjectionPending(f, T)
    \/ \E F \in (SUBSET Facts) \ {{}}, hard \in BOOLEAN, T \in (SUBSET Targets) \ {{}} :
           BeginForget(F, hard, T)
    \/ \E F \in (SUBSET Facts) \ {{}} : ScrubForgottenContent(F)
    \/ \E F \in (SUBSET Facts) \ {{}}, T \in (SUBSET Targets) \ {{}} : MarkForgetProjected(F, T)

LedgerSpec == LedgerInit /\ [][LedgerNext]_ledgerVars

----------------------------------------------------------------------------
(* What the ledger promises every caller.                                   *)

\* The tables hold rows of their types.
LedgerTypeOK ==
    /\ asrt \in [Facts -> AssertionRow]
    /\ evidence \in [Intents -> Facts \cup {NoFact}]
    /\ invalidations \in [Corrections -> InvalidationRow]
    /\ reactivations \in [Intents -> ReactivationRow]
    /\ forgets \in [Facts -> ForgetRow]

EvidenceOf(f) == {i \in Intents : evidence[i] = f}

\* A redelivered intent is never counted twice and no confirmation is lost:
\* the denormalised evidence_count column, maintained by register and
\* register_reactivation, equals the rows of canonical_evidence, except for a
\* fact whose evidence a hard forget has scrubbed.
EvidenceCounted ==
    \A f \in Facts :
        ~forgets[f].hard => asrt[f].evidence_count = Cardinality(EvidenceOf(f))

\* A replay of the original evidence never revives what a privacy request
\* removed: a tombstoned assertion can be current only in a later life, that
\* is through a reactivation and never through register.
TombstoneBlocksReplay ==
    \A f \in Facts :
        forgets[f].present /\ asrt[f].state = "active" => asrt[f].activation_count > 1

\* register keeps a SINGLE slot to one value: two active facts of one slot
\* can meet only if one of them has been reactivated.
FirstLifeSlotUnique ==
    \A f, g \in Facts :
        /\ f # g /\ SlotOf[f] = SlotOf[g] /\ SlotOf[f] \in Single
        /\ asrt[f].state = "active" /\ asrt[g].state = "active"
        => asrt[f].activation_count > 1 \/ asrt[g].activation_count > 1

\* Every life after the first was asked for: the activation a fact is in was
\* brought about by a reactivation of that number that was applied, and that
\* reactivation left its evidence.
ActivationAccounted ==
    \A f \in Facts :
        asrt[f].activation_count > 1 /\ ~forgets[f].hard
        => \E i \in Intents :
               /\ reactivations[i].fact = f
               /\ reactivations[i].state = "applied"
               /\ reactivations[i].activation_number = asrt[f].activation_count
               /\ evidence[i] = f

\* Provenance is immutable: the fact an intent is evidence for never changes,
\* and its row goes away only with a hard forget of that fact.
EvidenceImmutable ==
    [][\A i \in Intents :
           evidence[i] # NoFact /\ evidence'[i] # evidence[i]
           => evidence'[i] = NoFact /\ forgets[evidence[i]].hard]_ledgerVars

\* A tombstone outlives everything: once begin_forget has written it no call
\* removes it, turns a hard one soft, or reopens a projection it has closed.
TombstonePermanent ==
    [][\A f \in Facts : forgets[f].present =>
           /\ forgets'[f].present
           /\ forgets[f].hard => forgets'[f].hard
           /\ \A t \in Targets :
                  forgets[f].proj[t] = "projected" => forgets'[f].proj[t] = "projected"]_ledgerVars

=============================================================================
