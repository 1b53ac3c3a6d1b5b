------------------------- MODULE FactConvergenceProofs -------------------------
(***************************************************************************)
(* The proof that what the workers leave half done is repaired: Converged  *)
(* of FactWorkers, for any messages, facts, slots, crashes and failures,   *)
(* when one worker handles the messages.                                   *)
(*                                                                         *)
(* Converged looks at a moment: nothing of a fact is outstanding, or every *)
(* message has been handled.  What makes it true is spread over the life   *)
(* of the fact, and PlainInv says it at every step:                        *)
(*   Durable   what the rows of a fact, its drawers and its statements     *)
(*             have to do with one another, whatever is half done;         *)
(*   Attended  whatever is outstanding of a fact, some message that will   *)
(*             be delivered again, or the handler of one, carries it out;  *)
(*   InHand    what a handler has learned between its steps.               *)
(* It rests on what FactWorkersProofs shows, and on SpokenInv: a row       *)
(* speaks of what its message said, and a handler takes the steps its      *)
(* message asks for.                                                       *)
(***************************************************************************)
EXTENDS FactWorkersProofs

\* What the argument is about: facts that no privacy request has touched, and
\* that no two messages brought back into one life.
Plain(f) == Spared(f) /\ RevivedApart(f)

Count(f) == asrt[f].activation_count
Active(f) == asrt[f].state = "active"
Ended(f) == asrt[f].state \in EndedState

\* The lives of f that are over, and how many there are.
Past(f, a) == a < Count(f) \/ (Ended(f) /\ a = Count(f))
Lives(f) == IF Ended(f) THEN Count(f) ELSE Count(f) - 1

\* An ending, or a revival, of f has been registered and not carried out.
BeingEnded(f) == \E m \in Msgs : invalidations[<<m, f>>].state = "pending"
Reviving(f) == \E m \in Msgs : reactivations[m].fact = f /\ reactivations[m].state = "pending"

\* Only an ended fact waits to be brought back, into its next life; a life
\* that was begun has a drawer and a statement.
RevivalsApply(f) ==
    \A m \in Msgs : reactivations[m].fact = f =>
        /\ reactivations[m].state = "pending"
           => Ended(f) /\ reactivations[m].activation_number = Count(f) + 1
        /\ reactivations[m].state = "applied"
           => /\ reactivations[m].activation_number <= Count(f)
              /\ [fact |-> f, activation |-> reactivations[m].activation_number] \in kgrows
              /\ ProjectionDrawers(f, reactivations[m].activation_number) # {}

\* Drawers and statements are of lives f has had or is about to begin.
OfItsLives(f) ==
    \A x \in drawers \cup kgrows : x.fact = f =>
        /\ x.activation >= 1 /\ Exists(f)
        /\ x.activation <= Count(f) \/ (x.activation = Count(f) + 1 /\ Ended(f) /\ Reviving(f))

\* Each life that is over was ended by a message of its own.  A statement of
\* the present life is closed only while that is being ended, or when some
\* life was ended twice.
EndingsCount(f) ==
    /\ Cardinality(EndedBy(f)) >= Lives(f)
    /\ \A r \in closed : r.fact = f =>
           Past(f, r.activation) \/ BeingEnded(f) \/ Cardinality(EndedBy(f)) > Lives(f)

\* A drawer is archived only when its life is over or being ended; what is left
\* of lives that are over cannot be recalled.
PastHidden(f) ==
    /\ \A d \in archived : d.fact = f =>
           d.activation <= Count(f) /\ (Past(f, d.activation) \/ BeingEnded(f))
    /\ \A r \in kgrows : r.fact = f /\ Past(f, r.activation) => r \in closed
    /\ OneDrawer(f) => \A d \in drawers : d.fact = f /\ Past(f, d.activation) => d \in archived

Durable(f) ==
    /\ asrt[f].state # "forgotten"
    /\ Active(f) => \A t \in Targets : asrt[f].proj[t] # "not_required"
    /\ RevivalsApply(f) /\ OfItsLives(f) /\ EndingsCount(f) /\ PastHidden(f)

\* Rows speak of what their message said, and a step is one its message takes.
SpeaksOf(c, f, row) ==
    /\ row.state = "none" => row.fact = NoFact
    /\ row.state # "none" => /\ row.fact = f /\ c.kind \in {"turn", "correct", "update"}
                             /\ c.kind # "update" => c.ends = f
EndingsSpoken ==
    \A m \in Msgs : \A f \in Facts : SpeaksOf(content[m], f, invalidations[<<m, f>>])
EvidenceSpoken ==
    \A m \in Msgs : evidence[m] # NoFact =>
        content[m].kind \in {"turn", "assert", "update"} /\ content[m].adds = evidence[m]
RevivalsSpoken ==
    \A m \in Msgs :
        /\ reactivations[m].state = "none" => reactivations[m].fact = NoFact
        /\ reactivations[m].state # "none" => content[m].kind \in {"turn", "update"}
Spoken ==
    /\ EndingsSpoken /\ EvidenceSpoken /\ RevivalsSpoken
    /\ \A m \in applied : content[m].kind # "turn"

Routed(w) ==
    /\ work[w].pc \in Ending => Body(w).kind \in {"turn", "correct", "update"}
    /\ work[w].pc \in AssertPcs => Body(w).kind \in {"turn", "assert", "update"}
    /\ At(w, "reactivate") => Body(w).kind # "assert"
    /\ At(w, "check_drawer") => Body(w).kind = "turn"
    /\ At(w, "look") \/ At(w, "relook") => Body(w).kind # "turn"
    /\ At(w, "relook") => work[w].missing \subseteq work[w].reg.pending
    /\ work[w].failed =>
           At(w, "settle") \/ (Body(w).kind = "turn" /\ ~At(w, "ack") /\ ~At(w, "reject"))
    /\ work[w].pc \notin {"idle", "start", "ack"} => Msg(w) \notin applied

SpokenInv == Spoken /\ \A w \in Workers : Routed(w)

\* What a handler that ends a fact knows of it, one worker being busy.
Ends(w) ==
    LET f == work[w].fact
        life == ProjectionDrawers(f, Count(f))
    IN /\ f = EndFact(w)
       /\ At(w, "end_archive") => \A d \in work[w].seen : d.fact = f
       /\ Plain(f) =>
              /\ work[w].reg.activation = Count(f)
              /\ IF work[w].matched THEN Exists(f) /\ invalidations[<<Msg(w), f>>].state = "pending"
                 ELSE ~Exists(f)
              /\ At(w, "end_archive") => \E d \in life : work[w].seen = {d}
              /\ At(w, "end_kg") \/ At(w, "end_mark") => (OneDrawer(f) => life \subseteq archived)
              /\ At(w, "end_mark") => work[w].matched /\ OpenRows({f}) = {}

\* Where a message whose fact was not current is about to bring it back, or
\* to end another one first.
Inactive(w) ==
    \/ At(w, "reactivate") \/ At(w, "supersede")
    \/ work[w].pc \in Ending /\ Body(w).kind = "update"

\* What a handler that has registered a plain fact knows of it.
Registers(w) ==
    LET f == Body(w).adds
        reg == work[w].reg
        row == reactivations[Msg(w)]
        statement == [fact |-> f, activation |-> reg.activation]
    IN Plain(f) =>
        /\ evidence[Msg(w)] = f
        /\ ~reg.reactivation_pending =>
               \/ Active(f) /\ reg.activation = Count(f)
               \/ /\ Ended(f) /\ row.state = "applied" /\ row.activation_number = reg.activation
                  /\ "drawer" \notin reg.pending
                  /\ ~At(w, "reopen_drawer") /\ ~At(w, "put_drawer") /\ ~At(w, "mark_drawer")
        /\ reg.reactivation_pending =>
               /\ row.state = "pending" /\ row.activation_number = reg.activation
               /\ At(w, "mark_kg") \/ At(w, "finish_reactivation") => statement \in kgrows
               /\ /\ work[w].pc \in {"relook", "reopen_drawer", "put_drawer", "mark_drawer"}
                  /\ ~IsTurn(w) /\ "kg" \notin reg.pending
                  => statement \in kgrows

InHand(w) ==
    /\ work[w].pc \in Ending \ {"end_register"} => Ends(w)
    /\ Inactive(w) /\ Body(w).adds \in Facts /\ Plain(Body(w).adds) => ~Active(Body(w).adds)
    /\ work[w].pc \in Registered => Registers(w)

\* The targets the handler of w is still going to mark.
ToMark(w) ==
    LET p == work[w].pc
        pending == work[w].reg.pending
    IN CASE p \in {"start", "read_fact", "register"} \cup Ending -> Targets
         [] p \in {"reopen_drawer", "put_drawer", "mark_drawer"} -> {"drawer"} \cup pending
         [] p \in {"check_drawer", "look"} -> pending
         [] p = "relook" -> pending \cup work[w].recovered
         [] p = "check_kg" -> pending \cap {"kg"}
         [] p \in {"reopen_kg", "put_kg", "mark_kg"} -> {"kg"}
         [] OTHER -> {}
ToEnd(w) == At(w, "start") \/ work[w].pc \in Ending
ToRevive(w) ==
    \/ ToEnd(w) \/ At(w, "read_fact") \/ At(w, "reactivate")
    \/ work[w].pc \in Registered /\ work[w].reg.reactivation_pending

\* m will be delivered again, or an operator has it.
Due(m) == status[m] \in {"queued", "dead"} \/ \E w \in Workers : Msg(w) = m /\ work[w].failed

\* Whatever is outstanding of f, some message still has to carry it out.
Attended(f) ==
    /\ Active(f) => \A t \in Targets : asrt[f].proj[t] = "pending" =>
           \E m \in Msgs \ applied :
               evidence[m] = f /\ (Due(m) \/ \E w \in Workers : Msg(w) = m /\ t \in ToMark(w))
    /\ \A m \in Msgs : invalidations[<<m, f>>].state = "pending" /\ content[m].kind # "update" =>
           m \notin applied /\ (Due(m) \/ \E w \in Workers : Msg(w) = m /\ ToEnd(w))
    /\ \A m \in Msgs :
           /\ reactivations[m].fact = f /\ reactivations[m].state = "pending"
           /\ content[m].kind # "update"
           => m \notin applied /\ (Due(m) \/ \E w \in Workers : Msg(w) = m /\ ToRevive(w))

PlainInv ==
    OneWorker =>
        /\ \A f \in Facts : Plain(f) => Durable(f) /\ Attended(f)
        /\ \A w \in Workers : InHand(w)

----------------------------------------------------------------------------
(* Rows speak of what their messages said.                                  *)

\* The ledger call of a worker's step.
LEMMA StepCalls ==
    ASSUME NEW w, Step(w) \/ Fail(w)
    PROVE  /\ content' = content
           /\ \/ UNCHANGED ledgerVars
              \/ /\ work[w].pc \in Ending
                 /\ \/ At(w, "end_register") /\ RegisterInvalidation(EndId(w), EndFact(w), EndResult(w))
                    \/ At(w, "end_mark") /\ MarkInvalidated(EndId(w))
              \/ /\ work[w].pc \in AssertPcs
                 /\ \/ At(w, "register") /\ Register(Msg(w), Body(w).adds, Targets)
                    \/ At(w, "reactivate") /\ RegisterReactivation(Msg(w), Body(w).adds, Targets)
                    \/ At(w, "finish_reactivation") /\ MarkReactivated(Msg(w), Targets)
                    \/ \E T : \E v \in {"pending", "projected"} : SetProjectionState(Body(w).adds, T, v)
              \/ /\ work[w].pc \in FactsPcs
                 /\ \/ BeginForget(work[w].facts, Body(w).hard, Targets)
                    \/ ScrubForgottenContent(work[w].facts)
                    \/ \E T : MarkForgetProjected(work[w].facts, T)
  <1>1. CASE (\E m \in Msgs : Take(w, m)) \/ Start(w) \/ Settle(w) \/ Ack(w) \/ RejectAck(w) \/ Fail(w)
    BY <1>1 DEF Take, Start, Settle, Ack, RejectAck, Finish, Fail, localOnly, ledgerOnly
  <1>2. CASE EndSteps(w)
    BY <1>2 DEF EndSteps, EndRegister, EndFind, EndArchive, EndKg, EndMark, localOnly, ledgerOnly,
                storeOnly, At, Ending
  <1>3. CASE ReadFact(w) \/ Supersede(w) \/ CheckDrawer(w) \/ Look(w) \/ PutDrawer(w) \/ CheckKg(w)
             \/ PutKg(w)
    BY <1>3 DEF ReadFact, Supersede, CheckDrawer, Look, PutDrawer, CheckKg, PutKg, localOnly,
                ledgerOnly, storeOnly
  <1>4. CASE RegisterFact(w) \/ ReactivateFact(w) \/ FinishReactivation(w)
    BY <1>4 DEF RegisterFact, ReactivateFact, FinishReactivation, ledgerOnly, At, AssertPcs
  <1>5. CASE ReopenDrawer(w) \/ Relook(w) \/ MarkDrawer(w) \/ ReopenKg(w) \/ MarkKg(w)
    BY <1>5 DEF ReopenDrawer, Relook, MarkDrawer, ReopenKg, MarkKg, MarkProjected,
                MarkProjectionPending, ledgerOnly, At, AssertPcs
  <1>6. CASE ForgetSteps(w)
    BY <1>6 DEF ForgetSteps, ForgetResolve, ForgetScan, ForgetBegin, ForgetRedact, ForgetScrub,
                ForgetKg, ForgetKgMark, ForgetDrawers, ForgetDrawerMark, ForgetSource, localOnly,
                ledgerOnly, storeOnly, At, FactsPcs
  <1> QED
    BY <1>1, <1>2, <1>3, <1>4, <1>5, <1>6 DEF Step, AssertSteps

\* What is written of a fact stays until a privacy request touches the fact.
LEMMA RowsLast ==
    ASSUME LedgerInv, Known, Grows, [LedgerNext]_ledgerVars
    PROVE  /\ \A i \in Intents :
                  evidence[i] # NoFact /\ ~forgets'[evidence[i]].present
                  => evidence'[i] = evidence[i]
           /\ \A i \in Corrections :
                  /\ invalidations[i].state # "none" /\ invalidations[i].fact \in Facts
                  /\ ~forgets'[invalidations[i].fact].present
                  => /\ invalidations'[i].state # "none"
                     /\ invalidations'[i].fact = invalidations[i].fact
  <1>1. ASSUME NEW i \in Intents, evidence[i] # NoFact, ~forgets'[evidence[i]].present
        PROVE  evidence'[i] = evidence[i]
    <2>1. evidence[i] \in Facts
      BY <1>1 DEF LedgerInv, LedgerTypeOK
    <2>2. ~forgets[evidence[i]].hard
      BY <1>1, <2>1 DEF Known, Grows
    <2> QED
      BY <1>1, <2>2, EvidenceStep
  <1>2. ASSUME NEW i \in Corrections, invalidations[i].state # "none",
               invalidations[i].fact \in Facts, ~forgets'[invalidations[i].fact].present
        PROVE  invalidations'[i].state # "none" /\ invalidations'[i].fact = invalidations[i].fact
    <2>1. ~forgets[invalidations[i].fact].present
      BY <1>2 DEF Grows
    <2>2. ASSUME NEW j \in Corrections, NEW f, NEW r, RegisterInvalidation(j, f, r)
          PROVE  invalidations'[i] = invalidations[i]
      BY <1>2, <2>2 DEF RegisterInvalidation, LedgerInv, LedgerTypeOK
    <2>3. ASSUME NEW j \in Corrections, MarkInvalidated(j)
          PROVE  invalidations'[i].state # "none" /\ invalidations'[i].fact = invalidations[i].fact
      <3> DEFINE q == [invalidations[j] EXCEPT !.state = "applied"]
      <3>1. q.fact = invalidations[j].fact /\ q.state = "applied"
        BY EventRowsApplied DEF LedgerInv, LedgerTypeOK, InvalidationRow
      <3>2. invalidations' = invalidations \/ invalidations' = [invalidations EXCEPT ![j] = q]
        BY <2>3 DEF MarkInvalidated
      <3> HIDE DEF q
      <3>3. CASE i = j
        BY <1>2, <3>1, <3>2, <3>3 DEF LedgerInv, LedgerTypeOK
      <3>4. CASE i # j
        BY <1>2, <3>2, <3>4 DEF LedgerInv, LedgerTypeOK
      <3> QED
        BY <3>3, <3>4
    <2>4. ASSUME NEW F, ScrubForgottenContent(F)
          PROVE  invalidations'[i] = invalidations[i]
      <3>1. invalidations[i].fact \notin F
        BY <1>2, <2>1, <2>4 DEF ScrubForgottenContent
      <3> QED
        BY <2>4, <3>1 DEF ScrubForgottenContent
    <2>5. CASE invalidations' = invalidations
      BY <1>2, <2>5
    <2>6. ASSUME NEW j, NEW f, NEW T, NEW v, NEW h,
                 \/ Register(j, f, T) \/ RegisterReactivation(j, f, T) \/ MarkReactivated(j, T)
                 \/ SetProjectionState(f, T, v) \/ BeginForget(f, h, T) \/ MarkForgetProjected(f, T)
          PROVE  invalidations' = invalidations
      BY <2>6
         DEF Register, RegisterReactivation, MarkReactivated, SetProjectionState, BeginForget,
                  MarkForgetProjected
    <2>7. CASE LedgerNext
      <3>1. \/ \E j \in Corrections : (\E f, r : RegisterInvalidation(j, f, r)) \/ MarkInvalidated(j)
            \/ \E F : ScrubForgottenContent(F)
            \/ invalidations' = invalidations
        BY <2>6, <2>7 DEF LedgerNext, MarkProjected, MarkProjectionPending
      <3> QED
        BY <1>2, <2>2, <2>3, <2>4, <3>1
    <2> QED
      BY <2>5, <2>7 DEF ledgerVars
  <1> QED
    BY <1>1, <1>2

\* A fact that is plain after a step was so before.
LEMMA PlainBefore ==
    ASSUME WorkersInv, Spoken, Known, Grows, [LedgerNext]_ledgerVars,
           redactedEvents \subseteq redactedEvents', NEW f \in Facts, Plain(f)'
    PROVE  /\ Plain(f) /\ Untouched(f)
           /\ \A m \in Msgs : evidence[m] = f => evidence'[m] = f
           /\ \A m \in Msgs : invalidations[<<m, f>>].state # "none" =>
                                  invalidations'[<<m, f>>].state # "none"
           /\ \A m \in Msgs : reactivations[m].fact = f =>
                  /\ reactivations'[m].fact = f
                  /\ reactivations'[m].activation_number = reactivations[m].activation_number
  <1>1. ~forgets'[f].present /\ Untouched(f)
    BY DEF Plain, Spared, Grows, Untouched
  <1>2. \A m \in Msgs : evidence[m] = f => evidence'[m] = f
    BY <1>1, RowsLast, NoFactAssumption, MessageIds DEF WorkersInv
  <1>3. \A m \in Msgs : invalidations[<<m, f>>].state # "none" =>
                            invalidations'[<<m, f>>].state # "none"
    <2> SUFFICES ASSUME NEW m \in Msgs, invalidations[<<m, f>>].state # "none"
                 PROVE  invalidations'[<<m, f>>].state # "none"
      OBVIOUS
    <2>1. <<m, f>> \in Corrections /\ invalidations[<<m, f>>].fact = f
      BY MessageIds DEF Spoken, EndingsSpoken, SpeaksOf
    <2> QED
      BY <1>1, <2>1, RowsLast DEF WorkersInv
  <1>4. \A m \in Msgs : reactivations[m].fact = f =>
            /\ reactivations'[m].fact = f
            /\ reactivations'[m].activation_number = reactivations[m].activation_number
    BY <1>1, NoFactAssumption, MessageIds DEF Spoken, RevivalsSpoken, Grows
  <1>5. Spared(f)
    BY <1>1, <1>2, <1>3 DEF Plain, Spared, Untouched, WorkersInv, QueuesOK
  <1>6. RevivedApart(f)
    BY <1>4 DEF Plain, RevivedApart
  <1> QED
    BY <1>1, <1>2, <1>3, <1>4, <1>5, <1>6 DEF Plain

\* The rows a worker writes speak of its own message.
LEMMA EndingsSpokenStep ==
    ASSUME WorkersInv, WorkersInv', EndingsSpoken, NEW w \in Workers, Routed(w),
           Step(w) \/ Fail(w)
    PROVE  EndingsSpoken'
  <1>1. content' = content /\ invalidations \in [Msgs \X Facts -> InvalidationRow]
    BY StepCalls, MessageIds DEF WorkersInv, LedgerInv, LedgerTypeOK
  <1> SUFFICES ASSUME NEW m \in Msgs, NEW f \in Facts
               PROVE  SpeaksOf(content[m], f, invalidations'[<<m, f>>])
    BY <1>1, Zenon DEF EndingsSpoken, SpeaksOf
  <1>0. PICK i : i = <<m, f>>
    OBVIOUS
  <1>2. SpeaksOf(content[m], f, invalidations[i]) /\ i \in Corrections
    BY <1>0, MessageIds DEF EndingsSpoken
  <1>3. CASE invalidations'[i] = invalidations[i]
    BY <1>0, <1>2, <1>3
  <1>4. CASE /\ work[w].pc \in Ending
             /\ \/ RegisterInvalidation(EndId(w), EndFact(w), EndResult(w))
                \/ MarkInvalidated(EndId(w))
    <2>1. /\ EndId(w) = <<Msg(w), EndFact(w)>>
          /\ content[Msg(w)].kind \in {"turn", "correct", "update"}
          /\ content[Msg(w)].kind # "update" => content[Msg(w)].ends = EndFact(w)
      BY <1>4 DEF EndId, EndFact, Routed, Body
    <2>2. CASE i # EndId(w)
      <3>1. invalidations'[i] = invalidations[i]
        BY <1>2, <1>4, <2>2
           DEF RegisterInvalidation, MarkInvalidated, WorkersInv, LedgerInv, LedgerTypeOK
      <3> QED
        BY <1>3, <3>1
    <2>3. CASE i = EndId(w)
      <3>1. m = Msg(w) /\ f = EndFact(w)
        BY <1>0, <2>1, <2>3
      <3>2. CASE MarkInvalidated(i)
        <4> DEFINE q == [invalidations[i] EXCEPT !.state = "applied"]
        <4>1. q.fact = invalidations[i].fact /\ q.state = "applied"
          BY <1>2, EventRowsApplied DEF WorkersInv, LedgerInv, LedgerTypeOK
        <4>2. invalidations[i].state # "none" /\ invalidations'[i] \in {invalidations[i], q}
          BY <1>2, <3>2 DEF MarkInvalidated, WorkersInv, LedgerInv, LedgerTypeOK
        <4> QED
          BY <1>0, <1>2, <4>1, <4>2 DEF SpeaksOf
      <3>3. CASE RegisterInvalidation(i, f, EndResult(w))
        <4> DEFINE q == [fact |-> f, state |-> "pending", result_state |-> EndResult(w)]
        <4>1. q.fact = f /\ q.state = "pending"
          OBVIOUS
        <4>2. invalidations'[i] \in {invalidations[i], q}
          BY <1>2, <3>3 DEF RegisterInvalidation, WorkersInv, LedgerInv, LedgerTypeOK
        <4> QED
          BY <1>0, <1>2, <2>1, <3>1, <4>1, <4>2 DEF SpeaksOf
      <3> QED
        BY <1>4, <2>3, <3>1, <3>2, <3>3
    <2> QED
      BY <2>2, <2>3
  <1>5. CASE \E F : ScrubForgottenContent(F)
    <2>1. invalidations'[i] \in {NoInvalidation, invalidations[i]}
      BY <1>2, <1>5 DEF ScrubForgottenContent
    <2> QED
      BY <1>0, <1>2, <2>1 DEF SpeaksOf, NoInvalidation
  <1> QED
    BY <1>3, <1>4, <1>5, StepCalls
       DEF ledgerVars, Register, RegisterReactivation, MarkReactivated, SetProjectionState,
           BeginForget, MarkForgetProjected

\* The same of the evidence it writes,
LEMMA EvidenceSpokenStep ==
    ASSUME WorkersInv, WorkersInv', EvidenceSpoken, NEW w \in Workers, Routed(w),
           Step(w) \/ Fail(w)
    PROVE  EvidenceSpoken'
  <1>1. content' = content /\ evidence \in [Msgs -> Facts \cup {NoFact}]
    BY StepCalls, MessageIds DEF WorkersInv, LedgerInv, LedgerTypeOK
  <1>2. CASE evidence' = evidence
    BY <1>1, <1>2 DEF EvidenceSpoken
  <1>3. CASE work[w].pc \in AssertPcs /\ evidence' = [evidence EXCEPT ![Msg(w)] = Body(w).adds]
    <2>1. content[Msg(w)].kind \in {"turn", "assert", "update"} /\ Body(w) = content[Msg(w)]
      BY <1>3 DEF Routed, Body
    <2> QED
      BY <1>1, <1>3, <2>1 DEF EvidenceSpoken
  <1>4. CASE \E F : ScrubForgottenContent(F)
    <2>1. \A m \in Msgs : evidence'[m] \in {NoFact, evidence[m]}
      BY <1>4, MessageIds DEF ScrubForgottenContent
    <2> QED
      BY <1>1, <2>1 DEF EvidenceSpoken
  <1> QED
    BY <1>2, <1>3, <1>4, StepCalls
       DEF ledgerVars, RegisterInvalidation, MarkInvalidated, Register, RegisterReactivation,
           MarkReactivated, SetProjectionState, BeginForget, MarkForgetProjected

\* and of the revivals it registers.
LEMMA RevivalsSpokenStep ==
    ASSUME WorkersInv, WorkersInv', RevivalsSpoken, NEW w \in Workers, Routed(w),
           Step(w) \/ Fail(w)
    PROVE  RevivalsSpoken'
  <1>1. content' = content /\ reactivations \in [Msgs -> ReactivationRow]
    BY StepCalls, MessageIds DEF WorkersInv, LedgerInv, LedgerTypeOK
  <1>2. CASE reactivations' = reactivations
    BY <1>1, <1>2 DEF RevivalsSpoken
  <1>3. CASE At(w, "reactivate") /\ RegisterReactivation(Msg(w), Body(w).adds, Targets)
    <2> DEFINE q == [fact |-> Body(w).adds, state |-> "pending",
                     activation_number |-> asrt[Body(w).adds].activation_count + 1]
    <2>1. q.state = "pending" /\ content[Msg(w)].kind \in {"turn", "update"}
      BY <1>3 DEF Routed, Body, At, AssertPcs
    <2>2. reactivations' = reactivations \/ reactivations' = [reactivations EXCEPT ![Msg(w)] = q]
      BY <1>3 DEF RegisterReactivation
    <2> HIDE DEF q
    <2> QED
      BY <1>1, <2>1, <2>2 DEF RevivalsSpoken
  <1>4. CASE MarkReactivated(Msg(w), Targets)
    <2> DEFINE q == [reactivations[Msg(w)] EXCEPT !.state = "applied"]
    <2>1. /\ reactivations[Msg(w)].state # "none"
          /\ reactivations' = reactivations \/ reactivations' = [reactivations EXCEPT ![Msg(w)] = q]
      BY <1>4 DEF MarkReactivated, MarkReactivatedRaises
    <2>2. Msg(w) \in Msgs => q.state = "applied"
      BY <1>1 DEF ReactivationRow
    <2> HIDE DEF q
    <2> QED
      BY <1>1, <2>1, <2>2 DEF RevivalsSpoken
  <1>5. CASE \E F : ScrubForgottenContent(F)
    <2>1. \A m \in Msgs : reactivations'[m] \in {NoReactivation, reactivations[m]}
      BY <1>5, MessageIds DEF ScrubForgottenContent
    <2>2. NoReactivation.state = "none" /\ NoReactivation.fact = NoFact
      BY DEF NoReactivation
    <2> QED
      BY <1>1, <2>1, <2>2 DEF RevivalsSpoken
  <1> QED
    BY <1>2, <1>3, <1>4, <1>5, StepCalls
       DEF ledgerVars, RegisterInvalidation, MarkInvalidated, Register, MarkReactivated,
           SetProjectionState, BeginForget, MarkForgetProjected

\* A command is recorded as applied by its own worker, when it settles.
LEMMA AppliedStep ==
    ASSUME WorkersInv, NEW w, Step(w) \/ Fail(w)
    PROVE  \/ applied' = applied
           \/ At(w, "settle") /\ ~IsTurn(w) /\ applied' = applied \cup {Msg(w)}
  <1>1. CASE Settle(w)
    BY <1>1 DEF Settle
  <1>2. CASE (\E m \in Msgs : Take(w, m)) \/ Start(w) \/ Ack(w) \/ RejectAck(w) \/ Fail(w)
    BY <1>2 DEF Take, Start, Ack, RejectAck, Finish, Fail, localOnly, ledgerOnly, queueVars
  <1>3. CASE EndSteps(w)
    BY <1>3 DEF EndSteps, EndRegister, EndFind, EndArchive, EndKg, EndMark, localOnly, ledgerOnly,
                storeOnly, queueVars
  <1>4. CASE AssertSteps(w)
    BY <1>4 DEF AssertSteps, ReadFact, Supersede, CheckDrawer, Look, PutDrawer, CheckKg, PutKg,
                RegisterFact, ReactivateFact, FinishReactivation, ReopenDrawer, Relook, MarkDrawer,
                ReopenKg, MarkKg, localOnly, ledgerOnly, storeOnly, queueVars
  <1>5. CASE ForgetSteps(w)
    BY <1>5 DEF ForgetSteps, ForgetResolve, ForgetScan, ForgetBegin, ForgetRedact, ForgetScrub,
                ForgetKg, ForgetKgMark, ForgetDrawers, ForgetDrawerMark, ForgetSource, localOnly,
                ledgerOnly, storeOnly, queueVars
  <1> QED
    BY <1>1, <1>2, <1>3, <1>4, <1>5 DEF Step

\* So what the tables say stays what the messages said.
LEMMA SpokenStep ==
    ASSUME WorkersInv, WorkersInv', Spoken, NEW w \in Workers, Routed(w), Step(w) \/ Fail(w)
    PROVE  Spoken'
  <1>1. EndingsSpoken' /\ EvidenceSpoken' /\ RevivalsSpoken'
    BY EndingsSpokenStep, EvidenceSpokenStep, RevivalsSpokenStep DEF Spoken
  <1>2. \A m \in applied' : content'[m].kind # "turn"
    BY StepCalls, AppliedStep DEF Spoken, IsTurn, Body
  <1> QED
    BY <1>1, <1>2 DEF Spoken
----------------------------------------------------------------------------
(* A step is one its message takes.                                         *)

\* Where the handlers of the steps that set more than the program counter go.
LEMMA TakeFields ==
    ASSUME WorkersInv, NEW w \in Workers, NEW m \in Msgs, Take(w, m)
    PROVE  /\ work'[w].pc = "start" /\ work'[w].msg = m /\ ~work'[w].failed
           /\ \A v \in Workers : v # w => work'[v] = work[v]
  <1> DEFINE r == [Idle EXCEPT !.pc = "start", !.msg = m]
  <1>1. r.pc = "start" /\ r.msg = m /\ ~r.failed /\ work' = [work EXCEPT ![w] = r]
    BY DEF Take, Idle
  <1> HIDE DEF r
  <1> QED
    BY <1>1, WorkerSet

\* What the worker holds after each of its steps: end_register,
LEMMA EndRegisterFields ==
    ASSUME WorkersInv, NEW w \in Workers, EndRegister(w)
    PROVE  LET f == EndFact(w)
           IN \/ Raise(w) /\ UNCHANGED ledgerVars
              \/ /\ RegisterInvalidation(EndId(w), f, EndResult(w))
                 /\ ~RegisterInvalidationRaises(EndId(w), f, EndResult(w))
                 /\ \/ /\ Exists(f) /\ invalidations[EndId(w)].state = "applied"
                       /\ Goto(w, AfterEnd(w))
                    \/ /\ ~Exists(f) \/ invalidations[EndId(w)].state # "applied"
                       /\ work'[w].pc = "end_find" /\ work'[w].msg = Msg(w)
                       /\ work'[w].failed = work[w].failed /\ work'[w].fact = f
                       /\ work'[w].matched = Exists(f)
                       /\ work'[w].reg.activation = asrt[f].activation_count
                       /\ \A v \in Workers : v # w => work'[v] = work[v]
  <1> DEFINE f == EndFact(w)
             q == [NoReg EXCEPT !.activation = asrt[f].activation_count]
             r == [work[w] EXCEPT !.pc = "end_find", !.fact = f, !.matched = Exists(f), !.reg = q]
  <1>1. work[w] \in Work /\ At(w, "end_register")
    BY DEF EndRegister, WorkersInv, Working
  <1>2. \/ Raise(w) /\ UNCHANGED ledgerVars
        \/ /\ RegisterInvalidation(EndId(w), f, EndResult(w))
           /\ ~RegisterInvalidationRaises(EndId(w), f, EndResult(w))
           /\ \/ /\ Exists(f) /\ invalidations[EndId(w)].state = "applied"
                 /\ Goto(w, AfterEnd(w))
              \/ /\ ~Exists(f) \/ invalidations[EndId(w)].state # "applied"
                 /\ work' = [work EXCEPT ![w] = r]
    BY DEF EndRegister, RegisterInvalidationResult
  <1>3. q.activation = asrt[f].activation_count
    BY DEF NoReg
  <1> HIDE DEF q
  <1>4. /\ r.pc = "end_find" /\ r.msg = Msg(w) /\ r.failed = work[w].failed /\ r.fact = f
        /\ r.matched = Exists(f) /\ r.reg = q
    BY <1>1 DEF Work, Msg
  <1> HIDE DEF r
  <1> QED
    BY <1>2, <1>3, <1>4, WorkerSet

\* end_find,
LEMMA EndFindFields ==
    ASSUME WorkersInv, NEW w \in Workers, EndFind(w)
    PROVE  LET found == ProjectionDrawers(work[w].fact, work[w].reg.activation)
           IN \/ found = {} /\ Goto(w, "end_kg")
              \/ \E d \in found :
                     /\ work'[w].pc = IF d \in archived THEN "end_kg" ELSE "end_archive"
                     /\ work'[w].seen = {d} /\ work'[w].msg = Msg(w)
                     /\ work'[w].failed = work[w].failed /\ work'[w].fact = work[w].fact
                     /\ work'[w].matched = work[w].matched /\ work'[w].reg = work[w].reg
                     /\ \A v \in Workers : v # w => work'[v] = work[v]
  <1> DEFINE found == ProjectionDrawers(work[w].fact, work[w].reg.activation)
  <1>1. CASE found = {} /\ Goto(w, "end_kg")
    BY <1>1
  <1>2. ASSUME NEW d \in found, NEW p, p = IF d \in archived THEN "end_kg" ELSE "end_archive",
               work' = [work EXCEPT ![w] = [@ EXCEPT !.pc = p, !.seen = {d}]]
        PROVE  /\ work'[w].pc = p /\ work'[w].seen = {d} /\ work'[w].msg = Msg(w)
               /\ work'[w].failed = work[w].failed /\ work'[w].fact = work[w].fact
               /\ work'[w].matched = work[w].matched /\ work'[w].reg = work[w].reg
               /\ \A v \in Workers : v # w => work'[v] = work[v]
    <2> DEFINE r == [work[w] EXCEPT !.pc = p, !.seen = {d}]
    <2>1. /\ r.pc = p /\ r.seen = {d} /\ r.msg = Msg(w) /\ r.failed = work[w].failed
          /\ r.fact = work[w].fact /\ r.matched = work[w].matched /\ r.reg = work[w].reg
          /\ work' = [work EXCEPT ![w] = r]
      BY <1>2 DEF WorkersInv, Working, Work, Msg
    <2> HIDE DEF r
    <2> QED
      BY <2>1, WorkerSet
  <1> QED
    BY <1>1, <1>2 DEF EndFind

\* end_mark,
LEMMA EndMarkFields ==
    ASSUME WorkersInv, NEW w \in Workers, EndMark(w)
    PROVE  \/ Raise(w) /\ UNCHANGED ledgerVars
           \/ /\ MarkInvalidated(EndId(w))
              /\ work'[w].pc = AfterEnd(w) /\ work'[w].msg = Msg(w)
              /\ work'[w].failed = work[w].failed
              /\ \A v \in Workers : v # w => work'[v] = work[v]
  <1> DEFINE p == AfterEnd(w)
             r == [work[w] EXCEPT !.pc = p, !.fact = NoFact, !.matched = FALSE, !.seen = {},
                                  !.reg = NoReg]
  <1>1. \/ Raise(w) /\ UNCHANGED ledgerVars
        \/ MarkInvalidated(EndId(w)) /\ work' = [work EXCEPT ![w] = r]
    BY DEF EndMark
  <1> HIDE DEF p
  <1>2. r.pc = p /\ r.msg = Msg(w) /\ r.failed = work[w].failed
    BY DEF WorkersInv, Working, Work, Msg
  <1> HIDE DEF r
  <1> QED
    BY <1>1, <1>2, WorkerSet DEF p

\* read_fact,
LEMMA ReadFactFields ==
    ASSUME WorkersInv, NEW w \in Workers, ReadFact(w)
    PROVE  LET f == Body(w).adds
               inactive == Exists(f) /\ asrt[f].state # "active"
           IN /\ work'[w].pc \in {"register", "reactivate", "supersede", "reject"}
              /\ work'[w].pc = "register" => ~inactive
              /\ work'[w].pc = "reactivate" => inactive
              /\ work'[w].pc # "register" => asrt[f].state # "active"
              /\ work'[w].pc \in {"supersede", "reject"} => ~IsTurn(w)
              /\ work'[w].msg = Msg(w) /\ work'[w].failed = work[w].failed
              /\ \A v \in Workers : v # w => work'[v] = work[v]
  <1> DEFINE f == Body(w).adds
             inactive == Exists(f) /\ asrt[f].state # "active"
             plan == IF inactive THEN "reactivate" ELSE "register"
             p == IF IsTurn(w) \/ asrt[f].state = "active" THEN plan
                  ELSE IF inactive THEN (IF SlotOf[f] \in Single THEN "supersede" ELSE plan)
                  ELSE IF SlotOf[f] \in Replaceable THEN "supersede"
                  ELSE "reject"
             r == [work[w] EXCEPT !.plan = plan, !.pc = p]
  <1>1. work' = [work EXCEPT ![w] = r]
    BY DEF ReadFact
  <1>2. /\ p \in {"register", "reactivate", "supersede", "reject"}
        /\ p = "register" => ~inactive
        /\ p = "reactivate" => inactive
        /\ p # "register" => asrt[f].state # "active"
        /\ p \in {"supersede", "reject"} => ~IsTurn(w)
    OBVIOUS
  <1> HIDE DEF p, plan
  <1>3. r.pc = p /\ r.msg = Msg(w) /\ r.failed = work[w].failed
    BY DEF WorkersInv, Working, Work, Msg
  <1> HIDE DEF r
  <1> QED
    BY <1>1, <1>2, <1>3, WorkerSet

\* supersede,
LEMMA SupersedeFields ==
    ASSUME WorkersInv, NEW w \in Workers, Supersede(w)
    PROVE  /\ work'[w].pc \in {"register", "reactivate", "end_register", "reject"}
           /\ work'[w].msg = Msg(w) /\ work'[w].failed = work[w].failed
           /\ \A v \in Workers : v # w => work'[v] = work[v]
  <1>1. work[w] \in Work
    BY DEF WorkersInv, Working
  <1>2. \/ \E p \in {"register", "reactivate", "reject"} : Goto(w, p)
        \/ \E old : work' = [work EXCEPT ![w] = [@ EXCEPT !.fact = old, !.pc = "end_register"]]
    BY <1>1 DEF Supersede, Reject, Work
  <1>3. ASSUME NEW old, work' = [work EXCEPT ![w] = [@ EXCEPT !.fact = old, !.pc = "end_register"]]
        PROVE  /\ work'[w].pc = "end_register" /\ work'[w].msg = Msg(w)
               /\ work'[w].failed = work[w].failed
               /\ \A v \in Workers : v # w => work'[v] = work[v]
    <2> DEFINE r == [work[w] EXCEPT !.fact = old, !.pc = "end_register"]
    <2>1. /\ r.pc = "end_register" /\ r.msg = Msg(w) /\ r.failed = work[w].failed
          /\ work' = [work EXCEPT ![w] = r]
      BY <1>1, <1>3 DEF Work, Msg
    <2> HIDE DEF r
    <2> QED
      BY <2>1, WorkerSet
  <1> QED
    BY <1>2, <1>3, GotoFields

\* a registration,
LEMMA RegisteringFields ==
    ASSUME WorkersInv, NEW w \in Workers, NEW reg,
           work' = [work EXCEPT ![w] = [@ EXCEPT !.reg = reg, !.pc = AfterRegister(w, reg)]]
    PROVE  /\ work'[w].pc = AfterRegister(w, reg) /\ work'[w].reg = reg /\ work'[w].msg = Msg(w)
           /\ work'[w].failed = work[w].failed
           /\ \A v \in Workers : v # w => work'[v] = work[v]
  <1> DEFINE p == AfterRegister(w, reg)
             r == [work[w] EXCEPT !.reg = reg, !.pc = p]
  <1> HIDE DEF p
  <1>1. /\ r.pc = p /\ r.reg = reg /\ r.msg = Msg(w) /\ r.failed = work[w].failed
        /\ work' = [work EXCEPT ![w] = r]
    BY DEF WorkersInv, Working, Work, Msg, p
  <1> HIDE DEF r
  <1> QED
    BY <1>1, WorkerSet DEF p

\* look, which finds every projection it does not mark pending,
LEMMA LookFields ==
    ASSUME WorkersInv, NEW w \in Workers, Look(w)
    PROVE  LET f == Body(w).adds
               reg == work[w].reg
               regp == work'[w].reg
           IN /\ work'[w].pc = "relook" /\ work'[w].msg = Msg(w)
              /\ work'[w].failed = work[w].failed
              /\ regp.activation = reg.activation
              /\ regp.reactivation_pending = reg.reactivation_pending
              /\ work'[w].missing \subseteq regp.pending
              /\ reg.pending \subseteq regp.pending \cup work'[w].recovered
              /\ "drawer" \notin reg.pending /\ ProjectionDrawers(f, reg.activation) # {}
                 => "drawer" \notin regp.pending
              /\ "kg" \notin regp.pending => OpenRows({f}) # {}
              /\ \A v \in Workers : v # w => work'[v] = work[v]
  <1> DEFINE f == Body(w).adds
             reg == work[w].reg
             projected == Targets \ reg.pending
             asked == projected \cup (IF ~reg.evidence_created \/ reg.evidence_count > 1
                                      THEN reg.pending ELSE {})
             visible == {t \in asked : \/ t = "drawer" /\ ProjectionDrawers(f, reg.activation) # {}
                                       \/ t = "kg" /\ OpenRows({f}) # {}}
             missing == projected \ visible
             recovered == visible \cap reg.pending
             pending == (reg.pending \cup missing) \ visible
             q == [reg EXCEPT !.pending = pending]
             r == [work[w] EXCEPT !.reg = q, !.missing = missing, !.recovered = recovered,
                                  !.pc = "relook"]
  <1>1. work' = [work EXCEPT ![w] = r] /\ work[w] \in Work /\ reg \in Registration
    BY DEF Look, WorkersInv, Working, Work
  <1>2. /\ missing \subseteq pending /\ reg.pending \subseteq pending \cup recovered
        /\ "drawer" \notin reg.pending /\ ProjectionDrawers(f, reg.activation) # {}
           => "drawer" \notin pending
        /\ "kg" \notin pending => OpenRows({f}) # {}
    BY MessageIds
  <1> HIDE DEF missing, recovered, pending
  <1>3. /\ q.pending = pending /\ q.activation = reg.activation
        /\ q.reactivation_pending = reg.reactivation_pending
    BY <1>1 DEF Registration
  <1> HIDE DEF q
  <1>4. /\ r.pc = "relook" /\ r.msg = Msg(w) /\ r.failed = work[w].failed /\ r.reg = q
        /\ r.missing = missing /\ r.recovered = recovered
    BY <1>1 DEF Work, Msg
  <1> HIDE DEF r
  <1>5. work'[w] = r /\ \A v \in Workers : v # w => work'[v] = work[v]
    BY <1>1, WorkerSet
  <1> QED
    BY <1>2, <1>3, <1>4, <1>5

\* and relook.
LEMMA RelookFields ==
    ASSUME WorkersInv, NEW w \in Workers, Relook(w)
    PROVE  LET f == Body(w).adds
               reg == work[w].reg
           IN /\ \/ /\ MarkProjectionPending(f, work[w].missing)
                    /\ work'[w].pc = "relook" /\ work'[w].recovered = work[w].recovered
                    /\ work'[w].missing = {}
                 \/ /\ IF work[w].recovered # {} THEN MarkProjected(f, work[w].recovered)
                       ELSE UNCHANGED ledgerVars
                    /\ work'[w].pc = IF "drawer" \in reg.pending THEN "put_drawer"
                                     ELSE ToKg(w, reg)
              /\ work'[w].msg = Msg(w) /\ work'[w].failed = work[w].failed /\ work'[w].reg = reg
              /\ \A v \in Workers : v # w => work'[v] = work[v]
  <1> DEFINE f == Body(w).adds
             reg == work[w].reg
             p == IF "drawer" \in reg.pending THEN "put_drawer" ELSE ToKg(w, reg)
  <1>1. work[w] \in Work /\ work[w].pc = "relook"
    BY DEF Relook, At, WorkersInv, Working
  <1>2. CASE work[w].missing # {}
    <2> DEFINE r == [work[w] EXCEPT !.missing = {}]
    <2>1. MarkProjectionPending(f, work[w].missing) /\ work' = [work EXCEPT ![w] = r]
      BY <1>2 DEF Relook
    <2>2. /\ r.pc = "relook" /\ r.msg = Msg(w) /\ r.reg = reg /\ r.recovered = work[w].recovered
          /\ r.failed = work[w].failed /\ r.missing = {}
      BY <1>1 DEF Work, Msg
    <2> HIDE DEF r
    <2> QED
      BY <2>1, <2>2, WorkerSet
  <1>3. CASE work[w].missing = {}
    <2> DEFINE r == [work[w] EXCEPT !.recovered = {}, !.pc = p]
    <2>1. /\ IF work[w].recovered # {} THEN MarkProjected(f, work[w].recovered)
             ELSE UNCHANGED ledgerVars
          /\ work' = [work EXCEPT ![w] = r]
      BY <1>3 DEF Relook
    <2> HIDE DEF p
    <2>2. r.pc = p /\ r.msg = Msg(w) /\ r.reg = reg /\ r.failed = work[w].failed
      BY <1>1 DEF Work, Msg
    <2> HIDE DEF r
    <2> QED
      BY <2>1, <2>2, WorkerSet DEF p
  <1> QED
    BY <1>2, <1>3

\* A handler that forgets goes on forgetting, or has failed.
LEMMA ForgetFields ==
    ASSUME WorkersInv, NEW w \in Workers, ForgetSteps(w)
    PROVE  /\ work[w].pc \in ForgetPcs
           /\ work'[w].pc \in ForgetPcs \cup {"settle"} /\ work'[w].msg = Msg(w)
           /\ work'[w].failed \in {work[w].failed, TRUE}
           /\ work'[w].failed => work[w].failed \/ work'[w].pc = "settle"
           /\ \A v \in Workers : v # w => work'[v] = work[v]
  <1>1. work[w].pc \in ForgetPcs /\ work[w].pc \notin Ending /\ work[w] \in Work
    BY DEF ForgetSteps, ForgetResolve, ForgetScan, ForgetBegin, ForgetRedact, ForgetScrub,
           ForgetKg, ForgetKgMark, ForgetDrawers, ForgetDrawerMark, ForgetSource, At, ForgetPcs,
           FactsPcs, Ending, WorkersInv, Working
  <1>2. ASSUME NEW p \in ForgetPcs \cup {"settle"}, Goto(w, p)
        PROVE  /\ work'[w].pc = p /\ work'[w].msg = Msg(w) /\ work'[w].failed = work[w].failed
               /\ \A v \in Workers : v # w => work'[v] = work[v]
    BY <1>2, GotoFields
  <1>3. ASSUME NEW p, NEW s, NEW e, NEW F,
               \/ work' = [work EXCEPT ![w] = [@ EXCEPT !.facts = F, !.pc = p]]
               \/ work' = [work EXCEPT ![w] = [@ EXCEPT !.seen = s, !.pc = p]]
               \/ work' = [work EXCEPT ![w] = [@ EXCEPT !.events = e, !.pc = p]]
        PROVE  /\ work'[w].pc = p /\ work'[w].msg = Msg(w) /\ work'[w].failed = work[w].failed
               /\ \A v \in Workers : v # w => work'[v] = work[v]
    <2> DEFINE a == [work[w] EXCEPT !.facts = F, !.pc = p]
               b == [work[w] EXCEPT !.seen = s, !.pc = p]
               c == [work[w] EXCEPT !.events = e, !.pc = p]
    <2>1. \A r \in {a, b, c} : r.pc = p /\ r.msg = Msg(w) /\ r.failed = work[w].failed
      BY <1>1 DEF Work, Msg
    <2>2. \E r \in {a, b, c} : work' = [work EXCEPT ![w] = r]
      BY <1>3
    <2> HIDE DEF a, b, c
    <2> QED
      BY <2>1, <2>2, WorkerSet
  <1>4. CASE Raise(w)
    BY <1>1, <1>4, RaiseFields
  <1>5. \/ Raise(w)
        \/ \E p \in ForgetPcs \cup {"settle"} :
               \/ Goto(w, p)
               \/ \E s, e, F : \/ work' = [work EXCEPT ![w] = [@ EXCEPT !.facts = F, !.pc = p]]
                               \/ work' = [work EXCEPT ![w] = [@ EXCEPT !.seen = s, !.pc = p]]
                               \/ work' = [work EXCEPT ![w] = [@ EXCEPT !.events = e, !.pc = p]]
    <2>1. CASE ForgetScan(w)
      BY <2>1 DEF ForgetScan, ForgetPcs, FactsPcs
    <2>2. CASE ForgetBegin(w)
      BY <2>2 DEF ForgetBegin, ForgetPcs, FactsPcs
    <2>3. CASE ForgetResolve(w)
      BY <2>3 DEF ForgetResolve, ForgetPcs, FactsPcs
    <2>4. CASE ForgetRedact(w)
      BY <2>4 DEF ForgetRedact, ForgetPcs, FactsPcs
    <2>5. CASE \/ ForgetScrub(w) \/ ForgetKg(w) \/ ForgetKgMark(w) \/ ForgetDrawers(w)
               \/ ForgetDrawerMark(w) \/ ForgetSource(w)
      BY <2>5 DEF ForgetScrub, ForgetKg, ForgetKgMark, ForgetDrawers, ForgetDrawerMark,
                  ForgetSource, ForgetPcs, FactsPcs
    <2> QED
      BY <2>1, <2>2, <2>3, <2>4, <2>5 DEF ForgetSteps
  <1>6. CASE ~Raise(w)
    <2>1. PICK p \in ForgetPcs \cup {"settle"} :
              \/ Goto(w, p)
              \/ \E s, e, F : \/ work' = [work EXCEPT ![w] = [@ EXCEPT !.facts = F, !.pc = p]]
                              \/ work' = [work EXCEPT ![w] = [@ EXCEPT !.seen = s, !.pc = p]]
                              \/ work' = [work EXCEPT ![w] = [@ EXCEPT !.events = e, !.pc = p]]
      BY <1>5, <1>6
    <2>2. /\ work'[w].pc = p /\ work'[w].msg = Msg(w) /\ work'[w].failed = work[w].failed
          /\ \A v \in Workers : v # w => work'[v] = work[v]
      BY <1>2, <1>3, <2>1
    <2> QED
      BY <1>1, <2>2
  <1> QED
    BY <1>1, <1>4, <1>6

\* A handler that goes on with its message.
LEMMA RoutedOn ==
    ASSUME NEW w, Routed(w), content' = content, applied' = applied, work'[w].msg = Msg(w),
           work[w].pc \notin {"idle", "start", "ack"},
           NEW p, p = work'[w].pc, NEW kind, kind = Body(w).kind,
           p \in Ending => kind \in {"turn", "correct", "update"},
           p \in AssertPcs => kind \in {"turn", "assert", "update"},
           p = "reactivate" => kind # "assert",
           p = "check_drawer" => kind = "turn",
           p \in {"look", "relook"} => kind # "turn",
           p = "relook" => work'[w].missing \subseteq work'[w].reg.pending,
           work'[w].failed => p = "settle" \/ (kind = "turn" /\ p \notin {"ack", "reject"})
    PROVE  Routed(w)'
  <1>1. Msg(w)' = Msg(w) /\ Body(w)' = Body(w) /\ IsTurn(w)' = IsTurn(w)
    BY DEF Msg, Body, IsTurn
  <1> QED
    BY <1>1 DEF Routed, At

\* Ending a fact, asserting one and forgetting keep the worker on the route of
\* its message.
LEMMA RoutedEnd ==
    ASSUME WorkersInv, NEW w \in Workers, Routed(w), EndSteps(w)
    PROVE  Routed(w)'
  <1>1. /\ work[w].pc \in Ending /\ content' = content /\ applied' = applied
        /\ ~At(w, "settle") /\ Body(w).kind \in {"turn", "correct", "update"}
        /\ work[w].pc \notin {"idle", "start", "settle", "ack", "reject"}
    BY StepCalls, AppliedStep, EndStepsGo DEF Step, Ending, At, Routed
  <1>2. work[w].failed => Body(w).kind = "turn"
    BY <1>1 DEF Routed
  <1>3. /\ AfterEnd(w) \in {"settle", "read_fact", "register", "reactivate"}
        /\ Asks(Body(w), AfterEnd(w))
        /\ AfterEnd(w) \in AssertPcs => Body(w).kind \in {"turn", "update"}
        /\ AfterEnd(w) = "reactivate" => Body(w).kind = "update"
    BY <1>1, AfterEndAsked DEF AssertPcs, AfterEnd, IsTurn, Ending, At
  <1>6. AfterEnd(w) # "reject" /\ {"reject", "settle"} \cap (Ending \cup AssertPcs) = {}
    BY <1>3 DEF Ending, AssertPcs
  <1> DEFINE q == Ending \cup {AfterEnd(w), "settle"}
  <1>4. \A p \in q \cup {"reject"} : /\ p # "relook" /\ p # "look" /\ p # "check_drawer" /\ p # "ack"
                          /\ (p \in AssertPcs => p = AfterEnd(w))
                          /\ (p = "reactivate" => p = AfterEnd(w))
    BY <1>3 DEF Ending, AssertPcs
  <1>5. /\ work'[w].pc \in q \cup {"reject"} /\ work'[w].msg = Msg(w)
        /\ work'[w].failed => work[w].failed \/ work'[w].pc = "settle" \/ Body(w).kind = "turn"
        /\ work'[w].pc = "reject" => Body(w).kind # "turn"
    <2>1. CASE Raise(w)
      BY <1>3, <1>6, <2>1, RaiseFields DEF IsTurn
    <2>2. CASE EndRegister(w)
      BY <1>6, <2>1, <2>2, EndRegisterFields, GotoFields DEF Ending
    <2>3. CASE EndFind(w)
      BY <1>6, <2>3, EndFindFields, GotoFields DEF Ending
    <2>4. CASE EndArchive(w)
      BY <1>6, <2>1, <2>4, GotoFields DEF EndArchive, Ending
    <2>5. CASE EndKg(w)
      BY <1>6, <2>5, GotoFields DEF EndKg, Reject, Ending, IsTurn
    <2>6. CASE EndMark(w)
      BY <1>6, <2>1, <2>6, EndMarkFields DEF Ending
    <2> QED
      BY <2>2, <2>3, <2>4, <2>5, <2>6 DEF EndSteps
  <1> QED
    BY <1>1, <1>2, <1>3, <1>4, <1>5, <1>6, RoutedOn

LEMMA RoutedAssert ==
    ASSUME WorkersInv, NEW w \in Workers, Routed(w), AssertSteps(w)
    PROVE  Routed(w)'
  <1>1. work[w].pc \in AssertPcs
    BY DEF AssertSteps, ReadFact, Supersede, CheckDrawer, Look, PutDrawer, CheckKg, PutKg,
           RegisterFact, ReactivateFact, FinishReactivation, ReopenDrawer, Relook, MarkDrawer,
           ReopenKg, MarkKg, At, AssertPcs
  <1> DEFINE kind == Body(w).kind
  <1>2. /\ content' = content /\ applied' = applied /\ ~At(w, "settle")
        /\ kind \in {"turn", "assert", "update"} /\ (work[w].failed => kind = "turn")
        /\ work[w].pc \notin {"idle", "start", "settle", "ack", "reject"} \cup Ending
        /\ Asks(Body(w), work[w].pc)
    BY <1>1, StepCalls, AppliedStep, Asserting, Holding DEF Step, AssertPcs, At, Routed, Ending
  <1> DEFINE late == {"reopen_drawer", "put_drawer", "mark_drawer", "check_kg", "reopen_kg",
                      "put_kg", "mark_kg", "finish_reactivation", "settle"}
             reads == {"check_drawer", "look", "relook"}
             early == {"register", "reactivate", "supersede"}
  <1>3. late \cup early \subseteq AssertPcs \cup {"settle"}
        /\ \A p \in late \cup early : p \notin Ending \cup reads \cup {"ack", "reject"}
        /\ late \cap early = {} /\ "end_register" \in Ending \ AssertPcs
        /\ "reject" \notin Ending \cup AssertPcs \cup reads
        /\ reads \subseteq AssertPcs \ Ending
    BY DEF AssertPcs, Ending
  <1>4. ASSUME work'[w].msg = Msg(w), work'[w].pc \in late,
               work'[w].failed \in {work[w].failed, TRUE},
               work'[w].failed => work[w].failed \/ work'[w].pc = "settle"
        PROVE  Routed(w)'
    BY <1>2, <1>3, <1>4, RoutedOn
  <1>5. CASE Raise(w)
    BY <1>2, <1>4, <1>5, RaiseFields
  <1>6. ASSUME NEW p \in late, Goto(w, p)
        PROVE  Routed(w)'
    BY <1>4, <1>6, GotoFields
  <1>7. CASE ReadFact(w)
    <2>1. kind \in {"turn", "update"}
      BY <1>7, <1>2 DEF Asks, ReadFact, At
    <2> QED
      BY <1>2, <1>3, <1>7, <2>1, ReadFactFields, RoutedOn DEF IsTurn
  <1>8. CASE Supersede(w)
    <2>1. kind = "update"
      BY <1>8, <1>2 DEF Asks, Supersede, At
    <2> QED
      BY <1>2, <1>3, <1>8, <2>1, SupersedeFields, RoutedOn
  <1>9. CASE RegisterFact(w) \/ ReactivateFact(w)
    <2>1. CASE ~Raise(w)
      <3>1. PICK reg : work' = [work EXCEPT ![w] = [@ EXCEPT !.reg = reg, !.pc = AfterRegister(w, reg)]]
        BY <1>9, <2>1 DEF RegisterFact, ReactivateFact
      <3>2. /\ AfterRegister(w, reg) \in {"settle", "look", "put_drawer", "check_drawer"}
            /\ AfterRegister(w, reg) = "look" => kind # "turn"
            /\ AfterRegister(w, reg) = "check_drawer" => kind = "turn"
        BY DEF AfterRegister, IsTurn
      <3>3. /\ work'[w].pc = AfterRegister(w, reg) /\ work'[w].msg = Msg(w)
            /\ work'[w].failed = work[w].failed
        BY <3>1, RegisteringFields
      <3>4. {"settle", "look", "put_drawer", "check_drawer"}
            \cap (Ending \cup {"ack", "reject", "reactivate", "relook"}) = {}
        BY DEF Ending
      <3> QED
        BY <1>2, <3>2, <3>3, <3>4, RoutedOn
    <2> QED
      BY <1>5, <2>1
  <1>10. CASE Look(w)
    <2>1. kind # "turn"
      BY <1>10 DEF Look, Routed, IsTurn, At
    <2> QED
      BY <1>2, <1>3, <1>10, <2>1, LookFields, RoutedOn
  <1>11. CASE Relook(w)
    <2>1. kind # "turn" /\ ~work[w].failed
      BY <1>2, <1>11 DEF Relook, Routed, IsTurn, At
    <2>2. ToKg(w, work[w].reg) \in late
      BY ToKgNext
    <2>3. work'[w].pc \in late \cup {"relook"} /\ (work'[w].pc = "relook" => work'[w].missing = {})
      BY <1>3, <1>11, <2>2, RelookFields
    <2> QED
      BY <1>2, <1>3, <1>11, <2>1, <2>3, RelookFields, RoutedOn
  <1>12. CASE CheckDrawer(w) \/ ReopenDrawer(w) \/ PutDrawer(w) \/ MarkDrawer(w)
    <2>1. \E p \in late : Goto(w, p)
      BY <1>12, ToKgNext DEF CheckDrawer, ReopenDrawer, PutDrawer, MarkDrawer
    <2> QED
      BY <1>6, <2>1
  <1>13. CASE CheckKg(w) \/ ReopenKg(w) \/ PutKg(w) \/ MarkKg(w) \/ FinishReactivation(w)
    <2>1. Raise(w) \/ \E p \in late : Goto(w, p)
      BY <1>13, ToKgNext DEF CheckKg, ReopenKg, PutKg, MarkKg, FinishReactivation
    <2> QED
      BY <1>5, <1>6, <2>1
  <1> QED
    BY <1>7, <1>8, <1>9, <1>10, <1>11, <1>12, <1>13 DEF AssertSteps

LEMMA RoutedForget ==
    ASSUME WorkersInv, NEW w \in Workers, Routed(w), ForgetSteps(w)
    PROVE  Routed(w)'
  <1>1. work[w].pc \in ForgetPcs /\ ~At(w, "settle") /\ content' = content /\ applied' = applied
    BY ForgetFields, StepCalls, AppliedStep DEF Step, ForgetPcs, FactsPcs, At
  <1>2. Body(w).kind \in {"forget_drawers", "forget_source"}
    BY <1>1, Holding DEF ForgetPcs, FactsPcs, At, Asks
  <1>3. ~work[w].failed /\ work[w].pc \notin {"idle", "start", "settle", "ack", "reject"}
    BY <1>1, <1>2 DEF Routed, At, ForgetPcs, FactsPcs
  <1>4. (ForgetPcs \cup {"settle"}) \cap (Ending \cup AssertPcs \cup {"look", "relook"}) = {}
    BY DEF ForgetPcs, FactsPcs, Ending, AssertPcs
  <1>5. {"reactivate", "check_drawer", "look", "relook"} \subseteq AssertPcs
    BY DEF AssertPcs
  <1>6. /\ work'[w].pc \in ForgetPcs \cup {"settle"} /\ work'[w].msg = Msg(w)
        /\ work'[w].failed => work'[w].pc = "settle"
    BY <1>3, ForgetFields
  <1>7. /\ work'[w].pc \notin Ending /\ work'[w].pc \notin AssertPcs
        /\ work'[w].pc \notin {"reactivate", "check_drawer", "look", "relook"}
    BY <1>4, <1>5, <1>6
  <1>8. work[w].pc \notin {"idle", "start", "ack"}
    BY <1>3
  <1> QED
    BY <1>1, <1>6, <1>7, <1>8, RoutedOn

\* Where a delivery begins.
LEMMA StartFields ==
    ASSUME WorkersInv, Spoken, NEW w \in Workers, Start(w)
    PROVE  \E p : /\ Goto(w, p)
                  /\ IsTurn(w) => p = AfterDecision(w)
                  /\ ~IsTurn(w) => p = AfterStatus(w)
                  /\ p \in {"settle", "end_register", "read_fact", "register", "ack", "forget_resolve"}
                  /\ p = "end_register" => Body(w).kind \in {"turn", "correct"}
                  /\ p = "read_fact" => Body(w).kind \in {"turn", "update"}
                  /\ p = "register" => Body(w).kind = "assert"
                  /\ p = "ack" => Body(w).kind # "turn" /\ Msg(w) \in applied
                  /\ p # "ack" => Msg(w) \notin applied
  <1>1. Start(w) /\ ~At(w, "idle")
    BY DEF Start, At
  <1>2. Body(w) \in Content /\ Msg(w) \in Msgs
    BY <1>1, Holding
  <1>3. CASE IsTurn(w)
    <2>1. Msg(w) \notin applied
      BY <1>3 DEF Spoken, IsTurn, Body
    <2> QED
      BY <1>1, <1>3, <2>1 DEF Start, AfterDecision, AfterEnd, IsTurn
  <1>4. CASE ~IsTurn(w)
    BY <1>1, <1>4 DEF Start, AfterStatus, IsTurn
  <1> QED
    BY <1>3, <1>4

\* An idle worker has no message.
LEMMA IdleFields == Idle.pc = "idle" /\ Idle.msg = NoMsg /\ ~Idle.failed
  BY DEF Idle

\* A message enters its own route, and leaves it when it is settled.
LEMMA RoutedQueue ==
    ASSUME WorkersInv, Spoken, NEW w \in Workers, Routed(w),
           \/ \E m \in Msgs : Take(w, m)
           \/ Start(w) \/ Settle(w) \/ Ack(w) \/ RejectAck(w) \/ Fail(w)
    PROVE  Routed(w)'
  <1>1. {"idle", "start", "settle", "ack", "reject"} \cap (Ending \cup AssertPcs) = {}
        /\ {"look", "relook", "reactivate", "check_drawer"} \subseteq AssertPcs
    BY DEF Ending, AssertPcs
  <1>2. ASSUME NEW m \in Msgs, Take(w, m)
        PROVE  Routed(w)'
    BY <1>1, <1>2, TakeFields DEF Routed, At
  <1>3. CASE Start(w)
    <2>1. PICK p : /\ Goto(w, p)
                   /\ p \in {"settle", "end_register", "read_fact", "register", "ack", "forget_resolve"}
                   /\ p = "end_register" => Body(w).kind \in {"turn", "correct"}
                   /\ p = "read_fact" => Body(w).kind \in {"turn", "update"}
                   /\ p = "register" => Body(w).kind = "assert"
                   /\ p # "ack" => Msg(w) \notin applied
                   /\ p = "ack" => Body(w).kind # "turn"
      BY <1>3, StartFields
    <2>2. /\ content' = content /\ applied' = applied /\ work[w].pc = "start"
          /\ (work[w].failed => Body(w).kind = "turn")
      BY <1>3 DEF Start, localOnly, ledgerOnly, queueVars, At, Routed
    <2>3. Msg(w)' = Msg(w) /\ Body(w)' = Body(w) /\ work'[w].pc = p /\ work'[w].failed = work[w].failed
      BY <2>1, <2>2, GotoFields DEF Msg, Body
    <2>4. "end_register" \notin AssertPcs /\ {"read_fact", "register", "forget_resolve"} \cap Ending = {}
          /\ "forget_resolve" \notin AssertPcs
      BY DEF AssertPcs, Ending
    <2>5. IsTurn(w)' = IsTurn(w)
      BY <2>3 DEF IsTurn
    <2> QED
      BY <1>1, <2>1, <2>2, <2>3, <2>4, <2>5 DEF Routed, At
  <1>4. CASE Settle(w)
    <2>1. CASE work[w].failed
      <3>1. work' = [work EXCEPT ![w] = Idle]
        BY <1>4, <2>1 DEF Settle
      <3>2. work'[w].pc = "idle" /\ ~work'[w].failed
        BY <3>1, IdleFields, WorkerSet
      <3> QED
        BY <1>1, <3>2 DEF Routed, At
    <2>2. CASE ~work[w].failed
      <3>1. work'[w].pc = "ack" /\ ~work'[w].failed
        BY <1>4, <2>2, GotoFields DEF Settle
      <3> QED
        BY <1>1, <3>1 DEF Routed, At
    <2> QED
      BY <2>1, <2>2
  <1>5. CASE Ack(w) \/ RejectAck(w)
    <2>1. work' = [work EXCEPT ![w] = Idle]
      BY <1>5 DEF Ack, RejectAck, Finish
    <2>2. work'[w].pc = "idle" /\ ~work'[w].failed
      BY <2>1, IdleFields, WorkerSet
    <2> QED
      BY <1>1, <2>2 DEF Routed, At
  <1>6. CASE Fail(w)
    <2>1. /\ Raise(w) /\ content' = content /\ applied' = applied /\ ~At(w, "idle")
          /\ work[w].pc \notin {"idle", "settle", "ack", "reject"}
          /\ At(w, "start") => IsTurn(w)
      BY <1>6 DEF Fail, queueVars, At
    <2>2. /\ AfterEnd(w) \in {"settle", "read_fact", "register", "reactivate"}
          /\ IsTurn(w) => AfterEnd(w) \in {"settle", "read_fact"}
      BY <2>1, AfterEndAsked DEF AfterEnd
    <2>3. work[w].pc \notin {"idle", "start", "ack"} => Msg(w) \notin applied
      BY DEF Routed
    <2>4. At(w, "start") => Msg(w) \notin applied
      BY <2>1 DEF Spoken, IsTurn, Body
    <2>5. /\ Msg(w)' = Msg(w) /\ Body(w)' = Body(w) /\ IsTurn(w)' = IsTurn(w)
          /\ work'[w].pc \in {"settle", "read_fact"} /\ (work'[w].pc = "read_fact" => IsTurn(w))
      BY <2>1, <2>2, RaiseFields DEF Msg, Body, IsTurn
    <2>6. "read_fact" \notin Ending
      BY DEF Ending
    <2> QED
      BY <1>1, <2>1, <2>3, <2>4, <2>5, <2>6 DEF Routed, At, IsTurn
  <1> QED
    BY <1>2, <1>3, <1>4, <1>5, <1>6

\* What the workers that do not step hold; no two hold the same message.
LEMMA OthersHold ==
    ASSUME WorkersInv, BackedInv, NEW w \in Workers, Step(w) \/ Fail(w)
    PROVE  /\ content' = content /\ Lasting /\ Known' /\ Sources' /\ Informed(w)'
           /\ \A v \in Workers : v # w => work'[v] = work[v]
           /\ \A v \in Workers : v # w /\ ~At(v, "idle") => Msg(v) # Msg(w)
  <1>1. Backing(w)
    BY WorkersNext, QueueStepsBacking, EndStepsBacking, AssertStepsBacking, ForgetStepsBacking
       DEF Step, Next
  <1>2. ASSUME NEW v \in Workers, v # w, ~At(v, "idle")
        PROVE  Msg(v) # Msg(w)
    BY <1>2 DEF WorkersInv, Working, Fits, At, Msg
  <1> QED
    BY <1>1, <1>2 DEF Backing, Lasting

\* A worker that does not move stays on its route.
LEMMA RoutedKept ==
    ASSUME NEW v, Routed(v), content' = content, work'[v] = work[v],
           Msg(v) \notin applied => Msg(v) \notin applied' \/ At(v, "idle")
    PROVE  Routed(v)'
  BY DEF Routed, At, Msg, Body

\* Every step keeps SpokenInv,
LEMMA SpokenNext == WorkersInv /\ BackedInv /\ SpokenInv /\ [Next]_vars => SpokenInv'
  <1> SUFFICES ASSUME WorkersInv, BackedInv, SpokenInv, [Next]_vars
               PROVE  SpokenInv'
    OBVIOUS
  <1>1. ASSUME NEW w \in Workers, Step(w) \/ Fail(w)
        PROVE  SpokenInv'
    <2>1. Spoken'
      BY <1>1, WorkersNext, SpokenStep DEF SpokenInv
    <2>2. Routed(w)'
      BY <1>1, RoutedEnd, RoutedAssert, RoutedForget, RoutedQueue DEF SpokenInv, Step
    <2>3. ASSUME NEW v \in Workers, v # w
          PROVE  Routed(v)'
      <3>1. content' = content /\ work'[v] = work[v] /\ (~At(v, "idle") => Msg(v) # Msg(w))
        BY <1>1, <2>3, OthersHold
      <3>2. applied' = applied \/ applied' = applied \cup {Msg(w)}
        BY <1>1, AppliedStep
      <3> QED
        BY <3>1, <3>2, RoutedKept DEF SpokenInv
    <2> QED
      BY <2>1, <2>2, <2>3 DEF SpokenInv
  <1>2. ASSUME UNCHANGED <<ledgerVars, content, applied>>,
               \A w \in Workers : work'[w] = work[w] \/ work'[w] = Idle
        PROVE  SpokenInv'
    <2>1. /\ content' = content /\ applied' = applied /\ evidence' = evidence
          /\ invalidations' = invalidations /\ reactivations' = reactivations
      BY <1>2 DEF ledgerVars
    <2>2. Spoken'
      BY <2>1, Zenon DEF SpokenInv, Spoken, EndingsSpoken, EvidenceSpoken, RevivalsSpoken
    <2>3. ASSUME NEW w \in Workers
          PROVE  Routed(w)'
      <3>1. CASE work'[w] = work[w]
        BY <2>1, <3>1, RoutedKept DEF SpokenInv
      <3>2. CASE work'[w] = Idle
        <4>1. "idle" \notin Ending \cup AssertPcs
          BY DEF Ending, AssertPcs
        <4> QED
          BY <3>2, <4>1, IdleFields DEF Routed, At
      <3> QED
        BY <1>2, <3>1, <3>2
    <2> QED
      BY <2>2, <2>3 DEF SpokenInv
  <1>3. CASE Crash
    BY <1>2, <1>3 DEF Crash
  <1>4. CASE (\E m \in Msgs : Publish(m)) \/ UNCHANGED vars
    BY <1>2, <1>4 DEF Publish, vars, queueVars
  <1> QED
    BY <1>1, <1>3, <1>4 DEF Next, IdlePoll

\* which holds initially.
LEMMA SpokenInit == Init => SpokenInv
  <1> SUFFICES ASSUME Init
               PROVE  SpokenInv
    OBVIOUS
  <1>1. /\ LedgerInit /\ applied = {} /\ \A w \in Workers : work[w] = Idle
    BY DEF Init
  <1>2. /\ \A i \in Intents : evidence[i] = NoFact
        /\ \A i \in Intents : reactivations[i].state = "none" /\ reactivations[i].fact = NoFact
        /\ \A i \in Corrections : invalidations[i].state = "none" /\ invalidations[i].fact = NoFact
    BY <1>1 DEF LedgerInit, NoReactivation, NoInvalidation
  <1>3. EndingsSpoken
    BY <1>2, MessageIds DEF EndingsSpoken, SpeaksOf
  <1>4. EvidenceSpoken /\ RevivalsSpoken
    BY <1>2, MessageIds DEF EvidenceSpoken, RevivalsSpoken
  <1>5. "idle" \notin Ending \cup AssertPcs
    BY DEF Ending, AssertPcs
  <1>6. \A w \in Workers : Routed(w)
    BY <1>1, <1>5, IdleFields DEF Routed, At
  <1> QED
    BY <1>1, <1>3, <1>4, <1>6 DEF SpokenInv, Spoken

\* One worker being busy, no other is.
LEMMA OnlyOne ==
    ASSUME WorkersInv, OneWorker, NEW w \in Workers, ~At(w, "idle"), NEW v \in Workers, v # w
    PROVE  At(v, "idle") /\ Msg(v) = NoMsg
  BY Holding DEF OneWorker, WorkersInv, Working, Fits, At, Msg
----------------------------------------------------------------------------
(* What is durable of a plain fact.                                         *)

\* What the ledger says of the lives of f stays the same.
LivesStay(f) ==
    /\ asrt'[f].activation_count = asrt[f].activation_count
    /\ asrt'[f].state # "forgotten" /\ (Exists(f) => asrt'[f].state # "absent")
    /\ asrt'[f].state \in EndedState <=> asrt[f].state \in EndedState
    /\ asrt'[f].state = "active" => \A t \in Targets : asrt'[f].proj[t] # "not_required"

\* No ending of f that was registered is carried out or scrubbed.
EndingsStay(f) ==
    \A m \in Msgs :
        /\ invalidations'[<<m, f>>].state = "applied" <=> invalidations[<<m, f>>].state = "applied"
        /\ invalidations[<<m, f>>].state = "pending" => invalidations'[<<m, f>>].state = "pending"

RevivalsStay(f) ==
    \A m \in Msgs : reactivations'[m].fact = f \/ reactivations[m].fact = f =>
                        reactivations'[m] = reactivations[m]

StoresStay(f) ==
    \A x : x.fact = f =>
        /\ x \in drawers' <=> x \in drawers
        /\ x \in archived' <=> x \in archived
        /\ x \in kgrows' <=> x \in kgrows
        /\ x \in closed' <=> x \in closed

\* What is durable of f depends on these only.
LEMMA DurableStays ==
    ASSUME NEW f \in Facts, Durable(f), LivesStay(f), EndingsStay(f), RevivalsStay(f), StoresStay(f)
    PROVE  Durable(f)'
  <1>1. /\ Count(f)' = Count(f) /\ (Ended(f)' <=> Ended(f)) /\ Lives(f)' = Lives(f)
        /\ \A a : Past(f, a)' <=> Past(f, a)
    BY DEF LivesStay, Count, Ended, Lives, Past
  <1>2. /\ EndedBy(f)' = EndedBy(f) /\ (BeingEnded(f) => BeingEnded(f)')
    BY DEF EndingsStay, EndedBy, BeingEnded
  <1>3. /\ Reviving(f) => Reviving(f)'
        /\ \A m \in Msgs : reactivations'[m].fact = f =>
               reactivations[m].fact = f /\ reactivations'[m] = reactivations[m]
    BY DEF RevivalsStay, Reviving
  <1>4. /\ \A a : ProjectionDrawers(f, a)' = ProjectionDrawers(f, a)
        /\ DrawersOf({f})' = DrawersOf({f})
    BY DEF StoresStay, ProjectionDrawers, DrawersOf
  <1>5. \A a : [fact |-> f, activation |-> a] \in kgrows => [fact |-> f, activation |-> a] \in kgrows'
    BY DEF StoresStay
  <1>6. RevivalsApply(f)'
    BY <1>1, <1>3, <1>4, <1>5 DEF Durable, RevivalsApply
  <1>7. OfItsLives(f)'
    BY <1>1, <1>3 DEF Durable, OfItsLives, StoresStay, LivesStay, Exists
  <1>8. EndingsCount(f)'
    BY <1>1, <1>2 DEF Durable, EndingsCount, StoresStay
  <1>9. PastHidden(f)'
    <2>1. \A d \in archived' : d.fact = f =>
              d.activation <= Count(f)' /\ (Past(f, d.activation)' \/ BeingEnded(f)')
      BY <1>1, <1>2 DEF Durable, PastHidden, StoresStay
    <2>2. \A r \in kgrows' : r.fact = f /\ Past(f, r.activation)' => r \in closed'
      BY <1>1 DEF Durable, PastHidden, StoresStay
    <2>3. OneDrawer(f)' <=> OneDrawer(f)
      BY <1>4 DEF OneDrawer
    <2>4. OneDrawer(f) => \A d \in drawers' : d.fact = f /\ Past(f, d.activation)' => d \in archived'
      BY <1>1 DEF Durable, PastHidden, StoresStay
    <2> QED
      BY <2>1, <2>2, <2>3, <2>4 DEF PastHidden
  <1> QED
    BY <1>6, <1>7, <1>8, <1>9 DEF Durable, LivesStay, Active

\* A life of f ends for good.
LEMMA DurableEnds ==
    ASSUME WorkersInv, WorkersInv', NEW f \in Facts, Durable(f), NEW m \in Msgs,
           invalidations[<<m, f>>].state = "pending",
           \A n \in Msgs : invalidations'[<<n, f>>].state
                               = IF n = m THEN "applied" ELSE invalidations[<<n, f>>].state,
           asrt'[f].state \in EndedState, asrt'[f].activation_count = asrt[f].activation_count,
           RevivalsStay(f), StoresStay(f), OpenRows({f}) = {},
           OneDrawer(f) => ProjectionDrawers(f, Count(f)) \subseteq archived
    PROVE  Durable(f)'
  <1>1. /\ Count(f)' = Count(f) /\ Ended(f)' /\ ~Active(f)' /\ Lives(f)' = Count(f)
        /\ Count(f) \in Nat \ {0} /\ asrt'[f].state \notin {"absent", "forgotten"}
        /\ \A a \in Nat : Past(f, a)' <=> a <= Count(f)
    <2>1. asrt[f].activation_count \in Nat \ {0}
      BY DEF WorkersInv, LedgerInv, LedgerTypeOK, AssertionRow
    <2> QED
      BY <2>1 DEF Count, Ended, Active, Lives, Past, EndedState
  <1>2. /\ EndedBy(f)' = EndedBy(f) \cup {m} /\ m \notin EndedBy(f)
    BY DEF EndedBy
  <1>3. /\ Reviving(f) => Reviving(f)'
        /\ \A n \in Msgs : reactivations'[n].fact = f =>
               reactivations[n].fact = f /\ reactivations'[n] = reactivations[n]
    BY DEF RevivalsStay, Reviving
  <1>4. /\ \A a : ProjectionDrawers(f, a)' = ProjectionDrawers(f, a)
        /\ DrawersOf({f})' = DrawersOf({f})
    BY DEF StoresStay, ProjectionDrawers, DrawersOf
  <1>5. \A a : [fact |-> f, activation |-> a] \in kgrows => [fact |-> f, activation |-> a] \in kgrows'
    BY DEF StoresStay
  <1>6. RevivalsApply(f)'
    <2>1. RevivalsApply(f)
      BY DEF Durable
    <2>2. ASSUME NEW n \in Msgs, reactivations'[n].fact = f
          PROVE  /\ reactivations'[n].state = "pending"
                    => Ended(f)' /\ reactivations'[n].activation_number = Count(f)' + 1
                 /\ reactivations'[n].state = "applied"
                    => LET a == reactivations'[n].activation_number
                       IN a <= Count(f)' /\ [fact |-> f, activation |-> a] \in kgrows
                          /\ ProjectionDrawers(f, a) # {}
      BY <1>1, <1>3, <2>1, <2>2 DEF RevivalsApply
    <2> QED
      BY <1>4, <1>5, <2>2 DEF RevivalsApply
  <1>7. OfItsLives(f)'
    BY <1>1, <1>3 DEF Durable, OfItsLives, StoresStay, Exists
  <1>8. /\ Cardinality(EndedBy(f)') = Cardinality(EndedBy(f)) + 1 /\ Cardinality(EndedBy(f)) \in Nat
        /\ Cardinality(EndedBy(f)) >= Count(f) - 1 /\ (Ended(f) => Cardinality(EndedBy(f)) >= Count(f))
    <2>1. IsFiniteSet(EndedBy(f))
      BY IntentsFinite, MessageIds, FS_Subset DEF EndedBy
    <2> QED
      BY <1>1, <1>2, <2>1, FS_AddElement, FS_CardinalityType DEF Durable, EndingsCount, Lives
  <1>9. \A x : x \in drawers \cup kgrows => x.activation \in Nat
    BY DEF WorkersInv, StoresOK, Drawer, KgRow
  <1>10. EndingsCount(f)'
    <2>1. ASSUME NEW r \in closed, r.fact = f
          PROVE  Past(f, r.activation)' \/ Cardinality(EndedBy(f)') > Lives(f)'
      <3>1. r \in kgrows
        BY DEF WorkersInv, StoresOK
      <3>2. r.activation <= Count(f) \/ Ended(f)
        BY <2>1, <3>1 DEF Durable, OfItsLives
      <3> QED
        BY <1>1, <1>8, <1>9, <3>1, <3>2
    <2>2. Cardinality(EndedBy(f)') >= Lives(f)'
      BY <1>1, <1>8
    <2> QED
      BY <2>1, <2>2 DEF EndingsCount, StoresStay
  <1>11. PastHidden(f)'
    <2>1. \A d \in archived' : d.fact = f => d.activation <= Count(f)' /\ Past(f, d.activation)'
      <3>1. \A d \in archived : d \in drawers
        BY DEF WorkersInv, StoresOK
      <3> QED
        BY <1>1, <1>9, <3>1 DEF Durable, PastHidden, StoresStay
    <2>2. \A r \in kgrows' : r.fact = f => r \in closed'
      BY DEF StoresStay, OpenRows
    <2>3. OneDrawer(f)' <=> OneDrawer(f)
      BY <1>4 DEF OneDrawer
    <2>4. ASSUME OneDrawer(f), NEW d \in drawers', d.fact = f, Past(f, d.activation)'
          PROVE  d \in archived'
      <3>1. d \in drawers /\ d.activation \in Nat /\ d.activation <= Count(f)
        BY <1>1, <1>9, <2>4 DEF StoresStay
      <3>2. CASE d.activation = Count(f)
        BY <2>4, <3>1, <3>2 DEF ProjectionDrawers, StoresStay
      <3>3. CASE d.activation < Count(f)
        <4>1. Past(f, d.activation)
          BY <3>3 DEF Past
        <4> QED
          BY <2>4, <3>1, <4>1 DEF Durable, PastHidden, StoresStay
      <3> QED
        BY <1>1, <3>1, <3>2, <3>3
    <2> QED
      BY <2>1, <2>2, <2>3, <2>4 DEF PastHidden
  <1> QED
    BY <1>1, <1>6, <1>7, <1>10, <1>11 DEF Durable

\* A fact that has ended is about to be brought back.
LEMMA DurableRevives ==
    ASSUME NEW f \in Facts, Durable(f), NEW m \in Msgs, reactivations[m].state = "none",
           reactivations[m].fact # f, Ended(f),
           asrt'[f].state = asrt[f].state, asrt'[f].activation_count = asrt[f].activation_count,
           reactivations'[m].fact = f, reactivations'[m].state = "pending",
           reactivations'[m].activation_number = Count(f) + 1,
           \A n \in Msgs : n # m => reactivations'[n] = reactivations[n],
           invalidations' = invalidations, UNCHANGED storeVars
    PROVE  Durable(f)'
  <1>1. /\ Count(f)' = Count(f) /\ Ended(f)' /\ ~Active(f)' /\ Lives(f)' = Lives(f)
        /\ \A a : Past(f, a)' <=> Past(f, a)
        /\ asrt'[f].state \notin {"absent", "forgotten"}
    BY DEF Count, Ended, Active, Lives, Past, EndedState
  <1>2. EndedBy(f)' = EndedBy(f) /\ (BeingEnded(f)' <=> BeingEnded(f))
    BY DEF EndedBy, BeingEnded
  <1>3. Reviving(f)'
    BY DEF Reviving
  <1>4. /\ \A a : ProjectionDrawers(f, a)' = ProjectionDrawers(f, a)
        /\ drawers' = drawers /\ archived' = archived /\ kgrows' = kgrows /\ closed' = closed
        /\ OneDrawer(f)' <=> OneDrawer(f)
    BY DEF storeVars, ProjectionDrawers, OneDrawer, DrawersOf
  <1>5. ASSUME NEW n \in Msgs, reactivations'[n].fact = f
        PROVE  /\ reactivations'[n].state = "pending"
                  => Ended(f)' /\ reactivations'[n].activation_number = Count(f)' + 1
               /\ reactivations'[n].state = "applied" =>
                      /\ reactivations'[n].activation_number <= Count(f)'
                      /\ [fact |-> f, activation |-> reactivations'[n].activation_number] \in kgrows'
                      /\ \E d \in drawers' : d.fact = f /\ d.activation = reactivations'[n].activation_number
    BY <1>1, <1>4, <1>5 DEF Durable, RevivalsApply, ProjectionDrawers
  <1>6. RevivalsApply(f)'
    BY <1>5 DEF RevivalsApply, ProjectionDrawers
  <1>7. OfItsLives(f)'
    BY <1>1, <1>3, <1>4 DEF Durable, OfItsLives, Exists
  <1>8. EndingsCount(f)'
    BY <1>1, <1>2, <1>4 DEF Durable, EndingsCount
  <1>9. PastHidden(f)'
    BY <1>1, <1>2, <1>4 DEF Durable, PastHidden
  <1> QED
    BY <1>1, <1>6, <1>7, <1>8, <1>9 DEF Durable

\* A new life begins.
LEMMA DurableBegins ==
    ASSUME WorkersInv, NEW f \in Facts, Durable(f), RevivedApart(f), NEW m \in Msgs,
           reactivations[m].fact = f, reactivations[m].state = "pending",
           [fact |-> f, activation |-> reactivations[m].activation_number] \in kgrows,
           ProjectionDrawers(f, reactivations[m].activation_number) # {},
           asrt'[f].state = "active", \A t \in Targets : asrt'[f].proj[t] # "not_required",
           asrt'[f].activation_count = reactivations[m].activation_number,
           reactivations'[m].fact = f, reactivations'[m].state = "applied",
           reactivations'[m].activation_number = reactivations[m].activation_number,
           \A n \in Msgs : n # m => reactivations'[n] = reactivations[n],
           invalidations' = invalidations, UNCHANGED storeVars
    PROVE  Durable(f)'
  <1>0. Count(f) \in Nat \ {0} /\ \A x \in drawers \cup kgrows : x.activation \in Nat
    <2>1. asrt[f].activation_count \in Nat \ {0}
      BY DEF WorkersInv, LedgerInv, LedgerTypeOK, AssertionRow
    <2> QED
      BY <2>1 DEF Count, WorkersInv, StoresOK, Drawer, KgRow
  <1>1. Ended(f) /\ reactivations[m].activation_number = Count(f) + 1
    BY DEF Durable, RevivalsApply
  <1>2. /\ Count(f)' = Count(f) + 1 /\ ~Ended(f)' /\ Lives(f)' = Lives(f)
        /\ \A a \in Nat : Past(f, a)' <=> a <= Count(f)
        /\ \A a \in Nat : Past(f, a) <=> a <= Count(f)
    BY <1>0, <1>1 DEF Count, Ended, Lives, Past, EndedState
  <1>3. EndedBy(f)' = EndedBy(f) /\ (BeingEnded(f)' <=> BeingEnded(f))
    BY DEF EndedBy, BeingEnded
  <1>4. /\ \A a : ProjectionDrawers(f, a)' = ProjectionDrawers(f, a)
        /\ drawers' = drawers /\ archived' = archived /\ kgrows' = kgrows /\ closed' = closed
        /\ OneDrawer(f)' <=> OneDrawer(f)
    BY DEF storeVars, ProjectionDrawers, OneDrawer, DrawersOf
  <1>5. ASSUME NEW n \in Msgs, reactivations'[n].fact = f
        PROVE  /\ reactivations'[n].state # "pending"
               /\ reactivations'[n].state = "applied" =>
                      /\ reactivations'[n].activation_number <= Count(f)'
                      /\ [fact |-> f, activation |-> reactivations'[n].activation_number] \in kgrows'
                      /\ \E d \in drawers' : d.fact = f /\ d.activation = reactivations'[n].activation_number
    <2>1. CASE n = m
      BY <1>0, <1>1, <1>2, <1>4, <2>1 DEF ProjectionDrawers
    <2>2. CASE n # m
      <3>1. reactivations'[n] = reactivations[n] /\ reactivations[n].fact = f
        BY <1>5, <2>2
      <3>2. reactivations[n].activation_number # Count(f) + 1
        BY <1>1, <2>2, <3>1 DEF RevivedApart
      <3>3. reactivations[n].activation_number \in Nat
        BY MessageIds DEF WorkersInv, LedgerInv, LedgerTypeOK, ReactivationRow
      <3> QED
        BY <1>0, <1>2, <1>4, <3>1, <3>2, <3>3 DEF Durable, RevivalsApply, ProjectionDrawers
    <2> QED
      BY <2>1, <2>2
  <1>6. RevivalsApply(f)'
    BY <1>5 DEF RevivalsApply, ProjectionDrawers
  <1>7. OfItsLives(f)'
    BY <1>0, <1>2, <1>4 DEF Durable, OfItsLives, Exists
  <1>8. EndingsCount(f)'
    <2>1. closed \subseteq kgrows
      BY DEF WorkersInv, StoresOK
    <2> QED
      BY <1>0, <1>2, <1>3, <1>4, <2>1 DEF Durable, EndingsCount
  <1>9. PastHidden(f)'
    <2>1. archived \subseteq drawers
      BY DEF WorkersInv, StoresOK
    <2> QED
      BY <1>0, <1>2, <1>3, <1>4, <2>1 DEF Durable, PastHidden
  <1> QED
    BY <1>6, <1>7, <1>8, <1>9 DEF Durable, Active

\* A drawer or a statement of the present life, or of the one about to begin.
LEMMA DurableWrites ==
    ASSUME WorkersInv, NEW f \in Facts, Durable(f), UNCHANGED ledgerVars, NEW a,
           \/ Active(f) /\ a = Count(f)
           \/ Ended(f) /\ Reviving(f) /\ a = Count(f) + 1,
           archived' = archived, closed' = closed,
           \A x \in drawers' : x.fact = f => x \in drawers \/ x.activation = a,
           \A x \in kgrows' : x.fact = f => x \in kgrows \/ x.activation = a,
           drawers \subseteq drawers', kgrows \subseteq kgrows'
    PROVE  Durable(f)'
  <1>0. Count(f) \in Nat \ {0}
    BY DEF Count, WorkersInv, LedgerInv, LedgerTypeOK, AssertionRow
  <1>1. ~Past(f, a) /\ a >= 1 /\ Exists(f) /\ (a <= Count(f) \/ (a = Count(f) + 1 /\ Ended(f) /\ Reviving(f)))
    BY <1>0 DEF Past, Active, Ended, EndedState, Exists
  <1>2. /\ Count(f)' = Count(f) /\ (Ended(f)' <=> Ended(f)) /\ Lives(f)' = Lives(f)
        /\ EndedBy(f)' = EndedBy(f) /\ (BeingEnded(f)' <=> BeingEnded(f))
        /\ (Reviving(f)' <=> Reviving(f)) /\ (Active(f)' <=> Active(f)) /\ (Exists(f)' <=> Exists(f))
        /\ asrt' = asrt /\ reactivations' = reactivations
    BY DEF ledgerVars, Count, Ended, Lives, EndedBy, BeingEnded, Reviving, Active, Exists
  <1>3. \A b : Past(f, b)' <=> Past(f, b)
    BY <1>2 DEF Past
  <1>4. \A b : ProjectionDrawers(f, b) # {} => ProjectionDrawers(f, b)' # {}
    BY DEF ProjectionDrawers
  <1>5. RevivalsApply(f)'
    <2>1. \A m \in Msgs : reactivations[m].fact = f /\ reactivations[m].state = "applied" =>
              \E d \in drawers' : d.fact = f /\ d.activation = reactivations[m].activation_number
      BY DEF Durable, RevivalsApply, ProjectionDrawers
    <2> QED
      BY <1>2, <2>1 DEF Durable, RevivalsApply, ProjectionDrawers
  <1>6. OfItsLives(f)'
    BY <1>1, <1>2 DEF Durable, OfItsLives
  <1>7. EndingsCount(f)'
    BY <1>2, <1>3 DEF Durable, EndingsCount
  <1>8. PastHidden(f)'
    <2>1. \A d \in archived' : d.fact = f =>
              d.activation <= Count(f)' /\ (Past(f, d.activation)' \/ BeingEnded(f)')
      BY <1>2, <1>3 DEF Durable, PastHidden
    <2>2. \A r \in kgrows' : r.fact = f /\ Past(f, r.activation)' => r \in closed'
      BY <1>1, <1>3 DEF Durable, PastHidden
    <2>3. OneDrawer(f)' => OneDrawer(f)
      BY DEF OneDrawer, DrawersOf
    <2>4. OneDrawer(f) => \A d \in drawers' : d.fact = f /\ Past(f, d.activation)' => d \in archived'
      BY <1>1, <1>3 DEF Durable, PastHidden
    <2> QED
      BY <2>1, <2>2, <2>3, <2>4 DEF PastHidden
  <1> QED
    BY <1>2, <1>5, <1>6, <1>7, <1>8 DEF Durable

\* What is left of a fact that is being ended is hidden.
LEMMA DurableHides ==
    ASSUME WorkersInv, NEW f \in Facts, Durable(f), UNCHANGED ledgerVars,
           drawers' = drawers, kgrows' = kgrows, archived \subseteq archived', closed \subseteq closed',
           \A d \in archived' : d.fact = f => d \in archived \/ (d.activation = Count(f) /\ BeingEnded(f)),
           \A r \in closed' : r.fact = f => r \in closed \/ BeingEnded(f)
    PROVE  Durable(f)'
  <1>0. Count(f) \in Nat \ {0}
    BY DEF Count, WorkersInv, LedgerInv, LedgerTypeOK, AssertionRow
  <1>2. /\ Count(f)' = Count(f) /\ (Ended(f)' <=> Ended(f)) /\ Lives(f)' = Lives(f)
        /\ EndedBy(f)' = EndedBy(f) /\ (BeingEnded(f)' <=> BeingEnded(f))
        /\ (Reviving(f)' <=> Reviving(f)) /\ (Active(f)' <=> Active(f)) /\ (Exists(f)' <=> Exists(f))
        /\ asrt' = asrt /\ reactivations' = reactivations
    BY DEF ledgerVars, Count, Ended, Lives, EndedBy, BeingEnded, Reviving, Active, Exists
  <1>3. \A b : Past(f, b)' <=> Past(f, b)
    BY <1>2 DEF Past
  <1>4. RevivalsApply(f)'
    BY <1>2 DEF Durable, RevivalsApply, ProjectionDrawers
  <1>5. OfItsLives(f)'
    BY <1>2 DEF Durable, OfItsLives
  <1>6. EndingsCount(f)'
    BY <1>2, <1>3 DEF Durable, EndingsCount
  <1>7. PastHidden(f)'
    <2>1. \A d \in archived' : d.fact = f =>
              d.activation <= Count(f)' /\ (Past(f, d.activation)' \/ BeingEnded(f)')
      BY <1>0, <1>2, <1>3 DEF Durable, PastHidden
    <2>2. \A r \in kgrows' : r.fact = f /\ Past(f, r.activation)' => r \in closed'
      BY <1>3 DEF Durable, PastHidden
    <2>3. OneDrawer(f)' <=> OneDrawer(f)
      BY DEF OneDrawer, DrawersOf
    <2>4. OneDrawer(f) => \A d \in drawers' : d.fact = f /\ Past(f, d.activation)' => d \in archived'
      BY <1>3 DEF Durable, PastHidden
    <2> QED
      BY <2>1, <2>2, <2>3, <2>4 DEF PastHidden
  <1> QED
    BY <1>2, <1>4, <1>5, <1>6, <1>7 DEF Durable
----------------------------------------------------------------------------
(* What is durable of a plain fact: the ledger calls.                       *)

\* What each ledger call does to the rows this argument is about.
LEMMA RegisterRow ==
    ASSUME LedgerTypeOK, NEW i \in Intents, NEW f \in Facts, Register(i, f, Targets)
    PROVE  /\ \A t \in Targets : asrt'[f].proj[t] = IF asrt[f].proj[t] = "not_required" THEN "pending"
                                                    ELSE asrt[f].proj[t]
           /\ evidence' = [evidence EXCEPT ![i] = f]
           /\ UNCHANGED <<invalidations, reactivations, forgets>>
  <1> DEFINE s == IF Exists(f) THEN asrt[f].state ELSE "active"
             n == asrt[f].evidence_count + (IF evidence[i] = NoFact THEN 1 ELSE 0)
             p == Require(asrt[f].proj, Targets)
             q == [asrt[f] EXCEPT !.state = s, !.proj = p, !.evidence_count = n]
  <1>1. asrt' = [asrt EXCEPT ![f] = q]
    BY DEF Register, RegisteredRow
  <1>2. \A t \in Targets : p[t] = IF asrt[f].proj[t] = "not_required" THEN "pending"
                                  ELSE asrt[f].proj[t]
    BY DEF Require
  <1> HIDE DEF s, n, p
  <1>3. q.proj = p
    BY DEF LedgerTypeOK, AssertionRow
  <1> HIDE DEF q
  <1>4. asrt'[f] = q
    BY <1>1 DEF LedgerTypeOK
  <1> QED
    BY <1>2, <1>3, <1>4 DEF Register

LEMMA MarkInvalidatedRow ==
    ASSUME LedgerTypeOK, NEW i \in Corrections, NEW f \in Facts, invalidations[i].fact = f,
           MarkInvalidated(i)
    PROVE  /\ invalidations[i].state \in {"pending", "applied"}
           /\ invalidations[i].state = "applied" => UNCHANGED ledgerVars
           /\ invalidations[i].state = "pending" =>
                  /\ \A j \in Corrections : j # i => invalidations'[j] = invalidations[j]
                  /\ invalidations'[i].state = "applied"
                  /\ \A g \in Facts : g # f => asrt'[g] = asrt[g]
                  /\ asrt'[f].state \in EndedState
                  /\ asrt'[f].activation_count = asrt[f].activation_count
           /\ UNCHANGED <<evidence, reactivations, forgets>>
  <1>1. invalidations[i] \in InvalidationRow
    BY DEF LedgerTypeOK
  <1> DEFINE r == invalidations[i].result_state
             q == [asrt[f] EXCEPT !.state = r]
             e == [invalidations[i] EXCEPT !.state = "applied"]
  <1>2. CASE invalidations[i].state = "applied"
    BY <1>2 DEF MarkInvalidated, ledgerVars
  <1>3. CASE invalidations[i].state = "pending"
    <2>1. asrt' = [asrt EXCEPT ![f] = q] /\ invalidations' = [invalidations EXCEPT ![i] = e]
      BY <1>3 DEF MarkInvalidated
    <2>2. r \in EndedState
      BY <1>1 DEF InvalidationRow
    <2> HIDE DEF r
    <2>3. q.state = r /\ q.activation_count = asrt[f].activation_count /\ e.state = "applied"
      BY <1>1 DEF LedgerTypeOK, AssertionRow, InvalidationRow
    <2> HIDE DEF q, e
    <2> QED
      BY <1>3, <2>1, <2>2, <2>3 DEF LedgerTypeOK, MarkInvalidated
  <1> QED
    BY <1>1, <1>2, <1>3 DEF MarkInvalidated, InvalidationRow, EventState

LEMMA RegisterReactivationRow ==
    ASSUME LedgerTypeOK, NEW i \in Intents, NEW f \in Facts, RegisterReactivation(i, f, Targets),
           reactivations[i].state = "none"
    PROVE  /\ \A t \in Targets : asrt'[f].proj[t] = "pending"
           /\ asrt[f].state \in EndedState
           /\ UNCHANGED <<invalidations, forgets>>
  <1> DEFINE p == SetProj(asrt[f].proj, Targets, "pending")
             n == asrt[f].evidence_count + 1
             q == [asrt[f] EXCEPT !.evidence_count = n, !.proj = p]
  <1>1. asrt' = [asrt EXCEPT ![f] = q] /\ UNCHANGED <<invalidations, forgets>>
    BY DEF RegisterReactivation
  <1>2. \A t \in Targets : p[t] = "pending"
    BY DEF SetProj
  <1> HIDE DEF p, n
  <1>3. q.proj = p
    BY DEF LedgerTypeOK, AssertionRow
  <1> HIDE DEF q
  <1>4. asrt'[f] = q
    BY <1>1 DEF LedgerTypeOK
  <1>5. asrt[f].state \in EndedState
    BY DEF RegisterReactivation, RegisterReactivationRaises
  <1> QED
    BY <1>1, <1>2, <1>3, <1>4, <1>5

LEMMA MarkReactivatedRow ==
    ASSUME LedgerTypeOK, NEW i \in Intents, NEW f \in Facts, reactivations[i].fact = f,
           MarkReactivated(i, Targets)
    PROVE  /\ reactivations[i].state \in {"pending", "applied"}
           /\ reactivations[i].state = "applied" => UNCHANGED ledgerVars
           /\ reactivations[i].state = "pending" =>
                  \A t \in Targets : asrt'[f].proj[t] = "projected"
           /\ UNCHANGED <<invalidations, forgets, evidence>>
  <1>1. reactivations[i].state \in {"pending", "applied"}
    BY DEF MarkReactivated, MarkReactivatedRaises, LedgerTypeOK, ReactivationRow, EventState
  <1>2. CASE reactivations[i].state = "applied"
    BY <1>2 DEF MarkReactivated, ledgerVars
  <1>3. CASE reactivations[i].state = "pending"
    <2> DEFINE n == reactivations[i].activation_number
               q == [asrt[f] EXCEPT !.state = "active", !.activation_count = n]
    <2>1. asrt' = [asrt EXCEPT ![f] = q]
      BY <1>3 DEF MarkReactivated
    <2>2. \A t \in Targets : asrt[f].proj[t] = "projected"
      BY <1>3 DEF MarkReactivated, MarkReactivatedRaises, NotProjected
    <2> HIDE DEF n
    <2>3. q.proj = asrt[f].proj
      BY DEF LedgerTypeOK, AssertionRow
    <2> HIDE DEF q
    <2>4. asrt'[f] = q
      BY <2>1 DEF LedgerTypeOK
    <2> QED
      BY <1>3, <2>2, <2>3, <2>4 DEF MarkReactivated
  <1> QED
    BY <1>1, <1>2, <1>3

LEMMA SetProjectionRow ==
    ASSUME LedgerTypeOK, NEW f \in Facts, NEW T, NEW v \in ProjectionState,
           SetProjectionState(f, T, v)
    PROVE  /\ \A g \in Facts : g # f => asrt'[g] = asrt[g]
           /\ SameFact(f)
           /\ \A t \in Targets : asrt'[f].proj[t] = IF t \in T THEN v ELSE asrt[f].proj[t]
           /\ Exists(f) /\ UNCHANGED <<evidence, invalidations, reactivations, forgets>>
  <1> DEFINE p == SetProj(asrt[f].proj, T, v)
             q == [asrt[f] EXCEPT !.proj = p]
  <1>1. asrt' = [asrt EXCEPT ![f] = q]
    BY DEF SetProjectionState
  <1>2. \A t \in Targets : p[t] = IF t \in T THEN v ELSE asrt[f].proj[t]
    BY DEF SetProj
  <1> HIDE DEF p
  <1>3. q.proj = p
    BY DEF LedgerTypeOK, AssertionRow
  <1> HIDE DEF q
  <1>4. \A g \in Facts : asrt'[g] = IF g = f THEN q ELSE asrt[g]
    BY <1>1 DEF LedgerTypeOK
  <1> QED
    BY <1>2, <1>3, <1>4, SetProjectionStateEffect DEF SetProjectionState

\* No step changes both the ledger and the stores.
LEMMA LedgerOrStores ==
    ASSUME NEW w, Step(w) \/ Fail(w)
    PROVE  UNCHANGED ledgerVars \/ UNCHANGED storeVars
  <1>1. CASE \/ \E m \in Msgs : Take(w, m)
             \/ Start(w) \/ Settle(w) \/ Ack(w) \/ RejectAck(w) \/ Fail(w)
    BY <1>1 DEF Take, Start, Settle, Ack, RejectAck, Finish, Fail, localOnly, ledgerOnly
  <1>2. CASE EndSteps(w)
    BY <1>2 DEF EndSteps, EndRegister, EndFind, EndArchive, EndKg, EndMark, localOnly, ledgerOnly,
                storeOnly
  <1>3. CASE AssertSteps(w)
    BY <1>3 DEF AssertSteps, ReadFact, Supersede, CheckDrawer, Look, PutDrawer, CheckKg, PutKg,
                RegisterFact, ReactivateFact, FinishReactivation, ReopenDrawer, Relook, MarkDrawer,
                ReopenKg, MarkKg, localOnly, ledgerOnly, storeOnly
  <1>4. CASE ForgetSteps(w)
    BY <1>4 DEF ForgetSteps, ForgetResolve, ForgetScan, ForgetBegin, ForgetRedact, ForgetScrub,
                ForgetKg, ForgetKgMark, ForgetDrawers, ForgetDrawerMark, ForgetSource, localOnly,
                ledgerOnly, storeOnly
  <1> QED
    BY <1>1, <1>2, <1>3, <1>4 DEF Step

\* A call that is not about f.
LEMMA SameLedger ==
    ASSUME NEW f \in Facts, Durable(f), asrt'[f] = asrt[f],
           \A m \in Msgs : invalidations'[<<m, f>>] = invalidations[<<m, f>>],
           \A m \in Msgs : \/ reactivations'[m] = reactivations[m]
                           \/ (reactivations'[m].fact # f /\ reactivations[m].fact # f)
    PROVE  LivesStay(f) /\ EndingsStay(f) /\ RevivalsStay(f)
  <1>1. LivesStay(f)
    BY DEF LivesStay, Durable, Active, Exists
  <1>2. EndingsStay(f)
    BY DEF EndingsStay
  <1>3. RevivalsStay(f)
    BY DEF RevivalsStay
  <1> QED
    BY <1>1, <1>2, <1>3

\* The endings of f that were registered and carried out stay so when its rows
\* do, or when one is added.
LEMMA EndingsKept ==
    ASSUME WorkersInv, WorkersInv', NEW f \in Facts, NEW w \in Workers, NEW g, NEW r,
           ~At(w, "idle"), RegisterInvalidation(<<Msg(w), g>>, g, r)
    PROVE  EndingsStay(f) /\ asrt' = asrt /\ reactivations' = reactivations
  <1>1. asrt' = asrt /\ reactivations' = reactivations
    BY DEF RegisterInvalidation
  <1> SUFFICES ASSUME NEW m \in Msgs
               PROVE  /\ invalidations'[<<m, f>>].state = "applied"
                             <=> invalidations[<<m, f>>].state = "applied"
                      /\ invalidations[<<m, f>>].state = "pending"
                             => invalidations'[<<m, f>>].state = "pending"
    BY <1>1 DEF EndingsStay
  <1>2. PICK i : i = <<m, f>>
    OBVIOUS
  <1>3. i \in Corrections
    BY <1>2, MessageIds
  <1>4. PICK j : j = <<Msg(w), g>>
    OBVIOUS
  <1> DEFINE q == [fact |-> g, state |-> "pending", result_state |-> r]
  <1>5. q.state = "pending"
    OBVIOUS
  <1>6. \/ invalidations' = invalidations
        \/ invalidations[j].state = "none" /\ invalidations' = [invalidations EXCEPT ![j] = q]
    BY <1>4 DEF RegisterInvalidation
  <1> HIDE DEF q
  <1>7. \/ invalidations'[i] = invalidations[i]
        \/ invalidations[i].state = "none" /\ invalidations'[i].state = "pending"
    BY <1>3, <1>5, <1>6 DEF WorkersInv, LedgerInv, LedgerTypeOK
  <1> QED
    BY <1>2, <1>7

\* The ledger calls keep what is durable of a plain fact.
LEMMA DurableLedger ==
    ASSUME WorkersInv, WorkersInv', BackedInv, Spoken, NEW w \in Workers, Step(w) \/ Fail(w),
           UNCHANGED storeVars, NEW f \in Facts, Plain(f)', Plain(f), Untouched(f), Durable(f),
           At(w, "end_mark") => Ends(w), At(w, "finish_reactivation") => Registers(w) /\ Told(w)
    PROVE  Durable(f)'
  <1> USE DEF WorkersInv, LedgerInv
  <1>1. StoresStay(f)
    BY DEF StoresStay, storeVars
  <1>2. ASSUME asrt'[f] = asrt[f],
               \A m \in Msgs : invalidations'[<<m, f>>] = invalidations[<<m, f>>],
               \A m \in Msgs : \/ reactivations'[m] = reactivations[m]
                               \/ (reactivations'[m].fact # f /\ reactivations[m].fact # f)
        PROVE  Durable(f)'
    BY <1>1, <1>2, SameLedger, DurableStays
  <1>3. CASE UNCHANGED ledgerVars
    BY <1>2, <1>3 DEF ledgerVars
  <1>4. CASE At(w, "end_register") /\ RegisterInvalidation(EndId(w), EndFact(w), EndResult(w))
    <2>1. ~At(w, "idle")
      BY <1>4 DEF At
    <2>2. EndingsStay(f) /\ asrt' = asrt /\ reactivations' = reactivations
      BY <1>4, <2>1, EndingsKept DEF EndId
    <2> QED
      BY <1>1, <2>2, DurableStays DEF LivesStay, RevivalsStay, Durable, Active, Exists
  <1>5. CASE At(w, "end_mark") /\ MarkInvalidated(EndId(w))
    <2>1. PICK m, g : m = Msg(w) /\ g = EndFact(w)
      OBVIOUS
    <2>2. PICK i : i = <<m, g>>
      OBVIOUS
    <2>3. m \in Msgs /\ g \in Facts /\ i \in Corrections /\ MarkInvalidated(i)
      BY <1>5, <2>1, <2>2, EndHeld, MessageIds DEF EndId, At, Ending
    <2>4. invalidations[i].state # "none" /\ invalidations[i].fact = g
      BY <1>5, <2>1, <2>2, <2>3, MessageIds DEF MarkInvalidated, Spoken, EndingsSpoken, SpeaksOf
    <2>5. \/ UNCHANGED ledgerVars
          \/ /\ invalidations[i].state = "pending"
             /\ \A j \in Corrections : j # i => invalidations'[j] = invalidations[j]
             /\ invalidations'[i].state = "applied"
             /\ \A h \in Facts : h # g => asrt'[h] = asrt[h]
             /\ asrt'[g].state \in EndedState
             /\ asrt'[g].activation_count = asrt[g].activation_count
             /\ reactivations' = reactivations
      BY <2>3, <2>4, MarkInvalidatedRow
    <2>6. CASE f # g /\ ~UNCHANGED ledgerVars
      <3>1. \A n \in Msgs : <<n, f>> \in Corrections /\ <<n, f>> # i
        BY <2>2, <2>6, MessageIds
      <3> QED
        BY <1>2, <2>5, <2>6, <3>1
    <2>7. CASE f = g /\ ~UNCHANGED ledgerVars
      <3>1. \A n \in Msgs : /\ <<n, f>> \in Corrections
                            /\ <<n, f>> = i <=> n = m
        BY <2>2, <2>3, <2>7, MessageIds
      <3>2. \A n \in Msgs : invalidations'[<<n, f>>].state
                                = IF n = m THEN "applied" ELSE invalidations[<<n, f>>].state
        BY <2>3, <2>5, <2>7, <3>1
      <3>3. invalidations[<<m, f>>].state = "pending"
        BY <2>2, <2>5, <2>7
      <3>4. /\ OpenRows({f}) = {}
            /\ OneDrawer(f) => ProjectionDrawers(f, Count(f)) \subseteq archived
        BY <1>5, <2>1, <2>7 DEF Ends
      <3>5. RevivalsStay(f)
        BY <2>5, <2>7 DEF RevivalsStay
      <3> QED
        BY <1>1, <2>3, <2>5, <2>7, <3>2, <3>3, <3>4, <3>5, DurableEnds
    <2> QED
      BY <1>3, <2>6, <2>7
  <1>6. CASE work[w].pc \in AssertPcs
    <2>1. PICK m, g : m = Msg(w) /\ g = Body(w).adds
      OBVIOUS
    <2>2. m \in Msgs /\ m \in Intents /\ g \in Facts
      BY <1>6, <2>1, Asserting
    <2>3. reactivations[m].state # "none" => reactivations[m].fact = g
      BY <2>1, <2>2 DEF BackedInv, Sources, Body
    <2>4. \A n \in Msgs : n \in Intents
      BY MessageIds
    <2>5. CASE Register(m, g, Targets)
      <3>1. /\ UNCHANGED <<invalidations, reactivations>>
            /\ \A h \in Facts : h # g => asrt'[h] = asrt[h]
            /\ asrt'[g].state = IF Exists(g) THEN asrt[g].state ELSE "active"
            /\ asrt'[g].activation_count = asrt[g].activation_count
            /\ \A t \in Targets : asrt'[g].proj[t] # "not_required"
        BY <2>2, <2>5, RegisterEffect, RegisterRow
      <3>2. CASE f # g
        BY <1>2, <3>1, <3>2
      <3>3. CASE f = g
        <4>1. LivesStay(f)
          BY <3>1, <3>3 DEF LivesStay, Durable, Exists, EndedState
        <4>2. EndingsStay(f) /\ RevivalsStay(f)
          BY <3>1 DEF EndingsStay, RevivalsStay
        <4> QED
          BY <1>1, <4>1, <4>2, DurableStays
      <3> QED
        BY <3>2, <3>3
    <2>6. CASE RegisterReactivation(m, g, Targets)
      <3>1. CASE reactivations[m].state # "none"
        BY <1>3, <2>2, <2>6, <3>1, RegisterReactivationReplay
      <3>2. CASE reactivations[m].state = "none"
        <4>1. /\ invalidations' = invalidations
              /\ \A h \in Facts : h # g => asrt'[h] = asrt[h]
              /\ asrt'[g].state = asrt[g].state /\ asrt[g].state \in EndedState
              /\ asrt'[g].activation_count = asrt[g].activation_count
              /\ reactivations'[m] = [fact |-> g, state |-> "pending",
                                      activation_number |-> asrt[g].activation_count + 1]
              /\ \A j \in Msgs : j # m => reactivations'[j] = reactivations[j]
          BY <2>2, <2>4, <2>6, <3>2, RegisterReactivationEffect, RegisterReactivationRow
        <4>2. reactivations[m].fact = NoFact
          BY <2>2, <3>2 DEF Spoken, RevivalsSpoken
        <4>3. CASE f # g
          BY <1>2, <4>1, <4>2, <4>3, NoFactAssumption
        <4>4. CASE f = g
          BY <2>2, <3>2, <4>1, <4>2, <4>4, NoFactAssumption, DurableRevives DEF Ended, Count
        <4> QED
          BY <4>3, <4>4
      <3> QED
        BY <3>1, <3>2
    <2>7. CASE At(w, "finish_reactivation") /\ MarkReactivated(m, Targets)
      <3>1. reactivations[m].state # "none" /\ reactivations[m].fact = g
        BY <2>3, <2>7 DEF MarkReactivated, MarkReactivatedRaises
      <3>2. CASE reactivations[m].state = "applied"
        BY <1>3, <2>2, <2>7, <3>1, <3>2, MarkReactivatedRow
      <3>3. CASE reactivations[m].state = "pending"
        <4>1. /\ invalidations' = invalidations
              /\ \A h \in Facts : h # g => asrt'[h] = asrt[h]
              /\ asrt'[g].state = "active"
              /\ asrt'[g].activation_count = reactivations[m].activation_number
              /\ \A t \in Targets : asrt'[g].proj[t] # "not_required"
              /\ reactivations'[m].fact = g /\ reactivations'[m].state = "applied"
              /\ reactivations'[m].activation_number = reactivations[m].activation_number
              /\ \A j \in Msgs : j # m => reactivations'[j] = reactivations[j]
          <5>1. \A t \in Targets : asrt'[g].proj[t] = "projected"
            BY <2>2, <2>7, <3>1, <3>3, MarkReactivatedRow
          <5> QED
            BY <2>2, <2>4, <2>7, <3>1, <3>3, <5>1, MarkReactivatedEffect, MarkReactivatedRow
        <4>2. CASE f # g
          BY <1>2, <3>1, <4>1, <4>2
        <4>3. CASE f = g
          <5>1. work[w].reg.reactivation_pending
            BY <2>7 DEF Told
          <5>2. /\ reactivations[m].activation_number = work[w].reg.activation
                /\ [fact |-> f, activation |-> work[w].reg.activation] \in kgrows
            BY <2>1, <2>7, <4>3, <5>1 DEF Registers
          <5>3. ProjectionDrawers(f, work[w].reg.activation) # {}
            BY <2>1, <2>7, <4>3 DEF Told, At, DrawerWritten
          <5> QED
            BY <2>2, <3>1, <3>3, <4>1, <4>3, <5>2, <5>3, DurableBegins DEF Plain
        <4> QED
          BY <4>2, <4>3
      <3> QED
        BY <2>2, <2>7, <3>1, <3>2, <3>3, MarkReactivatedRow
    <2>8. ASSUME NEW T, NEW v \in {"pending", "projected"}, SetProjectionState(g, T, v)
          PROVE  Durable(f)'
      <3>1. /\ \A h \in Facts : h # g => asrt'[h] = asrt[h]
            /\ SameFact(g) /\ UNCHANGED <<invalidations, reactivations>>
            /\ \A t \in Targets : asrt'[g].proj[t] = IF t \in T THEN v ELSE asrt[g].proj[t]
        BY <2>2, <2>8, SetProjectionRow DEF ProjectionState
      <3>2. CASE f # g
        BY <1>2, <3>1, <3>2
      <3>3. CASE f = g
        <4>1. LivesStay(f)
          BY <2>8, <3>1, <3>3 DEF LivesStay, Durable, Exists, SameFact, Active
        <4>2. EndingsStay(f) /\ RevivalsStay(f)
          BY <3>1 DEF EndingsStay, RevivalsStay
        <4> QED
          BY <1>1, <4>1, <4>2, DurableStays
      <3> QED
        BY <3>2, <3>3
    <2>9. \/ UNCHANGED ledgerVars \/ Register(m, g, Targets) \/ RegisterReactivation(m, g, Targets)
          \/ At(w, "finish_reactivation") /\ MarkReactivated(m, Targets)
          \/ \E T : \E v \in {"pending", "projected"} : SetProjectionState(g, T, v)
      <3>1. work[w].pc \notin Ending \cup FactsPcs
        BY <1>6 DEF AssertPcs, Ending, FactsPcs
      <3> QED
        BY <2>1, <3>1, StepCalls
    <2> QED
      BY <1>3, <2>5, <2>6, <2>7, <2>8, <2>9
  <1>7. CASE work[w].pc \in FactsPcs
    <2>1. PICK F : F = work[w].facts
      OBVIOUS
    <2>2. F \in SUBSET Facts /\ Body(w).hard \in BOOLEAN
      BY <1>7, <2>1, Forgetting
    <2>3. ~forgets'[f].present /\ ~forgets[f].present
      BY DEF Plain, Spared
    <2>4. CASE BeginForget(F, Body(w).hard, Targets)
      <3>1. asrt'[f] = asrt[f] /\ invalidations' = invalidations /\ reactivations' = reactivations
        BY <2>2, <2>3, <2>4, BeginForgetEffect DEF BeginForget
      <3> QED
        BY <1>2, <3>1
    <2>5. CASE ScrubForgottenContent(F)
      <3>1. f \notin F
        BY <2>3, <2>5 DEF ScrubForgottenContent
      <3>2. /\ asrt'[f] = asrt[f]
            /\ \A m \in Msgs : reactivations'[m] \in {reactivations[m], NoReactivation}
            /\ \A m \in Msgs : reactivations[m].fact \notin F => reactivations'[m] = reactivations[m]
        BY <2>2, <2>5, <3>1, MessageIds, ScrubEffect
      <3>3. ASSUME NEW m \in Msgs
            PROVE  invalidations'[<<m, f>>] = invalidations[<<m, f>>]
        <4>1. PICK i : i = <<m, f>>
          OBVIOUS
        <4>2. i \in Corrections /\ invalidations[i].fact \in {f, NoFact}
          BY <4>1, MessageIds
             DEF Spoken, EndingsSpoken, SpeaksOf, LedgerTypeOK, InvalidationRow, EventState
        <4>3. invalidations[i].fact \notin F
          BY <2>2, <3>1, <4>2, NoFactAssumption
        <4> QED
          BY <2>5, <4>1, <4>2, <4>3 DEF ScrubForgottenContent
      <3>4. ASSUME NEW m \in Msgs
            PROVE  \/ reactivations'[m] = reactivations[m]
                   \/ (reactivations'[m].fact # f /\ reactivations[m].fact # f)
        BY <3>1, <3>2, NoFactAssumption DEF NoReactivation
      <3> QED
        BY <1>2, <3>2, <3>3, <3>4
    <2>6. ASSUME NEW T, MarkForgetProjected(F, T)
          PROVE  Durable(f)'
      <3>1. f \notin F
        BY <2>3, <2>6 DEF MarkForgetProjected
      <3>2. asrt'[f] = asrt[f] /\ invalidations' = invalidations /\ reactivations' = reactivations
        BY <2>6, <3>1 DEF MarkForgetProjected
      <3> QED
        BY <1>2, <3>2
    <2>7. work[w].pc \notin Ending \cup AssertPcs
      BY <1>7 DEF AssertPcs, Ending, FactsPcs
    <2> QED
      BY <1>3, <2>1, <2>4, <2>5, <2>6, <2>7, StepCalls
  <1> QED
    BY <1>3, <1>4, <1>5, <1>6, <1>7, StepCalls
----------------------------------------------------------------------------
(* What is durable of a plain fact: the stores.                             *)

\* The steps that write to a store.
LEMMA StoreCalls ==
    ASSUME NEW w, Step(w) \/ Fail(w)
    PROVE  \/ UNCHANGED storeVars
           \/ EndArchive(w) \/ EndKg(w) \/ PutDrawer(w) \/ PutKg(w) \/ ForgetKg(w) \/ ForgetDrawers(w)
  <1>1. CASE \/ \E m \in Msgs : Take(w, m)
             \/ Start(w) \/ Settle(w) \/ Ack(w) \/ RejectAck(w) \/ Fail(w)
    BY <1>1 DEF Take, Start, Settle, Ack, RejectAck, Finish, Fail, localOnly, ledgerOnly
  <1>2. CASE EndSteps(w)
    BY <1>2 DEF EndSteps, EndRegister, EndFind, EndMark, localOnly, ledgerOnly
  <1>3. CASE AssertSteps(w)
    BY <1>3 DEF AssertSteps, ReadFact, Supersede, CheckDrawer, Look, CheckKg, RegisterFact,
                ReactivateFact, FinishReactivation, ReopenDrawer, Relook, MarkDrawer, ReopenKg,
                MarkKg, localOnly, ledgerOnly
  <1>4. CASE ForgetSteps(w)
    BY <1>4 DEF ForgetSteps, ForgetResolve, ForgetScan, ForgetBegin, ForgetRedact, ForgetScrub,
                ForgetKgMark, ForgetDrawerMark, ForgetSource, localOnly, ledgerOnly
  <1> QED
    BY <1>1, <1>2, <1>3, <1>4 DEF Step

\* The life that a handler writes for.
LEMMA WritesFor ==
    ASSUME WorkersInv, BackedInv, Spoken, NEW w \in Workers, work[w].pc \in Registered,
           Registers(w), NEW f \in Facts, f = Body(w).adds, Plain(f), Durable(f),
           NEW a, a = work[w].reg.activation
    PROVE  \/ Active(f) /\ a = Count(f)
           \/ Ended(f) /\ Reviving(f) /\ a = Count(f) + 1
           \/ ~At(w, "put_drawer") /\ [fact |-> f, activation |-> a] \in kgrows
  <1>1. Msg(w) \in Msgs
    BY Asserting DEF Registered, PastRegister, AssertPcs
  <1>2. reactivations[Msg(w)].state # "none" => reactivations[Msg(w)].fact = f
    BY <1>1 DEF BackedInv, Sources, Body
  <1>3. CASE work[w].reg.reactivation_pending
    <2>1. /\ reactivations[Msg(w)].state = "pending" /\ reactivations[Msg(w)].activation_number = a
      BY <1>3 DEF Registers
    <2> QED
      BY <1>1, <1>2, <2>1 DEF Durable, RevivalsApply, Reviving
  <1>4. CASE ~work[w].reg.reactivation_pending
    BY <1>1, <1>2, <1>4 DEF Registers, Durable, RevivalsApply
  <1> QED
    BY <1>3, <1>4

\* The stores keep it too.
LEMMA DurableStores ==
    ASSUME WorkersInv, WorkersInv', BackedInv, Spoken, NEW w \in Workers, Step(w) \/ Fail(w),
           UNCHANGED ledgerVars, NEW f \in Facts, Plain(f), Untouched(f), Durable(f),
           InHand(w), Informed(w)
    PROVE  Durable(f)'
  <1>1. LivesStay(f) /\ EndingsStay(f) /\ RevivalsStay(f)
    BY SameLedger DEF ledgerVars
  <1>2. CASE StoresStay(f)
    BY <1>1, <1>2, DurableStays
  <1>3. /\ archived \subseteq drawers /\ closed \subseteq kgrows
        /\ \A d \in drawers : d.fact \in Facts
    BY DEF WorkersInv, StoresOK, Drawer
  <1>4. CASE UNCHANGED storeVars
    BY <1>2, <1>4 DEF storeVars, StoresStay
  <1>5. CASE EndArchive(w) \/ EndKg(w)
    <2>1. /\ work[w].pc \in Ending \ {"end_register"} /\ ~At(w, "idle") /\ Ends(w)
      BY <1>5 DEF EndArchive, EndKg, At, Ending, InHand
    <2>2. Msg(w) \in Msgs
      BY <2>1, Holding
    <2>3. \A r \in drawers \cup kgrows : r.fact = f /\ work[w].fact = f => BeingEnded(f)
      <3>1. \A r \in drawers \cup kgrows : r.fact = f => Exists(f)
        BY DEF Durable, OfItsLives
      <3> QED
        BY <2>1, <2>2, <3>1 DEF Ends, BeingEnded
    <2>4. CASE EndArchive(w)
      <3>1. /\ \A d \in work[w].seen : d.fact = work[w].fact
            /\ work[w].fact = f => \A d \in work[w].seen : d.activation = Count(f)
        BY <2>1, <2>4 DEF Ends, EndArchive, ProjectionDrawers
      <3>2. /\ archived' = archived \cup (work[w].seen \cap drawers)
            /\ drawers' = drawers /\ kgrows' = kgrows /\ closed' = closed
        BY <2>4 DEF EndArchive, ArchiveDrawers
      <3>3. \A d \in archived' : d.fact = f =>
                d \in archived \/ (d.activation = Count(f) /\ BeingEnded(f))
        BY <2>3, <3>1, <3>2
      <3> QED
        BY <3>2, <3>3, DurableHides
    <2>5. CASE EndKg(w)
      <3>1. /\ closed' = closed \cup OpenRows({work[w].fact})
            /\ drawers' = drawers /\ kgrows' = kgrows /\ archived' = archived
        BY <2>5 DEF EndKg, InvalidateTriple
      <3>2. \A r \in closed' : r.fact = f => r \in closed \/ BeingEnded(f)
        BY <2>3, <3>1 DEF OpenRows
      <3> QED
        BY <3>1, <3>2, DurableHides
    <2> QED
      BY <1>5, <2>4, <2>5
  <1>6. CASE PutDrawer(w) \/ PutKg(w)
    <2> DEFINE g == Body(w).adds
               a == work[w].reg.activation
    <2>1. work[w].pc \in Registered /\ Registers(w)
      BY <1>6 DEF PutDrawer, PutKg, At, Registered, PastRegister, InHand
    <2>2. CASE PutDrawer(w)
      <3> DEFINE d == [fact |-> g, activation |-> a, text |-> Msg(w)]
      <3>1. /\ drawers' = drawers \cup {d} /\ archived' = archived /\ kgrows' = kgrows
            /\ closed' = closed /\ d.fact = g /\ d.activation = a /\ At(w, "put_drawer")
        BY <2>2 DEF PutDrawer, IngestDrawer
      <3> HIDE DEF d
      <3>2. CASE f # g
        <4>1. StoresStay(f)
          BY <3>1, <3>2 DEF StoresStay
        <4> QED
          BY <1>2, <4>1
      <3>3. CASE f = g
        <4>1. \/ Active(f) /\ a = Count(f)
              \/ Ended(f) /\ Reviving(f) /\ a = Count(f) + 1
          BY <2>1, <3>1, <3>3, WritesFor
        <4>2. /\ \A x \in drawers' : x.fact = f => x \in drawers \/ x.activation = a
              /\ \A x \in kgrows' : x.fact = f => x \in kgrows \/ x.activation = a
              /\ drawers \subseteq drawers' /\ kgrows \subseteq kgrows'
          BY <3>1
        <4> HIDE DEF g, a
        <4> QED
          BY <3>1, <4>1, <4>2, DurableWrites
      <3> QED
        BY <3>2, <3>3
    <2>3. CASE PutKg(w)
      <3> DEFINE r == [fact |-> g, activation |-> a]
      <3>1. /\ kgrows' = kgrows \/ kgrows' = kgrows \cup {r}
            /\ drawers' = drawers /\ archived' = archived /\ closed' = closed
            /\ r.fact = g /\ r.activation = a
        BY <2>3 DEF PutKg, AddTriple
      <3>2. CASE f # g \/ kgrows' = kgrows
        <4>1. StoresStay(f)
          <5> HIDE DEF r
          <5> QED
            BY <3>1, <3>2 DEF StoresStay
        <4> QED
          BY <1>2, <4>1
      <3>3. CASE f = g /\ kgrows' = kgrows \cup {r} /\ r \notin kgrows
        <4>1. \/ Active(f) /\ a = Count(f)
              \/ Ended(f) /\ Reviving(f) /\ a = Count(f) + 1
          BY <2>1, <3>3, WritesFor
        <4> HIDE DEF r
        <4> QED
          BY <3>1, <3>3, <4>1, DurableWrites
      <3> QED
        BY <3>1, <3>2, <3>3
    <2> QED
      BY <1>6, <2>2, <2>3
  <1>7. CASE ForgetKg(w) \/ ForgetDrawers(w)
    <2>1. work[w].pc \in Begun /\ work[w].pc \in FactsPcs /\ ~At(w, "forget_scan") /\ Erasing(w)
      BY <1>7 DEF ForgetKg, ForgetDrawers, At, Begun, FactsPcs, Informed
    <2>2. f \notin work[w].facts /\ \A d \in work[w].seen : d.fact # f
      BY <2>1 DEF Erasing
    <2>3. CASE ForgetKg(w)
      BY <1>2, <2>2, <2>3 DEF ForgetKg, ForgetAssertions, InvalidateTriple, OpenRows, StoresStay
    <2>4. CASE ForgetDrawers(w)
      BY <1>2, <2>2, <2>4 DEF ForgetDrawers, DeleteDrawers, ArchiveDrawers, StoresStay
    <2> QED
      BY <1>7, <2>3, <2>4
  <1> QED
    BY <1>4, <1>5, <1>6, <1>7, StoreCalls

\* Where nothing of the ledger and the stores changes, plain facts stay so.
LEMMA DurableStep ==
    ASSUME WorkersInv, WorkersInv', BackedInv, Spoken, NEW w \in Workers, Step(w) \/ Fail(w),
           NEW f \in Facts, Plain(f)', Plain(f), Untouched(f), Durable(f), InHand(w)
    PROVE  Durable(f)'
  <1>1. Informed(w)
    BY DEF BackedInv
  <1>2. At(w, "end_mark") => Ends(w)
    BY DEF InHand, At, Ending
  <1>3. At(w, "finish_reactivation") => Registers(w) /\ Told(w)
    BY <1>1 DEF InHand, Informed, At, Registered, PastRegister
  <1> QED
    BY <1>1, <1>2, <1>3, LedgerOrStores, DurableLedger, DurableStores
----------------------------------------------------------------------------
(* What the handler of a plain fact knows.                                  *)

\* Plainness, and what a handler knows, of a fact named by its message.
LEMMA PlainOf ==
    ASSUME NEW w, NEW f, f = Body(w)'.adds
    PROVE  Plain(Body(w).adds)' <=> Plain(f)'
  BY DEF Plain, Spared, RevivedApart, Body, Msg

\* What a handler has to know after a step, with the fact it asserts fixed.
LEMMA InHandThen ==
    ASSUME NEW w, NEW f, f = Body(w)'.adds,
           work'[w].pc \in Ending \ {"end_register"} => Ends(w)',
           Inactive(w)' /\ f \in Facts /\ Plain(f)' => asrt'[f].state # "active",
           work'[w].pc \in Registered => Registers(w)'
    PROVE  InHand(w)'
  BY PlainOf DEF InHand, Active

\* A step that neither is in an ending nor has registered a fact.
LEMMA IntoEnding ==
    ASSUME NEW w, work'[w].pc \notin (Ending \ {"end_register"}) \cup Registered,
           NEW f, f = Body(w)'.adds,
           Inactive(w)' /\ f \in Facts /\ Plain(f)' => asrt'[f].state # "active"
    PROVE  InHand(w)'
  BY InHandThen

\* Steps that end a fact.
LEMMA EndsGo ==
    ASSUME WorkersInv, WorkersInv', NEW w \in Workers, InHand(w), EndSteps(w),
           NEW f, f = Body(w).adds, f \in Facts /\ Plain(f)' => Plain(f)
    PROVE  /\ work'[w].pc \notin Registered /\ work'[w].msg = Msg(w) /\ content' = content
           /\ work[w].pc \in Ending /\ EndFact(w) \in Facts /\ Msg(w) \in Msgs
           /\ Body(w)' = Body(w)
           /\ Inactive(w)' /\ f \in Facts /\ Plain(f)' => asrt'[f].state # "active"
  <1>1. /\ work[w].pc \in Ending /\ work'[w].pc \notin Registered /\ content' = content
        /\ EndFact(w) \in Facts /\ Msg(w) \in Msgs /\ ~At(w, "idle")
    BY EndStepsGo, StepCalls, EndHeld, Holding DEF Step
  <1>2. work'[w].msg = Msg(w) /\ (work'[w].pc \in {"supersede", "reactivate"} => Body(w).kind = "update")
    <2>1. CASE Raise(w)
      BY <1>1, <2>1, RaiseFields DEF AfterEnd, IsTurn
    <2>2. CASE EndRegister(w)
      BY <2>1, <2>2, EndRegisterFields, GotoFields DEF AfterEnd
    <2>3. CASE EndFind(w)
      BY <2>3, EndFindFields, GotoFields
    <2>4. CASE EndArchive(w)
      BY <2>1, <2>4, GotoFields DEF EndArchive
    <2>5. CASE EndKg(w)
      BY <2>5, GotoFields DEF EndKg, Reject, AfterEnd
    <2>6. CASE EndMark(w)
      BY <2>1, <2>6, EndMarkFields DEF AfterEnd
    <2> QED
      BY <2>2, <2>3, <2>4, <2>5, <2>6 DEF EndSteps
  <1>3. Body(w)' = Body(w)
    BY <1>1, <1>2 DEF Body, Msg
  <1>4. ASSUME Inactive(w)', f \in Facts, Plain(f)'
        PROVE  asrt'[f].state # "active"
    <2>1. Inactive(w)
      BY <1>1, <1>2, <1>3, <1>4 DEF Inactive, At
    <2>2. asrt[f].state # "active"
      BY <1>4, <2>1 DEF InHand, Active
    <2>3. \/ UNCHANGED ledgerVars
          \/ RegisterInvalidation(EndId(w), EndFact(w), EndResult(w))
          \/ MarkInvalidated(EndId(w))
      <3>1. work[w].pc \notin AssertPcs \cup FactsPcs
        BY <1>1 DEF Ending, AssertPcs, FactsPcs
      <3> QED
        BY <3>1, StepCalls DEF Step
    <2>4. CASE MarkInvalidated(EndId(w))
      <3>1. EndId(w) \in Corrections
        BY <1>1, MessageIds DEF EndId
      <3>2. \A g \in Facts : asrt'[g] = asrt[g] \/ asrt'[g].state \in EndedState
        BY <2>4, <3>1, MarkInvalidatedEffect DEF WorkersInv, LedgerInv
      <3> QED
        BY <1>4, <2>2, <3>2 DEF EndedState
    <2> QED
      BY <2>2, <2>3, <2>4 DEF ledgerVars, RegisterInvalidation
  <1> QED
    BY <1>1, <1>2, <1>3, <1>4

\* The steps that end a fact keep what the handler knows.
LEMMA InHandEnd ==
    ASSUME WorkersInv, WorkersInv', NEW w \in Workers, InHand(w), EndSteps(w),
           \A g \in Facts : Plain(g)' => Plain(g)
    PROVE  InHand(w)'
  <1>0. PICK a : a = Body(w).adds
    OBVIOUS
  <1>1. /\ work'[w].pc \notin Registered /\ work'[w].msg = Msg(w) /\ content' = content
        /\ work[w].pc \in Ending /\ EndFact(w) \in Facts /\ Msg(w) \in Msgs
        /\ Body(w)' = Body(w)
        /\ Inactive(w)' /\ a \in Facts /\ Plain(a)' => asrt'[a].state # "active"
    BY <1>0, EndsGo
  <1>2. Msg(w)' = Msg(w) /\ Body(w)' = Body(w)
    BY <1>1 DEF Msg, Body
  <1>3. CASE work'[w].pc \notin Ending \ {"end_register"}
    BY <1>0, <1>1, <1>2, <1>3, IntoEnding
  <1>4. ASSUME Ends(w)'
        PROVE  InHand(w)'
    BY <1>0, <1>1, <1>2, <1>4, InHandThen
  <1>5. AfterEnd(w) \notin Ending
    BY <1>1, EndHeld, AfterEndAsked DEF Ending
  <1>6. CASE Raise(w)
    BY <1>1, <1>3, <1>5, <1>6, RaiseFields DEF Ending
  <1> DEFINE f == work[w].fact
             life == ProjectionDrawers(f, Count(f))
  <1>7. CASE EndRegister(w) /\ ~Raise(w)
    <2>0. PICK g : g = EndFact(w)
      OBVIOUS
    <2>1. CASE Goto(w, AfterEnd(w))
      BY <1>3, <1>5, <2>1, GotoFields
    <2>2. CASE ~Goto(w, AfterEnd(w))
      <3>1. /\ RegisterInvalidation(EndId(w), g, EndResult(w))
            /\ ~RegisterInvalidationRaises(EndId(w), g, EndResult(w))
            /\ ~Exists(g) \/ invalidations[EndId(w)].state # "applied"
            /\ work'[w].pc = "end_find" /\ work'[w].fact = g /\ work'[w].matched = Exists(g)
            /\ work'[w].reg.activation = asrt[g].activation_count
        BY <1>7, <2>0, <2>2, EndRegisterFields
      <3>2. PICK i : i = EndId(w)
        OBVIOUS
      <3>3. i = <<Msg(w), g>> /\ i \in Corrections
        BY <1>1, <2>0, <3>2, MessageIds DEF EndId
      <3>4. asrt' = asrt /\ (Exists(g) => invalidations'[i].state = "pending")
        <4> DEFINE q == [fact |-> g, state |-> "pending", result_state |-> EndResult(w)]
        <4>1. q.state = "pending" /\ invalidations[i].state \in {"none", "pending", "applied"}
          BY <3>3 DEF WorkersInv, LedgerInv, LedgerTypeOK, InvalidationRow, EventState
        <4>2. asrt' = asrt /\ invalidations' = IF Exists(g) /\ invalidations[i].state = "none"
                                               THEN [invalidations EXCEPT ![i] = q]
                                               ELSE invalidations
          BY <2>0, <3>1, <3>2 DEF RegisterInvalidation
        <4> HIDE DEF q
        <4> QED
          BY <3>1, <3>2, <3>3, <4>1, <4>2 DEF WorkersInv, LedgerInv, LedgerTypeOK
      <3>5. Exists(g)' = Exists(g) /\ Count(g)' = asrt[g].activation_count
        BY <3>4 DEF Exists, Count
      <3>6. EndFact(w)' = g
        BY <1>2, <2>0, <3>1 DEF EndFact
      <3>7. Ends(w)'
        BY <1>2, <2>0, <3>1, <3>3, <3>4, <3>5, <3>6 DEF Ends, At, Exists, Count
      <3> QED
        BY <1>4, <3>7
    <2> QED
      BY <2>1, <2>2
  <1>8. CASE EndFind(w)
    <2>1. Ends(w) /\ work[w].pc \in Ending \ {"end_register"} /\ UNCHANGED ledgerVars /\ UNCHANGED storeVars
      BY <1>1, <1>8 DEF EndFind, InHand, At, Ending, localOnly, ledgerOnly
    <2>2. /\ work'[w].fact = f /\ work'[w].matched = work[w].matched /\ work'[w].reg = work[w].reg
          /\ work'[w].pc \in {"end_kg", "end_archive"}
      BY <1>8, EndFindFields, GotoFields
    <2>3. ASSUME Plain(f)
          PROVE  /\ work'[w].pc = "end_archive" => \E d \in life : work'[w].seen = {d}
                 /\ work'[w].pc = "end_kg" => (OneDrawer(f) => life \subseteq archived)
      <3>1. work[w].reg.activation = Count(f)
        BY <2>1, <2>3 DEF Ends
      <3>2. CASE life = {} /\ Goto(w, "end_kg")
        BY <3>2, GotoFields
      <3>3. ASSUME NEW d \in life, work'[w].seen = {d},
                   work'[w].pc = IF d \in archived THEN "end_kg" ELSE "end_archive"
            PROVE  /\ work'[w].pc = "end_archive" => \E e \in life : work'[w].seen = {e}
                   /\ work'[w].pc = "end_kg" => (OneDrawer(f) => life \subseteq archived)
        BY <3>3 DEF OneDrawer, DrawersOf, ProjectionDrawers
      <3> QED
        BY <1>8, <3>1, <3>2, <3>3, EndFindFields
    <2>4. work'[w].pc = "end_archive" => \A d \in work'[w].seen : d.fact = f
      BY <1>8, EndFindFields, GotoFields DEF ProjectionDrawers
    <2>5. EndFact(w)' = f
      BY <1>2, <2>1, <2>2 DEF EndFact, Ends
    <2>6. /\ asrt' = asrt /\ invalidations' = invalidations /\ drawers' = drawers /\ archived' = archived
      BY <2>1 DEF ledgerVars, storeVars
    <2>7. f \in Facts
      BY <1>1, <2>1 DEF Ends
    <2>8. Ends(w)'
      BY <1>2, <2>1, <2>2, <2>3, <2>4, <2>5, <2>6, <2>7
         DEF Ends, At, Exists, Count, ProjectionDrawers, OneDrawer, DrawersOf
    <2> QED
      BY <1>4, <2>8
  <1>9. CASE (EndArchive(w) \/ EndKg(w)) /\ ~Raise(w) /\ work'[w].pc \in Ending
    <2>1. Ends(w) /\ work[w].pc \in Ending \ {"end_register"} /\ UNCHANGED ledgerVars
      BY <1>1, <1>9 DEF EndArchive, EndKg, InHand, At, Ending, storeOnly
    <2>2. \/ /\ EndArchive(w) /\ Goto(w, "end_kg")
             /\ archived' = archived \cup (work[w].seen \cap drawers)
             /\ drawers' = drawers /\ closed' = closed /\ kgrows' = kgrows
          \/ /\ EndKg(w) /\ Goto(w, "end_mark") /\ work[w].matched
             /\ closed' = closed \cup OpenRows({f})
             /\ drawers' = drawers /\ archived' = archived /\ kgrows' = kgrows
      BY <1>5, <1>9, GotoFields
         DEF EndArchive, EndKg, ArchiveDrawers, InvalidateTriple, Reject, Ending
    <2>3. /\ work'[w].fact = f /\ work'[w].matched = work[w].matched /\ work'[w].reg = work[w].reg
          /\ work'[w].pc \in {"end_kg", "end_mark"}
          /\ work'[w].pc = "end_mark" => work[w].matched /\ OpenRows({f})' = {}
      BY <2>2, GotoFields DEF OpenRows
    <2>4. f \in Facts
      BY <1>1, <2>1 DEF Ends
    <2>5. ASSUME Plain(f), OneDrawer(f)
          PROVE  life \subseteq archived'
      <3>1. CASE EndKg(w)
        BY <2>1, <2>2, <2>5, <3>1 DEF Ends, EndKg, EndArchive
      <3>2. CASE EndArchive(w)
        <4>1. \E d \in life : work[w].seen = {d}
          BY <2>1, <2>5, <3>2 DEF Ends, EndArchive
        <4>2. archived' = archived \cup (work[w].seen \cap drawers)
          BY <3>2 DEF EndArchive, ArchiveDrawers
        <4> QED
          BY <2>5, <4>1, <4>2 DEF OneDrawer, DrawersOf, ProjectionDrawers
      <3> QED
        BY <2>2, <3>1, <3>2
    <2>6. EndFact(w)' = f
      BY <1>2, <2>1, <2>3 DEF EndFact, Ends
    <2>7. asrt' = asrt /\ invalidations' = invalidations /\ drawers' = drawers
      BY <2>1, <2>2 DEF ledgerVars
    <2>8. Ends(w)'
      BY <1>2, <2>1, <2>3, <2>4, <2>5, <2>6, <2>7
         DEF Ends, At, Exists, Count, ProjectionDrawers, OneDrawer, DrawersOf
    <2> QED
      BY <1>4, <2>8
  <1>10. CASE EndMark(w) /\ ~Raise(w)
    BY <1>3, <1>5, <1>10, EndMarkFields
  <1> QED
    BY <1>3, <1>6, <1>7, <1>8, <1>9, <1>10 DEF EndSteps

\* What the handler of a registered fact knows, field by field.
LEMMA RegistersThen ==
    ASSUME NEW w, NEW f, f = Body(w)'.adds, NEW m, m = work'[w].msg, NEW r, r = work'[w].reg,
           NEW p, p = work'[w].pc,
           Plain(f)' =>
               /\ evidence'[m] = f
               /\ ~r.reactivation_pending =>
                      \/ asrt'[f].state = "active" /\ r.activation = asrt'[f].activation_count
                      \/ /\ asrt'[f].state \in EndedState /\ reactivations'[m].state = "applied"
                         /\ reactivations'[m].activation_number = r.activation
                         /\ "drawer" \notin r.pending
                         /\ p \notin {"reopen_drawer", "put_drawer", "mark_drawer"}
               /\ r.reactivation_pending =>
                      /\ reactivations'[m].state = "pending"
                      /\ reactivations'[m].activation_number = r.activation
                      /\ p \in {"mark_kg", "finish_reactivation"}
                         => [fact |-> f, activation |-> r.activation] \in kgrows'
                      /\ /\ p \in {"relook", "reopen_drawer", "put_drawer", "mark_drawer"}
                         /\ content'[m].kind # "turn" /\ "kg" \notin r.pending
                         => [fact |-> f, activation |-> r.activation] \in kgrows'
    PROVE  Registers(w)'
  BY PlainOf DEF Registers, Active, Ended, Count, At, IsTurn, Msg, Body

\* A statement of a fact that is being brought back, still valid, is one of
\* the life about to begin.
LEMMA OpenIsStatement ==
    ASSUME WorkersInv, NEW f \in Facts, Durable(f), NEW m \in Msgs, reactivations[m].fact = f,
           reactivations[m].state = "pending", NEW a, a = reactivations[m].activation_number,
           OpenRows({f}) # {}
    PROVE  [fact |-> f, activation |-> a] \in kgrows
  <1>1. Ended(f) /\ a = Count(f) + 1 /\ Count(f) \in Nat
    BY DEF Durable, RevivalsApply, Count, WorkersInv, LedgerInv, LedgerTypeOK, AssertionRow
  <1>2. PICK r \in kgrows \ closed : r.fact = f
    BY DEF OpenRows
  <1>3. ~Past(f, r.activation) /\ r \in KgRow
    BY <1>2 DEF Durable, PastHidden, WorkersInv, StoresOK
  <1>4. r.activation <= Count(f) \/ r.activation = a
    BY <1>1, <1>2 DEF Durable, OfItsLives
  <1>5. r.activation \in Nat
    BY <1>3 DEF KgRow
  <1>6. r.activation = a
    BY <1>1, <1>3, <1>4, <1>5 DEF Past
  <1>7. r = [fact |-> f, activation |-> a]
    BY <1>2, <1>3, <1>6 DEF KgRow
  <1> QED
    BY <1>2, <1>7

\* The ledger calls of a handler that has registered its fact.
LEMMA RegisteredCalls ==
    ASSUME WorkersInv, NEW w \in Workers, work[w].pc \in Registered, AssertSteps(w),
           work'[w].pc \in Registered, NEW f, f = Body(w).adds
    PROVE  /\ f \in Facts /\ Msg(w) \in Msgs /\ content' = content
           /\ evidence' = evidence /\ reactivations' = reactivations
           /\ asrt'[f].state = asrt[f].state
           /\ asrt'[f].activation_count = asrt[f].activation_count
           /\ kgrows \subseteq kgrows'
  <1>1. work[w].pc \in AssertPcs \ {"register", "reactivate", "read_fact", "supersede"}
    BY DEF Registered, PastRegister, AssertPcs
  <1>2. f \in Facts /\ Msg(w) \in Msgs /\ Step(w)
    BY <1>1, Asserting DEF Step
  <1>3. content' = content /\ kgrows \subseteq kgrows'
    <2>1. content' = content
      BY <1>2, StepCalls
    <2>2. storeVars' = storeVars \/ PutDrawer(w) \/ PutKg(w)
      <3>1. work[w].pc \notin Ending \cup FactsPcs
        BY <1>1 DEF AssertPcs, Ending, FactsPcs
      <3> QED
        BY <1>2, <3>1, StoreCalls
           DEF EndArchive, EndKg, ForgetKg, ForgetDrawers, At, Ending, FactsPcs
    <2> QED
      BY <2>1, <2>2 DEF storeVars, PutDrawer, PutKg, IngestDrawer, AddTriple
  <1>4. \/ UNCHANGED ledgerVars
        \/ \E T : \E v \in {"pending", "projected"} : SetProjectionState(f, T, v)
    <2>1. work[w].pc \notin Ending \cup FactsPcs /\ ~At(w, "register") /\ ~At(w, "reactivate")
      BY <1>1 DEF AssertPcs, Ending, FactsPcs, At
    <2>2. CASE At(w, "finish_reactivation")
      <3>1. FinishReactivation(w)
        BY <2>2 DEF AssertSteps, ReadFact, Supersede, RegisterFact, ReactivateFact, CheckDrawer,
                    ReopenDrawer, Look, Relook, PutDrawer, MarkDrawer, CheckKg, ReopenKg, PutKg,
                    MarkKg, At
      <3>2. work'[w].pc = "settle"
        <4>1. work[w].pc \notin Ending
          BY <2>1
        <4> QED
          BY <3>1, <4>1, GotoFields, RaiseFields DEF FinishReactivation
      <3> QED
        BY <3>2 DEF Registered, PastRegister
    <2> QED
      BY <1>2, <2>1, <2>2, StepCalls
  <1>5. CASE UNCHANGED ledgerVars
    BY <1>2, <1>3, <1>5 DEF ledgerVars
  <1>6. ASSUME NEW T, NEW v \in {"pending", "projected"}, SetProjectionState(f, T, v)
        PROVE  /\ evidence' = evidence /\ reactivations' = reactivations
               /\ asrt'[f].state = asrt[f].state
               /\ asrt'[f].activation_count = asrt[f].activation_count
    BY <1>2, <1>6, SetProjectionRow DEF WorkersInv, LedgerInv, SameFact, ProjectionState
  <1> QED
    BY <1>2, <1>3, <1>4, <1>5, <1>6

\* A step of such a handler, but for the drawer of a life that is over and the
\* statement of the life about to begin.
LEMMA RegistersOn ==
    ASSUME WorkersInv, NEW w \in Workers, work[w].pc \in Registered, AssertSteps(w),
           work'[w].pc \in Registered, Registers(w), NEW f, f = Body(w).adds,
           f \in Facts /\ Plain(f)' => Plain(f), work'[w].msg = Msg(w),
           NEW r, r = work[w].reg, NEW s, s = work'[w].reg, NEW p, p = work'[w].pc,
           s.activation = r.activation, s.reactivation_pending = r.reactivation_pending,
           /\ Plain(f) /\ ~r.reactivation_pending /\ reactivations[Msg(w)].state = "applied"
           /\ reactivations[Msg(w)].activation_number = r.activation /\ "drawer" \notin r.pending
           /\ work[w].pc \notin {"reopen_drawer", "put_drawer", "mark_drawer"}
           => "drawer" \notin s.pending /\ p \notin {"reopen_drawer", "put_drawer", "mark_drawer"},
           Plain(f) /\ r.reactivation_pending /\ p \in {"mark_kg", "finish_reactivation"}
           => [fact |-> f, activation |-> r.activation] \in kgrows',
           /\ Plain(f) /\ r.reactivation_pending /\ ~IsTurn(w) /\ "kg" \notin s.pending
           /\ p \in {"relook", "reopen_drawer", "put_drawer", "mark_drawer"}
           => [fact |-> f, activation |-> r.activation] \in kgrows'
    PROVE  Registers(w)'
  <1>1. /\ f \in Facts /\ content' = content /\ evidence' = evidence
        /\ reactivations' = reactivations /\ asrt'[f].state = asrt[f].state
        /\ asrt'[f].activation_count = asrt[f].activation_count /\ kgrows \subseteq kgrows'
    BY RegisteredCalls
  <1>2. f = Body(w)'.adds /\ content'[Msg(w)] = Body(w)
    BY <1>1 DEF Body, Msg
  <1>3. PICK m : m = Msg(w)
    OBVIOUS
  <1>4. PICK statement : statement = [fact |-> f, activation |-> r.activation]
    OBVIOUS
  <1>5. Plain(f)' =>
            /\ evidence'[m] = f
            /\ ~s.reactivation_pending =>
                   \/ asrt'[f].state = "active" /\ s.activation = asrt'[f].activation_count
                   \/ /\ asrt'[f].state \in EndedState /\ reactivations'[m].state = "applied"
                      /\ reactivations'[m].activation_number = s.activation
                      /\ "drawer" \notin s.pending
                      /\ p \notin {"reopen_drawer", "put_drawer", "mark_drawer"}
            /\ s.reactivation_pending =>
                   /\ reactivations'[m].state = "pending"
                   /\ reactivations'[m].activation_number = s.activation
                   /\ p \in {"mark_kg", "finish_reactivation"} => statement \in kgrows'
                   /\ /\ p \in {"relook", "reopen_drawer", "put_drawer", "mark_drawer"}
                      /\ content'[m].kind # "turn" /\ "kg" \notin s.pending
                      => statement \in kgrows'
    BY <1>1, <1>2, <1>3, <1>4 DEF Registers, Active, Ended, Count, At, IsTurn
  <1> QED
    BY <1>1, <1>2, <1>3, <1>4, <1>5, RegistersThen

\* The steps after a registration keep what the handler knows.
LEMMA InHandRegistered ==
    ASSUME WorkersInv, BackedInv, Spoken, NEW w \in Workers, Routed(w),
           work[w].pc \in Registered, AssertSteps(w), work'[w].pc \in Registered,
           Registers(w), NEW f, f = Body(w).adds, f \in Facts /\ Plain(f)' => Plain(f),
           Plain(f) => Durable(f)
    PROVE  Registers(w)'
  <1>1. /\ f \in Facts /\ Msg(w) \in Msgs /\ kgrows \subseteq kgrows'
    BY RegisteredCalls
  <1>2. PICK r, m : r = work[w].reg /\ m = Msg(w)
    OBVIOUS
  <1>3. PICK statement : statement = [fact |-> f, activation |-> r.activation]
    OBVIOUS
  <1>4. /\ reactivations[m].state # "none" => reactivations[m].fact = f
        /\ Plain(f) /\ r.reactivation_pending =>
               reactivations[m].state = "pending" /\ reactivations[m].activation_number = r.activation
    BY <1>1, <1>2 DEF BackedInv, Sources, Body, Registers
  <1>5. Plain(f) /\ r.reactivation_pending /\ OpenRows({f}) # {} => statement \in kgrows
    BY <1>1, <1>2, <1>3, <1>4, OpenIsStatement
  <1>6. /\ Plain(f) /\ ~r.reactivation_pending /\ reactivations[m].state = "applied"
        /\ reactivations[m].activation_number = r.activation
        => ProjectionDrawers(f, r.activation) # {}
    BY <1>1, <1>2, <1>4 DEF Durable, RevivalsApply
  <1>7. /\ Plain(f) /\ r.reactivation_pending /\ work[w].pc \in {"mark_kg", "finish_reactivation"}
           => statement \in kgrows
        /\ /\ Plain(f) /\ r.reactivation_pending /\ ~IsTurn(w) /\ "kg" \notin r.pending
           /\ work[w].pc \in {"relook", "reopen_drawer", "put_drawer", "mark_drawer"}
           => statement \in kgrows
    BY <1>2, <1>3 DEF Registers, At
  <1>8. ASSUME NEW p, Goto(w, p), f \in Facts,
               /\ Plain(f) /\ ~r.reactivation_pending /\ ProjectionDrawers(f, r.activation) # {}
               /\ "drawer" \notin r.pending
               /\ work[w].pc \notin {"reopen_drawer", "put_drawer", "mark_drawer"}
               => p \notin {"reopen_drawer", "put_drawer", "mark_drawer"},
               Plain(f) /\ r.reactivation_pending /\ p \in {"mark_kg", "finish_reactivation"}
               => statement \in kgrows',
               /\ Plain(f) /\ r.reactivation_pending /\ ~IsTurn(w) /\ "kg" \notin r.pending
               /\ p \in {"relook", "reopen_drawer", "put_drawer", "mark_drawer"}
               => statement \in kgrows'
        PROVE  Registers(w)'
    <2>1. work'[w].pc = p /\ work'[w].msg = Msg(w) /\ work'[w].reg = r
      BY <1>2, <1>8, GotoFields
    <2> QED
      BY <1>2, <1>3, <1>6, <1>8, <2>1, RegistersOn
  <1>9. CASE CheckDrawer(w)
    <2>1. IsTurn(w)
      BY <1>9 DEF CheckDrawer, Routed, IsTurn
    <2>2. PICK p : /\ Goto(w, p)
                   /\ p \in {"mark_drawer", "reopen_drawer", "put_drawer", ToKg(w, r)}
                   /\ ProjectionDrawers(f, r.activation) # {} /\ "drawer" \notin r.pending
                      => p = ToKg(w, r)
      BY <1>2, <1>9 DEF CheckDrawer
    <2>3. ToKg(w, r) \in {"put_kg", "check_kg"}
      BY <2>1 DEF ToKg
    <2> QED
      BY <1>1, <1>8, <2>1, <2>2, <2>3
  <1>10. CASE ReopenDrawer(w)
    <2>1. Goto(w, "put_drawer") /\ work[w].pc = "reopen_drawer"
      BY <1>10 DEF ReopenDrawer, At
    <2> QED
      BY <1>1, <1>7, <1>8, <2>1
  <1>11. CASE PutDrawer(w)
    <2>1. Goto(w, "mark_drawer") /\ work[w].pc = "put_drawer"
      BY <1>11 DEF PutDrawer, At
    <2> QED
      BY <1>1, <1>7, <1>8, <2>1
  <1>12. ToKg(w, r) = "finish_reactivation" => ~IsTurn(w) /\ "kg" \notin r.pending
    BY DEF ToKg
  <1>13. CASE MarkDrawer(w)
    <2>1. Goto(w, ToKg(w, r)) /\ work[w].pc = "mark_drawer"
      BY <1>2, <1>13 DEF MarkDrawer, At
    <2> QED
      BY <1>1, <1>7, <1>8, <1>12, <2>1, ToKgNext
  <1>14. CASE CheckKg(w)
    <2>1. PICK p : /\ Goto(w, p) /\ p \in {"mark_kg", "reopen_kg", "put_kg", AfterKg(w)}
                   /\ p \in {"mark_kg", AfterKg(w)} => OpenRows({f}) # {}
      BY <1>14, ToKgNext DEF CheckKg
    <2> QED
      BY <1>1, <1>5, <1>8, <2>1, ToKgNext
  <1>15. CASE ReopenKg(w)
    <2>1. Goto(w, "put_kg")
      BY <1>15 DEF ReopenKg
    <2> QED
      BY <1>1, <1>8, <2>1
  <1>16. CASE PutKg(w)
    <2>1. Goto(w, "mark_kg") /\ AddTriple(f, r.activation)
      BY <1>2, <1>16 DEF PutKg
    <2>2. Plain(f) /\ r.reactivation_pending => statement \in kgrows'
      BY <1>3, <1>5, <2>1 DEF AddTriple
    <2> QED
      BY <1>1, <1>8, <2>1, <2>2
  <1>17. CASE MarkKg(w)
    <2>1. Goto(w, AfterKg(w)) /\ work[w].pc = "mark_kg"
      BY <1>17 DEF MarkKg, At
    <2> QED
      BY <1>1, <1>7, <1>8, <2>1, ToKgNext
  <1>18. CASE Look(w)
    <2>1. PICK s : s = work'[w].reg
      OBVIOUS
    <2>2. /\ work'[w].pc = "relook" /\ work'[w].msg = Msg(w)
          /\ s.activation = r.activation /\ s.reactivation_pending = r.reactivation_pending
          /\ "drawer" \notin r.pending /\ ProjectionDrawers(f, r.activation) # {}
             => "drawer" \notin s.pending
          /\ "kg" \notin s.pending => OpenRows({f}) # {}
      BY <1>2, <1>18, <2>1, LookFields
    <2>3. Plain(f) /\ r.reactivation_pending /\ "kg" \notin s.pending => statement \in kgrows'
      BY <1>1, <1>5, <2>2
    <2> QED
      BY <1>1, <1>2, <1>3, <1>6, <2>1, <2>2, <2>3, RegistersOn
  <1>19. CASE Relook(w)
    <2>1. /\ work'[w].msg = Msg(w) /\ work'[w].reg = r /\ work[w].pc = "relook"
          /\ work'[w].pc \in {"relook", "put_drawer", ToKg(w, r)}
          /\ "drawer" \notin r.pending => work'[w].pc \in {"relook", ToKg(w, r)}
      BY <1>2, <1>19, RelookFields DEF Relook, At
    <2> QED
      BY <1>1, <1>2, <1>3, <1>6, <1>7, <1>12, <2>1, RegistersOn, ToKgNext
  <1>20. ~FinishReactivation(w)
    <2>1. ASSUME FinishReactivation(w)
          PROVE  work'[w].pc = "settle"
      BY <2>1, GotoFields, RaiseFields DEF FinishReactivation, At, Ending
    <2> QED
      BY <2>1 DEF Registered, PastRegister
  <1>21. ~(ReadFact(w) \/ Supersede(w) \/ RegisterFact(w) \/ ReactivateFact(w))
    BY DEF ReadFact, Supersede, RegisterFact, ReactivateFact, At, Registered, PastRegister
  <1> QED
    BY <1>9, <1>10, <1>11, <1>13, <1>14, <1>15, <1>16, <1>17, <1>18, <1>19, <1>20, <1>21
       DEF AssertSteps

\* Steps that assert a fact.
LEMMA InHandRegisters ==
    ASSUME WorkersInv, BackedInv, NEW w \in Workers, InHand(w),
           NEW f, f = Body(w).adds, f \in Facts /\ Plain(f)' => Plain(f),
           Plain(f) => Durable(f),
           RegisterFact(w) \/ ReactivateFact(w), work'[w].pc \in Registered
    PROVE  Registers(w)'
  <1>1. work[w].pc \in AssertPcs /\ work[w].pc \in {"register", "reactivate"}
    BY DEF RegisterFact, ReactivateFact, At, AssertPcs
  <1>2. PICK m : m = Msg(w)
    OBVIOUS
  <1>3. f \in Facts /\ m \in Msgs /\ m \in Intents /\ content' = content
    BY <1>1, <1>2, Asserting DEF RegisterFact, ReactivateFact, ledgerOnly
  <1>4. ~Raise(w)
    BY <1>1, RaiseFields DEF Registered, PastRegister, Ending
  <1>5. /\ f \in Facts => asrt[f].state \in States /\ evidence \in [Intents -> Facts \cup {NoFact}]
        /\ reactivations[m].state \in EventState
    BY <1>3, MessageIds
       DEF WorkersInv, LedgerInv, LedgerTypeOK, AssertionRow, ReactivationRow, States
  <1>6. CASE RegisterFact(w)
    <2>1. PICK reg : reg = RegisterResult(m, f, Targets)
      OBVIOUS
    <2>2. /\ Register(m, f, Targets) /\ ~RegisterRaises(m, f)
          /\ work' = [work EXCEPT ![w] = [@ EXCEPT !.reg = reg, !.pc = AfterRegister(w, reg)]]
      BY <1>2, <1>4, <1>6, <2>1 DEF RegisterFact
    <2>3. work'[w].pc = AfterRegister(w, reg) /\ work'[w].reg = reg /\ work'[w].msg = m
      BY <1>2, <2>2, RegisteringFields
    <2>4. /\ ~reg.reactivation_pending /\ reg.activation = asrt[f].activation_count
          /\ reg.state = IF asrt[f].state \in EndedState THEN asrt[f].state ELSE "active"
      BY <2>1 DEF RegisterResult
    <2>5. asrt[f].state \in {"absent", "active"}
      BY <1>3, <1>5, <2>2, <2>3, <2>4
         DEF AfterRegister, Registered, PastRegister, RegisterRaises, States, EndedState
    <2>6. /\ asrt'[f].state = "active" /\ asrt'[f].activation_count = asrt[f].activation_count
          /\ evidence'[m] = f
      BY <1>3, <1>5, <2>2, <2>5, RegisterEffect, RegisterRow DEF WorkersInv, LedgerInv, Exists
    <2>7. f = Body(w)'.adds
      BY <1>2, <1>3, <2>3 DEF Body, Msg
    <2> QED
      BY <2>3, <2>4, <2>6, <2>7, RegistersThen
  <1>7. CASE ReactivateFact(w)
    <2>1. PICK reg : reg = RegisterReactivationResult(m, f, Targets)
      OBVIOUS
    <2>2. /\ RegisterReactivation(m, f, Targets) /\ ~RegisterReactivationRaises(m, f)
          /\ work' = [work EXCEPT ![w] = [@ EXCEPT !.reg = reg, !.pc = AfterRegister(w, reg)]]
      BY <1>2, <1>4, <1>7, <2>1 DEF ReactivateFact
    <2>3. work'[w].pc = AfterRegister(w, reg) /\ work'[w].reg = reg /\ work'[w].msg = m
      BY <1>2, <2>2, RegisteringFields
    <2>4. f = Body(w)'.adds /\ content'[m] = Body(w)
      BY <1>2, <1>3, <2>3 DEF Body, Msg
    <2>5. /\ work'[w].pc \in {"settle", "look", "put_drawer", "check_drawer"}
          /\ work'[w].pc = "put_drawer" => "drawer" \in reg.pending
          /\ work'[w].pc = "put_drawer" /\ ~IsTurn(w) => reg.pending = Targets
      BY <2>3, MessageIds DEF AfterRegister
    <2>6. "kg" \in Targets
      BY MessageIds
    <2>7. Exists(f) /\ (reactivations[m].state # "none" => reactivations[m].fact = f)
      BY <2>2 DEF RegisterReactivationRaises
    <2>8. CASE reactivations[m].state = "none"
      <3>1. /\ reg.reactivation_pending /\ reg.pending = Targets
            /\ reg.activation = asrt[f].activation_count + 1
        BY <2>1, <2>8 DEF RegisterReactivationResult
      <3>2. /\ reactivations'[m] = [fact |-> f, state |-> "pending",
                                    activation_number |-> asrt[f].activation_count + 1]
            /\ evidence'[m] = f
        BY <1>3, <1>5, <2>2, <2>8, RegisterReactivationEffect DEF WorkersInv, LedgerInv
      <3>3. reactivations'[m].state = "pending" /\ reactivations'[m].activation_number = reg.activation
        BY <3>1, <3>2
      <3>4. "kg" \in reg.pending
        BY <2>6, <3>1
      <3>5. work'[w].pc \notin {"mark_kg", "finish_reactivation"}
        BY <2>5
      <3> QED
        BY <2>3, <2>4, <3>1, <3>2, <3>3, <3>4, <3>5, RegistersThen
    <2>9. CASE reactivations[m].state # "none"
      <3>1. UNCHANGED ledgerVars
        BY <1>3, <2>2, <2>9, RegisterReactivationReplay
      <3>2. /\ evidence' = evidence /\ reactivations' = reactivations /\ asrt' = asrt
            /\ evidence[m] = f
        BY <1>3, <2>7, <2>9, <3>1 DEF ledgerVars, WorkersInv, LedgerInv, ReactivationRecorded
      <3>3. /\ reg.reactivation_pending <=> reactivations[m].state # "applied"
            /\ reg.activation = reactivations[m].activation_number
            /\ reactivations[m].state = "applied" => reg.pending = {}
        BY <2>1, <2>9 DEF RegisterReactivationResult
      <3>4. Plain(f) => Ended(f)
        <4>1. Inactive(w)
          BY <1>7 DEF ReactivateFact, Inactive
        <4> QED
          BY <1>2, <1>3, <1>5, <2>7, <4>1 DEF InHand, Active, Durable, Ended, Exists, States
      <3>5. IsTurn(w) <=> Body(w).kind = "turn"
        BY DEF IsTurn
      <3>6. CASE reactivations[m].state = "applied"
        BY <1>3, <2>3, <2>4, <2>5, <3>2, <3>3, <3>4, <3>6, RegistersThen DEF Ended
      <3>7. CASE reactivations[m].state = "pending"
        <4>1. work'[w].pc \notin {"mark_kg", "finish_reactivation", "relook", "reopen_drawer", "mark_drawer"}
          BY <2>5
        <4>2. work'[w].pc = "put_drawer" /\ content'[m].kind # "turn" => "kg" \in reg.pending
          BY <2>4, <2>5, <2>6, <3>5
        <4>3. /\ evidence'[m] = f /\ reactivations'[m].state = "pending"
              /\ reactivations'[m].activation_number = reg.activation /\ reg.reactivation_pending
          BY <3>2, <3>3, <3>7
        <4> QED
          BY <2>3, <2>4, <4>1, <4>2, <4>3, RegistersThen
      <3> QED
        BY <1>5, <2>9, <3>6, <3>7 DEF EventState
    <2> QED
      BY <2>8, <2>9
  <1> QED
    BY <1>6, <1>7

\* So do all the steps that assert a fact.
LEMMA InHandAssert ==
    ASSUME WorkersInv, BackedInv, Spoken, NEW w \in Workers, Routed(w), InHand(w),
           AssertSteps(w), \A g \in Facts : Plain(g)' => Plain(g),
           \A g \in Facts : Plain(g) => Durable(g)
    PROVE  InHand(w)'
  <1>1. PICK f : f = Body(w).adds
    OBVIOUS
  <1>2. work[w].pc \in AssertPcs
    BY DEF AssertSteps, ReadFact, Supersede, RegisterFact, ReactivateFact, CheckDrawer,
           ReopenDrawer, Look, Relook, PutDrawer, MarkDrawer, CheckKg, ReopenKg, PutKg, MarkKg,
           FinishReactivation, At, AssertPcs
  <1>3. f \in Facts /\ content' = content
    BY <1>1, <1>2, Asserting, StepCalls DEF Step
  <1>4. Plain(f)' => Plain(f) /\ Durable(f)
    BY <1>3
  <1>5. ASSUME work'[w].msg = Msg(w)
        PROVE  f = Body(w)'.adds /\ Body(w)' = Body(w)
    BY <1>1, <1>3, <1>5 DEF Body, Msg
  <1>6. ASSUME work'[w].pc = "settle" \/ work'[w].pc = "reject", work'[w].msg = Msg(w)
        PROVE  InHand(w)'
    BY <1>5, <1>6, IntoEnding DEF Inactive, At, Ending, Registered, PastRegister
  <1>7. CASE Raise(w)
    <2>1. work[w].pc \notin Ending
      BY <1>2 DEF AssertPcs, Ending
    <2> QED
      BY <1>6, <1>7, <2>1, RaiseFields
  <1>8. ASSUME work'[w].pc \in Registered, Registers(w)'
        PROVE  InHand(w)'
    <2>1. PICK g : g = Body(w)'.adds
      OBVIOUS
    <2>2. work'[w].pc \notin Ending \ {"end_register"} /\ ~Inactive(w)'
      BY <1>8 DEF Inactive, At, Ending, Registered, PastRegister
    <2> QED
      BY <1>8, <2>1, <2>2, InHandThen
  <1>9. CASE ReadFact(w)
    <2>1. /\ work'[w].pc \in {"register", "reactivate", "supersede", "reject"}
          /\ work'[w].pc # "register" => asrt[f].state # "active"
          /\ work'[w].msg = Msg(w) /\ asrt' = asrt
      BY <1>1, <1>9, ReadFactFields DEF ReadFact, localOnly, ledgerVars
    <2> QED
      BY <1>5, <2>1, IntoEnding DEF Inactive, At, Ending, Registered, PastRegister
  <1>10. CASE Supersede(w)
    <2>1. /\ work'[w].pc \in {"register", "reactivate", "end_register", "reject"}
          /\ work'[w].msg = Msg(w) /\ asrt' = asrt
      BY <1>10, SupersedeFields DEF Supersede, localOnly, ledgerVars
    <2>2. Plain(f) => asrt[f].state # "active"
      BY <1>1, <1>3, <1>10 DEF InHand, Inactive, Supersede, Active
    <2> QED
      BY <1>4, <1>5, <2>1, <2>2, IntoEnding DEF Ending, Registered, PastRegister
  <1>11. CASE (RegisterFact(w) \/ ReactivateFact(w)) /\ ~Raise(w)
    <2>1. PICK reg : work' = [work EXCEPT ![w] = [@ EXCEPT !.reg = reg, !.pc = AfterRegister(w, reg)]]
      BY <1>11 DEF RegisterFact, ReactivateFact
    <2>2. work'[w].pc \in Registered \cup {"settle"} /\ work'[w].msg = Msg(w)
      <3>1. AfterRegister(w, reg) \in {"settle", "look", "put_drawer", "check_drawer"}
        BY DEF AfterRegister
      <3>2. work'[w].pc = AfterRegister(w, reg) /\ work'[w].msg = Msg(w)
        BY <2>1, RegisteringFields
      <3> QED
        BY <3>1, <3>2 DEF Registered, PastRegister
    <2> QED
      BY <1>1, <1>4, <1>6, <1>8, <1>11, <2>2, InHandRegisters, <1>3
  <1>12. CASE ~(ReadFact(w) \/ Supersede(w) \/ RegisterFact(w) \/ ReactivateFact(w)) /\ ~Raise(w)
    <2>1. work[w].pc \in Registered /\ Registers(w)
      BY <1>12 DEF AssertSteps, CheckDrawer, ReopenDrawer, Look, Relook, PutDrawer, MarkDrawer,
                   CheckKg, ReopenKg, PutKg, MarkKg, FinishReactivation, At, Registered,
                   PastRegister, InHand
    <2>2. work'[w].pc \in Registered \cup {"settle"} /\ work'[w].msg = Msg(w)
      <3>1. ASSUME NEW p \in Registered \cup {"settle"}, Goto(w, p)
            PROVE  work'[w].pc \in Registered \cup {"settle"} /\ work'[w].msg = Msg(w)
        BY <3>1, GotoFields
      <3>2. \A r : ToKg(w, r) \in Registered \cup {"settle"} /\ AfterKg(w) \in Registered \cup {"settle"}
        BY ToKgNext DEF Registered, PastRegister
      <3>3. CASE Look(w) \/ Relook(w)
        <4>1. CASE Look(w)
          <5>1. work'[w].pc = "relook" /\ work'[w].msg = Msg(w)
            BY <4>1, LookFields
          <5> QED
            BY <5>1 DEF Registered, PastRegister
        <4>2. CASE Relook(w)
          <5>1. work'[w].msg = Msg(w)
            BY <4>2, RelookFields
          <5>2. work'[w].pc \in Registered \cup {"settle"}
            <6>1. work'[w].pc \in {"relook", "put_drawer", ToKg(w, work[w].reg)}
              BY <4>2, RelookFields
            <6>2. {"relook", "put_drawer"} \subseteq Registered
              BY DEF Registered, PastRegister
            <6> QED
              BY <3>2, <6>1, <6>2
          <5> QED
            BY <5>1, <5>2
        <4> QED
          BY <3>3, <4>1, <4>2
      <3>4. CASE ~(Look(w) \/ Relook(w))
        <4>1. {"mark_drawer", "reopen_drawer", "put_drawer", "mark_kg", "reopen_kg", "put_kg"}
                  \subseteq Registered
          BY DEF Registered, PastRegister
        <4>2. \E p \in Registered \cup {"settle"} : Goto(w, p)
          <5>1. CASE CheckDrawer(w)
            BY <3>2, <4>1, <5>1 DEF CheckDrawer
          <5>2. CASE CheckKg(w)
            BY <3>2, <4>1, <5>2 DEF CheckKg
          <5>3. CASE ~CheckDrawer(w) /\ ~CheckKg(w)
            BY <1>12, <3>2, <3>4, <4>1, <5>3
               DEF AssertSteps, ReopenDrawer, PutDrawer, MarkDrawer, ReopenKg, PutKg, MarkKg,
                   FinishReactivation
          <5> QED
            BY <5>1, <5>2, <5>3
        <4> QED
          BY <3>1, <4>2
      <3> QED
        BY <3>3, <3>4
    <2> QED
      BY <1>1, <1>3, <1>4, <1>6, <1>8, <2>1, <2>2, InHandRegistered
  <1> QED
    BY <1>7, <1>9, <1>10, <1>11, <1>12

\* Steps that end nothing and assert nothing.
LEMMA InHandQueue ==
    ASSUME WorkersInv, Spoken, NEW w \in Workers,
           \/ \E m \in Msgs : Take(w, m)
           \/ Start(w) \/ Settle(w) \/ Ack(w) \/ RejectAck(w) \/ Fail(w) \/ ForgetSteps(w)
    PROVE  InHand(w)'
  <1>1. PICK f : f = Body(w)'.adds
    OBVIOUS
  <1>2. ASSUME work'[w].pc \in {"idle", "start", "settle", "read_fact", "register", "ack"} \cup ForgetPcs
        PROVE  InHand(w)'
    <2>1. work'[w].pc \notin Ending \cup Registered \cup {"supersede", "reactivate"}
      BY <1>2 DEF Ending, Registered, PastRegister, ForgetPcs, FactsPcs
    <2> QED
      BY <1>1, <2>1, InHandThen DEF Inactive, At
  <1>3. CASE \E m \in Msgs : Take(w, m)
    BY <1>2, <1>3, TakeFields
  <1>4. CASE Start(w)
    <2>1. PICK p : /\ Goto(w, p)
                   /\ p \in {"settle", "end_register", "read_fact", "register", "ack", "forget_resolve"}
                   /\ p = "end_register" => Body(w).kind \in {"turn", "correct"}
      BY <1>4, StartFields
    <2>2. work'[w].pc = p /\ work'[w].msg = Msg(w) /\ content' = content
      BY <1>4, <2>1, GotoFields DEF Start, localOnly, ledgerOnly
    <2>3. CASE p = "end_register"
      <3>1. ~Inactive(w)'
        BY <2>1, <2>2, <2>3 DEF Inactive, At, Body, Msg
      <3> QED
        BY <1>1, <2>2, <2>3, <3>1, InHandThen DEF Ending, Registered, PastRegister
    <2> QED
      BY <1>2, <2>1, <2>2, <2>3 DEF ForgetPcs
  <1>5. CASE Settle(w) \/ Ack(w) \/ RejectAck(w)
    <2>1. \/ work' = [work EXCEPT ![w] = Idle]
          \/ Goto(w, "ack")
      BY <1>5 DEF Settle, Ack, RejectAck, Finish
    <2>2. work'[w].pc \in {"idle", "ack"}
      BY <2>1, GotoFields, WorkerSet, IdleFields
    <2> QED
      BY <1>2, <2>2
  <1>6. CASE Fail(w)
    <2>1. work'[w].pc \in {"settle", "read_fact"}
      BY <1>6, RaiseFields DEF Fail, AfterEnd
    <2> QED
      BY <1>2, <2>1
  <1>7. CASE ForgetSteps(w)
    BY <1>2, <1>7, ForgetFields
  <1> QED
    BY <1>3, <1>4, <1>5, <1>6, <1>7

\* Every step of a worker keeps what it knows,
LEMMA InHandStep ==
    ASSUME WorkersInv, WorkersInv', BackedInv, Spoken, NEW w \in Workers, Routed(w), InHand(w),
           Step(w) \/ Fail(w), \A g \in Facts : Plain(g)' => Plain(g),
           \A g \in Facts : Plain(g) => Durable(g)
    PROVE  InHand(w)'
  BY InHandEnd, InHandAssert, InHandQueue DEF Step

\* and an idle worker has nothing to know.
LEMMA InHandIdle ==
    ASSUME NEW v, work'[v].pc = "idle"
    PROVE  InHand(v)'
  <1>1. PICK f : f = Body(v)'.adds
    OBVIOUS
  <1>2. work'[v].pc \notin Ending \cup Registered \cup {"supersede", "reactivate"}
    BY DEF Ending, Registered, PastRegister
  <1> QED
    BY <1>1, <1>2, InHandThen DEF Inactive, At

\* A worker that takes a step is the only one that is busy.
LEMMA StepsAlone ==
    ASSUME WorkersInv, OneWorker, NEW w \in Workers, Step(w) \/ Fail(w), NEW v \in Workers, v # w
    PROVE  At(v, "idle") /\ Msg(v) = NoMsg
  <1>1. CASE ~At(w, "idle")
    BY <1>1, OnlyOne
  <1>2. CASE At(w, "idle")
    <2>1. PICK m \in Msgs : Take(w, m)
      BY <1>2
         DEF Step, Fail, Start, Settle, Ack, RejectAck, Finish, EndSteps, EndRegister, EndFind,
                  EndArchive, EndKg, EndMark, AssertSteps, ReadFact, Supersede, RegisterFact,
                  ReactivateFact, CheckDrawer, ReopenDrawer, Look, Relook, PutDrawer, MarkDrawer,
                  CheckKg, ReopenKg, PutKg, MarkKg, FinishReactivation, ForgetSteps, ForgetResolve,
                  ForgetScan, ForgetBegin, ForgetRedact, ForgetScrub, ForgetKg, ForgetKgMark,
                  ForgetDrawers, ForgetDrawerMark, ForgetSource, At
    <2>2. content[m].worker = w /\ content[m].kind # "none"
      BY <2>1 DEF Take, WorkersInv, QueuesOK
    <2>3. Fits(v, work[v])
      BY DEF WorkersInv, Working
    <2>4. Msg(v) = NoMsg
      <3>1. SUFFICES ASSUME Msg(v) # NoMsg
                     PROVE  FALSE
        OBVIOUS
      <3>2. ~At(v, "idle")
        BY <2>3, <3>1 DEF Fits, At, Msg
      <3>3. Msg(v) \in Msgs /\ content[Msg(v)].worker = v /\ content[Msg(v)].kind # "none"
        BY <2>3, <3>1, <3>2, Holding DEF Fits, Msg
      <3> QED
        BY <2>2, <3>3 DEF OneWorker
    <2> QED
      BY <2>3, <2>4 DEF Fits, At, Msg
  <1> QED
    BY <1>1, <1>2
----------------------------------------------------------------------------
(* Whatever is outstanding of a plain fact is attended to.                  *)

\* What a step of w leaves pending of f is in hand, or was attended to before.
MarksOn(w, f) ==
    \A t \in Targets : asrt'[f].state = "active" /\ asrt'[f].proj[t] = "pending" =>
        /\ \/ Active(f) /\ asrt[f].proj[t] = "pending"
           \/ /\ evidence'[Msg(w)] = f /\ Msg(w) \notin applied
              /\ t \in ToMark(w)' \/ work'[w].failed
        /\ evidence[Msg(w)] = f /\ Msg(w) \notin applied /\ t \in ToMark(w)
           => t \in ToMark(w)' \/ work'[w].failed
EndsOn(w, f) ==
    \A m \in Msgs : invalidations'[<<m, f>>].state = "pending" /\ content[m].kind # "update" =>
        /\ \/ invalidations[<<m, f>>].state = "pending"
           \/ m = Msg(w) /\ m \notin applied /\ (ToEnd(w)' \/ work'[w].failed)
        /\ m = Msg(w) /\ m \notin applied /\ ToEnd(w) => ToEnd(w)' \/ work'[w].failed
RevivesOn(w, f) ==
    \A m \in Msgs :
        /\ reactivations'[m].fact = f /\ reactivations'[m].state = "pending"
        /\ content[m].kind # "update"
        => /\ \/ reactivations[m].fact = f /\ reactivations[m].state = "pending"
              \/ m = Msg(w) /\ m \notin applied /\ (ToRevive(w)' \/ work'[w].failed)
           /\ m = Msg(w) /\ m \notin applied /\ ToRevive(w) => ToRevive(w)' \/ work'[w].failed

\* Enough that the worker keeps what it owes.
LEMMA AttendedOn ==
    ASSUME NEW f \in Facts, Attended(f), NEW w \in Workers, Msg(w) \in Msgs, NoMsg \notin Msgs,
           \A v \in Workers : v # w => Msg(v) = NoMsg /\ work'[v] = work[v],
           work'[w].msg = Msg(w), work[w].failed => work'[w].failed,
           status' = status, applied' = applied, content' = content,
           \A m \in Msgs : evidence[m] = f => evidence'[m] = f,
           MarksOn(w, f), EndsOn(w, f), RevivesOn(w, f)
    PROVE  Attended(f)'
  <1>1. /\ \A m \in Msgs : Due(m) => Due(m)'
        /\ \A m \in Msgs : m = Msg(w) /\ work'[w].failed => Due(m)'
        /\ work'[w].msg = Msg(w)
    BY DEF Due, Msg
  <1>2. \A m \in Msgs : \A v \in Workers : Msg(v) = m => v = w
    OBVIOUS
  <1>3. ASSUME Active(f)', NEW t \in Targets, asrt'[f].proj[t] = "pending"
        PROVE  \E m \in Msgs \ applied' :
                   evidence'[m] = f /\ (Due(m)' \/ \E v \in Workers : Msg(v)' = m /\ t \in ToMark(v)')
    <2>1. /\ \/ Active(f) /\ asrt[f].proj[t] = "pending"
             \/ /\ evidence'[Msg(w)] = f /\ Msg(w) \notin applied
                /\ t \in ToMark(w)' \/ work'[w].failed
          /\ evidence[Msg(w)] = f /\ Msg(w) \notin applied /\ t \in ToMark(w)
             => t \in ToMark(w)' \/ work'[w].failed
      BY <1>3 DEF MarksOn, Active
    <2>2. CASE Active(f) /\ asrt[f].proj[t] = "pending"
      <3>1. PICK m \in Msgs \ applied :
                evidence[m] = f /\ (Due(m) \/ \E v \in Workers : Msg(v) = m /\ t \in ToMark(v))
        BY <2>2 DEF Attended
      <3>2. evidence'[m] = f /\ m \in Msgs \ applied'
        BY <3>1
      <3>3. CASE Due(m)
        BY <1>1, <3>2, <3>3
      <3>4. CASE Msg(w) = m /\ t \in ToMark(w)
        <4>1. t \in ToMark(w)' \/ Due(m)'
          BY <1>1, <2>1, <3>1, <3>4
        <4>2. Msg(w)' = m
          BY <1>1, <3>4 DEF Msg
        <4> QED
          BY <3>2, <4>1, <4>2
      <3> QED
        BY <1>2, <3>1, <3>3, <3>4
    <2>3. CASE /\ evidence'[Msg(w)] = f /\ Msg(w) \notin applied
               /\ t \in ToMark(w)' \/ work'[w].failed
      <3>1. Msg(w)' = Msg(w)
        BY <1>1 DEF Msg
      <3> QED
        BY <1>1, <2>3, <3>1
    <2> QED
      BY <2>1, <2>2, <2>3
  <1>4. ASSUME NEW m \in Msgs, invalidations'[<<m, f>>].state = "pending", content[m].kind # "update"
        PROVE  m \notin applied' /\ (Due(m)' \/ \E v \in Workers : Msg(v)' = m /\ ToEnd(v)')
    <2>1. /\ \/ invalidations[<<m, f>>].state = "pending"
             \/ m = Msg(w) /\ m \notin applied /\ (ToEnd(w)' \/ work'[w].failed)
          /\ m = Msg(w) /\ m \notin applied /\ ToEnd(w) => ToEnd(w)' \/ work'[w].failed
      BY <1>4 DEF EndsOn
    <2>2. \/ m \notin applied /\ (Due(m) \/ \E v \in Workers : Msg(v) = m /\ ToEnd(v))
          \/ m = Msg(w) /\ m \notin applied /\ (ToEnd(w)' \/ work'[w].failed)
      BY <1>4, <2>1 DEF Attended
    <2>3. m = Msg(w) => Msg(w)' = m
      BY <1>1 DEF Msg
    <2> QED
      BY <1>1, <1>2, <2>1, <2>2, <2>3
  <1>5. ASSUME NEW m \in Msgs, reactivations'[m].fact = f, reactivations'[m].state = "pending",
               content[m].kind # "update"
        PROVE  m \notin applied' /\ (Due(m)' \/ \E v \in Workers : Msg(v)' = m /\ ToRevive(v)')
    <2>1. /\ \/ reactivations[m].fact = f /\ reactivations[m].state = "pending"
             \/ m = Msg(w) /\ m \notin applied /\ (ToRevive(w)' \/ work'[w].failed)
          /\ m = Msg(w) /\ m \notin applied /\ ToRevive(w) => ToRevive(w)' \/ work'[w].failed
      BY <1>5 DEF RevivesOn
    <2>2. \/ m \notin applied /\ (Due(m) \/ \E v \in Workers : Msg(v) = m /\ ToRevive(v))
          \/ m = Msg(w) /\ m \notin applied /\ (ToRevive(w)' \/ work'[w].failed)
      BY <1>5, <2>1 DEF Attended
    <2>3. m = Msg(w) => Msg(w)' = m
      BY <1>1 DEF Msg
    <2> QED
      BY <1>1, <1>2, <2>1, <2>2, <2>3
  <1> QED
    BY <1>3, <1>4, <1>5 DEF Attended

\* Where the handler marks what it writes.
LEMMA Marks ==
    ASSUME NEW w, NEW p, p = work[w].pc, NEW pending, pending = work[w].reg.pending
    PROVE  /\ p \in {"start", "read_fact", "register"} \cup Ending => ToMark(w) = Targets
           /\ p \in {"reopen_drawer", "put_drawer", "mark_drawer"}
              => ToMark(w) = {"drawer"} \cup pending
           /\ p \in {"check_drawer", "look"} => ToMark(w) = pending
           /\ p = "relook" => ToMark(w) = pending \cup work[w].recovered
           /\ p = "check_kg" => ToMark(w) = pending \cap {"kg"}
           /\ p \in {"reopen_kg", "put_kg", "mark_kg"} => ToMark(w) = {"kg"}
           /\ p \in {"idle", "settle", "ack", "reject", "supersede", "reactivate",
                     "finish_reactivation"} \cup ForgetPcs => ToMark(w) = {}
  BY DEF ToMark, Ending, ForgetPcs, FactsPcs

\* The same after a step.
LEMMA MarksThen ==
    ASSUME NEW w, NEW p, p = work'[w].pc, NEW pending, pending = work'[w].reg.pending
    PROVE  /\ p \in {"start", "read_fact", "register"} \cup Ending => ToMark(w)' = Targets
           /\ p \in {"reopen_drawer", "put_drawer", "mark_drawer"}
              => ToMark(w)' = {"drawer"} \cup pending
           /\ p \in {"check_drawer", "look"} => ToMark(w)' = pending
           /\ p = "relook" => ToMark(w)' = pending \cup work'[w].recovered
           /\ p = "check_kg" => ToMark(w)' = pending \cap {"kg"}
           /\ p \in {"reopen_kg", "put_kg", "mark_kg"} => ToMark(w)' = {"kg"}
  BY DEF ToMark, Ending, ForgetPcs, FactsPcs

\* A call that raises puts everything off.
LEMMA RaiseOn ==
    ASSUME NEW w, NEW f, work'[w].failed, UNCHANGED ledgerVars
    PROVE  MarksOn(w, f) /\ EndsOn(w, f) /\ RevivesOn(w, f)
  BY DEF MarksOn, EndsOn, RevivesOn, Active, ledgerVars

\* Steps that end a fact.
LEMMA EndingOn ==
    ASSUME NEW w, NEW f, work'[w].pc \in Ending, Msg(w) \in Msgs, Targets = {"drawer", "kg"},
           asrt' = asrt, reactivations' = reactivations, Msg(w) \notin applied,
           \A m \in Msgs : m # Msg(w) => invalidations'[<<m, f>>] = invalidations[<<m, f>>]
    PROVE  MarksOn(w, f) /\ EndsOn(w, f) /\ RevivesOn(w, f)
  <1>1. ToMark(w)' = Targets /\ ToEnd(w)' /\ ToRevive(w)'
    BY MarksThen DEF ToEnd, ToRevive
  <1> QED
    BY <1>1 DEF MarksOn, EndsOn, RevivesOn, Active

\* The last step of an ending.
LEMMA EndedOn ==
    ASSUME WorkersInv, BackedInv, Spoken, NEW w \in Workers, Routed(w), InHand(w),
           work[w].pc \in Ending, NEW f \in Facts, Plain(f), reactivations' = reactivations,
           work'[w].pc = AfterEnd(w) \/ (work'[w].pc = "reject" /\ ~IsTurn(w)),
           asrt'[f] = asrt[f] \/ asrt'[f].state # "active",
           \A m \in Msgs : invalidations'[<<m, f>>].state = "pending" =>
               /\ invalidations[<<m, f>>].state = "pending"
               /\ m = Msg(w) => content[m].kind = "update"
    PROVE  MarksOn(w, f) /\ EndsOn(w, f) /\ RevivesOn(w, f)
  <1>1. Msg(w) \in Msgs /\ Body(w).kind \in {"turn", "correct", "update"}
    BY EndHeld, Holding DEF Routed
  <1>2. IsTurn(w) /\ Body(w).adds = f => work'[w].pc = "read_fact"
    BY NoFactAssumption DEF AfterEnd
  <1>3. EndsOn(w, f)
    BY DEF EndsOn
  <1>4. RevivesOn(w, f)
    <2>1. ASSUME reactivations[Msg(w)].fact = f, reactivations[Msg(w)].state = "pending",
                 content[Msg(w)].kind # "update"
          PROVE  ToRevive(w)'
      <3>1. IsTurn(w) /\ Body(w).adds = f
        BY <1>1, <2>1 DEF Spoken, RevivalsSpoken, BackedInv, Sources, IsTurn, Body
      <3> QED
        BY <1>2, <3>1 DEF ToRevive, At
    <2> QED
      BY <2>1 DEF RevivesOn
  <1>5. MarksOn(w, f)
    <2>1. ASSUME evidence[Msg(w)] = f, asrt'[f].state = "active", NEW t \in Targets
          PROVE  t \in ToMark(w)'
      <3>1. Body(w).adds = f /\ Body(w).kind \in {"turn", "update"}
        BY <1>1, <2>1, NoFactAssumption DEF Spoken, EvidenceSpoken, Body
      <3>2. Body(w).kind # "update"
        BY <2>1, <3>1 DEF InHand, Inactive, Active
      <3>3. work'[w].pc = "read_fact"
        BY <1>2, <3>1, <3>2 DEF IsTurn
      <3> QED
        BY <3>3, MarksThen
    <2> QED
      BY <2>1 DEF MarksOn, Active
  <1> QED
    BY <1>3, <1>4, <1>5

\* Every step that ends a fact.
LEMMA EndOn ==
    ASSUME WorkersInv, WorkersInv', BackedInv, Spoken, NEW w \in Workers, Routed(w), InHand(w),
           EndSteps(w), NEW f \in Facts, Plain(f)
    PROVE  MarksOn(w, f) /\ EndsOn(w, f) /\ RevivesOn(w, f)
  <1>1. PICK u, g, i : u = Msg(w) /\ g = EndFact(w) /\ i = EndId(w)
    OBVIOUS
  <1>2. /\ work[w].pc \in Ending /\ u \in Msgs /\ g \in Facts /\ i = <<u, g>> /\ i \in Corrections
        /\ u \notin applied /\ Targets = {"drawer", "kg"} /\ ~At(w, "idle")
    BY <1>1, EndStepsGo, EndHeld, Holding, MessageIds DEF EndId, Routed, Ending
  <1>3. \A m \in Msgs : <<m, f>> \in Corrections /\ (m # u => <<m, f>> # i)
    BY <1>2, MessageIds
  <1>4. \* The rows of f a message that is no update has left are those of its ending.
        \A m \in Msgs :
            m = u /\ content[m].kind # "update" /\ invalidations[<<m, f>>].state # "none"
            => f = g /\ <<m, f>> = i
    BY <1>1, <1>2 DEF Spoken, EndingsSpoken, SpeaksOf, EndFact, Body
  <1>5. CASE EndRegister(w)
    <2>1. CASE Raise(w) /\ UNCHANGED ledgerVars
      BY <2>1, RaiseFields, RaiseOn
    <2>2. CASE /\ RegisterInvalidation(i, g, EndResult(w)) /\ Exists(g)
               /\ invalidations[i].state = "applied" /\ Goto(w, AfterEnd(w))
      <3>1. asrt' = asrt /\ invalidations' = invalidations /\ reactivations' = reactivations
        BY <2>2 DEF RegisterInvalidation
      <3>2. \A m \in Msgs : invalidations'[<<m, f>>].state = "pending" =>
                /\ invalidations[<<m, f>>].state = "pending"
                /\ m = Msg(w) => content[m].kind = "update"
        BY <1>1, <1>4, <2>2, <3>1
      <3> QED
        BY <1>2, <2>2, <3>1, <3>2, GotoFields, EndedOn
    <2>3. CASE /\ RegisterInvalidation(i, g, EndResult(w))
               /\ work'[w].pc = "end_find"
      <3> DEFINE q == [fact |-> g, state |-> "pending", result_state |-> EndResult(w)]
      <3>1. /\ asrt' = asrt /\ reactivations' = reactivations
            /\ \/ invalidations' = invalidations
               \/ invalidations' = [invalidations EXCEPT ![i] = q]
        BY <2>3 DEF RegisterInvalidation
      <3> HIDE DEF q
      <3>2. \A m \in Msgs : m # Msg(w) => invalidations'[<<m, f>>] = invalidations[<<m, f>>]
        BY <1>1, <1>2, <1>3, <3>1 DEF WorkersInv, LedgerInv, LedgerTypeOK
      <3> QED
        BY <1>1, <1>2, <2>3, <3>1, <3>2, EndingOn DEF Ending
    <2> QED
      BY <1>1, <1>5, <2>1, <2>2, <2>3, EndRegisterFields
  <1>6. CASE (EndFind(w) \/ EndArchive(w) \/ EndKg(w)) /\ work'[w].pc \in Ending
    <2>1. UNCHANGED ledgerVars
      BY <1>6 DEF EndFind, EndArchive, EndKg, localOnly, storeOnly
    <2> QED
      BY <1>1, <1>2, <1>6, <2>1, EndingOn DEF ledgerVars
  <1>7. CASE (EndFind(w) \/ EndArchive(w) \/ EndKg(w)) /\ work'[w].pc \notin Ending
    <2>1. UNCHANGED ledgerVars
      BY <1>7 DEF EndFind, EndArchive, EndKg, localOnly, storeOnly
    <2>2. \/ EndArchive(w) /\ Raise(w)
          \/ /\ EndKg(w) /\ ~work[w].matched
             /\ IF IsTurn(w) THEN Goto(w, AfterEnd(w)) ELSE Goto(w, "reject")
      BY <1>7, EndFindFields, GotoFields DEF EndArchive, EndKg, Ending, Reject
    <2>3. CASE Raise(w)
      BY <2>1, <2>3, RaiseFields, RaiseOn
    <2>4. CASE /\ EndKg(w) /\ ~work[w].matched
               /\ IF IsTurn(w) THEN Goto(w, AfterEnd(w)) ELSE Goto(w, "reject")
      <3>1. work'[w].pc = AfterEnd(w) \/ (work'[w].pc = "reject" /\ ~IsTurn(w))
        BY <2>4, GotoFields
      <3>2. Ends(w)
        BY <2>4 DEF EndKg, At, InHand, Ending
      <3>3. f = g => ~Exists(f)
        BY <1>1, <2>4, <3>2 DEF Ends
      <3>4. \A m \in Msgs : invalidations'[<<m, f>>].state = "pending" =>
                /\ invalidations[<<m, f>>].state = "pending"
                /\ m = Msg(w) => content[m].kind = "update"
        <4>1. ASSUME NEW m \in Msgs, invalidations[<<m, f>>].state = "pending", m = Msg(w),
                     content[m].kind # "update"
              PROVE  FALSE
          <5>1. f = g /\ invalidations[i].state = "pending"
            BY <1>1, <1>4, <4>1
          <5>2. invalidations[i].fact = f
            BY <1>2, <5>1 DEF Spoken, EndingsSpoken, SpeaksOf
          <5> QED
            BY <1>2, <3>3, <5>1, <5>2, NoFactAssumption DEF BackedInv, Known
        <4> QED
          BY <2>1, <4>1 DEF ledgerVars
      <3> QED
        BY <1>2, <2>1, <3>1, <3>4, EndedOn DEF ledgerVars
    <2> QED
      BY <2>2, <2>3, <2>4
  <1>8. CASE EndMark(w)
    <2>1. CASE Raise(w) /\ UNCHANGED ledgerVars
      BY <2>1, RaiseFields, RaiseOn
    <2>2. CASE MarkInvalidated(i) /\ work'[w].pc = AfterEnd(w)
      <3>1. invalidations[i].state # "none" /\ invalidations[i].fact = g
        BY <1>2, <2>2 DEF MarkInvalidated, Spoken, EndingsSpoken, SpeaksOf
      <3>2. /\ reactivations' = reactivations
            /\ \A j \in Corrections : j # i => invalidations'[j] = invalidations[j]
            /\ invalidations'[i].state = "applied"
            /\ asrt'[f] = asrt[f] \/ asrt'[f].state # "active"
        <4>1. CASE invalidations[i].state = "applied"
          BY <1>2, <2>2, <3>1, <4>1, MarkInvalidatedRow DEF WorkersInv, LedgerInv, ledgerVars
        <4>2. CASE invalidations[i].state = "pending"
          <5>1. /\ \A j \in Corrections : j # i => invalidations'[j] = invalidations[j]
                /\ invalidations'[i].state = "applied" /\ reactivations' = reactivations
                /\ \A h \in Facts : h # g => asrt'[h] = asrt[h]
                /\ asrt'[g].state \in EndedState
            BY <1>2, <2>2, <3>1, <4>2, MarkInvalidatedRow DEF WorkersInv, LedgerInv
          <5> QED
            BY <5>1 DEF EndedState
        <4> QED
          BY <1>2, <2>2, <3>1, <4>1, <4>2, MarkInvalidatedRow DEF WorkersInv, LedgerInv
      <3>3. \A m \in Msgs : invalidations'[<<m, f>>].state = "pending" =>
                /\ invalidations[<<m, f>>].state = "pending"
                /\ m = Msg(w) => content[m].kind = "update"
        <4>1. SUFFICES ASSUME NEW m \in Msgs, invalidations'[<<m, f>>].state = "pending"
                       PROVE  /\ invalidations[<<m, f>>].state = "pending"
                              /\ m = Msg(w) => content[m].kind = "update"
          OBVIOUS
        <4>2. PICK j : j = <<m, f>>
          OBVIOUS
        <4>3. j \in Corrections /\ j # i
          BY <1>3, <3>2, <4>1, <4>2
        <4>4. invalidations[j].state = "pending"
          BY <3>2, <4>1, <4>2, <4>3
        <4> QED
          BY <1>1, <1>4, <4>2, <4>3, <4>4
      <3> QED
        BY <1>2, <2>2, <3>2, <3>3, EndedOn
    <2> QED
      BY <1>1, <1>8, <2>1, <2>2, EndMarkFields
  <1> QED
    BY <1>5, <1>6, <1>7, <1>8 DEF EndSteps

\* Steps that assert a fact.
LEMMA MarksKept ==
    ASSUME NEW w, NEW f, asrt'[f] = asrt[f],
           evidence[Msg(w)] = f /\ Active(f) => ToMark(w) \cap Targets \subseteq ToMark(w)'
    PROVE  MarksOn(w, f)
  BY DEF MarksOn, Active

\* A call that marks projections, when the worker no longer owes what was marked.
LEMMA MarksSet ==
    ASSUME WorkersInv, NEW w, NEW f \in Facts, NEW g \in Facts, NEW T,
           NEW v \in {"pending", "projected"}, SetProjectionState(g, T, v), Msg(w) \notin applied,
           evidence[Msg(w)] = f <=> f = g,
           v = "pending" => T \cup ToMark(w) \subseteq ToMark(w)',
           v = "projected" => ToMark(w) \subseteq T \cup ToMark(w)'
    PROVE  MarksOn(w, f)
  <1>1. /\ \A h \in Facts : h # g => asrt'[h] = asrt[h]
        /\ SameFact(g) /\ evidence' = evidence
        /\ \A t \in Targets : asrt'[g].proj[t] = IF t \in T THEN v ELSE asrt[g].proj[t]
    BY SetProjectionRow DEF WorkersInv, LedgerInv, ProjectionState
  <1>2. CASE f # g
    BY <1>1, <1>2, MarksKept
  <1>3. CASE f = g
    <2>1. asrt'[f].state = asrt[f].state
      BY <1>1, <1>3 DEF SameFact
    <2> SUFFICES ASSUME NEW t \in Targets, asrt'[f].state = "active", asrt'[f].proj[t] = "pending"
                 PROVE  /\ \/ Active(f) /\ asrt[f].proj[t] = "pending"
                           \/ evidence'[Msg(w)] = f /\ Msg(w) \notin applied /\ t \in ToMark(w)'
                        /\ t \in ToMark(w) => t \in ToMark(w)'
      BY DEF MarksOn
    <2>2. v = "projected" => t \notin T
      BY <1>1, <1>3
    <2>3. t \in ToMark(w) => t \in ToMark(w)'
      BY <2>2
    <2>4. CASE t \in T
      BY <1>1, <1>3, <2>2, <2>3, <2>4
    <2>5. CASE t \notin T
      BY <1>1, <1>3, <2>1, <2>3, <2>5 DEF Active
    <2> QED
      BY <2>4, <2>5
  <1> QED
    BY <1>2, <1>3

\* The steps after a registration owe the targets still to be marked.
LEMMA MarksRegistered ==
    ASSUME WorkersInv, Spoken, NEW w \in Workers, Routed(w), work[w].pc \in Registered,
           Registers(w), AssertSteps(w), ~FinishReactivation(w), NEW f \in Facts, Plain(f)
    PROVE  MarksOn(w, f)
  <1>1. PICK g, r, p : g = Body(w).adds /\ r = work[w].reg /\ p = r.pending
    OBVIOUS
  <1>2. work[w].pc \in AssertPcs
    BY DEF Registered, PastRegister, AssertPcs
  <1>3. g \in Facts /\ Msg(w) \in Msgs /\ p \subseteq Targets /\ Targets = {"drawer", "kg"}
    BY <1>1, <1>2, Asserting, MessageIds DEF Registration
  <1>4. Msg(w) \notin applied
    BY DEF Routed, Registered, PastRegister
  <1>5. evidence[Msg(w)] = f <=> f = g
    BY <1>1, <1>3, NoFactAssumption DEF Registers, Spoken, EvidenceSpoken, Body
  <1>6. ASSUME UNCHANGED ledgerVars, ToMark(w) \subseteq ToMark(w)'
        PROVE  MarksOn(w, f)
    BY <1>6, MarksKept DEF ledgerVars
  <1>7. ASSUME NEW T, NEW v \in {"pending", "projected"}, SetProjectionState(g, T, v),
               v = "pending" => T \cup ToMark(w) \subseteq ToMark(w)',
               v = "projected" => ToMark(w) \subseteq T \cup ToMark(w)'
        PROVE  MarksOn(w, f)
    BY <1>3, <1>4, <1>5, <1>7, MarksSet
  <1>8. \A q : Goto(w, q) => work'[w].pc = q /\ work'[w].reg = r
    BY <1>1, GotoFields
  <1>9. CASE CheckDrawer(w)
    <2>1. IsTurn(w) /\ work[w].pc = "check_drawer"
      BY <1>9 DEF CheckDrawer, Routed, IsTurn, At
    <2>2. PICK q : /\ Goto(w, q)
                   /\ \/ q \in {"mark_drawer", "reopen_drawer", "put_drawer"}
                      \/ q = ToKg(w, r) /\ "drawer" \notin p
      BY <1>1, <1>9 DEF CheckDrawer
    <2>3. ToKg(w, r) \in {"put_kg", "check_kg"}
      BY <2>1 DEF ToKg
    <2>4. ToMark(w) = p
      BY <1>1, <2>1, Marks
    <2>5. ToMark(w) \subseteq ToMark(w)'
      BY <1>1, <1>3, <1>8, <2>2, <2>3, <2>4, MarksThen
    <2> QED
      BY <1>6, <1>9, <2>5 DEF CheckDrawer, localOnly
  <1>10. CASE ReopenDrawer(w)
    <2>1. /\ Goto(w, "put_drawer") /\ work[w].pc = "reopen_drawer"
          /\ SetProjectionState(g, {"drawer"}, "pending")
      BY <1>1, <1>10 DEF ReopenDrawer, At, MarkProjectionPending
    <2>2. ToMark(w) = {"drawer"} \cup p /\ ToMark(w)' = {"drawer"} \cup p
      BY <1>1, <1>8, <2>1, Marks, MarksThen
    <2> QED
      BY <1>7, <2>1, <2>2
  <1>11. CASE PutDrawer(w)
    <2>1. Goto(w, "mark_drawer") /\ work[w].pc = "put_drawer" /\ UNCHANGED ledgerVars
      BY <1>11 DEF PutDrawer, At, storeOnly
    <2>2. ToMark(w) = {"drawer"} \cup p /\ ToMark(w)' = {"drawer"} \cup p
      BY <1>1, <1>8, <2>1, Marks, MarksThen
    <2> QED
      BY <1>6, <2>1, <2>2
  <1>12. CASE MarkDrawer(w)
    <2>1. /\ Goto(w, ToKg(w, r)) /\ work[w].pc = "mark_drawer"
          /\ SetProjectionState(g, {"drawer"}, "projected")
      BY <1>1, <1>12 DEF MarkDrawer, At, MarkProjected
    <2>2. "kg" \in p => ToKg(w, r) \in {"put_kg", "check_kg"}
      BY <1>1 DEF ToKg
    <2>3. ToMark(w) = {"drawer"} \cup p /\ ("kg" \in p => "kg" \in ToMark(w)')
      BY <1>1, <1>8, <2>1, <2>2, Marks, MarksThen
    <2>4. ToMark(w) \subseteq {"drawer"} \cup ToMark(w)'
      BY <1>3, <2>3
    <2> QED
      BY <1>7, <2>1, <2>4
  <1>13. CASE CheckKg(w)
    <2>1. PICK q : Goto(w, q) /\ ("kg" \in p => q \in {"mark_kg", "put_kg"})
      BY <1>1, <1>13 DEF CheckKg
    <2>2. ToMark(w) = p \cap {"kg"} /\ ("kg" \in p => "kg" \in ToMark(w)')
      BY <1>1, <1>8, <1>13, <2>1, Marks, MarksThen DEF CheckKg, At
    <2> QED
      BY <1>6, <1>13, <2>2 DEF CheckKg, localOnly
  <1>14. CASE ReopenKg(w)
    <2>1. /\ Goto(w, "put_kg") /\ work[w].pc = "reopen_kg"
          /\ SetProjectionState(g, {"kg"}, "pending")
      BY <1>1, <1>14 DEF ReopenKg, At, MarkProjectionPending
    <2>2. ToMark(w) = {"kg"} /\ ToMark(w)' = {"kg"}
      BY <1>1, <1>8, <2>1, Marks, MarksThen
    <2> QED
      BY <1>7, <2>1, <2>2
  <1>15. CASE PutKg(w)
    <2>1. Goto(w, "mark_kg") /\ work[w].pc = "put_kg" /\ UNCHANGED ledgerVars
      BY <1>15 DEF PutKg, At, storeOnly
    <2>2. ToMark(w) = {"kg"} /\ ToMark(w)' = {"kg"}
      BY <1>1, <1>8, <2>1, Marks, MarksThen
    <2> QED
      BY <1>6, <2>1, <2>2
  <1>16. CASE MarkKg(w)
    <2>1. work[w].pc = "mark_kg" /\ SetProjectionState(g, {"kg"}, "projected")
      BY <1>1, <1>16 DEF MarkKg, At, MarkProjected
    <2>2. ToMark(w) = {"kg"}
      BY <2>1, Marks
    <2> QED
      BY <1>7, <2>1, <2>2
  <1>17. CASE Look(w)
    <2>1. /\ work'[w].pc = "relook" /\ work[w].pc = "look" /\ UNCHANGED ledgerVars
          /\ p \subseteq work'[w].reg.pending \cup work'[w].recovered
      BY <1>1, <1>17, LookFields DEF Look, At, localOnly
    <2>2. ToMark(w) = p /\ ToMark(w)' = work'[w].reg.pending \cup work'[w].recovered
      BY <1>1, <2>1, Marks, MarksThen
    <2> QED
      BY <1>6, <2>1, <2>2
  <1>18. CASE Relook(w)
    <2>1. /\ work[w].pc = "relook" /\ work[w].missing \subseteq p
          /\ ToMark(w) = p \cup work[w].recovered /\ ~IsTurn(w)
      BY <1>1, <1>18, Marks DEF Relook, Routed, At, IsTurn
    <2>2. CASE /\ MarkProjectionPending(g, work[w].missing)
               /\ work'[w].pc = "relook" /\ work'[w].recovered = work[w].recovered
               /\ work'[w].reg = r
      <3>1. ToMark(w)' = p \cup work[w].recovered
        BY <1>1, <2>2, MarksThen
      <3> QED
        BY <1>7, <2>1, <2>2, <3>1 DEF MarkProjectionPending
    <2>3. CASE /\ IF work[w].recovered # {} THEN MarkProjected(g, work[w].recovered)
                  ELSE UNCHANGED ledgerVars
               /\ work'[w].pc = IF "drawer" \in p THEN "put_drawer" ELSE ToKg(w, r)
               /\ work'[w].reg = r
      <3>1. p \subseteq ToMark(w)'
        <4>1. CASE "drawer" \in p
          BY <1>1, <2>3, <4>1, MarksThen
        <4>2. CASE "drawer" \notin p
          <5>1. "kg" \in p => ToKg(w, r) = "put_kg"
            BY <1>1, <2>1 DEF ToKg
          <5>2. "kg" \in p => "kg" \in ToMark(w)'
            BY <1>1, <2>3, <4>2, <5>1, MarksThen
          <5> QED
            BY <1>3, <4>2, <5>2
        <4> QED
          BY <4>1, <4>2
      <3>2. CASE work[w].recovered # {}
        BY <1>7, <2>1, <2>3, <3>1, <3>2 DEF MarkProjected
      <3>3. CASE work[w].recovered = {}
        BY <1>6, <2>1, <2>3, <3>1, <3>3
      <3> QED
        BY <3>2, <3>3
    <2> QED
      BY <1>1, <1>18, <2>2, <2>3, RelookFields
  <1>19. ~(ReadFact(w) \/ Supersede(w) \/ RegisterFact(w) \/ ReactivateFact(w))
    BY DEF ReadFact, Supersede, RegisterFact, ReactivateFact, At, Registered, PastRegister
  <1> QED
    BY <1>9, <1>10, <1>11, <1>12, <1>13, <1>14, <1>15, <1>16, <1>17, <1>18, <1>19 DEF AssertSteps

\* Every step that asserts a fact, or one that raises.
LEMMA MarksAssert ==
    ASSUME WorkersInv, WorkersInv', BackedInv, Spoken, NEW w \in Workers, Routed(w), InHand(w),
           InHand(w)', AssertSteps(w), NEW f \in Facts, Plain(f), Plain(f)'
    PROVE  MarksOn(w, f) \/ (work'[w].failed /\ UNCHANGED ledgerVars)
  <1>1. PICK g, u : g = Body(w).adds /\ u = Msg(w)
    OBVIOUS
  <1>2. work[w].pc \in AssertPcs
    BY DEF AssertSteps, ReadFact, Supersede, RegisterFact, ReactivateFact, CheckDrawer,
           ReopenDrawer, Look, Relook, PutDrawer, MarkDrawer, CheckKg, ReopenKg, PutKg, MarkKg,
           FinishReactivation, At, AssertPcs
  <1>3. g \in Facts /\ u \in Msgs /\ u \in Intents /\ Targets = {"drawer", "kg"}
    BY <1>1, <1>2, Asserting, MessageIds
  <1>4. u \notin applied
    BY <1>1, <1>2 DEF Routed, AssertPcs
  <1>5. evidence[u] = f => f = g
    BY <1>1, <1>3, NoFactAssumption DEF Spoken, EvidenceSpoken, Body
  <1>6. CASE ReadFact(w)
    <2>1. /\ work'[w].pc = "register" \/ asrt[g].state # "active"
          /\ UNCHANGED ledgerVars
      BY <1>1, <1>6, ReadFactFields DEF ReadFact, localOnly
    <2>2. CASE work'[w].pc = "register"
      BY <2>1, <2>2, MarksKept, MarksThen DEF ledgerVars
    <2>3. CASE asrt[g].state # "active"
      BY <1>1, <1>5, <2>1, <2>3, MarksKept DEF ledgerVars, Active
    <2> QED
      BY <2>1, <2>2, <2>3
  <1>7. CASE Supersede(w)
    <2>1. work[w].pc = "supersede" /\ UNCHANGED ledgerVars
      BY <1>7 DEF Supersede, At, localOnly
    <2>2. ToMark(w) = {}
      BY <2>1, Marks
    <2> QED
      BY <2>1, <2>2, MarksKept DEF ledgerVars
  <1>8. CASE RegisterFact(w)
    <2>1. CASE Raise(w) /\ UNCHANGED ledgerVars
      BY <2>1, RaiseFields
    <2>2. CASE ~(Raise(w) /\ UNCHANGED ledgerVars)
      <3>0. PICK reg : reg = RegisterResult(u, g, Targets)
        OBVIOUS
      <3>8. /\ Register(u, g, Targets)
            /\ work' = [work EXCEPT ![w] = [@ EXCEPT !.reg = reg, !.pc = AfterRegister(w, reg)]]
        BY <1>1, <1>8, <2>2, <3>0 DEF RegisterFact
      <3>1. work'[w].pc = AfterRegister(w, reg) /\ work'[w].reg = reg
        BY <3>8, RegisteringFields
      <3>2. /\ \A h \in Facts : h # g => asrt'[h] = asrt[h]
            /\ asrt'[g].state = IF Exists(g) THEN asrt[g].state ELSE "active"
            /\ evidence'[u] = g
            /\ \A t \in Targets : asrt'[g].proj[t] = IF asrt[g].proj[t] = "not_required" THEN "pending"
                                                     ELSE asrt[g].proj[t]
        BY <1>3, <3>8, RegisterEffect, RegisterRow DEF WorkersInv, LedgerInv, LedgerTypeOK
      <3>3. CASE f # g
        BY <1>1, <1>5, <3>2, <3>3, MarksKept
      <3>4. ASSUME f = g, asrt'[f].state = "active", NEW t \in Targets, asrt'[f].proj[t] = "pending"
            PROVE  t \in ToMark(w)'
        <4>1. asrt[g].state \notin EndedState
          BY <1>3, <3>2, <3>4 DEF Exists, EndedState
        <4>2. t \in reg.pending /\ reg.state = "active"
          BY <3>0, <3>2, <3>4, <4>1 DEF RegisterResult, NotProjected, Require
        <4>3. \/ AfterRegister(w, reg) = "put_drawer"
              \/ AfterRegister(w, reg) \in {"check_drawer", "look"}
          BY <4>2 DEF AfterRegister
        <4> QED
          BY <3>1, <4>2, <4>3, MarksThen
      <3>5. CASE f = g
        BY <1>1, <1>3, <1>4, <3>2, <3>4, <3>5 DEF MarksOn
      <3> QED
        BY <3>3, <3>5
    <2> QED
      BY <2>1, <2>2
  <1>9. CASE ReactivateFact(w)
    <2>1. CASE Raise(w) /\ UNCHANGED ledgerVars
      BY <2>1, RaiseFields
    <2>2. CASE RegisterReactivation(u, g, Targets)
      <3>1. \A h \in Facts : (h # g => asrt'[h] = asrt[h]) /\ asrt'[h].state = asrt[h].state
        BY <1>3, <2>2, RegisterReactivationEffect, RegisterReactivationReplay
           DEF WorkersInv, LedgerInv, ledgerVars
      <3>2. Plain(g) => asrt[g].state # "active"
        BY <1>1, <1>3, <1>9 DEF InHand, Inactive, ReactivateFact, Active
      <3>3. CASE f # g
        BY <1>1, <1>5, <3>1, <3>3, MarksKept
      <3>4. CASE f = g
        BY <3>1, <3>2, <3>4 DEF MarksOn
      <3> QED
        BY <3>3, <3>4
    <2> QED
      BY <1>1, <1>9, <2>1, <2>2 DEF ReactivateFact
  <1>10. CASE FinishReactivation(w)
    <2>1. CASE Raise(w) /\ UNCHANGED ledgerVars
      BY <2>1, RaiseFields
    <2>2. CASE MarkReactivated(u, Targets)
      <3>1. ToMark(w) = {} /\ At(w, "finish_reactivation")
        BY <1>10, Marks DEF FinishReactivation, At
      <3>2. reactivations[u].fact = g /\ reactivations[u].state # "none"
        BY <1>1, <1>3, <2>2 DEF MarkReactivated, MarkReactivatedRaises, BackedInv, Sources, Body
      <3>3. CASE reactivations[u].state = "applied"
        BY <1>3, <2>2, <3>1, <3>2, <3>3, MarkReactivatedRow, MarksKept
           DEF WorkersInv, LedgerInv, ledgerVars
      <3>4. CASE reactivations[u].state = "pending"
        <4>1. /\ \A h \in Facts : h # g => asrt'[h] = asrt[h]
              /\ \A t \in Targets : asrt'[g].proj[t] = "projected"
          BY <1>3, <2>2, <3>2, <3>4, MarkReactivatedRow, MarkReactivatedEffect
             DEF WorkersInv, LedgerInv
        <4>2. CASE f # g
          BY <3>1, <4>1, <4>2, MarksKept
        <4>3. CASE f = g
          BY <4>1, <4>3 DEF MarksOn
        <4> QED
          BY <4>2, <4>3
      <3> QED
        BY <1>3, <2>2, <3>2, <3>3, <3>4, MarkReactivatedRow DEF WorkersInv, LedgerInv
    <2> QED
      BY <1>1, <1>10, <2>1, <2>2 DEF FinishReactivation
  <1>11. CASE ~(ReadFact(w) \/ Supersede(w) \/ RegisterFact(w) \/ ReactivateFact(w)) /\ ~FinishReactivation(w)
    <2>1. work[w].pc \in Registered /\ Registers(w)
      BY <1>11 DEF AssertSteps, CheckDrawer, ReopenDrawer, Look, Relook, PutDrawer, MarkDrawer,
                   CheckKg, ReopenKg, PutKg, MarkKg, At, Registered, PastRegister, InHand
    <2> QED
      BY <1>11, <2>1, MarksRegistered
  <1> QED
    BY <1>6, <1>7, <1>8, <1>9, <1>10, <1>11

\* The same of a revival.
LEMMA RevivesAssert ==
    ASSUME WorkersInv, BackedInv, Spoken, NEW w \in Workers, Routed(w), AssertSteps(w),
           NEW f \in Facts, Durable(f)
    PROVE  RevivesOn(w, f) \/ (work'[w].failed /\ UNCHANGED ledgerVars)
  <1>1. PICK g, u : g = Body(w).adds /\ u = Msg(w)
    OBVIOUS
  <1>2. work[w].pc \in AssertPcs
    BY DEF AssertSteps, ReadFact, Supersede, RegisterFact, ReactivateFact, CheckDrawer,
           ReopenDrawer, Look, Relook, PutDrawer, MarkDrawer, CheckKg, ReopenKg, PutKg, MarkKg,
           FinishReactivation, At, AssertPcs
  <1>3. g \in Facts /\ u \in Msgs /\ u \in Intents /\ \A m \in Msgs : m \in Intents
    BY <1>1, <1>2, Asserting, MessageIds
  <1>4. u \notin applied
    BY <1>1, <1>2 DEF Routed, AssertPcs
  <1>5. reactivations[u].state # "none" => reactivations[u].fact = g /\ Body(w).kind \in {"turn", "update"}
    BY <1>1, <1>3 DEF BackedInv, Sources, Spoken, RevivalsSpoken, Body
  <1>6. ASSUME reactivations' = reactivations,
               (reactivations[u].fact = f /\ reactivations[u].state = "pending" /\ f = g
               /\ IsTurn(w) /\ ToRevive(w)) => ToRevive(w)'
        PROVE  RevivesOn(w, f)
    <2>1. ASSUME reactivations[u].fact = f, reactivations[u].state = "pending",
                 content[u].kind # "update", ToRevive(w)
          PROVE  ToRevive(w)'
      BY <1>1, <1>5, <1>6, <2>1 DEF IsTurn, Body
    <2> QED
      BY <1>1, <1>6, <2>1 DEF RevivesOn
  <1>7. ASSUME NEW reg, work'[w].reg = reg, work'[w].pc \in Registered, reg.reactivation_pending
        PROVE  ToRevive(w)'
    BY <1>7 DEF ToRevive
  <1>8. CASE ReadFact(w)
    <2>1. /\ work'[w].pc \in {"register", "reactivate", "supersede", "reject"}
          /\ work'[w].pc = "register" => ~(Exists(g) /\ asrt[g].state # "active")
          /\ work'[w].pc \in {"supersede", "reject"} => ~IsTurn(w)
          /\ reactivations' = reactivations
      BY <1>1, <1>8, ReadFactFields DEF ReadFact, localOnly, ledgerVars
    <2>2. reactivations[u].fact = f /\ reactivations[u].state = "pending"
          => Exists(f) /\ asrt[f].state # "active"
      BY <1>3 DEF Durable, RevivalsApply, Ended, EndedState, Exists
    <2>3. work'[w].pc = "reactivate" => ToRevive(w)'
      BY DEF ToRevive, At
    <2> QED
      BY <1>6, <2>1, <2>2, <2>3
  <1>9. CASE Supersede(w) \/ (RegisterFact(w) /\ ~(Raise(w) /\ UNCHANGED ledgerVars))
    <2>1. ~ToRevive(w) /\ reactivations' = reactivations
      BY <1>9 DEF Supersede, RegisterFact, Register, ToRevive, ToEnd, At, Ending, Registered,
                  PastRegister, localOnly, ledgerVars
    <2> QED
      BY <1>6, <2>1
  <1>10. CASE ReactivateFact(w) /\ ~(Raise(w) /\ UNCHANGED ledgerVars)
    <2>1. PICK reg : reg = RegisterReactivationResult(u, g, Targets)
      OBVIOUS
    <2>2. /\ RegisterReactivation(u, g, Targets)
          /\ work' = [work EXCEPT ![w] = [@ EXCEPT !.reg = reg, !.pc = AfterRegister(w, reg)]]
      BY <1>1, <1>10, <2>1 DEF ReactivateFact
    <2>3. work'[w].pc = AfterRegister(w, reg) /\ work'[w].reg = reg
      BY <2>2, RegisteringFields
    <2>4. reg.reactivation_pending => ToRevive(w)'
      BY <1>7, <2>3 DEF AfterRegister, Registered, PastRegister
    <2>5. reg.reactivation_pending <=> reactivations[u].state # "applied"
      BY <2>1 DEF RegisterReactivationResult
    <2>6. /\ \A m \in Msgs : m # u => reactivations'[m] = reactivations[m]
          /\ reactivations[u].state = "applied" => reactivations'[u] = reactivations[u]
      BY <1>3, <2>2, RegisterReactivationEffect, RegisterReactivationReplay
         DEF WorkersInv, LedgerInv, ledgerVars
    <2> QED
      BY <1>1, <1>4, <2>4, <2>5, <2>6 DEF RevivesOn
  <1>11. CASE FinishReactivation(w) /\ ~(Raise(w) /\ UNCHANGED ledgerVars)
    <2>1. MarkReactivated(u, Targets)
      BY <1>1, <1>11 DEF FinishReactivation
    <2>2. /\ \A m \in Msgs : m # u => reactivations'[m] = reactivations[m]
          /\ reactivations'[u].state = "applied"
      <3>1. CASE reactivations[u].state = "applied"
        BY <2>1, <3>1 DEF MarkReactivated
      <3>2. CASE reactivations[u].state # "applied"
        BY <1>3, <2>1, <3>2, MarkReactivatedEffect DEF WorkersInv, LedgerInv
      <3> QED
        BY <3>1, <3>2
    <2> QED
      BY <1>1, <2>2 DEF RevivesOn
  <1>12. CASE (RegisterFact(w) \/ ReactivateFact(w) \/ FinishReactivation(w))
              /\ Raise(w) /\ UNCHANGED ledgerVars
    BY <1>12, RaiseFields
  <1>13. CASE ~(ReadFact(w) \/ Supersede(w) \/ RegisterFact(w) \/ ReactivateFact(w)) /\ ~FinishReactivation(w)
    <2>1. reactivations' = reactivations
      <3>1. work[w].pc \in AssertPcs \ {"register", "reactivate", "finish_reactivation"}
        BY <1>13 DEF AssertSteps, CheckDrawer, ReopenDrawer, Look, Relook, PutDrawer, MarkDrawer,
                     CheckKg, ReopenKg, PutKg, MarkKg, At, AssertPcs
      <3>2. \/ UNCHANGED ledgerVars
            \/ \E T : \E v \in {"pending", "projected"} : SetProjectionState(g, T, v)
        BY <1>1, <3>1, StepCalls DEF Step, At, AssertPcs, Ending, FactsPcs
      <3> QED
        BY <3>2 DEF ledgerVars, SetProjectionState
    <2>2. ToRevive(w) => ToRevive(w)'
      <3>1. ToRevive(w) => work[w].reg.reactivation_pending
        BY <1>13 DEF AssertSteps, CheckDrawer, ReopenDrawer, Look, Relook, PutDrawer, MarkDrawer,
                     CheckKg, ReopenKg, PutKg, MarkKg, At, ToRevive, ToEnd, Ending
      <3>2. ASSUME work[w].reg.reactivation_pending
            PROVE  ToRevive(w)'
        <4>1. /\ \A r : r.reactivation_pending => ToKg(w, r) \in Registered
              /\ AfterKg(w) \in Registered
          BY <3>2 DEF ToKg, AfterKg, Registered, PastRegister
        <4>2. ASSUME NEW p \in Registered, Goto(w, p)
              PROVE  ToRevive(w)'
          BY <1>7, <3>2, <4>2, GotoFields
        <4>3. {"mark_drawer", "reopen_drawer", "put_drawer", "mark_kg", "reopen_kg", "put_kg", "relook"}
                  \subseteq Registered
          BY DEF Registered, PastRegister
        <4>4. CASE Look(w)
          BY <1>7, <3>2, <4>3, <4>4, LookFields
        <4>5. CASE Relook(w)
          BY <1>7, <3>2, <4>1, <4>3, <4>5, RelookFields
        <4>6. CASE CheckDrawer(w)
          BY <3>2, <4>1, <4>2, <4>3, <4>6 DEF CheckDrawer
        <4>7. CASE CheckKg(w)
          BY <4>1, <4>2, <4>3, <4>7 DEF CheckKg
        <4>8. CASE ReopenDrawer(w) \/ PutDrawer(w) \/ MarkDrawer(w) \/ ReopenKg(w) \/ PutKg(w) \/ MarkKg(w)
          BY <3>2, <4>1, <4>2, <4>3, <4>8
             DEF ReopenDrawer, PutDrawer, MarkDrawer, ReopenKg, PutKg, MarkKg
        <4> QED
          BY <1>13, <4>4, <4>5, <4>6, <4>7, <4>8 DEF AssertSteps
      <3> QED
        BY <3>1, <3>2
    <2> QED
      BY <1>6, <2>1, <2>2
  <1> QED
    BY <1>8, <1>9, <1>10, <1>11, <1>12, <1>13

\* So the steps that assert a fact keep what is owed.
LEMMA AssertOn ==
    ASSUME WorkersInv, WorkersInv', BackedInv, Spoken, NEW w \in Workers, Routed(w), InHand(w),
           InHand(w)', AssertSteps(w), NEW f \in Facts, Plain(f), Plain(f)', Durable(f)
    PROVE  MarksOn(w, f) /\ EndsOn(w, f) /\ RevivesOn(w, f)
  <1>1. work[w].pc \in AssertPcs
    BY DEF AssertSteps, ReadFact, Supersede, RegisterFact, ReactivateFact, CheckDrawer,
           ReopenDrawer, Look, Relook, PutDrawer, MarkDrawer, CheckKg, ReopenKg, PutKg, MarkKg,
           FinishReactivation, At, AssertPcs
  <1>2. invalidations' = invalidations
    <2>1. work[w].pc \notin Ending \cup FactsPcs
      BY <1>1 DEF AssertPcs, Ending, FactsPcs
    <2> QED
      BY <2>1, StepCalls DEF Step, Register, RegisterReactivation, MarkReactivated,
                             SetProjectionState, ledgerVars
  <1>3. ~ToEnd(w)
    BY <1>1 DEF ToEnd, At, Ending, AssertPcs
  <1>4. EndsOn(w, f)
    BY <1>2, <1>3 DEF EndsOn
  <1> QED
    BY <1>4, MarksAssert, RevivesAssert, RaiseOn

\* The other steps.
LEMMA ForgetOn ==
    ASSUME WorkersInv, Spoken, NEW w \in Workers, ForgetSteps(w), NEW f \in Facts, Plain(f)'
    PROVE  MarksOn(w, f) /\ EndsOn(w, f) /\ RevivesOn(w, f)
  <1>1. work[w].pc \in ForgetPcs
    BY ForgetFields
  <1>2. ToMark(w) = {} /\ ~ToEnd(w) /\ ~ToRevive(w)
    BY <1>1, Marks DEF ToEnd, ToRevive, At, Ending, Registered, PastRegister, ForgetPcs, FactsPcs
  <1>3. PICK F : F = work[w].facts
    OBVIOUS
  <1>4. \/ UNCHANGED ledgerVars
        \/ /\ F \in SUBSET Facts /\ Body(w).hard \in BOOLEAN
           /\ \/ BeginForget(F, Body(w).hard, Targets)
              \/ ScrubForgottenContent(F)
              \/ \E T : MarkForgetProjected(F, T)
    <2>1. work[w].pc \notin Ending \cup AssertPcs
      BY <1>1 DEF AssertPcs, Ending, FactsPcs, ForgetPcs
    <2>2. \/ UNCHANGED ledgerVars
          \/ /\ work[w].pc \in FactsPcs
             /\ \/ BeginForget(F, Body(w).hard, Targets)
                \/ ScrubForgottenContent(F)
                \/ \E T : MarkForgetProjected(F, T)
      BY <1>3, <2>1, StepCalls DEF Step
    <2> QED
      BY <1>3, <2>2, Forgetting
  <1>5. ~forgets'[f].present
    BY DEF Plain, Spared
  <1>6. ASSUME asrt'[f] = asrt[f],
               \A m \in Msgs : invalidations'[<<m, f>>].state = "pending"
                               => invalidations[<<m, f>>].state = "pending",
               \A m \in Msgs : reactivations'[m].state = "pending" => reactivations'[m] = reactivations[m]
        PROVE  MarksOn(w, f) /\ EndsOn(w, f) /\ RevivesOn(w, f)
    BY <1>2, <1>6, MarksKept DEF EndsOn, RevivesOn
  <1>7. CASE UNCHANGED ledgerVars
    BY <1>6, <1>7 DEF ledgerVars
  <1>8. CASE F \in SUBSET Facts /\ Body(w).hard \in BOOLEAN /\ BeginForget(F, Body(w).hard, Targets)
    <2>1. asrt'[f] = asrt[f]
      BY <1>5, <1>8, BeginForgetEffect DEF WorkersInv, LedgerInv
    <2> QED
      BY <1>6, <1>8, <2>1 DEF BeginForget
  <1>9. CASE F \in SUBSET Facts /\ ScrubForgottenContent(F)
    <2>1. f \notin F
      BY <1>5, <1>9 DEF ScrubForgottenContent
    <2>2. /\ asrt'[f] = asrt[f]
          /\ \A m \in Msgs : reactivations'[m] \in {reactivations[m], NoReactivation}
      BY <1>9, <2>1, MessageIds, ScrubEffect DEF WorkersInv, LedgerInv
    <2>3. ASSUME NEW m \in Msgs, invalidations'[<<m, f>>].state = "pending"
          PROVE  invalidations[<<m, f>>].state = "pending"
      <3>1. PICK i : i = <<m, f>>
        OBVIOUS
      <3>2. i \in Corrections
        BY <3>1, MessageIds
      <3>3. invalidations'[i] = IF invalidations[i].fact \in F THEN NoInvalidation ELSE invalidations[i]
        BY <1>9, <3>2 DEF ScrubForgottenContent
      <3> QED
        BY <2>3, <3>1, <3>3 DEF NoInvalidation
    <2>4. \A m \in Msgs : reactivations'[m].state = "pending" => reactivations'[m] = reactivations[m]
      BY <2>2 DEF NoReactivation
    <2> QED
      BY <1>6, <2>2, <2>3, <2>4
  <1>10. ASSUME F \in SUBSET Facts, NEW T, MarkForgetProjected(F, T)
         PROVE  MarksOn(w, f) /\ EndsOn(w, f) /\ RevivesOn(w, f)
    <2>1. f \notin F
      BY <1>5, <1>10 DEF MarkForgetProjected
    <2>2. asrt'[f] = asrt[f] /\ invalidations' = invalidations /\ reactivations' = reactivations
      BY <1>10, <2>1 DEF MarkForgetProjected
    <2> QED
      BY <1>6, <2>2
  <1> QED
    BY <1>4, <1>7, <1>8, <1>9, <1>10

\* A message enters a route on which it will do whatever it has registered.
LEMMA StartOn ==
    ASSUME WorkersInv, BackedInv, Spoken, NEW w \in Workers, Start(w), NEW f \in Facts, Plain(f)
    PROVE  MarksOn(w, f) /\ EndsOn(w, f) /\ RevivesOn(w, f)
  <1>1. PICK u, p : /\ u = Msg(w) /\ Goto(w, p) /\ UNCHANGED ledgerVars
                    /\ IsTurn(w) => p = AfterDecision(w)
                    /\ ~IsTurn(w) => p = AfterStatus(w)
    BY StartFields DEF Start, localOnly
  <1>2. u \in Msgs /\ u \in Intents /\ work'[w].pc = p
    BY <1>1, Holding, GotoFields DEF Start, At
  <1>3. /\ asrt' = asrt /\ evidence' = evidence /\ invalidations' = invalidations
        /\ reactivations' = reactivations
    BY <1>1 DEF ledgerVars
  <1>4. IsTurn(w) /\ u \notin redactedEvents /\ Body(w).adds = f => p \in {"end_register", "read_fact"}
    BY <1>1, NoFactAssumption DEF AfterDecision, AfterEnd
  <1>5. /\ p = "end_register" => ToMark(w)' = Targets /\ ToEnd(w)' /\ ToRevive(w)'
        /\ p = "read_fact" => ToMark(w)' = Targets /\ ToRevive(w)'
        /\ p = "register" => ToMark(w)' = Targets
    BY <1>2, MarksThen DEF ToEnd, ToRevive, At, Ending
  <1>6. MarksOn(w, f)
    <2>1. ASSUME evidence[u] = f, u \notin applied
          PROVE  ToMark(w)' = Targets
      <3>1. u \notin redactedEvents
        BY <2>1 DEF Plain, Spared
      <3>2. Body(w).adds = f /\ Body(w).kind \in {"turn", "assert", "update"}
        BY <1>1, <1>2, <2>1, NoFactAssumption DEF Spoken, EvidenceSpoken, Body
      <3>3. p \in {"end_register", "read_fact", "register"}
        BY <1>1, <1>4, <2>1, <3>1, <3>2 DEF AfterStatus, IsTurn
      <3> QED
        BY <1>5, <3>3
    <2> QED
      BY <1>1, <1>3, <2>1, MarksKept DEF MarksOn, Active
  <1>7. EndsOn(w, f)
    <2>1. ASSUME NEW m \in Msgs, m = u, invalidations[<<m, f>>].state = "pending",
                 content[m].kind # "update", m \notin applied
          PROVE  ToEnd(w)'
      <3>1. Body(w).ends = f /\ Body(w).kind \in {"turn", "correct"}
        BY <1>1, <2>1 DEF Spoken, EndingsSpoken, SpeaksOf, Body
      <3>2. u \notin redactedEvents
        BY <2>1 DEF Plain, Spared
      <3>3. p = "end_register"
        BY <1>1, <2>1, <3>1, <3>2, NoFactAssumption DEF AfterStatus, AfterDecision, IsTurn
      <3> QED
        BY <1>5, <3>3
    <2> QED
      BY <1>1, <1>3, <2>1 DEF EndsOn
  <1>8. RevivesOn(w, f)
    <2>1. ASSUME reactivations[u].fact = f, reactivations[u].state = "pending",
                 content[u].kind # "update"
          PROVE  ToRevive(w)'
      <3>1. Body(w).adds = f /\ IsTurn(w)
        BY <1>1, <1>2, <2>1 DEF Spoken, RevivalsSpoken, BackedInv, Sources, IsTurn, Body
      <3>2. u \notin redactedEvents
        BY <1>2, <2>1 DEF Plain, Spared, WorkersInv, LedgerInv, ReactivationRecorded
      <3> QED
        BY <1>4, <1>5, <3>1, <3>2
    <2> QED
      BY <1>1, <1>3, <2>1 DEF RevivesOn
  <1> QED
    BY <1>6, <1>7, <1>8

\* A handler keeps its message until the delivery is settled.
LEMMA WorkKeeps ==
    ASSUME WorkersInv, Spoken, NEW w \in Workers,
           EndSteps(w) \/ AssertSteps(w) \/ ForgetSteps(w) \/ Start(w) \/ Fail(w)
    PROVE  /\ ~At(w, "idle") /\ work'[w].msg = Msg(w) /\ (work[w].failed => work'[w].failed)
           /\ status' = status /\ applied' = applied
  <1> DEFINE Keeps == work'[w].msg = Msg(w) /\ (work[w].failed => work'[w].failed)
  <1>1. ASSUME Raise(w) \/ \E p : Goto(w, p)
        PROVE  Keeps
    BY <1>1, RaiseFields, GotoFields
  <1>2. CASE EndSteps(w)
    <2>1. ~At(w, "idle")
      BY <1>2, EndStepsGo
    <2>2. Keeps
      <3> HIDE DEF Keeps
      <3>1. CASE EndRegister(w)
        BY <1>1, <3>1, EndRegisterFields DEF Keeps
      <3>2. CASE EndFind(w)
        BY <1>1, <3>2, EndFindFields DEF Keeps
      <3>3. CASE EndArchive(w) \/ EndKg(w)
        BY <1>1, <3>3 DEF EndArchive, EndKg, Reject
      <3>4. CASE EndMark(w)
        BY <1>1, <3>4, EndMarkFields DEF Keeps
      <3> QED
        BY <1>2, <3>1, <3>2, <3>3, <3>4 DEF EndSteps
    <2>3. status' = status /\ applied' = applied
      BY <1>2
         DEF EndSteps, EndRegister, EndFind, EndArchive, EndKg, EndMark, localOnly, ledgerOnly,
                  storeOnly, queueVars
    <2> QED
      BY <2>1, <2>2, <2>3
  <1>3. CASE AssertSteps(w)
    <2>1. ~At(w, "idle")
      BY <1>3 DEF AssertSteps, ReadFact, Supersede, RegisterFact, ReactivateFact, CheckDrawer,
             ReopenDrawer, Look, Relook, PutDrawer, MarkDrawer, CheckKg, ReopenKg, PutKg, MarkKg,
             FinishReactivation, At
    <2>2. Keeps
      <3> HIDE DEF Keeps
      <3>1. CASE ReadFact(w) \/ Supersede(w)
        BY <3>1, ReadFactFields, SupersedeFields DEF Keeps
      <3>2. CASE RegisterFact(w) \/ ReactivateFact(w)
        <4>1. ASSUME NEW reg,
                     work' = [work EXCEPT ![w] = [@ EXCEPT !.reg = reg, !.pc = AfterRegister(w, reg)]]
              PROVE  Keeps
          BY <4>1, RegisteringFields DEF Keeps
        <4>2. PICK r, s : r = RegisterResult(Msg(w), Body(w).adds, Targets)
                          /\ s = RegisterReactivationResult(Msg(w), Body(w).adds, Targets)
          OBVIOUS
        <4>3. \/ Raise(w)
              \/ work' = [work EXCEPT ![w] = [@ EXCEPT !.reg = r, !.pc = AfterRegister(w, r)]]
              \/ work' = [work EXCEPT ![w] = [@ EXCEPT !.reg = s, !.pc = AfterRegister(w, s)]]
          BY <3>2, <4>2 DEF RegisterFact, ReactivateFact
        <4> QED
          BY <1>1, <4>1, <4>3
      <3>3. CASE Look(w) \/ Relook(w)
        BY <3>3, LookFields, RelookFields DEF Keeps
      <3>4. CASE \/ CheckDrawer(w) \/ ReopenDrawer(w) \/ PutDrawer(w) \/ MarkDrawer(w) \/ CheckKg(w)
                 \/ ReopenKg(w) \/ PutKg(w) \/ MarkKg(w) \/ FinishReactivation(w)
        BY <1>1, <3>4 DEF CheckDrawer, ReopenDrawer, PutDrawer, MarkDrawer, CheckKg, ReopenKg,
                          PutKg, MarkKg, FinishReactivation
      <3> QED
        BY <1>3, <3>1, <3>2, <3>3, <3>4 DEF AssertSteps
    <2>3. status' = status /\ applied' = applied
      BY <1>3 DEF AssertSteps, ReadFact, Supersede, RegisterFact, ReactivateFact, CheckDrawer,
             ReopenDrawer, Look, Relook, PutDrawer, MarkDrawer, CheckKg, ReopenKg, PutKg, MarkKg,
             FinishReactivation, localOnly, ledgerOnly, storeOnly, queueVars
    <2> QED
      BY <2>1, <2>2, <2>3
  <1>4. CASE ForgetSteps(w)
    <2>1. ~At(w, "idle")
      BY <1>4, ForgetFields DEF At, ForgetPcs, FactsPcs
    <2>2. status' = status /\ applied' = applied
      BY <1>4 DEF ForgetSteps, ForgetResolve, ForgetScan, ForgetBegin, ForgetRedact, ForgetScrub,
                  ForgetKg, ForgetKgMark, ForgetDrawers, ForgetDrawerMark, ForgetSource, localOnly,
                  ledgerOnly, storeOnly, queueVars
    <2> QED
      BY <1>4, <2>1, <2>2, ForgetFields
  <1>5. CASE Start(w)
    BY <1>1, <1>5, StartFields DEF Start, At, localOnly, ledgerOnly, queueVars
  <1>6. CASE Fail(w)
    BY <1>1, <1>6 DEF Fail, At, queueVars
  <1> QED
    BY <1>2, <1>3, <1>4, <1>5, <1>6

\* The steps of a handler keep a plain fact attended,
LEMMA AttendedWork ==
    ASSUME WorkersInv, WorkersInv', BackedInv, Spoken, OneWorker, NEW w \in Workers, Routed(w),
           InHand(w), InHand(w)', NEW f \in Facts, Plain(f), Plain(f)', Durable(f), Attended(f),
           \A m \in Msgs : evidence[m] = f => evidence'[m] = f,
           EndSteps(w) \/ AssertSteps(w) \/ ForgetSteps(w) \/ Start(w) \/ Fail(w)
    PROVE  Attended(f)'
  <1>1. Step(w) \/ Fail(w)
    BY DEF Step
  <1>2. MarksOn(w, f) /\ EndsOn(w, f) /\ RevivesOn(w, f)
    <2>1. CASE Fail(w)
      BY <2>1, RaiseFields, RaiseOn DEF Fail
    <2> QED
      BY <2>1, EndOn, AssertOn, ForgetOn, StartOn
  <1>3. Msg(w) \in Msgs /\ NoMsg \notin Msgs /\ content' = content
    BY <1>1, WorkKeeps, Holding, MessageIds, StepCalls
  <1>4. \A v \in Workers : v # w => Msg(v) = NoMsg /\ work'[v] = work[v]
    BY <1>1, StepsAlone, OthersHold
  <1> QED
    BY <1>2, <1>3, <1>4, WorkKeeps, AttendedOn

\* Deliveries.
LEMMA AttendedMoves ==
    ASSUME NEW f \in Facts, Attended(f), UNCHANGED ledgerVars, content' = content,
           \A m \in Msgs : \A t :
               m \notin applied /\ (Due(m) \/ \E v \in Workers : Msg(v) = m /\ t \in ToMark(v))
               /\ t \in Targets
               => m \notin applied' /\ (Due(m)' \/ \E v \in Workers : Msg(v)' = m /\ t \in ToMark(v)'),
           \A m \in Msgs :
               m \notin applied /\ (Due(m) \/ \E v \in Workers : Msg(v) = m /\ ToEnd(v))
               => m \notin applied' /\ (Due(m)' \/ \E v \in Workers : Msg(v)' = m /\ ToEnd(v)'),
           \A m \in Msgs :
               m \notin applied /\ (Due(m) \/ \E v \in Workers : Msg(v) = m /\ ToRevive(v))
               => m \notin applied' /\ (Due(m)' \/ \E v \in Workers : Msg(v)' = m /\ ToRevive(v)')
    PROVE  Attended(f)'
  <1>1. /\ asrt' = asrt /\ evidence' = evidence /\ invalidations' = invalidations
        /\ reactivations' = reactivations
    BY DEF ledgerVars
  <1>2. ASSUME Active(f)', NEW t \in Targets, asrt'[f].proj[t] = "pending"
        PROVE  \E m \in Msgs \ applied' :
                   evidence'[m] = f /\ (Due(m)' \/ \E v \in Workers : Msg(v)' = m /\ t \in ToMark(v)')
    <2>1. PICK m \in Msgs \ applied :
                evidence[m] = f /\ (Due(m) \/ \E v \in Workers : Msg(v) = m /\ t \in ToMark(v))
      BY <1>1, <1>2 DEF Attended, Active
    <2>2. m \notin applied' /\ (Due(m)' \/ \E v \in Workers : Msg(v)' = m /\ t \in ToMark(v)')
      BY <1>2, <2>1
    <2> QED
      BY <1>1, <2>1, <2>2
  <1>3. ASSUME NEW m \in Msgs, invalidations'[<<m, f>>].state = "pending", content[m].kind # "update"
        PROVE  m \notin applied' /\ (Due(m)' \/ \E v \in Workers : Msg(v)' = m /\ ToEnd(v)')
    BY <1>1, <1>3 DEF Attended
  <1>4. ASSUME NEW m \in Msgs, reactivations'[m].fact = f, reactivations'[m].state = "pending",
               content[m].kind # "update"
        PROVE  m \notin applied' /\ (Due(m)' \/ \E v \in Workers : Msg(v)' = m /\ ToRevive(v)')
    BY <1>1, <1>4 DEF Attended
  <1> QED
    BY <1>2, <1>3, <1>4 DEF Attended

\* and so do taking a message,
LEMMA AttendedTake ==
    ASSUME WorkersInv, BackedInv, OneWorker, NEW w \in Workers, NEW u \in Msgs, Take(w, u),
           NEW f \in Facts, Attended(f)
    PROVE  Attended(f)'
  <1>1. UNCHANGED ledgerVars /\ content' = content /\ applied' = applied
    BY DEF Take
  <1>2. Step(w)
    BY DEF Step
  <1>3. \A v \in Workers : Msg(v) = NoMsg /\ NoMsg \notin Msgs
    BY <1>2, StepsAlone, MessageIds DEF Take, At, Msg, WorkersInv, Working, Fits
  <1>4. Msg(w)' = u /\ work'[w].pc = "start"
    BY TakeFields DEF Msg
  <1>5. ToMark(w)' = Targets /\ ToEnd(w)' /\ ToRevive(w)'
    BY <1>4, MarksThen DEF ToEnd, ToRevive, At
  <1>6. \A m \in Msgs : Due(m) => m = u \/ Due(m)'
    <2>1. \A m \in Msgs : m # u => status'[m] = status[m]
      BY DEF Take, WorkersInv, QueuesOK
    <2> QED
      BY <1>3, <2>1 DEF Due
  <1> QED
    BY <1>1, <1>3, <1>4, <1>5, <1>6, AttendedMoves

\* settling it, when the handler owes nothing or a step of it raised,
LEMMA AttendedSettled ==
    ASSUME WorkersInv, BackedInv, OneWorker, NEW w \in Workers, Routed(w),
           Settle(w) \/ Ack(w) \/ RejectAck(w), NEW f \in Facts, Attended(f)
    PROVE  Attended(f)'
  <1>1. /\ UNCHANGED ledgerVars /\ content' = content
        /\ work[w].pc \in {"settle", "ack", "reject"} /\ (work[w].failed => At(w, "settle") /\ Settle(w))
    BY DEF Settle, Ack, RejectAck, Finish, Routed, At
  <1>2. Step(w)
    BY DEF Step
  <1>3. \A v \in Workers : v # w => Msg(v) = NoMsg
    BY <1>2, StepsAlone
  <1>4. ToMark(w) = {} /\ ~ToEnd(w) /\ ~ToRevive(w)
    BY <1>1, Marks DEF ToEnd, ToRevive, At, Ending, Registered, PastRegister
  <1>5. Msg(w) \in Msgs /\ status[Msg(w)] = "held" /\ NoMsg \notin Msgs
    BY <1>1, Holding, MessageIds DEF At, WorkersInv, Working
  <1>6. /\ \A m \in Msgs : m # Msg(w) => status'[m] = status[m] /\ (m \in applied' => m \in applied)
        /\ work[w].failed => /\ applied' = applied /\ Msg(w) \notin applied
                             /\ status'[Msg(w)] \in {"queued", "dead"}
    BY <1>1, <1>5 DEF Settle, Ack, RejectAck, Finish, Routed, At, WorkersInv, QueuesOK
  <1>7. \A m \in Msgs : m \notin applied /\ Due(m) => m \notin applied' /\ Due(m)'
    <2>1. ASSUME NEW m \in Msgs, m \notin applied, Due(m)
          PROVE  m \notin applied' /\ Due(m)'
      <3>1. CASE m # Msg(w)
        <4>1. status[m] \in {"queued", "dead"}
          BY <1>3, <1>5, <2>1, <3>1 DEF Due
        <4> QED
          BY <1>6, <2>1, <3>1, <4>1 DEF Due
      <3>2. CASE m = Msg(w)
        <4>1. work[w].failed
          BY <1>3, <1>5, <2>1, <3>2 DEF Due
        <4> QED
          BY <1>6, <3>2, <4>1 DEF Due
      <3> QED
        BY <3>1, <3>2
    <2> QED
      BY <2>1
  <1>8. \A m \in Msgs : \A v \in Workers : Msg(v) = m => v = w
    BY <1>3, <1>5
  <1> QED
    BY <1>1, <1>4, <1>7, <1>8, AttendedMoves

\* and publishing and crashing.
LEMMA AttendedQueues ==
    ASSUME WorkersInv, (\E u \in Msgs : Publish(u)) \/ Crash, NEW f \in Facts, Attended(f)
    PROVE  Attended(f)'
  <1>1. UNCHANGED ledgerVars /\ content' = content /\ applied' = applied
    BY DEF Publish, Crash
  <1>2. CASE \E u \in Msgs : Publish(u)
    <2>1. work' = work /\ \A m \in Msgs : status'[m] = status[m] \/ status'[m] = "queued"
      BY <1>2 DEF Publish, WorkersInv, QueuesOK
    <2>2. \A m \in Msgs : Due(m) => Due(m)'
      BY <2>1 DEF Due, Msg
    <2>3. \A v : /\ Msg(v)' = Msg(v) /\ ToMark(v)' = ToMark(v)
                 /\ (ToEnd(v)' <=> ToEnd(v)) /\ (ToRevive(v)' <=> ToRevive(v))
      BY <2>1 DEF Msg, ToMark, ToEnd, ToRevive, At
    <2> QED
      BY <1>1, <2>2, <2>3, AttendedMoves
  <1>3. CASE Crash
    <2>1. \A m \in Msgs : status'[m] = IF status[m] = "held" THEN "queued" ELSE status[m]
      BY <1>3 DEF Crash
    <2>2. \A m \in Msgs : Due(m) \/ (\E v \in Workers : Msg(v) = m) => Due(m)'
      <3>1. \A m \in Msgs : \A v \in Workers : Msg(v) = m => status[m] = "held"
        BY MessageIds DEF WorkersInv, Working
      <3> QED
        BY <2>1, <3>1 DEF Due
    <2> QED
      BY <1>1, <2>2, AttendedMoves
  <1> QED
    BY <1>2, <1>3

----------------------------------------------------------------------------
(* Every step keeps it, and it makes Converged.                             *)

\* Initially there is nothing to hold of.
LEMMA PlainInit == Init => PlainInv
  <1> SUFFICES ASSUME Init
               PROVE  PlainInv
    OBVIOUS
  <1>1. /\ LedgerInit /\ drawers = {} /\ archived = {} /\ kgrows = {} /\ closed = {}
        /\ work = [w \in Workers |-> Idle]
    BY DEF Init
  <1>2. /\ \A f \in Facts : asrt[f].activation_count = 1 /\ asrt[f].state = "absent"
        /\ \A m \in Msgs : reactivations[m].state = "none" /\ reactivations[m].fact = NoFact
        /\ \A i \in Corrections : invalidations[i].state = "none"
    BY <1>1, MessageIds
       DEF LedgerInit, NoAssertion, NoReactivation, NoInvalidation
  <1>3. \A w \in Workers : InHand(w)
    BY <1>1, IdleFields DEF InHand, Inactive, Ending, Registered, PastRegister, At
  <1>4. ASSUME NEW f \in Facts
        PROVE  Durable(f) /\ Attended(f)
    <2>1. \A m \in Msgs : invalidations[<<m, f>>].state = "none" /\ reactivations[m].fact # f
      BY <1>2, <1>4, MessageIds, NoFactAssumption
    <2>2. ~Ended(f) /\ ~Active(f) /\ Count(f) = 1 /\ EndedBy(f) = {}
      BY <1>2, <2>1 DEF Ended, Active, Count, EndedState, EndedBy
    <2>3. Lives(f) = 0 /\ Cardinality(EndedBy(f)) = 0
      BY <2>2, FS_EmptySet DEF Lives
    <2>4. Attended(f)
      BY <2>1, <2>2 DEF Attended
    <2> QED
      BY <1>1, <1>2, <2>1, <2>2, <2>3, <2>4
         DEF Durable, RevivalsApply, OfItsLives, EndingsCount, PastHidden
  <1> QED
    BY <1>3, <1>4 DEF PlainInv

\* A redacted event stays redacted.
LEMMA RedactedGrow ==
    ASSUME NEW w, Step(w) \/ Fail(w)
    PROVE  redactedEvents \subseteq redactedEvents'
  <1>1. CASE (\E m \in Msgs : Take(w, m)) \/ Start(w) \/ Settle(w) \/ Ack(w) \/ RejectAck(w) \/ Fail(w)
    BY <1>1 DEF Take, Start, Settle, Ack, RejectAck, Finish, Fail, localOnly, ledgerOnly
  <1>2. CASE EndSteps(w)
    BY <1>2 DEF EndSteps, EndRegister, EndFind, EndArchive, EndKg, EndMark, localOnly, ledgerOnly,
                storeOnly
  <1>3. CASE AssertSteps(w)
    BY <1>3 DEF AssertSteps, ReadFact, Supersede, RegisterFact, ReactivateFact, CheckDrawer,
                ReopenDrawer, Look, Relook, PutDrawer, MarkDrawer, CheckKg, ReopenKg, PutKg, MarkKg,
                FinishReactivation, localOnly, ledgerOnly, storeOnly
  <1>4. CASE ForgetSteps(w)
    BY <1>4 DEF ForgetSteps, ForgetResolve, ForgetScan, ForgetBegin, ForgetRedact, ForgetScrub,
                ForgetKg, ForgetKgMark, ForgetDrawers, ForgetDrawerMark, ForgetSource, localOnly,
                ledgerOnly, storeOnly
  <1> QED
    BY <1>1, <1>2, <1>3, <1>4 DEF Step

\* A step of a worker keeps what is known of plain facts.
LEMMA PlainStep ==
    ASSUME WorkersInv, WorkersInv', BackedInv, SpokenInv, [LedgerNext]_ledgerVars, OneWorker,
           PlainInv, NEW w \in Workers, Step(w) \/ Fail(w)
    PROVE  PlainInv'
  <1>1. /\ Spoken /\ \A v \in Workers : Routed(v)
        /\ \A v \in Workers : InHand(v)
        /\ \A g \in Facts : Plain(g) => Durable(g) /\ Attended(g)
    BY DEF SpokenInv, PlainInv
  <1>2. Known /\ Grows /\ redactedEvents \subseteq redactedEvents'
    BY OthersHold, RedactedGrow DEF BackedInv, Lasting
  <1>3. ASSUME NEW f \in Facts, Plain(f)'
        PROVE  Plain(f) /\ Untouched(f) /\ \A m \in Msgs : evidence[m] = f => evidence'[m] = f
    BY <1>1, <1>2, <1>3, PlainBefore
  <1>4. InHand(w)'
    BY <1>1, <1>3, InHandStep
  <1>5. ASSUME NEW v \in Workers
        PROVE  InHand(v)'
    <2>1. CASE v = w
      BY <1>4, <2>1
    <2>2. CASE v # w
      <3>1. work'[v].pc = "idle"
        BY <2>2, OthersHold, StepsAlone DEF At
      <3> QED
        BY <3>1, InHandIdle
    <2> QED
      BY <2>1, <2>2
  <1>6. ASSUME NEW f \in Facts, Plain(f)'
        PROVE  Durable(f)' /\ Attended(f)'
    <2>1. /\ Plain(f) /\ Untouched(f) /\ Durable(f) /\ Attended(f)
          /\ \A m \in Msgs : evidence[m] = f => evidence'[m] = f
      BY <1>1, <1>3, <1>6
    <2>2. Durable(f)'
      BY <1>1, <1>6, <2>1, DurableStep
    <2>3. CASE EndSteps(w) \/ AssertSteps(w) \/ ForgetSteps(w) \/ Start(w) \/ Fail(w)
      BY <1>1, <1>4, <1>6, <2>1, <2>2, <2>3, AttendedWork
    <2>4. CASE \E m \in Msgs : Take(w, m)
      BY <1>6, <2>1, <2>2, <2>4, AttendedTake
    <2>5. CASE Settle(w) \/ Ack(w) \/ RejectAck(w)
      BY <1>1, <1>6, <2>1, <2>2, <2>5, AttendedSettled
    <2> QED
      BY <2>2, <2>3, <2>4, <2>5 DEF Step
  <1> QED
    BY <1>5, <1>6 DEF PlainInv

\* What was published, and a crash, leave the tables and the stores alone.
LEMMA PlainQueues ==
    ASSUME WorkersInv, BackedInv, SpokenInv, OneWorker, PlainInv,
           (\E u \in Msgs : Publish(u)) \/ Crash \/ UNCHANGED vars
    PROVE  PlainInv'
  <1>1. /\ UNCHANGED ledgerVars /\ UNCHANGED storeVars /\ content' = content
        /\ redactedEvents' = redactedEvents
    BY DEF Publish, Crash, vars
  <1>2. /\ asrt' = asrt /\ forgets' = forgets /\ evidence' = evidence
        /\ invalidations' = invalidations /\ reactivations' = reactivations
    BY <1>1 DEF ledgerVars
  <1>3. ASSUME NEW f \in Facts, Plain(f)'
        PROVE  Plain(f)
    BY <1>1, <1>2, <1>3 DEF Plain, Spared, RevivedApart
  <1>4. ASSUME NEW f \in Facts, Plain(f)'
        PROVE  Durable(f)' /\ Attended(f)'
    <2>1. Durable(f) /\ Attended(f)
      BY <1>3, <1>4 DEF PlainInv
    <2>2. Durable(f)'
      <3>1. LivesStay(f) /\ EndingsStay(f) /\ RevivalsStay(f)
        BY <1>2, <1>4, <2>1, SameLedger
      <3>2. StoresStay(f)
        BY <1>1 DEF StoresStay, storeVars
      <3> QED
        BY <1>4, <2>1, <3>1, <3>2, DurableStays
    <2>3. Attended(f)'
      <3>1. CASE UNCHANGED vars
        <4>1. \A m \in Msgs : Due(m)' <=> Due(m)
          BY <3>1 DEF Due, vars, queueVars, Msg
        <4>2. \A v \in Workers : /\ Msg(v)' = Msg(v) /\ ToMark(v)' = ToMark(v)
                                 /\ ToEnd(v)' = ToEnd(v) /\ ToRevive(v)' = ToRevive(v)
          BY <3>1 DEF vars, Msg, ToMark, ToEnd, ToRevive, At
        <4> QED
          BY <1>1, <1>4, <2>1, <3>1, <4>1, <4>2, AttendedMoves DEF vars, queueVars
      <3> QED
        BY <1>4, <2>1, <3>1, AttendedQueues
    <2> QED
      BY <2>2, <2>3
  <1>5. ASSUME NEW v \in Workers
        PROVE  InHand(v)'
    <2>1. CASE Crash
      BY <2>1, IdleFields, InHandIdle DEF Crash
    <2>2. CASE (\E u \in Msgs : Publish(u)) \/ UNCHANGED vars
      <3>1. work' = work /\ InHand(v)
        BY <2>2 DEF Publish, PlainInv, vars
      <3>2. drawers' = drawers /\ archived' = archived /\ kgrows' = kgrows /\ closed' = closed
        BY <1>1 DEF storeVars
      <3>3. \A f : Plain(f)' <=> Plain(f)
        BY <1>1, <1>2 DEF Plain, Spared, RevivedApart
      <3>4. Ends(v) => Ends(v)'
        BY <1>1, <1>2, <3>1, <3>2, <3>3
           DEF Ends, At, Body, Msg, EndFact, Count, ProjectionDrawers, OneDrawer, DrawersOf, OpenRows,
               Plain, Spared, RevivedApart, Exists
      <3>5. Registers(v) => Registers(v)'
        BY <1>1, <1>2, <3>1, <3>2, <3>3
           DEF Registers, At, Body, Msg, IsTurn, Count, Active, Ended, Plain, Spared, RevivedApart
      <3>6. PICK f : f = Body(v).adds
        OBVIOUS
      <3>7. f = Body(v)'.adds /\ (Inactive(v)' => Inactive(v))
        BY <1>1, <3>1, <3>6 DEF Inactive, At, Body, Msg
      <3>8. Inactive(v)' /\ f \in Facts /\ Plain(f)' => asrt'[f].state # "active"
        BY <1>2, <3>1, <3>3, <3>6, <3>7 DEF InHand, Active
      <3> QED
        BY <3>1, <3>4, <3>5, <3>7, <3>8, InHandThen DEF InHand
    <2> QED
      BY <2>1, <2>2
  <1> QED
    BY <1>4, <1>5 DEF PlainInv

\* Every step keeps PlainInv.
LEMMA PlainNext == WorkersInv /\ BackedInv /\ SpokenInv /\ PlainInv /\ [Next]_vars => PlainInv'
  <1> SUFFICES ASSUME WorkersInv, BackedInv, SpokenInv, PlainInv, [Next]_vars, OneWorker'
               PROVE  PlainInv'
    BY DEF PlainInv
  <1>1. WorkersInv' /\ [LedgerNext]_ledgerVars
    BY WorkersNext
  <1>2. content' = content
    BY OthersHold DEF Next, Publish, Crash, IdlePoll, vars
  <1>3. OneWorker
    BY <1>2 DEF OneWorker
  <1>4. ASSUME NEW w \in Workers, Step(w) \/ Fail(w)
        PROVE  PlainInv'
    BY <1>1, <1>3, <1>4, PlainStep
  <1> QED
    BY <1>3, <1>4, PlainQueues DEF Next, IdlePoll

\* Nothing of f is outstanding.
Repaired(f) ==
    /\ Active(f) => \A t \in Targets : asrt[f].proj[t] # "pending"
    /\ ~BeingEnded(f) /\ ~Reviving(f)

\* Once the status surface reports nothing of a plain fact, or every message
\* has been handled, nothing of it is outstanding.
LEMMA NothingOutstanding ==
    ASSUME WorkersInv, NEW f \in Facts, Attended(f), ~Owed(f) \/ Handled(f)
    PROVE  Repaired(f)
  <1>1. \A m \in Msgs : <<m, f>> \in DOMAIN invalidations /\ m \in DOMAIN reactivations
    BY MessageIds DEF WorkersInv, LedgerInv, LedgerTypeOK
  <1>2. /\ \A i \in DOMAIN invalidations : invalidations[i].state = "pending" => i \in Outstanding.endings
        /\ \A i \in DOMAIN reactivations : reactivations[i].state = "pending" => i \in Outstanding.revivals
        /\ Active(f) => \A t \in Targets : asrt[f].proj[t] = "pending" => f \in Outstanding.projections
    BY DEF Outstanding, Active
  <1>3. CASE ~Owed(f)
    BY <1>1, <1>2, <1>3 DEF Owed, Repaired, BeingEnded, Reviving
  <1>4. CASE Handled(f)
    <2>1. \A m \in Msgs : status[m] \in {"acked", "rejected", "unsent"}
      BY <1>4 DEF Handled
    <2>2. \A w \in Workers : Msg(w) \notin Msgs
      BY <2>1, MessageIds DEF WorkersInv, Working
    <2>3. \A m \in Msgs : ~Due(m)
      BY <2>1, <2>2 DEF Due
    <2>4. Active(f) => \A t \in Targets : asrt[f].proj[t] # "pending"
      BY <2>2, <2>3 DEF Attended
    <2>5. ASSUME NEW m \in Msgs, invalidations[<<m, f>>].state = "pending"
          PROVE  FALSE
      <3>1. content[m].kind # "update"
        BY <1>1, <1>2, <1>4, <2>5 DEF Handled
      <3> QED
        BY <2>2, <2>3, <2>5, <3>1 DEF Attended
    <2>6. ASSUME NEW m \in Msgs, reactivations[m].fact = f, reactivations[m].state = "pending"
          PROVE  FALSE
      <3>1. content[m].kind # "update"
        BY <1>1, <1>2, <1>4, <2>6 DEF Handled
      <3> QED
        BY <2>2, <2>3, <2>6, <3>1 DEF Attended
    <2> QED
      BY <2>4, <2>5, <2>6 DEF Repaired, BeingEnded, Reviving
  <1> QED
    BY <1>3, <1>4

\* A plain fact that is current, with nothing outstanding and ended no more
\* often than it came back, is recalled from both stores.
LEMMA CurrentVisible ==
    ASSUME WorkersInv, BackedInv, NEW f \in Facts, ~forgets[f].present, Durable(f), Repaired(f),
           Active(f), Cardinality(EndedBy(f)) < Count(f)
    PROVE  DrawersOf({f}) \ archived # {} /\ OpenRows({f}) # {}
  <1>1. asrt[f] \in AssertionRow /\ Targets = {"drawer", "kg"} /\ Count(f) \in Nat \ {0}
    BY MessageIds DEF WorkersInv, LedgerInv, LedgerTypeOK, AssertionRow, Count
  <1>2. asrt[f].proj["drawer"] = "projected" /\ asrt[f].proj["kg"] = "projected"
    BY <1>1 DEF Repaired, Durable, AssertionRow, ProjectionState
  <1>3. ~Ended(f) /\ ~Past(f, Count(f)) /\ Lives(f) = Count(f) - 1
    BY <1>1 DEF Active, Ended, EndedState, Past, Lives
  <1>4. PICK d \in drawers : d.fact = f /\ d.activation = Count(f)
    BY <1>2, BackedIsActiveBacked DEF ActiveBacked, Active, Count, ProjectionDrawers
  <1>5. d \notin archived
    BY <1>3, <1>4 DEF Durable, PastHidden, Repaired
  <1>6. \E r \in kgrows : r.fact = f /\ r.activation = Count(f)
    <2>1. CASE Count(f) = 1
      <3>1. PICK r \in kgrows : r.fact = f
        BY <1>2, BackedIsActiveBacked DEF ActiveBacked, Active
      <3>2. r.activation \in Nat /\ r.activation >= 1 /\ r.activation <= Count(f)
        BY <1>3, <3>1 DEF Durable, OfItsLives, WorkersInv, StoresOK, KgRow
      <3> QED
        BY <2>1, <3>1, <3>2
    <2>2. CASE Count(f) > 1
      <3>1. ~forgets[f].hard
        BY DEF BackedInv, Known
      <3>2. PICK i \in Msgs : /\ reactivations[i].fact = f /\ reactivations[i].state = "applied"
                              /\ reactivations[i].activation_number = Count(f)
        BY <2>2, <3>1, MessageIds DEF WorkersInv, LedgerInv, ActivationAccounted, Count
      <3> QED
        BY <3>2 DEF Durable, RevivalsApply
    <2> QED
      BY <1>1, <2>1, <2>2
  <1>7. PICK r \in kgrows : r.fact = f /\ r.activation = Count(f)
    BY <1>6
  <1>8. r \notin closed
    <2>1. Cardinality(EndedBy(f)) \in Nat
      BY FS_Subset, FS_CardinalityType, IntentsFinite, MessageIds DEF EndedBy
    <2>2. ~(Cardinality(EndedBy(f)) > Lives(f))
      BY <1>1, <1>3, <2>1
    <2> QED
      BY <1>3, <1>7, <2>2 DEF Durable, EndingsCount, Repaired
  <1> QED
    BY <1>4, <1>5, <1>7, <1>8 DEF DrawersOf, OpenRows

\* A plain fact that is not current, with nothing outstanding and no two
\* drawers of one life, cannot be recalled.
LEMMA EndedHidden ==
    ASSUME WorkersInv, NEW f \in Facts, Durable(f), Repaired(f), ~Active(f), OneDrawer(f)
    PROVE  ~Visible(f)
  <1>1. asrt[f] \in AssertionRow /\ Count(f) \in Nat
    BY DEF WorkersInv, LedgerInv, LedgerTypeOK, AssertionRow, Count
  <1>2. Exists(f) => Ended(f)
    BY <1>1 DEF AssertionRow, Durable, Active, Exists, Ended
  <1>3. ASSUME NEW x \in drawers \cup kgrows, x.fact = f
        PROVE  Past(f, x.activation)
    <2>1. x.activation \in Nat
      BY DEF WorkersInv, StoresOK, Drawer, KgRow
    <2>2. Ended(f) /\ x.activation <= Count(f)
      BY <1>2, <1>3 DEF Durable, OfItsLives, Repaired
    <2> QED
      BY <1>1, <2>1, <2>2 DEF Past
  <1>4. \A d \in drawers : d.fact = f => d \in archived
    BY <1>3 DEF Durable, PastHidden
  <1>5. \A r \in kgrows : r.fact = f => r \in closed
    BY <1>3 DEF Durable, PastHidden
  <1> QED
    BY <1>4, <1>5 DEF Visible, DrawersOf, OpenRows

\* What is durable and attended makes Converged.
LEMMA PlainConverged == WorkersInv /\ BackedInv /\ PlainInv => Converged
  <1> SUFFICES ASSUME WorkersInv, BackedInv, PlainInv, OneWorker, NEW f \in Facts,
                      Spared(f), RevivedApart(f), ~Owed(f) \/ Handled(f)
               PROVE  IF asrt[f].state = "active"
                      THEN Cardinality(EndedBy(f)) < asrt[f].activation_count
                           => DrawersOf({f}) \ archived # {} /\ OpenRows({f}) # {}
                      ELSE OneDrawer(f) => ~Visible(f)
    BY DEF Converged
  <1>1. Durable(f) /\ Attended(f) /\ ~forgets[f].present
    BY DEF PlainInv, Plain, Spared
  <1>2. Repaired(f)
    BY <1>1, NothingOutstanding
  <1> QED
    BY <1>1, <1>2, CurrentVisible, EndedHidden DEF Active, Count

\* Redelivery repairs every half-done write, and the status surface knows when:
\* on one worker, when nothing of a plain fact is reported as outstanding or
\* every message has been handled, exactly the active facts are recalled, the
\* active ones from both stores; for any messages, facts, slots, crashes and
\* failures.
THEOREM FactWorkersConverged == Spec => []Converged
  <1>1. Init => BackedInv /\ SpokenInv /\ PlainInv
    BY BackedInit, SpokenInit, PlainInit
  <1>2. /\ WorkersInv /\ BackedInv /\ SpokenInv /\ PlainInv /\ [Next]_vars
        => BackedInv' /\ SpokenInv' /\ PlainInv'
    BY BackedNext, SpokenNext, PlainNext
  <1> QED
    BY <1>1, <1>2, PlainConverged, FactWorkersInvariant, PTL DEF Spec

=============================================================================
