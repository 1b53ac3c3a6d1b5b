--------------------------- MODULE ForgetDialogue ---------------------------
(***************************************************************************)
(* Forgetting in two moves: a preview resolves the words of a person to    *)
(* exact memories and signs the set (application/forget.py,                *)
(* privacy_confirmation.py), a confirmation publishes one command for      *)
(* exactly that set, and the command worker carries it out.  The surfaces  *)
(* are the owner's routes (entrypoints/owner_memory_http.py), the agent's  *)
(* tools and service (mcp_server.py, memory_service.py) and the operator's *)
(* erasure of one source event, which has no preview.                      *)
(*                                                                         *)
(* The scan reads the palace a page at a time while turns go on writing    *)
(* to it; a restart forgets the signing key and everything in flight.      *)
(* What the worker does inside one ledger is FactWorkers and               *)
(* CommitmentWorkers; here each aggregate is one or two steps, and what    *)
(* matters is which set is acted on and what the person is told.           *)
(***************************************************************************)
EXTENDS Naturals, Sequences, FiniteSets, SequencesExt

CONSTANTS
    Drawers,       \* drawer ids
    Of,            \* the assertion or commitment a drawer projects, or Nothing
    Assertions, Commitments, Sources, Nothing,
    Origin,        \* the source event each assertion and commitment came from
    Matching,      \* the drawers and commitments whose text the topic matches
    Stored,        \* the rows of the palace at first, in listing order
    Promised,      \* the commitments of the ledger, in listing order
    Dialogues,     \* previews: each is a topic or one exact drawer id
    Clicks,        \* confirmations, and erasures of a source event
    Plan,          \* what each dialogue and click is
    Spaces,
    PageSize, MaxScan, MaxCandidates, MaxDeliveries,
    Scenarios      \* who is active, and how many faults there are (model only)

ASSUME FormAssumption ==
    /\ Of \in [Drawers -> Assertions \cup Commitments \cup {Nothing}]
    /\ Drawers \cap Commitments = {} /\ Assertions \cap Commitments = {}
    /\ Nothing \notin Assertions \cup Commitments
    /\ Origin \in [Assertions \cup Commitments -> Sources]
    /\ Matching \subseteq Drawers \cup Commitments
    /\ Stored \in Seq(Drawers) /\ Promised \in Seq(Commitments)
ASSUME LimitAssumption ==
    {PageSize, MaxScan, MaxCandidates, MaxDeliveries} \subseteq Nat \ {0}
ASSUME PlanAssumption ==
    /\ Clicks \cap Dialogues = {}
    /\ \A d \in Dialogues :
           Plan[d] \in [surface : {"owner", "tool", "service"}, target : Drawers \cup {"topic"},
                       action : {"archive", "delete"}, space : Spaces]
    /\ \A k \in Clicks :
           Plan[k] \in [surface : {"owner", "tool", "service"}, on : Dialogues, space : Spaces]
                       \cup [surface : {"source"}, on : Sources, space : Spaces]
\* Who is active, the drawers that turns will write, and the faults; "calm":
\* no call raises and nothing restarts.
ASSUME ScenarioAssumption ==
    \A s \in Scenarios :
        /\ s \in [active : SUBSET (Dialogues \cup Clicks), coming : SUBSET (Drawers \ ToSet(Stored)),
                  faults : Nat, crashes : Nat, expiries : Nat, replays : Nat, calm : BOOLEAN,
                  reads : {s.reads}]
        /\ s.calm => s.faults = 0 /\ s.crashes = 0

VARIABLES
    rows,      \* the drawers of the space, in the order get_all lists them
    hidden,    \* the drawers archived as do_not_recall
    tomb,      \* the assertions the canonical ledger has forgotten
    promise,   \* the privacy action on each commitment
    redacted,  \* the source events tombstoned in the decision ledger
    preview,   \* each dialogue: where its scan is and what it has found
    token,     \* the signed confirmation each dialogue was given
    secret,    \* the process's signing key, by generation
    click,     \* each confirmation: where it is and what the caller was told
    status,    \* the command-status ledger
    stream,    \* copies of commands in the stream
    worker,    \* the command worker
    dead,      \* dead-lettered commands
    left       \* the faults, crashes, expiries and replays still to come

memoryVars == <<rows, hidden, tomb, promise, redacted>>
dialogueVars == <<preview, token, secret>>
vars == <<memoryVars, dialogueVars, click, status, stream, worker, dead, left>>

NoToken == [key |-> 0, found |-> {}, action |-> "none", space |-> Nothing, expired |-> FALSE]
Fresh == [pc |-> "new", list |-> "rows", offset |-> 0, found |-> {}, there |-> {}, moved |-> FALSE]
NewClick == [pc |-> "new", told |-> "nothing"]
IdleWorker == [pc |-> "idle", copy |-> 0, facts |-> {}, drawers |-> {}]
Ids == Dialogues \cup Clicks
Terminal == {"applied", "failed"}

\* A listing in its order without what is gone: SelectSeq with a set for its
\* test, written as a function for the proofs.
Without(listing, gone) ==
    LET kept[i \in 0 .. Len(listing)] ==
            IF i = 0 THEN <<>>
            ELSE IF listing[i] \in gone THEN kept[i - 1]
            ELSE Append(kept[i - 1], listing[i])
    IN  kept[Len(listing)]

\* The two listings a scan pages through: get_all of the palace, and
\* list_for_privacy, which leaves out the commitments that were deleted.
Listing(list) ==
    IF list = "rows" THEN rows ELSE Without(Promised, {c \in Commitments : promise[c] = "delete"})

\* _forgettable and the commitment check: only a row with an assertion behind
\* it can be confirmed away; a commitment is offered from its own ledger.
Candidates(seen) == {x \in seen \cap Matching : x \in Commitments \/ Of[x] \in Assertions}

Present == ToSet(rows) \cup {c \in ToSet(Promised) : promise[c] # "delete"}

Init ==
    /\ rows = Stored /\ hidden = {} /\ tomb = {} /\ redacted = {}
    /\ promise = [c \in Commitments |-> "none"]
    /\ preview = [d \in Dialogues |-> Fresh]
    /\ token = [d \in Dialogues |-> NoToken]
    /\ secret = 1
    /\ click = [k \in Clicks |-> NewClick]
    /\ status = [i \in Ids |-> "none"]
    /\ stream = <<>> /\ dead = {}
    /\ worker = IdleWorker
    /\ left \in Scenarios

Uses(what) == left[what] > 0 /\ left' = [left EXCEPT ![what] = @ - 1]

----------------------------------------------------------------------------
(* The preview.                                                             *)

SetPreview(d, p) == preview' = [preview EXCEPT ![d] = p]

\* PrivacyConfirmationSigner.issue: the token binds the realm, the action and
\* the exact ids to this process's key.
Issue(d, found) ==
    token' = [token EXCEPT ![d] =
        [key |-> secret, found |-> found, action |-> Plan[d].action, space |-> Plan[d].space,
         expired |-> FALSE]]

\* What a finished resolution answers: a preview with its token, or not_found.
Resolved(d, p) ==
    IF p.found = {} THEN SetPreview(d, [p EXCEPT !.pc = "not_found"]) /\ UNCHANGED token
    ELSE SetPreview(d, [p EXCEPT !.pc = "shown"]) /\ Issue(d, p.found)

\* A scan that met a cap: the contract of the service has no word for it.
Refused(d, p) ==
    /\ SetPreview(d, [p EXCEPT !.pc = IF Plan[d].surface = "service" THEN "failed" ELSE "too_broad"])
    /\ UNCHANGED token

previewOnly == <<memoryVars, secret, click, status, stream, worker, dead>>

\* A stable drawer id is unambiguous: no scan.
PreviewExact(d) ==
    /\ d \in left.active /\ preview[d].pc = "new" /\ Plan[d].target \in Drawers
    /\ LET x == Plan[d].target
       IN  Resolved(d, [Fresh EXCEPT
               !.found = IF x \in ToSet(rows) /\ Of[x] \in Assertions THEN {x} ELSE {}])
    /\ UNCHANGED <<previewOnly, left>>

PreviewTopic(d) ==
    /\ d \in left.active /\ preview[d].pc = "new" /\ Plan[d].target = "topic"
    /\ SetPreview(d, [Fresh EXCEPT !.pc = "scan", !.there = Candidates(Present)])
    /\ UNCHANGED <<previewOnly, token, left>>

\* The listing is exhausted: on to the commitments, or to the answer.
NextListing(d, p) ==
    IF p.list = "rows"
    THEN /\ SetPreview(d, [p EXCEPT !.pc = "scan", !.list = "promises", !.offset = 0])
         /\ UNCHANGED token
    ELSE Resolved(d, p)

Lesser(m, n) == IF m < n THEN m ELSE n
Page(list, offset, limit) == SubSeq(list, offset + 1, Lesser(offset + limit, Len(list)))

\* Mutant: the scan stops when it has as many as it may show.
ScanPageTruncates(d) ==
    /\ preview[d].pc = "scan"
    /\ LET p == preview[d]
           request == Lesser(PageSize, MaxScan - p.offset)
           page == Page(Listing(p.list), p.offset, request)
           got == [p EXCEPT !.offset = @ + Len(page), !.found = @ \cup Candidates(ToSet(page))]
       IN  IF Cardinality(got.found) > MaxCandidates THEN Resolved(d, p)
           ELSE IF Len(page) < request THEN NextListing(d, got)
           ELSE IF got.offset >= MaxScan
                THEN SetPreview(d, [got EXCEPT !.pc = "overflow"]) /\ UNCHANGED token
           ELSE SetPreview(d, got) /\ UNCHANGED token
    /\ UNCHANGED <<previewOnly, left>>

\* One page of find_forget_candidates; too many matches refuse the preview.
ScanPage(d) ==
    /\ preview[d].pc = "scan"
    /\ LET p == preview[d]
           request == Lesser(PageSize, MaxScan - p.offset)
           page == Page(Listing(p.list), p.offset, request)
           got == [p EXCEPT !.offset = @ + Len(page), !.found = @ \cup Candidates(ToSet(page))]
       IN  IF Cardinality(got.found) > MaxCandidates
           THEN Refused(d, got)
           ELSE IF Len(page) < request THEN NextListing(d, got)
           ELSE IF got.offset >= MaxScan
                THEN SetPreview(d, [got EXCEPT !.pc = "overflow"]) /\ UNCHANGED token
           ELSE SetPreview(d, got) /\ UNCHANGED token
    /\ UNCHANGED <<previewOnly, left>>

\* The scan has read max_scan rows: one more would make the answer partial.
Overflow(d) ==
    /\ preview[d].pc = "overflow"
    /\ IF Len(Listing(preview[d].list)) > preview[d].offset
       THEN Refused(d, preview[d])
       ELSE NextListing(d, preview[d])
    /\ UNCHANGED <<previewOnly, left>>

Expire(d) ==
    /\ token[d] # NoToken /\ ~token[d].expired
    /\ Uses("expiries")
    /\ token' = [token EXCEPT ![d].expired = TRUE]
    /\ UNCHANGED <<previewOnly, preview>>

----------------------------------------------------------------------------
(* The confirmation.                                                        *)

\* PrivacyConfirmationSigner.verify
Verified(k) ==
    LET t == token[Plan[k].on]
    IN  t.key = secret /\ t.space = Plan[k].space /\ ~t.expired

\* Mutant: every confirm mints an id.
RequestIdFresh(k) == k

\* An owner's command is named after the preview, the others get a fresh id.
RequestId(k) == IF Plan[k].surface = "owner" THEN Plan[k].on ELSE k

\* Mutant: the topic is resolved again when it is confirmed.
BodyResolvedAgain(k) ==
    IF Plan[k].surface = "source"
    THEN [drawers |-> {}, promises |-> {}, sources |-> {Plan[k].on}, hard |-> TRUE]
    ELSE LET found == Candidates(Present)
         IN  [drawers |-> found \cap Drawers, promises |-> found \cap Commitments,
              sources |-> {}, hard |-> token[Plan[k].on].action = "delete"]

\* What the command carries.
Body(k) ==
    IF Plan[k].surface = "source"
    THEN [drawers |-> {}, promises |-> {}, sources |-> {Plan[k].on}, hard |-> TRUE]
    ELSE LET t == token[Plan[k].on]
         IN  [drawers |-> t.found \cap Drawers, promises |-> t.found \cap Commitments,
              sources |-> {}, hard |-> t.action = "delete"]

SetClick(k, pc, told) == click' = [click EXCEPT ![k] = [pc |-> pc, told |-> told]]

clickOnly == <<memoryVars, dialogueVars, worker, dead>>

Begins(k) == k \in left.active /\ click[k].pc = "new"
Shown(k) == Plan[k].on \in Dialogues /\ preview[Plan[k].on].pc = "shown"

\* forget_confirm_handler: a token to archive is not the owner's to confirm,
\* and a second confirm is answered from the ledger.
OwnerConfirm(k) ==
    /\ Begins(k) /\ Plan[k].surface = "owner" /\ Shown(k)
    /\ IF ~Verified(k) \/ token[Plan[k].on].action # "delete" THEN SetClick(k, "done", "refused")
       ELSE IF status[RequestId(k)] # "none" THEN SetClick(k, "done", status[RequestId(k)])
       ELSE SetClick(k, "publish", "nothing")
    /\ UNCHANGED <<clickOnly, status, stream, left>>

\* eidolon_memory_forget_confirm
ToolConfirm(k) ==
    /\ Begins(k) /\ Plan[k].surface = "tool" /\ Shown(k)
    /\ IF Verified(k) THEN SetClick(k, "publish", "nothing") ELSE SetClick(k, "done", "refused")
    /\ UNCHANGED <<clickOnly, status, stream, left>>

\* MemoryService.confirm_forget
ServiceConfirm(k) ==
    /\ Begins(k) /\ Plan[k].surface = "service" /\ Shown(k)
    /\ IF Verified(k) THEN SetClick(k, "publish", "nothing") ELSE SetClick(k, "done", "failed")
    /\ UNCHANGED <<clickOnly, status, stream, left>>

\* eidolon_memory_forget_source_event: no preview, no token.
SourceErase(k) ==
    /\ Begins(k) /\ Plan[k].surface = "source"
    /\ SetClick(k, "publish", "nothing")
    /\ UNCHANGED <<clickOnly, status, stream, left>>

\* The ledger's precedence: applied is final, failed yields only to applied.
Record(i, s) ==
    status' = [status EXCEPT ![i] =
        CASE @ = "applied" -> @
          [] @ = "failed" /\ s # "applied" -> @
          [] @ = "retrying" /\ s = "accepted" -> @
          [] OTHER -> s]

Enqueue(k) ==
    stream' = Append(stream, [id |-> RequestId(k), body |-> Body(k), deliveries |-> 0, state |-> "queued"])

\* publish_with_status: a publish that raises is recorded as failed, though
\* the stream may have taken the message.
Publish(k) ==
    /\ click[k].pc = "publish"
    /\ \/ /\ Enqueue(k)
          /\ SetClick(k, "accept", "nothing")
          /\ UNCHANGED <<status, left>>
       \/ /\ Uses("faults")
          /\ Enqueue(k) \/ UNCHANGED stream
          /\ Record(RequestId(k), "failed")
          /\ SetClick(k, "done", "failed")
    /\ UNCHANGED clickOnly

Accept(k) ==
    /\ click[k].pc = "accept"
    /\ Record(RequestId(k), "accepted")
    /\ SetClick(k, "wait", "nothing")
    /\ UNCHANGED <<clickOnly, stream, left>>

\* wait_terminal returns the row it finds when the command ended or the wait
\* did.  The operator is told applied only of an event that is redacted.
Outcome(k) ==
    LET s == status[RequestId(k)]
    IN  IF s = "applied" /\ Plan[k].surface = "source" /\ Plan[k].on \notin redacted
        THEN "failed" ELSE s

\* The service's vocabulary is narrower: what is not over is accepted.
Reported(k) ==
    IF Plan[k].surface = "service" /\ Outcome(k) \notin Terminal THEN "accepted" ELSE Outcome(k)

Answer(k) ==
    /\ click[k].pc = "wait"
    /\ SetClick(k, "done", Reported(k))
    /\ UNCHANGED <<clickOnly, status, stream, left>>

\* forget_status_handler and command_status: where the forget has got to.
AskAgain(k) ==
    /\ click[k].pc = "done" /\ click[k].told \in {"accepted", "retrying", "nothing"}
    /\ status[RequestId(k)] # click[k].told /\ status[RequestId(k)] # "none"
    /\ SetClick(k, "done", Reported(k))
    /\ UNCHANGED <<clickOnly, status, stream, left>>

----------------------------------------------------------------------------
(* The command worker.                                                      *)

Doing(pc) == worker.pc = pc
Copy == stream[worker.copy]
Go(pc) == worker' = [worker EXCEPT !.pc = pc]
SetCopy(state) == stream' = [stream EXCEPT ![worker.copy].state = state]

workerOnly == <<dialogueVars, click>>

Take ==
    /\ Doing("idle")
    /\ \E m \in DOMAIN stream :
           /\ stream[m].state = "queued"
           /\ stream' = [stream EXCEPT ![m].state = "held", ![m].deliveries = @ + 1]
           /\ worker' = [IdleWorker EXCEPT !.copy = m,
                  !.pc = IF status[stream[m].id] = "applied" THEN "ack" ELSE "resolve"]
    /\ UNCHANGED <<workerOnly, memoryVars, status, dead, left>>

\* A handler that raises: nak, or the dead-letter queue on the last delivery.
Raise ==
    /\ IF Copy.deliveries >= MaxDeliveries
       THEN /\ Record(Copy.id, "failed")
            /\ dead' = dead \cup {[id |-> Copy.id, body |-> Copy.body]}
            /\ SetCopy("acked")
       ELSE /\ Record(Copy.id, "retrying")
            /\ SetCopy("queued")
            /\ UNCHANGED dead
    /\ worker' = IdleWorker
    /\ UNCHANGED <<workerOnly, memoryVars>>

Fault == worker.pc \in {"resolve", "tombstone", "erase", "promises", "redact"} /\ Uses("faults") /\ Raise

FromSources(kind) == {x \in kind : Origin[x] \in Copy.body.sources}

\* forget_resolved_projections: drawers lead to the assertions behind them;
\* a drawer list that leads nowhere is refused.
Resolve ==
    /\ Doing("resolve")
    /\ LET behind == {Of[x] : x \in Copy.body.drawers \cap ToSet(rows)}
           facts == behind \cup FromSources(Assertions)
       IN  IF Copy.body.drawers # {} /\ behind = {}
           THEN Raise /\ UNCHANGED left
           ELSE /\ worker' = [worker EXCEPT
                       !.pc = IF facts = {} THEN "promises" ELSE "tombstone",
                       !.facts = facts,
                       !.drawers = Copy.body.drawers \cup {x \in ToSet(rows) : Of[x] \in facts}]
                /\ UNCHANGED <<workerOnly, memoryVars, status, stream, dead, left>>

Tombstone ==
    /\ Doing("tombstone")
    /\ tomb' = tomb \cup worker.facts
    /\ Go("erase")
    /\ UNCHANGED <<workerOnly, rows, hidden, promise, redacted, status, stream, dead, left>>

\* delete_exact_drawers or archive_exact_drawers; a deletion shifts the rows
\* a running scan has yet to read.
EraseRows(gone, shifts) ==
    IF Copy.body.hard
    THEN /\ rows' = Without(rows, gone)
         /\ preview' = [d \in Dialogues |->
                IF preview[d].pc \in {"scan", "overflow"} /\ shifts
                THEN [preview[d] EXCEPT !.moved = TRUE] ELSE preview[d]]
         /\ UNCHANGED hidden
    ELSE hidden' = hidden \cup (gone \cap ToSet(rows)) /\ UNCHANGED <<rows, preview>>

eraseOnly == <<token, secret, click, redacted, stream, dead, left>>

\* Mutant: applied is recorded with the assertions, before the commitments.
EraseReports ==
    /\ Doing("erase")
    /\ EraseRows(worker.drawers, worker.drawers \cap ToSet(rows) # {})
    /\ Record(Copy.id, "applied")
    /\ Go("promises")
    /\ UNCHANGED <<eraseOnly, tomb, promise>>

Erase ==
    /\ Doing("erase")
    /\ EraseRows(worker.drawers, worker.drawers \cap ToSet(rows) # {})
    /\ Go("promises")
    /\ UNCHANGED <<eraseOnly, tomb, promise, status>>

\* forget_commitment_projections; a hard forget upgrades an archived one.
Promises ==
    /\ Doing("promises")
    /\ LET wanted == Copy.body.promises \cup FromSources(Commitments)
       IN  /\ promise' = [c \in Commitments |->
                  IF c \notin wanted \/ promise[c] = "delete" THEN promise[c]
                  ELSE IF Copy.body.hard THEN "delete" ELSE "archive"]
           /\ EraseRows({x \in ToSet(rows) : Of[x] \in wanted}, wanted # {})
    /\ Go("redact")
    /\ UNCHANGED <<eraseOnly, tomb, status>>

Redact ==
    /\ Doing("redact")
    /\ redacted' = redacted \cup Copy.body.sources
    /\ Go("record")
    /\ UNCHANGED <<workerOnly, rows, hidden, tomb, promise, status, stream, dead, left>>

RecordApplied ==
    /\ Doing("record")
    /\ Record(Copy.id, "applied")
    /\ Go("ack")
    /\ UNCHANGED <<workerOnly, memoryVars, stream, dead, left>>

Ack ==
    /\ Doing("ack")
    /\ SetCopy("acked")
    /\ worker' = IdleWorker
    /\ UNCHANGED <<workerOnly, memoryVars, status, dead, left>>

----------------------------------------------------------------------------
(* The environment.                                                         *)

\* A turn writes a drawer; the ledger lets no forgotten assertion come back.
Remember(x) ==
    /\ x \in left.coming /\ x \notin ToSet(rows) /\ Of[x] \notin tomb
    /\ rows' = Append(rows, x)
    /\ left' = [left EXCEPT !.coming = @ \ {x}]
    /\ UNCHANGED <<hidden, tomb, promise, redacted, dialogueVars, click, status, stream, worker, dead>>

\* eidolon_memory_dlq_replay publishes the dead letter once more.
Replay ==
    /\ Uses("replays")
    /\ \E e \in dead :
           /\ dead' = dead \ {e}
           /\ stream' = Append(stream, [id |-> e.id, body |-> e.body, deliveries |-> 0, state |-> "queued"])
    /\ UNCHANGED <<memoryVars, dialogueVars, click, status, worker>>

\* The runner restarts: a new key, and every request and scan in flight is
\* gone; a message that was not acknowledged is delivered again.
Restart ==
    /\ Uses("crashes")
    /\ secret' = secret + 1
    /\ preview' = [d \in Dialogues |->
           IF preview[d].pc \in {"scan", "overflow"} THEN [preview[d] EXCEPT !.pc = "lost"] ELSE preview[d]]
    /\ click' = [k \in Clicks |->
           IF click[k].pc \in {"new", "done"} THEN click[k] ELSE [click[k] EXCEPT !.pc = "done"]]
    /\ IF worker.copy = 0 THEN UNCHANGED stream ELSE SetCopy("queued")
    /\ worker' = IdleWorker
    /\ UNCHANGED <<memoryVars, token, status, dead>>

WorkerStep ==
    \/ Take \/ Resolve \/ Tombstone \/ Erase \/ Promises \/ Redact \/ RecordApplied \/ Ack \/ Fault

DialogueStep ==
    \/ \E d \in Dialogues : PreviewExact(d) \/ PreviewTopic(d) \/ ScanPage(d) \/ Overflow(d)
    \/ \E k \in Clicks : OwnerConfirm(k) \/ ToolConfirm(k) \/ ServiceConfirm(k) \/ SourceErase(k)
                           \/ Publish(k) \/ Accept(k) \/ Answer(k) \/ AskAgain(k)

Next ==
    \/ WorkerStep \/ DialogueStep
    \/ \E d \in Dialogues : Expire(d)
    \/ \E x \in Drawers : Remember(x)
    \/ Replay \/ Restart

\* The drain task and the request handlers of the event loop keep running.
Spec == Init /\ [][Next]_vars /\ WF_vars(WorkerStep) /\ WF_vars(DialogueStep)

----------------------------------------------------------------------------
(* Properties.                                                              *)

Sent(k) == \E m \in DOMAIN stream : stream[m].id = RequestId(k)

\* What the person was shown, or what the operator named.
Meant(k) ==
    IF Plan[k].surface = "source"
    THEN {x \in Assertions \cup Commitments : Origin[x] = Plan[k].on}
    ELSE {IF x \in Drawers THEN Of[x] ELSE x : x \in preview[Plan[k].on].found}
Hard(k) == Plan[k].surface = "source" \/ Plan[Plan[k].on].action = "delete"

\* A confirmation never widens into a broader deletion: whatever was written,
\* removed or previewed in between, every assertion and commitment a command
\* forgets is behind something that a person confirmed was shown, and none is
\* deleted when an archive was confirmed.
NeverWidens ==
    /\ \A a \in tomb : \E k \in Clicks : Sent(k) /\ a \in Meant(k)
    /\ \A c \in Commitments : promise[c] # "none" =>
           \E k \in Clicks : Sent(k) /\ c \in Meant(k) /\ (promise[c] = "delete" => Hard(k))
    /\ \A i \in DOMAIN Stored : Stored[i] \notin ToSet(rows) =>
           \E k \in Clicks : Sent(k) /\ Hard(k) /\ Of[Stored[i]] \in Meant(k)

\* A preview is complete or refused: unless a forget removed rows under its
\* scan, a preview that is shown, or that finds nothing, covers every match
\* that was there when it began, whatever the page size and the caps are.
PreviewComplete ==
    \A d \in Dialogues :
        preview[d].pc \in {"shown", "not_found"} /\ ~preview[d].moved =>
            preview[d].there \subseteq preview[d].found

\* Somebody who is told that a forget was applied has lost what was shown:
\* no row, commitment or event of it can be recalled, then or later.
AppliedGone ==
    \A k \in Clicks : click[k].told = "applied" =>
        /\ Meant(k) \cap Assertions \subseteq tomb
        /\ \A c \in Meant(k) \cap Commitments : promise[c] # "none"
        /\ \A x \in ToSet(rows) \cap ToSet(Stored) :
               Of[x] \in Meant(k) => ~Hard(k) /\ x \in hidden
        /\ Plan[k].surface = "source" => Plan[k].on \in redacted

\* Only this preview was confirmed, and only by its owner.
Alone(d) == \A k \in Clicks : Sent(k) => Plan[k].surface = "owner" /\ Plan[k].on = d

\* One decision of the owner is one command: however often and however
\* concurrently one preview is confirmed, the delete is not applied to drawers
\* it has already removed, so without faults it never fails.
OwnerRetrySafe ==
    \A k \in Clicks :
        left.calm /\ Plan[k].surface = "owner" /\ Alone(Plan[k].on) =>
            status[RequestId(k)] # "failed" /\ ~\E e \in dead : e.id = RequestId(k)

\* A redelivery resumes an interrupted delete: what the owner confirmed and
\* was told is accepted is forgotten in the end.
ConfirmedForgotten ==
    \A k \in Clicks :
        click[k].told = "accepted" ~>
            (Meant(k) \cap Assertions \subseteq tomb
             /\ \A c \in Meant(k) \cap Commitments : promise[c] # "none")

=============================================================================
