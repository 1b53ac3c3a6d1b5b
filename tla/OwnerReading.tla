---------------------------- MODULE OwnerReading ----------------------------
(***************************************************************************)
(* The owner's reads of one realm (entrypoints/owner_memory_http.py): what *)
(* was recorded lately, a page at a time (application/owner_entries.py);   *)
(* the copy to keep (owner_export.py); the library by wing and room        *)
(* (mempalace_hierarchy.py); and the graph's statements, a page at a time  *)
(* (kg_sqlite.py).  They run while turns write to the realm and the forgets*)
(* of ForgetDialogue take from it.                                         *)
(*                                                                         *)
(* The first three enumerate the palace a chunk at a time, from the start, *)
(* for every page; a page is cut at a keyset position that the client      *)
(* carries, so a read survives a failure and a restart of the process.     *)
(* What a read withholds is a record's privacy and audience; wording and   *)
(* previews are left out.                                                  *)
(***************************************************************************)
EXTENDS ForgetDialogue

CONSTANTS
    Reads,
    Request,       \* what each read asks for
    Time,          \* the memory time of each drawer and statement, 0 for none
    Rank,          \* the order of their ids
    Room,          \* the wing and room each drawer lies in
    Told,          \* the companion a drawer's audience is, or Nothing for the owner's
    ChunkSize

ASSUME ReadAssumption ==
    /\ ChunkSize \in Nat \ {0}
    /\ {Time, Rank} \subseteq [Drawers \cup Assertions -> Nat]
    /\ \A x, y \in Drawers \cup Assertions : x # y => Rank[x] # Rank[y]
    /\ Drawers = DOMAIN Room /\ Drawers = DOMAIN Told
    /\ \A r \in Reads :
           /\ Request[r].kind \in {"entries", "export", "browse", "graph"}
           /\ Request[r].history \in BOOLEAN
           /\ Request[r].since \in Nat
           /\ {Request[r].limit, Request[r].scan} \subseteq Nat \ {0}

VARIABLES
    read,      \* each read: where it is, what it has seen, what it has answered
    present    \* for each read: what was there, in its scope, ever since it began

readVars == <<read, present>>
realmVars == <<vars, readVars>>

NoPosition == Nothing
Unread == [pc |-> "new", count |-> 0, seen |-> {}, withheld |-> 0, from |-> NoPosition,
           listed |-> <<>>, undated |-> {}, capped |-> FALSE, truncated |-> FALSE, shifted |-> FALSE]

Is(r, kind) == Request[r].kind = kind
Scanning(r) == read[r].pc \in {"scan", "peek", "answer"}

----------------------------------------------------------------------------
(* What a read may show, and in what order.                                 *)

\* RecallPolicyRegistry.visible with every_audience for the owner.
VisibleTo(r, x) ==
    /\ x \notin hidden
    /\ Request[r].companion = Nothing \/ Told[x] \in {Nothing, Request[r].companion}

\* derive_memory_time finds no usable field.
Undated(x) == Time[x] = 0

\* The keyset of the pages: the time, and among equals the id.
Earlier(x, y) == Time[x] < Time[y] \/ (Time[x] = Time[y] /\ Rank[x] < Rank[y])

\* Mutant: a time alone.
BeforePositionByTime(x, position) == position = NoPosition \/ Time[x] < Time[position]
BeforePosition(x, position) == position = NoPosition \/ Earlier(x, position)

NewestFirst(set) == SetToSortSeq(set, LAMBDA x, y : Earlier(y, x))

\* A page of the window, and whether there is more of it.
Cut(r, window) ==
    LET all == NewestFirst(window)
        page == SubSeq(all, 1, Lesser(Request[r].limit, Len(all)))
    IN  [page |-> page, more |-> Len(all) > Len(page)]

\* The statements of the graph: one for each assertion that is projected, and
\* ended, not removed, with an archived drawer.
Statements(r) ==
    LET held == {x \in ToSet(rows) : Of[x] \in Assertions}
    IN  {Of[x] : x \in {y \in held :
             /\ Request[r].history \/ y \notin hidden
             /\ Request[r].companion = Nothing \/ Told[y] \in {Nothing, Request[r].companion}}}

\* What lies in the scope of a read now.
InScope(r) ==
    IF Is(r, "graph") THEN Statements(r)
    ELSE {x \in ToSet(rows) : VisibleTo(r, x) /\ (Is(r, "entries") => Time[x] >= Request[r].since /\ ~Undated(x))}

----------------------------------------------------------------------------
(* The reads.                                                               *)

SetRead(r, new) == read' = [read EXCEPT ![r] = new]
readOnly == <<vars, present>>

\* entries_handler, export_handler and browse_handler start an enumeration;
\* graph_handler asks the store for its page.
Opens(r) ==
    /\ r \in left.reads /\ read[r].pc = "new"
    /\ SetRead(r, [read[r] EXCEPT !.pc = IF Is(r, "graph") THEN "answer" ELSE "scan"])
    /\ present' = [present EXCEPT ![r] = InScope(r)]
    /\ UNCHANGED vars

OpenEntries(r) == Is(r, "entries") /\ Opens(r)
OpenExport(r) == Is(r, "export") /\ Opens(r)
OpenBrowse(r) == Is(r, "browse") /\ Opens(r)
OpenGraph(r) == Is(r, "graph") /\ Opens(r)

\* One get_all of scan_records.
ScanChunk(r) ==
    /\ read[r].pc = "scan"
    /\ LET q == read[r]
           request == Lesser(ChunkSize, Request[r].scan - q.count)
           batch == Page(rows, q.count, request)
           shown == {x \in ToSet(batch) : VisibleTo(r, x)}
           counted == q.count + Len(batch)
       IN  SetRead(r, [q EXCEPT !.count = counted,
               !.seen = @ \cup shown,
               !.withheld = @ + Len(batch) - Cardinality(shown),
               !.pc = IF Len(batch) < request \/ counted >= Request[r].scan THEN "peek" ELSE "scan"])
    /\ UNCHANGED readOnly

\* Its last one, which tells a bounded enumeration from a whole one.
Peek(r) ==
    /\ read[r].pc = "peek"
    /\ SetRead(r, [read[r] EXCEPT !.pc = "answer",
                                  !.capped = Len(rows) > read[r].count])
    /\ UNCHANGED readOnly

\* build_owner_entries: one page, and the position of the next if there is one.
AnswerEntries(r) ==
    /\ read[r].pc = "answer" /\ Is(r, "entries")
    /\ LET q == read[r]
           window == {x \in q.seen : /\ ~Undated(x) /\ Time[x] >= Request[r].since
                                     /\ BeforePosition(x, q.from)}
           cut == Cut(r, window)
       IN  SetRead(r, [q EXCEPT !.pc = IF cut.more THEN "page" ELSE "done",
               !.listed = @ \o cut.page,
               !.from = IF cut.more THEN Last(cut.page) ELSE @,
               !.truncated = @ \/ q.capped,
               !.undated = {x \in q.seen : Undated(x)}])
    /\ UNCHANGED readOnly

\* build_owner_export: all of it, the undated last.
AnswerExport(r) ==
    /\ read[r].pc = "answer" /\ Is(r, "export")
    /\ LET none == {x \in read[r].seen : Undated(x)}
       IN  SetRead(r, [read[r] EXCEPT !.pc = "done", !.undated = none,
               !.truncated = read[r].capped,
               !.listed = NewestFirst(read[r].seen \ none) \o SetToSeq(none)])
    /\ UNCHANGED readOnly

\* _rollup: what was seen, by wing and room.
Rollup(seen) == [room \in {Room[x] : x \in seen} |-> {x \in seen : Room[x] = room}]

\* build_owner_browse: every room with its entries, counted.
AnswerBrowse(r) ==
    /\ read[r].pc = "answer" /\ Is(r, "browse")
    /\ LET rooms == Rollup(read[r].seen)
       IN  SetRead(r, [read[r] EXCEPT !.pc = "done", !.truncated = read[r].capped,
               !.listed = FlattenSeq(SetToSeq({SetToSeq(rooms[room]) : room \in DOMAIN rooms}))])
    /\ UNCHANGED readOnly

\* timeline: one page of the statements, read at once under the store's lock.
AnswerGraph(r) ==
    /\ read[r].pc = "answer" /\ Is(r, "graph")
    /\ LET q == read[r]
           cut == Cut(r, {x \in Statements(r) : BeforePosition(x, q.from)})
       IN  SetRead(r, [q EXCEPT !.pc = IF cut.more THEN "page" ELSE "done",
               !.listed = @ \o cut.page,
               !.from = IF cut.more THEN Last(cut.page) ELSE @])
    /\ UNCHANGED readOnly

\* The client comes back with the position it was given; the palace is
\* enumerated again from its start.
NextPage(r) ==
    /\ read[r].pc = "page"
    /\ SetRead(r, [read[r] EXCEPT !.pc = IF Is(r, "graph") THEN "answer" ELSE "scan",
                                  !.count = 0, !.seen = {}, !.withheld = 0])
    /\ UNCHANGED readOnly

\* A read that raises answers unavailable, and nothing of this page.
ReadFails(r) ==
    /\ Scanning(r) /\ Uses("faults")
    /\ SetRead(r, [read[r] EXCEPT !.pc = "page"])
    /\ UNCHANGED <<memoryVars, dialogueVars, click, status, stream, worker, dead, present>>

ReadStep ==
    \E r \in Reads :
        \/ OpenEntries(r) \/ OpenExport(r) \/ OpenBrowse(r) \/ OpenGraph(r)
        \/ ScanChunk(r) \/ Peek(r)
        \/ AnswerEntries(r) \/ AnswerExport(r) \/ AnswerBrowse(r) \/ AnswerGraph(r)
        \/ NextPage(r) \/ ReadFails(r)

----------------------------------------------------------------------------
(* The reads among the forgets and the turns of the realm.                  *)

\* A row that goes shifts the rows an enumeration has yet to ask for, and a
\* restart drops the request; what is kept of it is the client's position.
Meanwhile ==
    LET removed == ~(ToSet(rows) \subseteq ToSet(rows'))
    IN  /\ read' = [r \in Reads |->
               IF ~Scanning(r) THEN read[r]
               ELSE [read[r] EXCEPT
                   !.pc = IF secret' # secret THEN "page" ELSE @,
                   !.shifted = @ \/ (removed /\ ~Is(r, "graph"))]]
        /\ present' = [r \in Reads |-> present[r] \cap InScope(r)']

ReadInit == Init /\ read = [r \in Reads |-> Unread] /\ present = [r \in Reads |-> {}]
RealmNext == (Next /\ Meanwhile) \/ ReadStep

ReadSpec ==
    ReadInit /\ [][RealmNext]_realmVars
    /\ WF_realmVars(WorkerStep /\ Meanwhile) /\ WF_realmVars(DialogueStep /\ Meanwhile)

----------------------------------------------------------------------------
(* Properties.                                                              *)

Times(x, seq) == Cardinality({i \in DOMAIN seq : seq[i] = x})

\* A read that ends and does not say that it is partial is whole: whatever was
\* written, archived or forgotten between its pages, and however often a page
\* failed or the process restarted, everything that stayed in its scope is
\* listed, those of one moment too, and nothing is listed twice.  Only rows
\* removed during an enumeration are excused.
ReadWhole ==
    \A r \in Reads :
        /\ \A x \in ToSet(read[r].listed) : Times(x, read[r].listed) = 1
        /\ read[r].pc = "done" /\ ~read[r].truncated /\ ~read[r].shifted =>
               present[r] \subseteq ToSet(read[r].listed)

=============================================================================
