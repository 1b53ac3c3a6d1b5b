------------------------------- MODULE Recall -------------------------------
(***************************************************************************)
(* Recall: a caller asks what is remembered.  A vector leg (resolve an     *)
(* alias, search the drawers, rank) and a graph leg run side by side; then *)
(* the graph is expanded from what was recalled, the themes are fetched,   *)
(* and the parts are merged.  Every read is a worker thread under the      *)
(* space's lock; every graph read, and a voice recall as a whole, has a    *)
(* deadline.  Meanwhile the owner forgets a memory, which needs the writer *)
(* side of the same lock.                                                  *)
(***************************************************************************)
EXTENDS Naturals, Sequences, FiniteSets, SequencesExt

CONSTANTS
    Drawers, Row,        \* drawers and what each is, see RowType
    Statements, Fact,    \* statements of the graph and what each is, see FactType
    Entities,
    Calls, Request,      \* recalls and what each asks, see RequestType
    Wings,               \* the wings a recall fans out to
    Shadow,              \* the drawers and statements the owner's command forgets
    RrfK, ThemeK, ThemeFloor, MaxEntities, PerEntity,
    Scenarios            \* what may go wrong, see ScenarioType (model only)

Queries == {"plain", "named"}
RowType ==
    [wing : Wings \cup {"Wing_Theme", "Wing_Privacy"}, audience : STRING, scope : STRING,
     visibility : {"all_devices", "current_device", "private"}, device : STRING,
     turn : STRING, sim : [Queries -> Nat], lex : [Queries -> Nat], chars : Nat]
FactType ==
    [ends : SUBSET Entities, audience : STRING, sensitive : BOOLEAN, turn : STRING, conf : Nat]
RequestType ==
    [voice : BOOLEAN, scoped : BOOLEAN, readable : SUBSET STRING, device : STRING,
     names : Seq(Entities), alias : Seq(Entities), topK : Nat \ {0}]
ScenarioType ==
    [faults : Nat, stuck : Nat, index : {"healthy", "diverged"}, hard : BOOLEAN,
     cancels : Nat, on : SUBSET Calls]

ASSUME RecallConstants ==
    /\ \A d \in Drawers : /\ DOMAIN Row[d] = {"wing", "audience", "scope", "visibility", "device",
                                              "turn", "sim", "lex", "chars"}
                          /\ Row[d].wing \in Wings \cup {"Wing_Theme", "Wing_Privacy"}
    /\ \A s \in Statements : Fact[s].ends \subseteq Entities
    /\ \A c \in Calls : Request[c].topK > 0
    /\ Shadow \subseteq Drawers \cup Statements
    /\ {RrfK, ThemeK, MaxEntities, PerEntity} \subseteq Nat \ {0} /\ ThemeFloor \in Nat

VARIABLES
    mark, fact,          \* the store: drawers and statements
    writer,              \* the owner's command
    readers,             \* reads inside the lock: <<call, leg>>
    threads,             \* worker threads: <<call, leg, "graph" or "palace">>
    stuck,               \* threads that never end
    leg,                 \* the coroutines of each call, see Idle
    answer, start, seen, \* what a call returned; what was hidden when it began;
                         \* the drawers its search read (both for properties only)
    index, hard, faults, hangs, cancels, on

store == <<mark, fact>>
lock == <<writer, readers, threads, stuck>>
calls == <<leg, answer, start, seen>>
budget == <<index, hard, faults, hangs, cancels, on>>
vars == <<store, lock, calls, budget>>

Legs == {"vec", "kg", "main"}
Idle == [at |-> "idle", io |-> "none", todo |-> <<>>, got |-> <<>>, v |-> {}, l |-> {},
         down |-> FALSE, q |-> "plain"]
NoAnswer == [rows |-> <<>>, facts |-> <<>>, degraded |-> FALSE, why |-> "none"]

Init ==
    /\ mark = [d \in Drawers |-> "live"] /\ fact = [s \in Statements |-> "valid"]
    /\ writer = "idle"
    /\ readers = {} /\ threads = {} /\ stuck = {}
    /\ leg = [c \in Calls |-> [l \in Legs |-> Idle]]
    /\ answer = [c \in Calls |-> NoAnswer] /\ start = [c \in Calls |-> {}]
    /\ seen = [c \in Calls |-> {}]
    /\ \E s \in Scenarios :
          /\ index = s.index /\ hard = s.hard /\ faults = s.faults /\ hangs = s.stuck
          /\ cancels = s.cancels /\ on = s.on

----------------------------------------------------------------------------
(* Who may see what.                                                        *)

\* interaction_readable_audiences: none without a companion or a council
Identified(c) == Request[c].readable # {}
MayRead(c, a) == a \in Request[c].readable

\* _device_visibility_filter; device "" is a caller without one
DeviceOk(c, d) == \/ Row[d].visibility # "current_device"
                  \/ Request[c].device # "" /\ Request[c].device = Row[d].device

\* RecallPolicyRegistry.visible
Visible(c, d) ==
    /\ Row[d].wing # "Wing_Privacy" /\ mark[d] = "live"
    /\ MayRead(c, Row[d].audience) /\ Row[d].visibility # "private" /\ DeviceOk(c, d)

RecallableAll(d) == Row[d].wing # "Wing_Privacy"
\* apply_recall_policy: an archived drawer is marked do_not_recall and stays stored
Recallable(d) == Row[d].wing # "Wing_Privacy" /\ mark[d] = "live"

\* _combined_where: the pushed-down filter
Where(c, ws, d) ==
    /\ mark[d] # "gone" /\ Row[d].wing \in ws
    /\ MayRead(c, Row[d].audience) /\ DeviceOk(c, d)

\* A statement the graph's read path may return to this caller
Readable(c, s) == MayRead(c, Fact[s].audience) /\ ~Fact[s].sensitive

----------------------------------------------------------------------------
(* Searching and ranking.                                                   *)

FirstN(seq, n) == SubSeq(seq, 1, IF Len(seq) < n THEN Len(seq) ELSE n)
\* the n best of S by a score, ties by the score of the vector search
Best(S, n, score(_)) ==
    ToSet(FirstN(SetToSortSeq(S, LAMBDA a, b : score(a) > score(b)), n))

\* search_memories_shared_embedding: rows inside the vector window, and inside
\* the lexical one.  The window is widened, not the filter.
Limit(c, ws) == Request[c].topK * 3 * Cardinality(ws)
VectorHits(c, ws, q) ==
    LET Sim(d) == Row[d].sim[q]
    IN  Best({d \in Drawers : Where(c, ws, d)}, Limit(c, ws), Sim)
LexicalHits(c, ws, q) ==
    LET Lex(d) == Row[d].lex[q]
    IN  Best({d \in Drawers : Where(c, ws, d) /\ Row[d].lex[q] > 0}, Limit(c, ws), Lex)

\* _rrf_fuse, scaled to whole numbers: the sum over both rankings of
\* 1 / (rrf_k + rank), a rank counted from 0
RECURSIVE Product(_, _)
Product(k, n) == IF n = 0 THEN 1 ELSE (k + n - 1) * Product(k, n - 1)
Vote(ranking, n, d) ==
    IF d \in ToSet(ranking)
    THEN Product(RrfK, n) \div (RrfK + (CHOOSE i \in DOMAIN ranking : ranking[i] = d) - 1)
    ELSE 0

\* rerank_bm25_rrf over v (measured by the vector search) and l (lexical): a
\* lexical-only row does not vote in the vector ranking; with no lexical match
\* at all the characters are compared instead
Rerank(v, l, q) ==
    LET all == v \cup l
        n == Cardinality(all)
        Sim(d) == IF d \in v THEN Row[d].sim[q] ELSE 0
        order == SetToSortSeq(all, LAMBDA a, b : Sim(a) > Sim(b))
        Index(d) == CHOOSE i \in DOMAIN order : order[i] = d
        By(S, Score(_)) == SetToSortSeq(S, LAMBDA a, b :
            Score(a) > Score(b) \/ (Score(a) = Score(b) /\ Index(a) < Index(b)))
        cosine == SelectSeq(order, LAMBDA d : d \in v)
        Lex(d) == Row[d].lex[q]
        Chars(d) == Row[d].chars
        bm25 == IF l # {} THEN By(l, Lex) ELSE By(all, Chars)
        Fused(d) == Vote(cosine, n, d) + Vote(bm25, n, d)
    IN  IF n < 2 THEN order ELSE By(all, Fused)

\* RecallPolicyRegistry.score
Score(c, d) ==
    CASE Row[d].scope = "device" ->
             IF Request[c].device # "" /\ Request[c].device = Row[d].device THEN 90 ELSE 25
      [] Row[d].scope \in {"global", "persona"} -> 75
      [] Row[d].scope = "agent" -> 70
      [] OTHER -> 50

\* RecallPolicyRegistry.rank: by scope, then by the fused order; the cap comes last
RankRows(c, v, l, q) ==
    LET fused == Rerank(v, l, q)
        Place(d) == CHOOSE i \in DOMAIN fused : fused[i] = d
    IN  FirstN(SetToSortSeq(v \cup l, LAMBDA a, b :
            \/ Score(c, a) > Score(c, b)
            \/ Score(c, a) = Score(c, b) /\ Place(a) < Place(b)), Request[c].topK)

\* _fetch_themes: a channel of its own, without the caller's device
ThemeRows(c, q) ==
    LET W(d) == /\ mark[d] # "gone" /\ Row[d].wing = "Wing_Theme"
                /\ MayRead(c, Row[d].audience) /\ Row[d].visibility # "current_device"
        Sim(d) == Row[d].sim[q]
        Lex(d) == Row[d].lex[q]
        v == Best({d \in Drawers : W(d)}, 3 * ThemeK, Sim)
        l == Best({d \in Drawers : W(d) /\ Lex(d) > 0}, 3 * ThemeK, Lex)
    IN  SetToSortSeq({d \in v \cup l : Recallable(d) /\ (d \in v => Sim(d) >= ThemeFloor)},
                     LAMBDA a, b : Sim(a) > Sim(b))

\* query_entity both ways, for one entity: what holds now, best first, bounded
FactsAbout(c, e) ==
    FirstN(SetToSortSeq({s \in Statements : fact[s] = "valid" /\ Readable(c, s)
                                             /\ e \in Fact[s].ends},
                        LAMBDA a, b : Fact[a].conf > Fact[b].conf), PerEntity)
\* query_entity_combined drops what an earlier entity already gave
Added(got, more) == got \o SelectSeq(more, LAMBDA s : s \notin ToSet(got))

\* entities_for_source_turns: history counts too, visibility is filtered first
EntitiesOf(c, turns) ==
    LET F == {s \in Statements : fact[s] # "gone" /\ Fact[s].turn \in turns /\ Readable(c, s)}
        Hits(e) == Cardinality({s \in F : e \in Fact[s].ends})
    IN  FirstN(SetToSortSeq({e \in Entities : Hits(e) > 0}, LAMBDA a, b : Hits(a) > Hits(b)),
               MaxEntities)

\* _merge_triples: what a recalled drawer already says goes last; bounded
MergeTriples(primary, expanded, shown) ==
    LET all == Added(primary, expanded)
        novel == SelectSeq(all, LAMBDA s : Fact[s].turn \notin shown)
        restating == SelectSeq(all, LAMBDA s : Fact[s].turn \in shown)
    IN  FirstN(novel \o restating, MaxEntities * PerEntity)

----------------------------------------------------------------------------
(* One recall.                                                              *)

Rows(c) == IF leg[c]["vec"].at = "done" THEN leg[c]["vec"].got ELSE <<>>
Turns(c) == {Row[d].turn : d \in ToSet(Rows(c))} \ {""}
At(r, at) == [r EXCEPT !.at = at, !.io = "none"]
Ask(r, at) == [r EXCEPT !.at = at, !.io = "queued"]
Set(c, l, r) == leg' = [leg EXCEPT ![c][l] = r]
GraphReads == {"alias", "aliasfact", "match", "facts", "turns", "hop"}

Thread(c, l) == <<c, l, IF leg[c][l].at \in GraphReads THEN "graph" ELSE "palace">>
Waited(c, l) == leg[c][l].io = "in"

\* recall_with_kg_fusion starts both legs; a caller without an identity gets
\* neither: scope resolution raises in each
Begin(c) ==
    /\ c \in on /\ leg[c]["main"].at = "idle"
    /\ start' = [start EXCEPT ![c] = {d \in Drawers : mark[d] # "live"}
                                     \cup {s \in Statements : fact[s] # "valid"}]
    /\ leg' = [leg EXCEPT ![c] =
          [main |-> At(Idle, "vec"),
           vec |-> IF Identified(c) THEN Ask(Idle, "alias") ELSE At(Idle, "failed"),
           kg |-> IF Identified(c) THEN Ask(Idle, "match") ELSE At(Idle, "failed")]]
    /\ UNCHANGED <<store, lock, answer, seen, budget>>

\* SpaceLock.acquire_read: readers queue behind a waiting writer
Enter(c, l) ==
    /\ leg[c][l].io = "queued" /\ writer \in {"idle", "done"}
    /\ Set(c, l, [leg[c][l] EXCEPT !.io = "in"])
    /\ readers' = readers \cup {<<c, l>>} /\ threads' = threads \cup {Thread(c, l)}
    /\ UNCHANGED <<store, writer, stuck, answer, start, seen, budget>>

\* The wings of a search: one query for all of them, or one for each
NextWings(c) == IF Request[c].scoped THEN Wings ELSE {Head(leg[c]["vec"].todo)}
ToSearch(c, r) == [Ask(r, "search") EXCEPT !.todo = IF Request[c].scoped THEN <<>>
                                                    ELSE SetToSeq(Wings)]
SearchedBlindly(c, r) ==
    IF Len(r.todo) > 1 THEN [Ask(r, "search") EXCEPT !.todo = Tail(r.todo)]
    ELSE [At(r, "done") EXCEPT !.got = RankRows(c, r.v, r.l, r.q)]
\* search_all_wings_mcp_style once no wing is left: nothing found and a wing
\* down is a failed recall, otherwise rank what there is
Searched(c, r) ==
    IF Len(r.todo) > 1 THEN [Ask(r, "search") EXCEPT !.todo = Tail(r.todo)]
    ELSE IF r.down /\ r.v \cup r.l = {} THEN At(r, "failed")
    ELSE [At(r, "done") EXCEPT !.got = RankRows(c, r.v, r.l, r.q)]

\* a wing that raised: a scoped search is lost as a whole
SearchFails(c, r) == Searched(c, [r EXCEPT !.down = TRUE])

\* _search_sqlite_fallback when the index diverged: hits carry no visibility,
\* so any hit is refused, and no hit is an empty result
Fallback(c, r) ==
    IF \E d \in Drawers : mark[d] # "gone" /\ Row[d].wing \in NextWings(c) /\ Row[d].lex[r.q] > 0
    THEN SearchFails(c, r) ELSE Searched(c, r)

\* probe_hnsw_safety: only a confirmed divergence keeps the vectors out
VectorDisabled == index = "diverged"
SearchReads(c, r) ==
    IF VectorDisabled THEN Fallback(c, r)
    ELSE Searched(c, [r EXCEPT
            !.v = @ \cup {d \in VectorHits(c, NextWings(c), r.q) : Recallable(d) /\ Visible(c, d)},
            !.l = @ \cup {d \in LexicalHits(c, NextWings(c), r.q) : Recallable(d) /\ Visible(c, d)}])

\* The next entity of a graph query, or what follows the last
NextEntity(r, more, then) ==
    LET g == [r EXCEPT !.got = Added(r.got, more), !.todo = Tail(r.todo)]
    IN  IF Len(r.todo) > 1 THEN Ask(g, r.at)
        ELSE IF then = "done" THEN At(g, then) ELSE Ask(g, then)

\* Where a leg goes when a read of it gave up: on time, or with an error
GivesUp(c, r) ==
    CASE r.at \in {"alias", "aliasfact"} -> ToSearch(c, r)
      [] r.at \in {"match", "facts"} -> [At(r, "done") EXCEPT !.got = <<>>]
      [] r.at \in {"turns", "hop"} -> [Ask(r, "themes") EXCEPT !.got = <<>>]
      [] r.at = "search" -> SearchFails(c, r)

\* the caller's hints, then the entities the phrase names
Candidates(c) == FirstN(Request[c].names, MaxEntities)

\* What a read returns to its coroutine
Reads(c, r) ==
    CASE r.at = "alias" -> IF Len(Request[c].alias) # 1 THEN ToSearch(c, r)
                           ELSE Ask(r, "aliasfact")
      [] r.at = "aliasfact" ->
             ToSearch(c, IF FactsAbout(c, Head(Request[c].alias)) = <<>> THEN r
                         ELSE [r EXCEPT !.q = "named"])
      [] r.at = "search" -> SearchReads(c, r)
      [] r.at = "match" -> LET e == Candidates(c)
                           IN  IF e = <<>> THEN At(r, "done") ELSE [Ask(r, "facts") EXCEPT !.todo = e]
      [] r.at = "facts" -> NextEntity(r, FactsAbout(c, Head(r.todo)), "done")
      [] r.at = "turns" -> LET e == EntitiesOf(c, Turns(c))
                           IN  IF e = <<>> THEN Ask(r, "themes") ELSE [Ask(r, "hop") EXCEPT !.todo = e]
      [] r.at = "hop" -> NextEntity(r, FactsAbout(c, Head(r.todo)), "themes")

\* The thread of leg l ends while its coroutine waits for it
ThreadDone(c, l) ==
    /\ Waited(c, l) /\ Thread(c, l) \notin stuck
    /\ readers' = readers \ {<<c, l>>} /\ threads' = threads \ {Thread(c, l)}
\* The drawers a search should find, noted when it reads them
Noted(c, l) ==
    seen' = IF leg[c][l].at # "search" THEN seen
            ELSE [seen EXCEPT ![c] = @ \cup {d \in Drawers : Row[d].wing \in NextWings(c)
                                                             /\ Visible(c, d)}]

\* A worker thread ends, and its read with it
ReadEnds(c, l) ==
    /\ leg[c][l].at # "themes" /\ ThreadDone(c, l)
    /\ Set(c, l, Reads(c, leg[c][l])) /\ Noted(c, l)
    /\ UNCHANGED <<store, writer, stuck, answer, start, budget>>

ReadFails(c, l) ==
    /\ leg[c][l].at # "themes" /\ ThreadDone(c, l) /\ faults > 0 /\ faults' = faults - 1
    /\ Set(c, l, GivesUp(c, leg[c][l])) /\ Noted(c, l)
    /\ UNCHANGED <<store, writer, stuck, answer, start, index, hard, hangs, cancels, on>>

\* A worker thread that never returns
Hangs(c, l) ==
    /\ Waited(c, l) /\ Thread(c, l) \notin stuck /\ hangs > 0 /\ hangs' = hangs - 1
    /\ stuck' = stuck \cup {Thread(c, l)}
    /\ UNCHANGED <<store, writer, readers, threads, calls, index, hard, faults, cancels, on>>

AbandonAll(c, ls) == readers' = readers \ {<<c, l>> : l \in ls}
\* The reads of leg l of c lose their caller.  SqliteKnowledgeGraph holds the lock
\* in the caller's coroutine, so its thread goes on without it; LockedBackend
\* holds it in a task of its own, so its thread keeps it.
Abandon(c, ls) ==
    readers' = readers \ {<<c, l>> : l \in {k \in ls : Waited(c, k) /\ leg[c][k].at \in GraphReads}}

\* _query_with_known_alias, _kg_path_with_timeout, _expand_with_timeout
GraphTimeout(c, l) ==
    /\ leg[c][l].at \in GraphReads
    /\ Abandon(c, {l}) /\ Set(c, l, GivesUp(c, leg[c][l]))
    /\ UNCHANGED <<store, writer, threads, stuck, answer, start, seen, budget>>

\* await vector_task: a failed leg is an empty one, and a degraded recall
VectorJoined(c) ==
    /\ leg[c]["main"].at = "vec" /\ leg[c]["vec"].at \in {"done", "failed"}
    /\ Set(c, "main", At(leg[c]["main"], "kg"))
    /\ UNCHANGED <<store, lock, answer, start, seen, budget>>

\* await kg_task, then expand from the turns recalled; with none, only themes are left
GraphJoined(c) ==
    LET r == leg[c]["main"] IN
    /\ r.at = "kg" /\ leg[c]["kg"].at \in {"done", "failed"}
    /\ Set(c, "main", IF leg[c]["kg"].at = "failed" THEN At(r, "finally")
                      ELSE Ask(r, IF Turns(c) = {} THEN "themes" ELSE "turns"))
    /\ answer' = IF leg[c]["kg"].at = "failed" THEN [answer EXCEPT ![c].why = "error"] ELSE answer
    /\ UNCHANGED <<store, lock, start, seen, budget>>

\* The themes arrive, or fail to; the parts are merged and returned
Returns(c, themes) ==
    /\ Set(c, "main", At(leg[c]["main"], "returned"))
    /\ answer' = [answer EXCEPT ![c] =
          [rows |-> SelectSeq(themes, LAMBDA d : d \notin ToSet(Rows(c))) \o Rows(c),
           facts |-> MergeTriples(leg[c]["kg"].got, leg[c]["main"].got, Turns(c)),
           degraded |-> leg[c]["vec"].at = "failed",
           why |-> IF leg[c]["vec"].at = "failed" THEN "vector" ELSE "none"]]

ThemesArrive(c) ==
    /\ leg[c]["main"].at = "themes" /\ ThreadDone(c, "main")
    /\ \/ Returns(c, IF VectorDisabled THEN <<>> ELSE ThemeRows(c, "plain")) /\ UNCHANGED faults
       \/ faults > 0 /\ faults' = faults - 1 /\ Returns(c, <<>>)
    /\ UNCHANGED <<store, writer, stuck, start, seen, index, hard, hangs, cancels, on>>

----------------------------------------------------------------------------
(* Deadlines and cancellation.                                              *)

Running(c) == leg[c]["main"].at \notin {"idle", "finally", "returned"}
Ended(r) == IF r.at \in {"done", "failed"} THEN r ELSE At(r, "cancelled")

\* The finally of recall_with_kg_fusion: no leg outlives its caller
CancelLegs(c, why) ==
    /\ Abandon(c, Legs)
    /\ leg' = [leg EXCEPT ![c] = [vec |-> Ended(@["vec"]), kg |-> Ended(@["kg"]),
                                  main |-> At(@["main"], "finally")]]
    /\ answer' = [answer EXCEPT ![c].why = why]

DeadlineUnenforced(c) == FALSE /\ UNCHANGED vars
\* LiveKitRecallService: asyncio.wait_for around the whole recall
Deadline(c) ==
    /\ Request[c].voice /\ Running(c) /\ CancelLegs(c, "deadline")
    /\ UNCHANGED <<store, writer, threads, stuck, start, seen, budget>>

\* The client of a chat recall goes away
CallerCancels(c) ==
    /\ ~Request[c].voice /\ Running(c) /\ cancels > 0 /\ cancels' = cancels - 1
    /\ CancelLegs(c, "cancelled")
    /\ UNCHANGED <<store, writer, threads, stuck, start, seen, index, hard, faults, hangs, on>>

\* gather of the cancelled legs, then the degraded envelope
Gathered(c) ==
    /\ leg[c]["main"].at = "finally"
    /\ leg' = [leg EXCEPT ![c]["main"].at = "returned"]
    /\ answer' = [answer EXCEPT ![c].degraded = TRUE]
    /\ UNCHANGED <<store, lock, start, seen, budget>>

\* A thread without a caller ends: in the graph, or with the lock in the palace
Orphans == {t \in threads : ~Waited(t[1], t[2]) \/ t # Thread(t[1], t[2])}
ThreadEndsHolding(t) ==
    /\ t \in Orphans \ stuck /\ threads' = threads \ {t} /\ UNCHANGED readers
    /\ UNCHANGED <<store, writer, stuck, calls, budget>>
ThreadEnds(t) ==
    /\ t \in Orphans \ stuck /\ threads' = threads \ {t}
    /\ readers' = IF t[3] = "palace" THEN readers \ {<<t[1], t[2]>>} ELSE readers
    /\ UNCHANGED <<store, writer, stuck, calls, budget>>

----------------------------------------------------------------------------
(* The owner's command: the graph first, then the drawers.                  *)

ForgetArrives ==
    /\ writer = "idle" /\ writer' = "graphwait"
    /\ UNCHANGED <<store, readers, threads, stuck, calls, budget>>

\* SpaceLock.acquire_write
WriterEnters ==
    /\ readers = {}
    /\ \/ writer = "graphwait" /\ writer' = "graph"
       \/ writer = "drawerwait" /\ writer' = "drawer"
    /\ UNCHANGED <<store, readers, threads, stuck, calls, budget>>

\* _forget_by_sync: a hard forget must empty the write-ahead log, which a thread
\* that still reads it can prevent; the command then fails and is delivered again
ForgetInGraph ==
    /\ writer = "graph"
    /\ fact' = [s \in Statements |-> IF s \notin Shadow THEN fact[s]
                                     ELSE IF hard THEN "gone" ELSE "ended"]
    /\ \/ writer' = "drawerwait"
       \/ hard /\ (\E t \in threads : t[3] = "graph") /\ writer' = "graphwait"
    /\ UNCHANGED <<mark, readers, threads, stuck, calls, budget>>

\* delete_many, archive_many
ForgetDrawers ==
    /\ writer = "drawer" /\ writer' = "done"
    /\ mark' = [d \in Drawers |-> IF d \notin Shadow THEN mark[d]
                                  ELSE IF hard THEN "gone" ELSE "archived"]
    /\ UNCHANGED <<fact, readers, threads, stuck, calls, budget>>
ForgetSteps == WriterEnters \/ ForgetInGraph \/ ForgetDrawers

----------------------------------------------------------------------------
LegSteps(c, l) == Enter(c, l) \/ ReadEnds(c, l) \/ GraphTimeout(c, l)
CallSteps(c) ==
    \/ VectorJoined(c) \/ GraphJoined(c) \/ ThemesArrive(c) \/ Deadline(c) \/ Gathered(c)
    \/ \E l \in Legs : LegSteps(c, l)
Run == (\E c \in Calls : CallSteps(c)) \/ \E t \in threads : ThreadEnds(t)

Next ==
    \/ Run \/ ForgetArrives \/ ForgetSteps
    \/ \E c \in Calls : Begin(c) \/ CallerCancels(c)
    \/ \E c \in Calls, l \in Legs : ReadFails(c, l) \/ Hangs(c, l)

Spec == Init /\ [][Next]_vars /\ WF_vars(Run) /\ WF_vars(ForgetSteps)


----------------------------------------------------------------------------
TypeOK ==
    /\ mark \in [Drawers -> {"live", "archived", "gone"}]
    /\ fact \in [Statements -> {"valid", "ended", "gone"}]
    /\ writer \in {"idle", "graphwait", "graph", "drawerwait", "drawer", "done"}
    /\ readers \subseteq Calls \X Legs
    /\ threads \subseteq Calls \X Legs \X {"graph", "palace"} /\ stuck \subseteq threads
    /\ \A c \in Calls, l \in Legs : leg[c][l].io \in {"none", "queued", "in"}

Returned(c) == leg[c]["main"].at = "returned"

(* Whatever channel it came by - the vector search, the themes, the graph's *)
(* two seeds - an answer holds nothing the caller may not see, and nothing  *)
(* that was already forgotten when the recall began, however the owner's    *)
(* command interleaves with it.                                             *)
OnlyVisible ==
    \A c \in Calls : Returned(c) =>
        /\ \A d \in ToSet(answer[c].rows) :
              /\ d \notin start[c] /\ Row[d].wing # "Wing_Privacy"
              /\ MayRead(c, Row[d].audience) /\ DeviceOk(c, d)
        /\ \A s \in ToSet(answer[c].facts) : s \notin start[c] /\ Readable(c, s)

WindowHolds(c) ==
    \A ws \in {Wings} \cup {{w} : w \in Wings} :
        Cardinality({d \in Drawers : Row[d].wing \in ws}) <= Limit(c, ws)

(* An empty answer that is not called degraded is a true statement about    *)
(* the store: when it was searched it held nothing this caller could see    *)
(* (public_recall._record_recall), as long as the vector index can be read  *)
(* and the palace is no larger than the search window.                      *)
EmptyHonest ==
    \A c \in Calls :
        Returned(c) /\ ~answer[c].degraded /\ answer[c].rows = <<>> /\ index = "healthy"
            /\ WindowHolds(c) => seen[c] = {}

(* public_recall._record_recall without those two conditions: "empty is a   *)
(* correct answer about a space with nothing relevant, degraded is us       *)
(* failing to look properly".                                               *)
EmptyMeansNothing ==
    \A c \in Calls :
        Returned(c) /\ ~answer[c].degraded /\ answer[c].rows = <<>> => seen[c] = {}

(* No thread is inside the palace while the owner's command changes it, not *)
(* even one whose caller timed out long ago (LockedBackend._serialized).    *)
PalaceExclusive == writer = "drawer" => \A t \in threads : t[3] # "palace"

(* A voice recall is answered, even if a worker thread never returns        *)
(* (LiveKitRecallService: hard timeout, never raises).                      *)
VoiceAnswered == \A c \in Calls : Request[c].voice => (Running(c) ~> Returned(c))

(* A forget finishes although recalls keep abandoning reads of the graph,   *)
(* unless one of their threads never ends.                                  *)
ForgetLands == (writer = "graphwait") ~> (writer = "done" \/ stuck # {})
=============================================================================
