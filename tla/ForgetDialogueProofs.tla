------------------------ MODULE ForgetDialogueProofs ------------------------
(***************************************************************************)
(* What TLAPS proves of the forget dialogue, for any palace, limits, plans *)
(* of previews and confirmations, and faults: NeverWidens, PreviewComplete,*)
(* AppliedGone and OwnerRetrySafe, of ForgetDialogue and, since its reads  *)
(* take nothing, of OwnerReading.                                          *)
(*                                                                         *)
(* DialogueInv is inductive.  A command in the stream carries the body of  *)
(* somebody who confirmed a preview that is shown (CommandsMeant); what    *)
(* the worker has resolved stays within that body and covers it, but for   *)
(* what is already buried (WorkerWithin, WorkerDone); a drawer that was    *)
(* shown is still there or its assertion is buried (FoundOrBuried); a scan *)
(* has every match it began with found or still ahead (ScanAhead).         *)
(***************************************************************************)
EXTENDS OwnerReading, WellFoundedInduction, SequenceTheorems, TLAPS

----------------------------------------------------------------------------
(* The types.                                                               *)

Surfaces == {"owner", "tool", "service", "source"}
Bodies == [drawers : SUBSET Drawers, promises : SUBSET Commitments,
           sources : SUBSET Sources, hard : BOOLEAN]
Copies == [id : Ids, body : Bodies, deliveries : Nat, state : {"queued", "held", "acked"}]
Letters == [id : Ids, body : Bodies]
Statuses == {"none", "accepted", "retrying", "applied", "failed"}
Previews ==
    [pc : {"new", "scan", "overflow", "shown", "not_found", "too_broad", "failed", "lost"},
     list : {"rows", "promises"}, offset : Nat, found : SUBSET (Drawers \cup Commitments),
     there : SUBSET (Drawers \cup Commitments), moved : BOOLEAN]
Tokens ==
    [key : Nat, found : SUBSET (Drawers \cup Commitments), action : {"none", "archive", "delete"},
     space : Spaces \cup {Nothing}, expired : BOOLEAN]
Working == {"resolve", "tombstone", "erase", "promises", "redact", "record"}
WorkerStates ==
    [pc : Working \cup {"idle", "ack"}, copy : Nat, facts : SUBSET Assertions, drawers : SUBSET Drawers]

MemoryTyped ==
    /\ rows \in Seq(Drawers) /\ hidden \subseteq Drawers
    /\ tomb \subseteq Assertions /\ redacted \subseteq Sources
    /\ promise \in [Commitments -> {"none", "archive", "delete"}]
DialogueTyped ==
    /\ preview \in [Dialogues -> Previews]
    /\ token \in [Dialogues -> Tokens] /\ secret \in Nat
    /\ click \in [Clicks -> [pc : {"new", "publish", "accept", "wait", "done"},
                             told : Statuses \cup {"nothing", "refused"}]]
CommandTyped ==
    /\ status \in [Ids -> Statuses]
    /\ stream \in Seq(Copies) /\ dead \subseteq Letters
    /\ worker \in WorkerStates
    /\ worker.pc # "idle" => worker.copy \in DOMAIN stream
    /\ worker.pc = "idle" => worker.copy = 0
LeftTyped ==
    /\ left \in [active : SUBSET (Dialogues \cup Clicks), coming : SUBSET (Drawers \ ToSet(Stored)),
                 faults : Nat, crashes : Nat, expiries : Nat, replays : Nat, calm : BOOLEAN,
                 reads : {left.reads}]
    /\ left.calm => left.faults = 0 /\ left.crashes = 0
DialogueTypeOK == MemoryTyped /\ DialogueTyped /\ CommandTyped /\ LeftTyped

----------------------------------------------------------------------------
(* The invariant.                                                           *)

\* Nothing of an assertion can come back: it is forgotten, and no drawer of it
\* that was stored at first is left.
Initially == ToSet(rows) \cap ToSet(Stored)
Buried(a) == a \in tomb /\ \A y \in Initially : Of[y] # a

\* What a body is about.
Touched(b) ==
    {Of[x] : x \in b.drawers} \cup b.promises
    \cup {x \in Assertions \cup Commitments : Origin[x] \in b.sources}

\* A click that names a source, or a preview that is shown and so stays as it is.
Knows(k) == Plan[k].surface = "source" \/ Shown(k)

\* A token says what its preview shows.
TokenSays ==
    \A d \in Dialogues : preview[d].pc = "shown" =>
        token[d].found = preview[d].found /\ token[d].action = Plan[d].action

\* What a preview has found can be forgotten; it is there, or buried.
FoundOrBuried ==
    \A d \in Dialogues : \A x \in preview[d].found \cap Drawers :
        Of[x] \in Assertions /\ (x \in ToSet(rows) \/ Buried(Of[x]))

ClicksKnow == \A k \in Clicks : click[k].pc \in {"publish", "accept", "wait"} => Knows(k)

\* A command carries what somebody meant.
Carries(k, id, body) == Knows(k) /\ id = RequestId(k) /\ body = Body(k)
CommandsMeant ==
    /\ \A m \in DOMAIN stream : \E k \in Clicks : Carries(k, stream[m].id, stream[m].body)
    /\ \A e \in dead : \E k \in Clicks : Sent(k) /\ Carries(k, e.id, e.body)

\* Between the resolution and the erasure: what is to be forgotten is within the
\* command, and covers it but for what is buried.
WorkerWithin ==
    LET b == Copy.body
    IN  worker.pc \in {"tombstone", "erase"} =>
            /\ worker.facts \subseteq Touched(b)
            /\ \A x \in worker.drawers : x \in b.drawers \/ Of[x] \in worker.facts
            /\ \A a \in Touched(b) \cap Assertions : a \in worker.facts \/ Buried(a)
            /\ \A x \in Initially : Of[x] \in worker.facts => x \in worker.drawers

\* How far the command at hand is carried out.
AssertionsGone(b) ==
    /\ Touched(b) \cap Assertions \subseteq tomb
    /\ \A y \in Initially : Of[y] \in Touched(b) \cap Assertions => ~b.hard /\ y \in hidden
CommitmentsGone(b) ==
    /\ \A c \in Touched(b) \cap Commitments : promise[c] # "none"
    /\ \A y \in Initially : Of[y] \in Touched(b) \cap Commitments => ~b.hard /\ y \in hidden
WorkerDone ==
    LET b == Copy.body
    IN  /\ worker.pc = "erase" => worker.facts \subseteq tomb
        /\ worker.pc \in {"promises", "redact", "record"} => AssertionsGone(b)
        /\ worker.pc \in {"redact", "record"} => CommitmentsGone(b)
        /\ worker.pc = "record" => b.sources \subseteq redacted

\* A command that was applied is not carried out again, and has been in full.
Gone(k) ==
    /\ Meant(k) \cap Assertions \subseteq tomb
    /\ \A c \in Meant(k) \cap Commitments : promise[c] # "none"
    /\ \A x \in Initially : Of[x] \in Meant(k) => ~Hard(k) /\ x \in hidden
    /\ Plan[k].surface = "source" => Plan[k].on \in redacted
AppliedOnce ==
    /\ worker.pc \in Working => status[Copy.id] # "applied"
    /\ \A k \in Clicks : status[RequestId(k)] = "applied" => Knows(k) /\ Gone(k)
    /\ \A k \in Clicks : click[k].told = "applied" => Knows(k) /\ Gone(k)

\* Whatever is forgotten was meant by somebody who sent it.
Means(k, x) == Sent(k) /\ Knows(k) /\ x \in Meant(k)
ForgottenMeant ==
    /\ \A a \in tomb : \E k \in Clicks : Means(k, a)
    /\ \A c \in Commitments : promise[c] # "none" =>
           \E k \in Clicks : Means(k, c) /\ (promise[c] = "delete" => Hard(k))
    /\ \A i \in DOMAIN Stored : Stored[i] \notin ToSet(rows) =>
           \E k \in Clicks : Means(k, Of[Stored[i]]) /\ Hard(k)

\* The rows that a scan has still to read.
Ahead(p) ==
    {Listing(p.list)[i] : i \in {j \in DOMAIN Listing(p.list) : j > p.offset}}
    \cup (IF p.list = "rows" THEN ToSet(Listing("promises")) ELSE {})
ScanAhead ==
    /\ \A d \in Dialogues :
           LET p == preview[d]
           IN  /\ p.pc = "new" => p.found = {} /\ p.there = {}
               /\ p.pc = "scan" => p.offset < MaxScan
               /\ p.pc \in {"scan", "overflow"} /\ ~p.moved =>
                      p.there \subseteq p.found \cup Candidates(Ahead(p))
    /\ PreviewComplete

\* Without faults, a preview that its owner alone confirms is whole until the
\* one command for it has erased it.
OwnerUndisturbed ==
    \A d \in Dialogues : left.calm /\ Alone(d) =>
        /\ status[d] # "failed" /\ \A e \in dead : e.id # d
        /\ status[d] # "applied" /\ worker.pc \notin {"promises", "redact", "record"} =>
               preview[d].found \cap Drawers \subseteq ToSet(rows)

DialogueInv ==
    /\ DialogueTypeOK
    /\ TokenSays /\ FoundOrBuried /\ ClicksKnow /\ CommandsMeant
    /\ WorkerWithin /\ WorkerDone /\ AppliedOnce /\ ForgottenMeant
    /\ ScanAhead /\ OwnerUndisturbed

----------------------------------------------------------------------------
(* Induction over the naturals, for a set of them: every set of naturals    *)
(* has a least element.                                                     *)

\* A set of naturals has a least element, since < is well founded.
LEMMA LeastNatural ==
  ASSUME NEW T \in SUBSET Nat, T # {}
  PROVE  \E x \in T : \A y \in T : x <= y
<1>1. IsWellFoundedOn(OpToRel(<,Nat), Nat)  BY NatLessThanWellFounded
<1>2. PICK x \in T : \A y \in T : ~ (<<y, x>> \in OpToRel(<, Nat))
  BY <1>1, WFMin
<1>3. \A y \in T : ~ (y < x) BY <1>2 DEF OpToRel
<1>. QED BY <1>3

\* A set that has 0 and with every natural the next one has them all.
LEMMA SetInduction ==
  ASSUME NEW T \in SUBSET Nat, 0 \in T, \A n \in T : n + 1 \in T
  PROVE  T = Nat
<1>1. SUFFICES ASSUME Nat \ T # {} PROVE FALSE OBVIOUS
<1>2. PICK x \in Nat \ T : \A y \in Nat \ T : x <= y BY <1>1, LeastNatural
<1>3. x # 0 /\ x - 1 \in Nat BY <1>2
<1>4. x - 1 \in T BY <1>2, <1>3
<1>5. (x - 1) + 1 \in T BY <1>4
<1>. QED BY <1>2, <1>5

----------------------------------------------------------------------------
(* Without, the listing that a deletion leaves.                             *)

KeptIs(s, gone, f, n) ==
    f = [i \in 0 .. n |->
            IF i = 0 THEN <<>>
            ELSE IF s[i] \in gone THEN f[i - 1] ELSE Append(f[i - 1], s[i])]

\* The recursion of Without defines a function, up to any length.
LEMMA KeptExists ==
  ASSUME NEW s, NEW gone
  PROVE  \A n \in Nat : \E f : KeptIs(s, gone, f, n)
<1> DEFINE T == {n \in Nat : \E f : KeptIs(s, gone, f, n)}
<1>1. 0 \in T
  <2>1. KeptIs(s, gone, [i \in 0 .. 0 |-> <<>>], 0) BY DEF KeptIs
  <2>. QED BY <2>1
<1>2. ASSUME NEW n \in T PROVE n + 1 \in T
  <2>1. PICK f : KeptIs(s, gone, f, n) OBVIOUS
  <2>2. n \in Nat OBVIOUS
  <2> DEFINE last == IF s[n+1] \in gone THEN f[n] ELSE Append(f[n], s[n+1])
             g == [i \in 0 .. (n + 1) |-> IF i <= n THEN f[i] ELSE last]
  <2>3. ASSUME NEW i \in 0 .. (n + 1)
        PROVE  g[i] = IF i = 0 THEN <<>>
                      ELSE IF s[i] \in gone THEN g[i - 1] ELSE Append(g[i - 1], s[i])
    <3>1. CASE i <= n
      <4>1. i \in 0 .. n BY <3>1, <2>2
      <4>2. i = 0 \/ i - 1 \in 0 .. n BY <4>1, <2>2
      <4>3. i # 0 => g[i - 1] = f[i - 1] BY <4>2, <2>2, <4>1
      <4>4. g[i] = f[i] BY <4>1, <2>2, <3>1
      <4>. HIDE DEF g
      <4>5. f[i] = IF i = 0 THEN <<>>
                   ELSE IF s[i] \in gone THEN f[i - 1] ELSE Append(f[i - 1], s[i])
        BY <4>1, <2>1 DEF KeptIs
      <4>. QED BY <4>3, <4>4, <4>5
    <3>2. CASE i = n + 1
      <4>1. g[i] = last BY <3>2, <2>2
      <4>2. g[i - 1] = f[n] BY <3>2, <2>2
      <4>. HIDE DEF g
      <4>. QED BY <4>1, <4>2, <3>2, <2>2
    <3>. QED BY <3>1, <3>2, <2>2
  <2>4. g = [i \in 0 .. (n + 1) |->
                IF i = 0 THEN <<>>
                ELSE IF s[i] \in gone THEN g[i - 1] ELSE Append(g[i - 1], s[i])]
    <3>1. g = [i \in 0 .. (n + 1) |-> g[i]] OBVIOUS
    <3>. HIDE DEF g
    <3>. QED BY <3>1, <2>3, Zenon
  <2>. HIDE DEF g
  <2>5. KeptIs(s, gone, g, n + 1) BY <2>4 DEF KeptIs
  <2>. QED BY <2>5, <2>2
<1>3. T = Nat
  <2>. HIDE DEF T
  <2>1. T \in SUBSET Nat BY DEF T
  <2>. QED BY <2>1, <1>1, <1>2, SetInduction
<1>. QED BY <1>3

\* Without is the last value of that function.
LEMMA WithoutDef ==
  ASSUME NEW s, Len(s) \in Nat, NEW gone
  PROVE  \E f : KeptIs(s, gone, f, Len(s)) /\ Without(s, gone) = f[Len(s)]
<1>1. \E f : KeptIs(s, gone, f, Len(s)) BY KeptExists
<1> DEFINE K == CHOOSE f : KeptIs(s, gone, f, Len(s))
<1>2. KeptIs(s, gone, K, Len(s)) BY <1>1
<1>3. Without(s, gone) = K[Len(s)] BY DEF Without, KeptIs
<1>. QED BY <1>2, <1>3

\* It lists exactly the elements that are not gone, and is the same listing if
\* there are none that are.
LEMMA WithoutListing ==
  ASSUME NEW A, NEW s \in Seq(A), NEW gone
  PROVE  /\ Without(s, gone) \in Seq(A)
         /\ ToSet(Without(s, gone)) = ToSet(s) \ gone
         /\ ToSet(s) \cap gone = {} => Without(s, gone) = s
<1>1. PICK f : KeptIs(s, gone, f, Len(s)) /\ Without(s, gone) = f[Len(s)] BY WithoutDef
<1>2. Len(s) \in Nat /\ DOMAIN s = 1 .. Len(s) OBVIOUS
<1> DEFINE Good(n) == /\ f[n] \in Seq(A)
                      /\ \A x : (\E j \in DOMAIN f[n] : f[n][j] = x)
                                <=> (\E j \in 1 .. n : s[j] = x /\ x \notin gone)
                      /\ (\A j \in 1 .. n : s[j] \notin gone) =>
                             Len(f[n]) = n /\ \A j \in 1 .. n : f[n][j] = s[j]
           T == {n \in Nat : n <= Len(s) => Good(n)}
<1>. HIDE DEF Good
<1>3. 0 \in T
  <2>1. f[0] = <<>> BY <1>1, <1>2 DEF KeptIs
  <2>2. Good(0) BY <2>1 DEF Good
  <2>. QED BY <2>2
<1>4. ASSUME NEW n \in T PROVE n + 1 \in T
  <2>1. n \in Nat OBVIOUS
  <2>2. SUFFICES ASSUME n + 1 <= Len(s) PROVE Good(n + 1)
    BY <2>1
  <2>3. Good(n) BY <2>2, <2>1, <1>2
  <2>4. f[n+1] = IF s[n+1] \in gone THEN f[n] ELSE Append(f[n], s[n+1])
    <3>1. n + 1 \in 0 .. Len(s) /\ n + 1 # 0 /\ (n + 1) - 1 = n BY <2>1, <2>2, <1>2
    <3>. QED BY <3>1, <1>1 DEF KeptIs
  <2>5. s[n+1] \in A BY <2>1, <2>2, <1>2
  <2>. HIDE <1>1 DEF T
  <2>6. \A j : j \in 1 .. (n+1) <=> j \in 1 .. n \/ j = n + 1 BY <2>1
  <2>7. CASE s[n+1] \in gone
    BY <2>7, <2>3, <2>4, <2>6, <2>1 DEF Good
  <2>8. CASE s[n+1] \notin gone
    <3>1. f[n+1] = Append(f[n], s[n+1]) BY <2>8, <2>4
    <3>2. /\ f[n+1] \in Seq(A) /\ Len(f[n+1]) = Len(f[n]) + 1
          /\ f[n+1][Len(f[n]) + 1] = s[n+1]
          /\ \A j \in 1 .. Len(f[n]) : f[n+1][j] = f[n][j]
      BY <3>1, <2>3, <2>5, AppendProperties DEF Good
    <3>3. /\ DOMAIN f[n] = 1 .. Len(f[n]) /\ Len(f[n]) \in Nat
          /\ DOMAIN f[n+1] = 1 .. (Len(f[n]) + 1)
      BY <3>2, <2>3 DEF Good
    <3>4. \A x : (\E j \in DOMAIN f[n+1] : f[n+1][j] = x)
                 <=> ((\E j \in DOMAIN f[n] : f[n][j] = x) \/ x = s[n+1])
      <4>1. \A j : j \in DOMAIN f[n+1] <=> j \in DOMAIN f[n] \/ j = Len(f[n]) + 1 BY <3>3
      <4>2. \A j \in DOMAIN f[n] : f[n+1][j] = f[n][j] BY <3>2, <3>3
      <4>. QED BY <4>1, <4>2, <3>2
    <3>5. \A x : (\E j \in 1 .. (n+1) : s[j] = x /\ x \notin gone)
                 <=> ((\E j \in 1 .. n : s[j] = x /\ x \notin gone) \/ x = s[n+1])
      BY <2>6, <2>8
    <3>6. ASSUME \A j \in 1 .. (n+1) : s[j] \notin gone
          PROVE  Len(f[n+1]) = n + 1 /\ \A j \in 1 .. (n+1) : f[n+1][j] = s[j]
      <4>1. Len(f[n]) = n /\ \A j \in 1 .. n : f[n][j] = s[j] BY <3>6, <2>6, <2>3 DEF Good
      <4>. QED BY <4>1, <3>2, <2>6
    <3>. QED BY <3>2, <3>4, <3>5, <3>6, <2>3 DEF Good
  <2>. QED BY <2>7, <2>8
<1>5. T = Nat
  <2>. HIDE DEF T
  <2>1. T \in SUBSET Nat BY DEF T
  <2>. QED BY <2>1, <1>3, <1>4, SetInduction
<1>6. Good(Len(s)) BY <1>5, <1>2
<1>. DEFINE w == Without(s, gone)
<1>7. w = f[Len(s)] BY <1>1
<1>8. w \in Seq(A) BY <1>6, <1>7 DEF Good
<1>9. ToSet(w) = ToSet(s) \ gone
  <2>1. \A x : (\E j \in DOMAIN w : w[j] = x) <=> (\E j \in 1 .. Len(s) : s[j] = x /\ x \notin gone)
    BY <1>6, <1>7 DEF Good
  <2>. HIDE DEF w
  <2>. QED BY <2>1, <1>2 DEF ToSet
<1>10. ASSUME ToSet(s) \cap gone = {} PROVE w = s
  <2>1. \A j \in 1 .. Len(s) : s[j] \notin gone BY <1>10, <1>2 DEF ToSet
  <2>2. Len(w) = Len(s) /\ \A j \in 1 .. Len(s) : w[j] = s[j] BY <2>1, <1>6, <1>7 DEF Good
  <2>. HIDE DEF w
  <2>. QED BY <2>2, <1>8, SeqEqual
<1>. QED BY <1>8, <1>9, <1>10

----------------------------------------------------------------------------
(* What no step takes back.                                                 *)

ShownKept ==
    \A d \in Dialogues : preview[d].pc = "shown" =>
        /\ preview'[d] = preview[d]
        /\ token'[d].found = token[d].found /\ token'[d].action = token[d].action
MemoryKept ==
    /\ Initially' \subseteq Initially
    /\ tomb \subseteq tomb' /\ hidden \subseteq hidden' /\ redacted \subseteq redacted'
    /\ \A c \in Commitments : promise[c] # "none" => promise'[c] # "none"
StreamKept ==
    \A m \in DOMAIN stream :
        m \in DOMAIN stream' /\ stream'[m].id = stream[m].id /\ stream'[m].body = stream[m].body

\* Every click is on a preview or on a source, and has an id of its own.
LEMMA PlanOf ==
  ASSUME NEW k \in Clicks
  PROVE  /\ Plan[k].surface = "source" => Plan[k].on \in Sources
         /\ Plan[k].surface # "source" => Plan[k].on \in Dialogues
         /\ Plan[k].surface \in Surfaces
         /\ RequestId(k) \in Ids
BY PlanAssumption DEF RequestId, Surfaces, Ids

\* What is known of a click stays: what it means, and what its command carries.
LEMMA KnowsKept ==
  ASSUME ShownKept, NEW k \in Clicks, Knows(k)
  PROVE  Knows(k)' /\ Meant(k)' = Meant(k) /\ Body(k)' = Body(k)
<1>1. CASE Plan[k].surface = "source"
  BY <1>1 DEF Knows, Meant, Body
<1>2. CASE Plan[k].surface # "source"
  <2>1. Plan[k].on \in Dialogues /\ preview[Plan[k].on].pc = "shown"
    BY <1>2, PlanOf DEF Knows, Shown
  <2>2. /\ preview'[Plan[k].on] = preview[Plan[k].on]
        /\ token'[Plan[k].on].found = token[Plan[k].on].found
        /\ token'[Plan[k].on].action = token[Plan[k].on].action
    BY <2>1 DEF ShownKept
  <2>. QED BY <1>2, <2>1, <2>2 DEF Knows, Shown, Meant, Body
<1>. QED BY <1>1, <1>2

LEMMA SentKept ==
  ASSUME StreamKept, NEW k, Sent(k)
  PROVE  Sent(k)'
BY DEF StreamKept, Sent, RequestId

LEMMA MeansKept ==
  ASSUME ShownKept, StreamKept, NEW k \in Clicks, NEW x, Means(k, x)
  PROVE  Means(k, x)'
<1>1. Sent(k) /\ Knows(k) /\ x \in Meant(k) BY DEF Means
<1>2. Sent(k)' BY <1>1, SentKept
<1>3. Knows(k)' /\ Meant(k)' = Meant(k) BY <1>1, KnowsKept
<1>. QED BY <1>1, <1>2, <1>3 DEF Means

LEMMA BuriedKept ==
  ASSUME MemoryKept, NEW a, Buried(a)
  PROVE  Buried(a)'
BY DEF MemoryKept, Buried

LEMMA GoneKept ==
  ASSUME ShownKept, MemoryKept, NEW k \in Clicks, Knows(k), Gone(k)
  PROVE  Knows(k)' /\ Gone(k)'
<1>1. Knows(k)' /\ Meant(k)' = Meant(k) BY KnowsKept
<1>. QED BY <1>1 DEF Gone, MemoryKept, Hard

\* A shown preview says to its clicks what their command carries.
LEMMA CarriedMeant ==
  ASSUME DialogueTypeOK, TokenSays, NEW k \in Clicks, Knows(k)
  PROVE  /\ Body(k) \in Bodies
         /\ Touched(Body(k)) = Meant(k) /\ Body(k).hard = Hard(k)
         /\ Plan[k].surface = "source" => Body(k).sources = {Plan[k].on} /\ Body(k).drawers = {}
         /\ Plan[k].surface # "source" =>
                Body(k).drawers = preview[Plan[k].on].found \cap Drawers
<1>1. CASE Plan[k].surface = "source"
  <2>1. Body(k) = [drawers |-> {}, promises |-> {}, sources |-> {Plan[k].on}, hard |-> TRUE]
    BY <1>1 DEF Body
  <2>2. Meant(k) = {x \in Assertions \cup Commitments : Origin[x] = Plan[k].on} BY <1>1 DEF Meant
  <2>3. Hard(k) = TRUE BY <1>1 DEF Hard
  <2>4. Plan[k].on \in Sources BY <1>1, PlanOf
  <2>. QED BY <1>1, <2>1, <2>2, <2>3, <2>4 DEF Bodies, Touched
<1>2. CASE Plan[k].surface # "source"
  <2> DEFINE d == Plan[k].on
             t == token[d]
  <2>1. d \in Dialogues /\ preview[d].pc = "shown" BY <1>2, PlanOf DEF Knows, Shown
  <2>2. t.found = preview[d].found /\ t.action = Plan[d].action BY <2>1 DEF TokenSays
  <2>3. Body(k) = [drawers |-> t.found \cap Drawers, promises |-> t.found \cap Commitments,
                   sources |-> {}, hard |-> t.action = "delete"]
    BY <1>2 DEF Body
  <2>4. Hard(k) = (Plan[d].action = "delete") BY <1>2 DEF Hard
  <2>5. preview[d].found \subseteq Drawers \cup Commitments
    BY <2>1 DEF DialogueTypeOK, DialogueTyped, Previews
  <2>6. Meant(k) = {IF x \in Drawers THEN Of[x] ELSE x : x \in preview[d].found} BY <1>2 DEF Meant
  <2>7. Touched(Body(k)) = {Of[x] : x \in preview[d].found \cap Drawers} \cup (preview[d].found \cap Commitments)
    BY <2>2, <2>3 DEF Touched
  <2>8. Touched(Body(k)) = Meant(k) BY <2>5, <2>6, <2>7, FormAssumption
  <2>. QED BY <1>2, <2>2, <2>3, <2>4, <2>8 DEF Bodies
<1>. QED BY <1>1, <1>2

----------------------------------------------------------------------------
(* The parts of the invariant, across a step that leaves them alone.        *)

NoneNewlyShown == \A d \in Dialogues : preview'[d].pc = "shown" => preview[d].pc = "shown"
SameFound == \A d \in Dialogues : preview'[d].found = preview[d].found
NoneRemoved == ToSet(rows) \subseteq ToSet(rows')

LEMMA TokenSaysFrame ==
  ASSUME TokenSays, ShownKept, NoneNewlyShown
  PROVE  TokenSays'
BY DEF TokenSays, ShownKept, NoneNewlyShown

LEMMA FoundFrame ==
  ASSUME FoundOrBuried, SameFound, NoneRemoved, MemoryKept
  PROVE  FoundOrBuried'
BY BuriedKept DEF FoundOrBuried, SameFound, NoneRemoved

InFlight == {"publish", "accept", "wait"}
LEMMA ClicksFrame ==
  ASSUME ClicksKnow, ShownKept,
         \A k \in Clicks : click'[k].pc \in InFlight => click[k].pc \in InFlight \/ Knows(k)
  PROVE  ClicksKnow'
BY KnowsKept DEF ClicksKnow, InFlight

LEMMA CarriesKept ==
  ASSUME ShownKept, NEW k \in Clicks, NEW id, NEW b, Carries(k, id, b)
  PROVE  Carries(k, id, b)'
BY KnowsKept DEF Carries, RequestId

LEMMA CommandsFrame ==
  ASSUME CommandsMeant, ShownKept, StreamKept,
         \A m \in DOMAIN stream' : m \in DOMAIN stream
             \/ \E k \in Clicks : Carries(k, stream'[m].id, stream'[m].body),
         \A e \in dead' : e \in dead \/ \E k \in Clicks : Sent(k) /\ Carries(k, e.id, e.body)
  PROVE  CommandsMeant'
<1>1. ASSUME NEW m \in DOMAIN stream'
      PROVE  \E k \in Clicks : Carries(k, stream[m].id, stream[m].body)'
  <2>1. PICK k \in Clicks : Carries(k, stream'[m].id, stream'[m].body)
    BY DEF CommandsMeant, StreamKept
  <2>. QED BY <2>1, KnowsKept DEF Carries, RequestId
<1>2. ASSUME NEW e \in dead'
      PROVE  \E k \in Clicks : Sent(k)' /\ Carries(k, e.id, e.body)'
  <2>1. PICK k \in Clicks : Sent(k) /\ Carries(k, e.id, e.body) BY DEF CommandsMeant
  <2>. QED BY <2>1, SentKept, CarriesKept
<1>. QED BY <1>1, <1>2 DEF CommandsMeant

LEMMA WorkerFrame ==
  ASSUME CommandTyped, WorkerWithin, WorkerDone, worker' = worker, StreamKept, MemoryKept
  PROVE  WorkerWithin' /\ WorkerDone'
<1>1. CASE worker.pc = "idle"
  BY <1>1 DEF WorkerWithin, WorkerDone
<1>2. CASE worker.pc # "idle"
  <2>1. Copy'.body = Copy.body BY <1>2 DEF CommandTyped, StreamKept, Copy
  <2> DEFINE b == Copy.body
  <2>2. ASSUME worker.pc \in {"tombstone", "erase"}
        PROVE  WorkerWithin'
    <3>1. /\ worker.facts \subseteq Touched(b)
          /\ \A x \in worker.drawers : x \in b.drawers \/ Of[x] \in worker.facts
          /\ \A a \in Touched(b) \cap Assertions : a \in worker.facts \/ Buried(a)
          /\ \A x \in Initially : Of[x] \in worker.facts => x \in worker.drawers
      BY <2>2 DEF WorkerWithin
    <3>2. \A a \in Touched(b) \cap Assertions : a \in worker.facts \/ Buried(a)'
      BY <3>1, BuriedKept
    <3>3. Touched(b)' = Touched(b) BY <2>1 DEF Touched
    <3>. QED BY <3>1, <3>2, <3>3, <2>1 DEF WorkerWithin, MemoryKept
  <2>3. WorkerWithin' BY <2>2 DEF WorkerWithin
  <2>4. AssertionsGone(b) => AssertionsGone(b)' BY <2>1 DEF AssertionsGone, MemoryKept, Touched
  <2>5. CommitmentsGone(b) => CommitmentsGone(b)' BY <2>1 DEF CommitmentsGone, MemoryKept, Touched
  <2>6. WorkerDone' BY <2>1, <2>4, <2>5 DEF WorkerDone, MemoryKept
  <2>. QED BY <2>3, <2>6
<1>. QED BY <1>1, <1>2

\* An idle worker, one that resolves and one that acknowledges know nothing.
LEMMA WorkerIdle ==
  ASSUME worker'.pc \in {"idle", "resolve", "ack"}
  PROVE  WorkerWithin' /\ WorkerDone'
BY DEF WorkerWithin, WorkerDone

LEMMA AppliedFrame ==
  ASSUME AppliedOnce, ShownKept, MemoryKept,
         worker'.pc \in Working => status'[Copy'.id] # "applied",
         \A k \in Clicks : status'[RequestId(k)] = "applied" => status[RequestId(k)] = "applied",
         \A k \in Clicks : click'[k].told = "applied" =>
             click[k].told = "applied" \/ status[RequestId(k)] = "applied"
  PROVE  AppliedOnce'
<1>1. \A k \in Clicks : RequestId(k)' = RequestId(k) BY DEF RequestId
<1>2. \A k \in Clicks : status'[RequestId(k)] = "applied" => Knows(k)' /\ Gone(k)'
  BY GoneKept DEF AppliedOnce
<1>3. \A k \in Clicks : click'[k].told = "applied" => Knows(k)' /\ Gone(k)'
  BY GoneKept DEF AppliedOnce
<1>. QED BY <1>1, <1>2, <1>3 DEF AppliedOnce

LEMMA MeantFrame ==
  ASSUME ForgottenMeant, ShownKept, StreamKept, NoneRemoved, tomb' = tomb, promise' = promise
  PROVE  ForgottenMeant'
<1>1. ASSUME NEW a \in tomb PROVE \E k \in Clicks : Means(k, a)'
  BY MeansKept DEF ForgottenMeant
<1>2. ASSUME NEW c \in Commitments, promise[c] # "none"
      PROVE  \E k \in Clicks : Means(k, c)' /\ (promise[c] = "delete" => Hard(k))
  BY <1>2, MeansKept DEF ForgottenMeant
<1>3. ASSUME NEW i \in DOMAIN Stored, Stored[i] \notin ToSet(rows)
      PROVE  \E k \in Clicks : Means(k, Of[Stored[i]])' /\ Hard(k)
  BY <1>3, MeansKept DEF ForgottenMeant
<1>4. \A k \in Clicks : Hard(k)' = Hard(k) BY DEF Hard
<1>. QED BY <1>1, <1>2, <1>3, <1>4 DEF ForgottenMeant, NoneRemoved

LEMMA ScanFrame ==
  ASSUME ScanAhead, UNCHANGED <<preview, rows, promise>>
  PROVE  ScanAhead'
<1>1. \A list : Listing(list)' = Listing(list) BY DEF Listing
<1>2. \A p : Ahead(p)' = Ahead(p) BY <1>1 DEF Ahead
<1>. QED BY <1>2 DEF ScanAhead, PreviewComplete

LEMMA AloneKept ==
  ASSUME StreamKept, NEW d, Alone(d)'
  PROVE  Alone(d)
BY SentKept DEF Alone

Erasing == {"promises", "redact", "record"}
LEMMA OwnerFrame ==
  ASSUME OwnerUndisturbed, StreamKept, SameFound, NoneRemoved, left'.calm = left.calm,
         \A e \in dead' : e \in dead,
         \A d \in Dialogues : left.calm /\ Alone(d) =>
             /\ status'[d] = "failed" => status[d] = "failed"
             /\ status'[d] # "applied" /\ worker'.pc \notin Erasing =>
                    status[d] # "applied" /\ worker.pc \notin Erasing
  PROVE  OwnerUndisturbed'
BY AloneKept DEF OwnerUndisturbed, SameFound, NoneRemoved, Erasing

----------------------------------------------------------------------------
(* The initial states.                                                      *)

LEMMA InitHolds ==
  ASSUME Init
  PROVE  DialogueInv
<1> USE DEF Init
<1>1. rows = Stored /\ Stored \in Seq(Drawers) BY FormAssumption
<1>2. left \in Scenarios OBVIOUS
<1>3. stream = <<>> /\ DOMAIN stream = {} OBVIOUS
<1>4. \A k \in Clicks : RequestId(k) \in Ids BY PlanOf
<1>5. DialogueTypeOK
  <2>1. MemoryTyped BY <1>1 DEF MemoryTyped
  <2>2. DialogueTyped
    <3>1. Fresh \in Previews BY DEF Fresh, Previews
    <3>2. NoToken \in Tokens BY DEF NoToken, Tokens
    <3>3. NewClick \in [pc : {"new", "publish", "accept", "wait", "done"},
                        told : Statuses \cup {"nothing", "refused"}]
      BY DEF NewClick
    <3>. QED BY <3>1, <3>2, <3>3 DEF DialogueTyped
  <2>3. CommandTyped
    <3>1. worker \in WorkerStates BY DEF IdleWorker, WorkerStates
    <3>2. stream \in Seq(Copies) BY <1>3
    <3>3. status \in [Ids -> Statuses] BY DEF Statuses
    <3>. QED BY <3>1, <3>2, <3>3 DEF CommandTyped, IdleWorker
  <2>4. LeftTyped BY <1>2, ScenarioAssumption DEF LeftTyped
  <2>. QED BY <2>1, <2>2, <2>3, <2>4 DEF DialogueTypeOK
<1>6. \A d \in Dialogues : preview[d] = Fresh OBVIOUS
<1>7. TokenSays /\ FoundOrBuried BY <1>6 DEF TokenSays, FoundOrBuried, Fresh
<1>8. ClicksKnow BY DEF ClicksKnow, NewClick
<1>9. CommandsMeant BY <1>3 DEF CommandsMeant
<1>10. WorkerWithin /\ WorkerDone BY DEF WorkerWithin, WorkerDone, IdleWorker
<1>11. AppliedOnce
  BY <1>4 DEF AppliedOnce, IdleWorker, Working, NewClick
<1>12. ForgottenMeant BY <1>1 DEF ForgottenMeant, ToSet
<1>13. ScanAhead BY <1>6 DEF ScanAhead, Fresh, PreviewComplete
<1>14. OwnerUndisturbed
  BY <1>6 DEF OwnerUndisturbed, Fresh, Ids
<1>. QED BY <1>5, <1>7, <1>8, <1>9, <1>10, <1>11, <1>12, <1>13, <1>14 DEF DialogueInv

----------------------------------------------------------------------------
(* The preview.                                                             *)

\* What a preview may offer: Candidates, matching or not.
Offered == {x \in Present : x \in Commitments \/ Of[x] \in Assertions}

\* What a step of a preview does.
PreviewMoves(d, p) ==
    /\ UNCHANGED <<previewOnly, left>>
    /\ preview[d].pc \in {"new", "scan", "overflow"}
    /\ preview' = [preview EXCEPT ![d] = p]
    /\ IF p.pc = "shown" THEN Issue(d, p.found) ELSE token' = token
    /\ p \in Previews /\ p.pc # "new"
    /\ \A x \in p.found : x \in preview[d].found \/ x \in Offered
    /\ p.pc = "scan" => p.offset < MaxScan
    /\ p.pc \in {"scan", "overflow"} /\ ~p.moved =>
           p.there \subseteq p.found \cup Candidates(Ahead(p))
    /\ p.pc \in {"shown", "not_found"} /\ ~p.moved => p.there \subseteq p.found

LEMMA PreviewMovesKeeps ==
  ASSUME DialogueInv, NEW d \in Dialogues, NEW p, PreviewMoves(d, p)
  PROVE  DialogueInv'
<1>a. p \in Previews BY DEF PreviewMoves
<1>b. p.found \in SUBSET (Drawers \cup Commitments) BY <1>a DEF Previews
<1> USE DEF PreviewMoves
<1>0. Offered \cap Drawers \subseteq {x \in ToSet(rows) : Of[x] \in Assertions}
  <2>1. {c \in ToSet(Promised) : promise[c] # "delete"} \subseteq Commitments
    BY FormAssumption DEF ToSet
  <2>. QED BY <2>1, FormAssumption DEF Offered, Present
<1>1. UNCHANGED <<memoryVars, secret, click, status, stream, worker, dead, left>>
  BY DEF previewOnly
<1>2. UNCHANGED <<rows, hidden, tomb, promise, redacted>> BY <1>1 DEF memoryVars
<1>3. DialogueTypeOK BY DEF DialogueInv
<1>4. preview \in [Dialogues -> Previews] /\ token \in [Dialogues -> Tokens]
  BY <1>3 DEF DialogueTypeOK, DialogueTyped
<1>5. preview'[d] = p /\ \A e \in Dialogues : e # d => preview'[e] = preview[e] BY <1>4
<1>6. \A e \in Dialogues : e # d => token'[e] = token[e] BY <1>4 DEF Issue
<1>7. p.pc = "shown" =>
        token'[d] = [key |-> secret, found |-> p.found, action |-> Plan[d].action,
                     space |-> Plan[d].space, expired |-> FALSE]
  BY <1>4 DEF Issue
<1>8. ShownKept BY <1>5, <1>6 DEF ShownKept
<1>9. MemoryKept BY <1>2 DEF MemoryKept, Initially
<1>10. StreamKept BY <1>1 DEF StreamKept
<1>11. DialogueTypeOK'
  <2>1. Plan[d].action \in {"archive", "delete"} /\ Plan[d].space \in Spaces BY PlanAssumption
  <2>2. secret \in Nat BY <1>3 DEF DialogueTypeOK, DialogueTyped
  <2>4. ASSUME p.pc = "shown" PROVE token'[d] \in Tokens
    <3>1. token'[d] = [key |-> secret, found |-> p.found, action |-> Plan[d].action,
                       space |-> Plan[d].space, expired |-> FALSE]
      BY <2>4, <1>7
    <3>. HIDE DEF PreviewMoves
    <3>. QED BY <3>1, <1>b, <2>1, <2>2 DEF Tokens
  <2>5. token' \in [Dialogues -> Tokens] BY <1>4, <1>7, <2>4 DEF Issue
  <2>6. preview' \in [Dialogues -> Previews] BY <1>4
  <2>7. DialogueTyped' BY <1>1, <1>3, <2>5, <2>6 DEF DialogueTypeOK, DialogueTyped
  <2>8. MemoryTyped' BY <1>2, <1>3 DEF DialogueTypeOK, MemoryTyped
  <2>9. CommandTyped' BY <1>1, <1>3 DEF DialogueTypeOK, CommandTyped
  <2>10. LeftTyped' BY <1>1, <1>3 DEF DialogueTypeOK, LeftTyped
  <2>. QED BY <2>7, <2>8, <2>9, <2>10 DEF DialogueTypeOK
<1>12. TokenSays'
  BY <1>5, <1>6, <1>7, <1>8 DEF DialogueInv, TokenSays
<1>13. FoundOrBuried'
  <2>1. ASSUME NEW x \in p.found \cap Drawers
        PROVE  Of[x] \in Assertions /\ (x \in ToSet(rows) \/ Buried(Of[x]))
    <3>1. CASE x \in preview[d].found BY <3>1 DEF DialogueInv, FoundOrBuried
    <3>2. CASE x \in Offered
      BY <3>2, <1>0
    <3>. QED BY <3>1, <3>2
  <2>2. \A a : Buried(a)' = Buried(a) BY <1>2 DEF Buried, Initially
  <2>. QED BY <2>1, <2>2, <1>2, <1>5 DEF DialogueInv, FoundOrBuried
<1>14. ClicksKnow' BY <1>1, <1>8, ClicksFrame DEF DialogueInv
<1>15. CommandsMeant' BY <1>1, <1>8, <1>10, CommandsFrame DEF DialogueInv
<1>16. WorkerWithin' /\ WorkerDone'
  BY <1>1, <1>3, <1>9, <1>10, WorkerFrame DEF DialogueInv, DialogueTypeOK
<1>17. AppliedOnce'
  <2>1. Copy' = Copy BY <1>1 DEF Copy
  <2>2. worker'.pc \in Working => status'[Copy'.id] # "applied"
    BY <1>1, <2>1 DEF DialogueInv, AppliedOnce
  <2>. QED BY <1>1, <1>8, <1>9, <2>2, AppliedFrame DEF DialogueInv
<1>18. ForgottenMeant'
  BY <1>2, <1>8, <1>10, MeantFrame DEF DialogueInv, NoneRemoved
<1>19. ScanAhead'
  <2>1. \A list : Listing(list)' = Listing(list) BY <1>2 DEF Listing
  <2>2. \A q : Ahead(q)' = Ahead(q) BY <2>1 DEF Ahead
  <2>3. ScanAhead BY DEF DialogueInv
  <2>. QED BY <2>2, <2>3, <1>5 DEF ScanAhead, PreviewComplete
<1>20. OwnerUndisturbed'
  <2>1. \A e \in Dialogues : Alone(e)' => Alone(e) BY <1>10, AloneKept
  <2>2. ASSUME left.calm, Alone(d), status[d] # "applied",
               worker.pc \notin {"promises", "redact", "record"}
        PROVE  p.found \cap Drawers \subseteq ToSet(rows)
    <3>1. preview[d].found \cap Drawers \subseteq ToSet(rows)
      BY <2>2 DEF DialogueInv, OwnerUndisturbed
    <3>. QED BY <3>1, <1>0
  <2>. QED BY <2>1, <2>2, <1>1, <1>2, <1>5 DEF DialogueInv, OwnerUndisturbed
<1>. QED BY <1>11, <1>12, <1>13, <1>14, <1>15, <1>16, <1>17, <1>18, <1>19, <1>20 DEF DialogueInv

\* The candidates of a listing are those of the realm.
LEMMA ListingPresent ==
  ASSUME MemoryTyped
  PROVE  /\ rows \in Seq(Drawers)
         /\ Listing("promises") \in Seq(Commitments)
         /\ ToSet(Listing("rows")) = ToSet(rows)
         /\ ToSet(Listing("promises")) = {c \in ToSet(Promised) : promise[c] # "delete"}
         /\ Present = ToSet(Listing("rows")) \cup ToSet(Listing("promises"))
<1> DEFINE deleted == {c \in Commitments : promise[c] = "delete"}
<1>1. rows \in Seq(Drawers) BY DEF MemoryTyped
<1>2. Promised \in Seq(Commitments) BY FormAssumption
<1>3. Listing("rows") = rows /\ Listing("promises") = Without(Promised, deleted) BY DEF Listing
<1>4. /\ Listing("promises") \in Seq(Commitments)
      /\ ToSet(Listing("promises")) = ToSet(Promised) \ deleted
  BY <1>2, <1>3, WithoutListing
<1>5. ToSet(Promised) \subseteq Commitments BY <1>2 DEF ToSet
<1>6. ToSet(Promised) \ deleted = {c \in ToSet(Promised) : promise[c] # "delete"} BY <1>5
<1>. QED BY <1>1, <1>3, <1>4, <1>6 DEF Present

LEMMA LesserIs ==
  ASSUME NEW m \in Nat, NEW n \in Nat
  PROVE  /\ Lesser(m, n) \in Nat /\ Lesser(m, n) <= m /\ Lesser(m, n) <= n
         /\ Lesser(m, n) = m \/ Lesser(m, n) = n
BY DEF Lesser

\* A page: what lies between two positions of the listing.
LEMMA PageProperties ==
  ASSUME NEW A, NEW list \in Seq(A), NEW offset \in Nat, NEW limit \in Nat
  PROVE  /\ Page(list, offset, limit) \in Seq(A)
         /\ Len(Page(list, offset, limit)) \in Nat
         /\ Len(Page(list, offset, limit)) <= limit
         /\ ToSet(Page(list, offset, limit)) \subseteq ToSet(list)
         /\ \A j \in DOMAIN list : j > offset =>
                \/ list[j] \in ToSet(Page(list, offset, limit))
                \/ j > offset + Len(Page(list, offset, limit))
         /\ Len(Page(list, offset, limit)) < limit =>
                \A j \in DOMAIN list : j <= offset + Len(Page(list, offset, limit))
<1> DEFINE last == Lesser(offset + limit, Len(list))
           page == Page(list, offset, limit)
<1>0. Len(list) \in Nat OBVIOUS
<1>1. DOMAIN list = 1 .. Len(list) OBVIOUS
<1>2. /\ last \in Nat /\ last <= offset + limit /\ last <= Len(list)
      /\ last = offset + limit \/ last = Len(list)
  <2>1. offset + limit \in Nat OBVIOUS
  <2>. QED BY <2>1, <1>0, LesserIs
<1>3. page = SubSeq(list, offset + 1, last) BY DEF Page
<1>. HIDE DEF last
<1>4. \A i \in offset + 1 .. last : list[i] \in A BY <1>0, <1>2
<1>5. /\ page \in Seq(A)
      /\ Len(page) = IF offset + 1 <= last THEN last - (offset + 1) + 1 ELSE 0
      /\ \A i \in 1 .. last - (offset + 1) + 1 : page[i] = list[(offset + 1) + i - 1]
  BY <1>2, <1>3, <1>4, SubSeqProperties
<1>. HIDE DEF page
<1>6. Len(page) = IF offset < last THEN last - offset ELSE 0 BY <1>5, <1>2
<1>7. \A i \in 1 .. last - offset : page[i] = list[offset + i] BY <1>5, <1>2
<1>8. Len(page) \in Nat /\ Len(page) <= limit BY <1>6, <1>2
<1>9. DOMAIN page = 1 .. Len(page) BY <1>5
<1>10. ToSet(page) \subseteq ToSet(list)
  <2>1. ASSUME NEW i \in 1 .. Len(page) PROVE page[i] \in ToSet(list)
    <3>1. offset < last /\ i \in 1 .. last - offset BY <1>6, <1>2
    <3>2. page[i] = list[offset + i] /\ offset + i \in 1 .. Len(list) BY <3>1, <1>7, <1>2, <1>0
    <3>. QED BY <3>2, <1>1 DEF ToSet
  <2>. QED BY <2>1, <1>9 DEF ToSet
<1>11. ASSUME NEW j \in DOMAIN list, j > offset, ~(j > offset + Len(page))
       PROVE  list[j] \in ToSet(page)
  <2>1. j \in Nat /\ j - offset \in 1 .. Len(page) BY <1>11, <1>1, <1>8
  <2>2. offset < last /\ j - offset \in 1 .. last - offset BY <2>1, <1>6, <1>2
  <2>3. page[j - offset] = list[offset + (j - offset)] BY <2>2, <1>7
  <2>4. offset + (j - offset) = j BY <2>1
  <2>. QED BY <2>1, <2>3, <2>4, <1>9 DEF ToSet
<1>12. ASSUME Len(page) < limit, NEW j \in DOMAIN list PROVE j <= offset + Len(page)
  <2>1. j \in Nat /\ j <= Len(list) BY <1>0, <1>1
  <2>2. CASE offset < last BY <1>12, <2>1, <2>2, <1>0, <1>2, <1>6
  <2>3. CASE ~(offset < last) BY <1>12, <2>1, <2>3, <1>0, <1>2, <1>6
  <2>. QED BY <2>2, <2>3
<1>. QED BY <1>5, <1>8, <1>10, <1>11, <1>12 DEF page

\* The answer of a preview that has read what it had to.
LEMMA ResolvedMoves ==
  ASSUME NEW d \in Dialogues, NEW p \in Previews, Resolved(d, p)
  PROVE  \E q \in Previews :
            /\ preview' = [preview EXCEPT ![d] = q]
            /\ q.pc \in {"shown", "not_found"}
            /\ q.found = p.found /\ q.there = p.there /\ q.moved = p.moved
            /\ IF q.pc = "shown" THEN Issue(d, q.found) ELSE token' = token
<1>1. CASE p.found = {}
  <2> DEFINE q == [p EXCEPT !.pc = "not_found"]
  <2>1. /\ q \in Previews /\ q.pc = "not_found"
        /\ q.found = p.found /\ q.there = p.there /\ q.moved = p.moved
    BY DEF Previews
  <2>2. preview' = [preview EXCEPT ![d] = q] /\ token' = token BY <1>1 DEF Resolved, SetPreview
  <2>. QED BY <2>1, <2>2
<1>2. CASE p.found # {}
  <2> DEFINE q == [p EXCEPT !.pc = "shown"]
  <2>1. /\ q \in Previews /\ q.pc = "shown"
        /\ q.found = p.found /\ q.there = p.there /\ q.moved = p.moved
    BY DEF Previews
  <2>2. preview' = [preview EXCEPT ![d] = q] /\ Issue(d, q.found)
    BY <1>2, <2>1 DEF Resolved, SetPreview
  <2>. QED BY <2>1, <2>2
<1>. QED BY <1>1, <1>2

\* The end of a listing, when every match that was there is found or in the next.
LEMMA NextListingMoves ==
  ASSUME MemoryTyped, NEW d \in Dialogues, NEW p \in Previews,
         preview[d].pc \in {"new", "scan", "overflow"},
         UNCHANGED <<previewOnly, left>>,
         \A x \in p.found : x \in preview[d].found \/ x \in Offered,
         ~p.moved => p.there \subseteq p.found \cup
             (IF p.list = "rows" THEN Candidates(ToSet(Listing("promises"))) ELSE {}),
         NextListing(d, p)
  PROVE  \E q : PreviewMoves(d, q)
<1>1. CASE p.list = "rows"
  <2> DEFINE q == [p EXCEPT !.pc = "scan", !.list = "promises", !.offset = 0]
  <2>1. /\ q \in Previews /\ q.pc = "scan" /\ q.list = "promises" /\ q.offset = 0
        /\ q.found = p.found /\ q.there = p.there /\ q.moved = p.moved
    BY DEF Previews
  <2>2. preview' = [preview EXCEPT ![d] = q] /\ token' = token
    BY <1>1 DEF NextListing, SetPreview
  <2>3. q.offset < MaxScan BY <2>1, LimitAssumption
  <2>. HIDE DEF q
  <2>4. ToSet(Listing("promises")) \subseteq Ahead(q)
    <3>1. Listing("promises") \in Seq(Commitments) BY ListingPresent
    <3>2. \A j \in DOMAIN Listing("promises") : j > 0 BY <3>1
    <3>. QED BY <2>1, <3>2 DEF Ahead, ToSet
  <2>5. Candidates(ToSet(Listing("promises"))) \subseteq Candidates(Ahead(q))
    BY <2>4 DEF Candidates
  <2>. QED BY <1>1, <2>1, <2>2, <2>3, <2>5 DEF PreviewMoves
<1>2. CASE p.list # "rows"
  <2>1. Resolved(d, p) BY <1>2 DEF NextListing
  <2>2. PICK q \in Previews :
            /\ preview' = [preview EXCEPT ![d] = q]
            /\ q.pc \in {"shown", "not_found"}
            /\ q.found = p.found /\ q.there = p.there /\ q.moved = p.moved
            /\ IF q.pc = "shown" THEN Issue(d, q.found) ELSE token' = token
    BY <2>1, ResolvedMoves
  <2>. QED BY <1>2, <2>2 DEF PreviewMoves
<1>. QED BY <1>1, <1>2

\* The types that the steps of a preview need.
LEMMA PreviewTypes ==
  ASSUME DialogueInv, NEW d \in Dialogues
  PROVE  /\ MemoryTyped /\ preview \in [Dialogues -> Previews] /\ preview[d] \in Previews
         /\ PageSize \in Nat \ {0} /\ MaxScan \in Nat \ {0} /\ MaxCandidates \in Nat \ {0}
BY LimitAssumption DEF DialogueInv, DialogueTypeOK, DialogueTyped

LEMMA PreviewExactMoves ==
  ASSUME DialogueInv, NEW d \in Dialogues, PreviewExact(d)
  PROVE  \E q : PreviewMoves(d, q)
<1> DEFINE x == Plan[d].target
           p == [Fresh EXCEPT !.found =
                    IF x \in ToSet(rows) /\ Of[x] \in Assertions THEN {x} ELSE {}]
<1>1. x \in Drawers /\ Resolved(d, p) /\ preview[d].pc = "new" /\ UNCHANGED <<previewOnly, left>>
  BY DEF PreviewExact
<1>2. /\ p \in Previews /\ p.there = {} /\ p.moved = FALSE
      /\ \A y \in p.found : y = x /\ x \in ToSet(rows) /\ Of[x] \in Assertions
  BY <1>1 DEF Previews, Fresh
<1>. HIDE DEF p
<1>3. PICK q \in Previews :
          /\ preview' = [preview EXCEPT ![d] = q]
          /\ q.pc \in {"shown", "not_found"}
          /\ q.found = p.found /\ q.there = p.there /\ q.moved = p.moved
          /\ IF q.pc = "shown" THEN Issue(d, q.found) ELSE token' = token
  BY <1>1, <1>2, ResolvedMoves
<1>4. \A y \in p.found : y \in Offered BY <1>2 DEF Offered, Present
<1>. QED BY <1>1, <1>2, <1>3, <1>4 DEF PreviewMoves

\* A topic: the scan begins with every match ahead of it.
LEMMA PreviewTopicMoves ==
  ASSUME DialogueInv, NEW d \in Dialogues, PreviewTopic(d)
  PROVE  \E q : PreviewMoves(d, q)
<1> DEFINE p == [Fresh EXCEPT !.pc = "scan", !.there = Candidates(Present)]
<1>1. MemoryTyped /\ MaxScan \in Nat \ {0} BY PreviewTypes
<1>2. /\ preview[d].pc = "new" /\ UNCHANGED <<previewOnly, left>>
      /\ preview' = [preview EXCEPT ![d] = p] /\ token' = token
  BY DEF PreviewTopic, SetPreview
<1>3. Candidates(Present) \subseteq Drawers \cup Commitments BY FormAssumption DEF Candidates
<1>4. /\ p \in Previews /\ p.pc = "scan" /\ p.list = "rows" /\ p.offset = 0 /\ p.found = {}
      /\ p.there = Candidates(Present)
  BY <1>3 DEF Previews, Fresh
<1>. HIDE DEF p
<1>5. Present \subseteq Ahead(p)
  <2>1. \A j \in DOMAIN Listing("rows") : j > 0
    <3>1. Listing("rows") \in Seq(Drawers) BY <1>1, ListingPresent DEF Listing
    <3>. QED BY <3>1
  <2>2. Present = ToSet(Listing("rows")) \cup ToSet(Listing("promises")) BY <1>1, ListingPresent
  <2>. QED BY <1>4, <2>1, <2>2 DEF Ahead, ToSet
<1>6. p.there \subseteq Candidates(Ahead(p)) BY <1>4, <1>5 DEF Candidates
<1>7. p.offset < MaxScan BY <1>1, <1>4
<1>8. (IF p.pc = "shown" THEN Issue(d, p.found) ELSE token' = token) BY <1>2, <1>4
<1>. QED BY <1>2, <1>4, <1>6, <1>7, <1>8 DEF PreviewMoves

\* Any step that ends a preview without an answer.
LEMMA EndsMoves ==
  ASSUME DialogueInv, NEW d \in Dialogues, NEW p \in Previews, NEW end \in {"failed", "too_broad"},
         preview[d].pc \in {"new", "scan", "overflow"}, UNCHANGED <<previewOnly, left>>,
         \A x \in p.found : x \in preview[d].found \/ x \in Offered,
         preview' = [preview EXCEPT ![d] = [p EXCEPT !.pc = end]], token' = token
  PROVE  \E q : PreviewMoves(d, q)
<1> DEFINE q == [p EXCEPT !.pc = end]
<1>1. q \in Previews /\ q.pc = end /\ q.found = p.found BY DEF Previews
<1>. HIDE DEF q
<1>2. preview' = [preview EXCEPT ![d] = q] BY DEF q
<1>. QED BY <1>1, <1>2 DEF PreviewMoves

\* A page: what it finds is there, and what it leaves is still ahead.
LEMMA ScanPageMoves ==
  ASSUME DialogueInv, NEW d \in Dialogues, ScanPage(d)
  PROVE  \E q : PreviewMoves(d, q)
<1> DEFINE p == preview[d]
           request == Lesser(PageSize, MaxScan - p.offset)
           page == Page(Listing(p.list), p.offset, request)
           got == [p EXCEPT !.offset = @ + Len(page), !.found = @ \cup Candidates(ToSet(page))]
<1>1. /\ p.pc = "scan" /\ UNCHANGED <<previewOnly, left>>
      /\ IF Cardinality(got.found) > MaxCandidates
         THEN Refused(d, got)
         ELSE IF Len(page) < request THEN NextListing(d, got)
         ELSE IF got.offset >= MaxScan
              THEN SetPreview(d, [got EXCEPT !.pc = "overflow"]) /\ UNCHANGED token
         ELSE SetPreview(d, got) /\ UNCHANGED token
  BY DEF ScanPage
<1>2. /\ MemoryTyped /\ p \in Previews
      /\ PageSize \in Nat \ {0} /\ MaxScan \in Nat \ {0}
  BY PreviewTypes
<1>3. p.offset \in Nat /\ p.offset < MaxScan
  BY <1>1, <1>2 DEF DialogueInv, ScanAhead, Previews
<1>4. request \in Nat BY <1>2, <1>3 DEF Lesser
<1>5. PICK A : Listing(p.list) \in Seq(A) /\ A \subseteq Drawers \cup Commitments
  <2>1. p.list \in {"rows", "promises"} BY <1>2 DEF Previews
  <2>. QED BY <2>1, <1>2, ListingPresent DEF Listing
<1>. HIDE DEF request
<1>6. /\ page \in Seq(A) /\ Len(page) \in Nat
      /\ ToSet(page) \subseteq ToSet(Listing(p.list))
      /\ \A j \in DOMAIN Listing(p.list) : j > p.offset =>
             Listing(p.list)[j] \in ToSet(page) \/ j > p.offset + Len(page)
      /\ Len(page) < request => \A j \in DOMAIN Listing(p.list) : j <= p.offset + Len(page)
  BY <1>3, <1>4, <1>5, PageProperties
<1>. HIDE DEF page
<1>7. ToSet(page) \subseteq Present
  <2>1. p.list \in {"rows", "promises"} BY <1>2 DEF Previews
  <2>. QED BY <2>1, <1>2, <1>6, ListingPresent
<1>8. Candidates(ToSet(page)) \subseteq Offered /\ Candidates(ToSet(page)) \subseteq Drawers \cup Commitments
  BY <1>7, FormAssumption DEF Candidates, Offered
<1>9. /\ got \in Previews /\ got.pc = "scan" /\ got.list = p.list /\ got.there = p.there
      /\ got.moved = p.moved /\ got.offset = p.offset + Len(page)
      /\ got.found = p.found \cup Candidates(ToSet(page))
  <2>1. p.offset + Len(page) \in Nat BY <1>3, <1>6
  <2>2. p.found \cup Candidates(ToSet(page)) \in SUBSET (Drawers \cup Commitments)
    BY <1>2, <1>8 DEF Previews
  <2>3. got = [p EXCEPT !.offset = p.offset + Len(page), !.found = p.found \cup Candidates(ToSet(page))]
    OBVIOUS
  <2>. HIDE DEF got, p
  <2>. QED BY <2>1, <2>2, <2>3, <1>1, <1>2 DEF Previews
<1>. HIDE DEF got
<1>10. \A x \in got.found : x \in preview[d].found \/ x \in Offered BY <1>8, <1>9
<1>11. Ahead(p) \subseteq ToSet(page) \cup Ahead(got)
  BY <1>6, <1>9 DEF Ahead
<1>12. ~got.moved => got.there \subseteq got.found \cup Candidates(Ahead(got))
  <2>1. ~p.moved => p.there \subseteq p.found \cup Candidates(Ahead(p))
    BY <1>1 DEF DialogueInv, ScanAhead
  <2>2. Candidates(Ahead(p)) \subseteq Candidates(ToSet(page)) \cup Candidates(Ahead(got))
    BY <1>11 DEF Candidates
  <2>. QED BY <2>1, <2>2, <1>9
<1>13. CASE Cardinality(got.found) > MaxCandidates
  <2>1. PICK end \in {"failed", "too_broad"} :
            preview' = [preview EXCEPT ![d] = [got EXCEPT !.pc = end]] /\ token' = token
    BY <1>1, <1>13 DEF Refused, SetPreview
  <2>. QED BY <2>1, <1>1, <1>9, <1>10, EndsMoves
<1>14. CASE ~(Cardinality(got.found) > MaxCandidates) /\ Len(page) < request
  <2>1. NextListing(d, got) BY <1>1, <1>14
  <2>2. Ahead(got) = IF got.list = "rows" THEN ToSet(Listing("promises")) ELSE {}
    <3>1. \A j \in DOMAIN Listing(p.list) : ~(j > got.offset)
      <4>1. DOMAIN Listing(p.list) \subseteq Nat BY <1>5
      <4>. QED BY <4>1, <1>3, <1>6, <1>9, <1>14
    <3>. QED BY <3>1, <1>9 DEF Ahead
  <2>3. Candidates({}) = {} BY DEF Candidates
  <2>4. ~got.moved => got.there \subseteq got.found \cup
            (IF got.list = "rows" THEN Candidates(ToSet(Listing("promises"))) ELSE {})
    BY <2>2, <2>3, <1>12
  <2>. QED BY <2>1, <2>4, <1>1, <1>2, <1>9, <1>10, NextListingMoves
<1>15. CASE ~(Cardinality(got.found) > MaxCandidates) /\ ~(Len(page) < request)
  <2>1. CASE got.offset >= MaxScan
    <3> DEFINE q == [got EXCEPT !.pc = "overflow"]
    <3>1. preview' = [preview EXCEPT ![d] = q] /\ token' = token
      BY <1>1, <1>15, <2>1 DEF SetPreview
    <3>2. /\ q \in Previews /\ q.pc = "overflow" /\ q.found = got.found /\ q.there = got.there
          /\ q.moved = got.moved /\ q.list = got.list /\ q.offset = got.offset
      BY <1>9 DEF Previews
    <3>. HIDE DEF q
    <3>3. Ahead(q) = Ahead(got) BY <3>2 DEF Ahead
    <3>. QED BY <3>1, <3>2, <3>3, <1>1, <1>10, <1>12 DEF PreviewMoves
  <2>2. CASE ~(got.offset >= MaxScan)
    <3>1. preview' = [preview EXCEPT ![d] = got] /\ token' = token
      BY <1>1, <1>15, <2>2 DEF SetPreview
    <3>2. got.offset < MaxScan BY <2>2, <1>2, <1>3, <1>6, <1>9
    <3>. QED BY <3>1, <3>2, <1>1, <1>9, <1>10, <1>12 DEF PreviewMoves
  <2>. QED BY <2>1, <2>2
<1>. QED BY <1>13, <1>14, <1>15

\* The last row that a scan may read: if there is one more it answers nothing.
LEMMA OverflowMoves ==
  ASSUME DialogueInv, NEW d \in Dialogues, Overflow(d)
  PROVE  \E q : PreviewMoves(d, q)
<1> DEFINE p == preview[d]
<1>1. /\ p.pc = "overflow" /\ UNCHANGED <<previewOnly, left>>
      /\ IF Len(Listing(p.list)) > p.offset THEN Refused(d, p) ELSE NextListing(d, p)
  BY DEF Overflow
<1>2. MemoryTyped /\ p \in Previews BY PreviewTypes
<1>3. CASE Len(Listing(p.list)) > p.offset
  <2>1. PICK end \in {"failed", "too_broad"} :
            preview' = [preview EXCEPT ![d] = [p EXCEPT !.pc = end]] /\ token' = token
    BY <1>1, <1>3 DEF Refused, SetPreview
  <2>. QED BY <2>1, <1>1, <1>2, EndsMoves
<1>4. CASE ~(Len(Listing(p.list)) > p.offset)
  <2>1. PICK A : Listing(p.list) \in Seq(A)
    <3>1. p.list \in {"rows", "promises"} BY <1>2 DEF Previews
    <3>. QED BY <3>1, <1>2, ListingPresent DEF Listing
  <2>2. DOMAIN Listing(p.list) = 1 .. Len(Listing(p.list)) /\ Len(Listing(p.list)) \in Nat BY <2>1
  <2>3. p.offset \in Nat BY <1>2 DEF Previews
  <2>4. \A j \in DOMAIN Listing(p.list) : ~(j > p.offset) BY <2>2, <2>3, <1>4
  <2>5. Ahead(p) = IF p.list = "rows" THEN ToSet(Listing("promises")) ELSE {}
    BY <2>4 DEF Ahead
  <2>6. Candidates({}) = {} BY DEF Candidates
  <2>7. ~p.moved => p.there \subseteq p.found \cup
            (IF p.list = "rows" THEN Candidates(ToSet(Listing("promises"))) ELSE {})
    BY <1>1, <2>5, <2>6 DEF DialogueInv, ScanAhead
  <2>. QED BY <1>1, <1>2, <1>4, <2>7, NextListingMoves
<1>. QED BY <1>3, <1>4

----------------------------------------------------------------------------
(* Steps that leave the memory and the previews as they are.                *)

SameTokens ==
    \A d \in Dialogues : token'[d].found = token[d].found /\ token'[d].action = token[d].action

LEMMA QuietMemory ==
  ASSUME DialogueInv, UNCHANGED <<memoryVars, preview>>, SameTokens, StreamKept
  PROVE  /\ ShownKept /\ MemoryKept /\ SameFound /\ NoneRemoved
         /\ MemoryTyped' /\ TokenSays' /\ FoundOrBuried' /\ ForgottenMeant' /\ ScanAhead'
<1>1. UNCHANGED <<rows, hidden, tomb, promise, redacted, preview>> BY DEF memoryVars
<1>2. ShownKept BY <1>1 DEF ShownKept, SameTokens
<1>3. MemoryKept BY <1>1 DEF MemoryKept, Initially
<1>4. NoneNewlyShown /\ SameFound /\ NoneRemoved
  BY <1>1 DEF NoneNewlyShown, SameFound, NoneRemoved
<1>5. MemoryTyped' BY <1>1 DEF DialogueInv, DialogueTypeOK, MemoryTyped
<1>6. TokenSays' BY <1>2, <1>4, TokenSaysFrame DEF DialogueInv
<1>7. FoundOrBuried' BY <1>3, <1>4, FoundFrame DEF DialogueInv
<1>8. ForgottenMeant' BY <1>1, <1>2, <1>4, MeantFrame DEF DialogueInv
<1>9. ScanAhead' BY <1>1, ScanFrame DEF DialogueInv
<1>. QED BY <1>2, <1>3, <1>4, <1>5, <1>6, <1>7, <1>8, <1>9

\* What a fault, a crash, an expiry or a replay uses up.
LEMMA UsesTyped ==
  ASSUME LeftTyped, NEW what \in {"faults", "crashes", "expiries", "replays"}, Uses(what)
  PROVE  /\ LeftTyped' /\ left'.calm = left.calm
         /\ what \in {"faults", "crashes"} => ~left.calm
BY DEF LeftTyped, Uses

\* The ledger's precedence.
LEMMA RecordIs ==
  ASSUME CommandTyped, NEW i \in Ids, NEW s \in {"accepted", "retrying", "applied", "failed"},
         Record(i, s)
  PROVE  /\ status' \in [Ids -> Statuses]
         /\ \A j \in Ids :
                /\ status[j] = "applied" => status'[j] = "applied"
                /\ status'[j] = "applied" => status[j] = "applied" \/ (j = i /\ s = "applied")
                /\ status'[j] = "failed" => status[j] = "failed" \/ (j = i /\ s = "failed")
         /\ s = "applied" => status'[i] = "applied"
<1>1. status \in [Ids -> Statuses] BY DEF CommandTyped
<1> DEFINE new == CASE status[i] = "applied" -> status[i]
                    [] status[i] = "failed" /\ s # "applied" -> status[i]
                    [] status[i] = "retrying" /\ s = "accepted" -> status[i]
                    [] OTHER -> s
<1>2. status' = [status EXCEPT ![i] = new] BY DEF Record
<1>3. /\ new \in Statuses /\ (status[i] = "applied" => new = "applied")
      /\ (new = "applied" => status[i] = "applied" \/ s = "applied")
      /\ (new = "failed" => status[i] = "failed" \/ s = "failed")
      /\ (s = "applied" => new = "applied")
  BY <1>1 DEF Statuses
<1>. HIDE DEF new
<1>. QED BY <1>1, <1>2, <1>3

\* A worker that stays where it is, at a command that is not newly applied.
LEMMA WorkingKept ==
  ASSUME CommandTyped, AppliedOnce, StreamKept, worker' = worker,
         \A j \in Ids : status'[j] = "applied" => status[j] = "applied"
  PROVE  worker'.pc \in Working => status'[Copy'.id] # "applied"
<1>1. SUFFICES ASSUME worker.pc \in Working PROVE status'[Copy'.id] # "applied" OBVIOUS
<1>2. worker.copy \in DOMAIN stream BY <1>1 DEF CommandTyped, Working
<1>3. Copy'.id = Copy.id BY <1>2 DEF StreamKept, Copy
<1>4. Copy.id \in Ids
  <2>1. stream \in Seq(Copies) BY DEF CommandTyped
  <2>2. Copy \in Copies BY <1>2, <2>1 DEF Copy
  <2>. QED BY <2>2 DEF Copies
<1>. QED BY <1>1, <1>3, <1>4 DEF AppliedOnce

\* A step of a click, or of nobody: the worker is where it was.
LEMMA WaitingKeeps ==
  ASSUME DialogueInv, UNCHANGED <<memoryVars, preview, secret, worker>>, SameTokens, StreamKept,
         token' \in [Dialogues -> Tokens],
         click' \in [Clicks -> [pc : {"new", "publish", "accept", "wait", "done"},
                                told : Statuses \cup {"nothing", "refused"}]],
         status' \in [Ids -> Statuses], stream' \in Seq(Copies), LeftTyped',
         left'.calm = left.calm, \A e \in dead' : e \in dead,
         \A k \in Clicks : click'[k].pc \in InFlight => click[k].pc \in InFlight \/ Knows(k),
         \A k \in Clicks : click'[k].told = "applied" =>
             click[k].told = "applied" \/ status[RequestId(k)] = "applied",
         \A m \in DOMAIN stream' : m \in DOMAIN stream
             \/ \E k \in Clicks : Carries(k, stream'[m].id, stream'[m].body),
         \A j \in Ids : status'[j] = "applied" <=> status[j] = "applied",
         \A j \in Ids : left.calm /\ status'[j] = "failed" => status[j] = "failed"
  PROVE  DialogueInv'
<1>1. /\ ShownKept /\ MemoryKept /\ SameFound /\ NoneRemoved
      /\ MemoryTyped' /\ TokenSays' /\ FoundOrBuried' /\ ForgottenMeant' /\ ScanAhead'
  BY QuietMemory
<1>2. CommandTyped BY DEF DialogueInv, DialogueTypeOK
<1>3. DialogueTyped' BY DEF DialogueInv, DialogueTypeOK, DialogueTyped
<1>4. CommandTyped' BY <1>2 DEF CommandTyped, StreamKept
<1>5. DialogueTypeOK' BY <1>1, <1>3, <1>4 DEF DialogueTypeOK
<1>6. ClicksKnow' BY <1>1, ClicksFrame DEF DialogueInv
<1>7. CommandsMeant' BY <1>1, CommandsFrame DEF DialogueInv
<1>8. WorkerWithin' /\ WorkerDone' BY <1>1, <1>2, WorkerFrame DEF DialogueInv
<1>9. AppliedOnce'
  <2>1. worker'.pc \in Working => status'[Copy'.id] # "applied"
    BY <1>2, WorkingKept DEF DialogueInv
  <2>2. \A k \in Clicks : status'[RequestId(k)] = "applied" => status[RequestId(k)] = "applied"
    BY PlanOf
  <2>. QED BY <1>1, <2>1, <2>2, AppliedFrame DEF DialogueInv
<1>10. OwnerUndisturbed'
  <2>1. Dialogues \subseteq Ids BY DEF Ids
  <2>. QED BY <1>1, <2>1, OwnerFrame DEF DialogueInv
<1>. QED BY <1>1, <1>5, <1>6, <1>7, <1>8, <1>9, <1>10 DEF DialogueInv

\* A step that uses up a fault or nothing, and leaves the rest alone.
LEMMA StutterKeeps ==
  ASSUME DialogueInv, UNCHANGED <<memoryVars, dialogueVars, click, status, stream, worker, dead>>,
         LeftTyped', left'.calm = left.calm
  PROVE  DialogueInv'
<1>1. UNCHANGED <<preview, token, secret>> BY DEF dialogueVars
<1>2. SameTokens /\ StreamKept BY <1>1 DEF SameTokens, StreamKept
<1>3. DialogueTyped /\ CommandTyped BY DEF DialogueInv, DialogueTypeOK
<1>. QED BY <1>1, <1>2, <1>3, WaitingKeeps DEF DialogueTyped, CommandTyped

LEMMA ExpireKeeps ==
  ASSUME DialogueInv, NEW d \in Dialogues, Expire(d)
  PROVE  DialogueInv'
<1>1. /\ UNCHANGED <<memoryVars, secret, click, status, stream, worker, dead, preview>>
      /\ token' = [token EXCEPT ![d].expired = TRUE] /\ Uses("expiries")
  BY DEF Expire, previewOnly
<1>2. DialogueTyped /\ CommandTyped /\ LeftTyped BY DEF DialogueInv, DialogueTypeOK
<1>3. LeftTyped' /\ left'.calm = left.calm BY <1>1, <1>2, UsesTyped
<1>4. token \in [Dialogues -> Tokens] BY <1>2 DEF DialogueTyped
<1>5. token' \in [Dialogues -> Tokens] BY <1>1, <1>4 DEF Tokens
<1>6. SameTokens BY <1>1, <1>4 DEF SameTokens, Tokens
<1>7. StreamKept BY <1>1 DEF StreamKept
<1>. QED BY <1>1, <1>2, <1>3, <1>5, <1>6, <1>7, WaitingKeeps DEF DialogueTyped, CommandTyped

----------------------------------------------------------------------------
(* The clicks.                                                              *)

\* A click that is answered from what is there.
LEMMA ClickKeeps ==
  ASSUME DialogueInv, NEW k \in Clicks, UNCHANGED <<clickOnly, status, stream, left>>,
         NEW pc \in {"publish", "wait", "done"}, NEW told \in Statuses \cup {"nothing", "refused"},
         SetClick(k, pc, told), pc \in InFlight => Knows(k),
         told = "applied" => status[RequestId(k)] = "applied"
  PROVE  DialogueInv'
<1>1. UNCHANGED <<memoryVars, preview, token, secret, worker, dead>> BY DEF clickOnly, dialogueVars
<1>2. DialogueTyped /\ CommandTyped /\ LeftTyped BY DEF DialogueInv, DialogueTypeOK
<1>3. SameTokens /\ StreamKept BY <1>1 DEF SameTokens, StreamKept
<1>4. LeftTyped' /\ left'.calm = left.calm BY <1>2 DEF LeftTyped
<1> DEFINE C == [pc : {"new", "publish", "accept", "wait", "done"},
                 told : Statuses \cup {"nothing", "refused"}]
<1>5. click \in [Clicks -> C] BY <1>2 DEF DialogueTyped
<1>6. click' = [click EXCEPT ![k] = [pc |-> pc, told |-> told]] BY DEF SetClick
<1>7. click' \in [Clicks -> C] BY <1>5, <1>6
<1>8. /\ \A j \in Clicks : click'[j].pc \in InFlight => click[j].pc \in InFlight \/ Knows(j)
      /\ \A j \in Clicks : click'[j].told = "applied" =>
             click[j].told = "applied" \/ status[RequestId(j)] = "applied"
  BY <1>5, <1>6
<1>. QED BY <1>1, <1>2, <1>3, <1>4, <1>7, <1>8, WaitingKeeps DEF DialogueTyped, CommandTyped

LEMMA ConfirmKeeps ==
  ASSUME DialogueInv, NEW k \in Clicks,
         OwnerConfirm(k) \/ ToolConfirm(k) \/ ServiceConfirm(k) \/ SourceErase(k)
  PROVE  DialogueInv'
<1>1. /\ UNCHANGED <<clickOnly, status, stream, left>> /\ Knows(k)
  BY DEF OwnerConfirm, ToolConfirm, ServiceConfirm, SourceErase, Knows
<1>2. status[RequestId(k)] \in Statuses
  BY PlanOf DEF DialogueInv, DialogueTypeOK, CommandTyped
<1>3. \/ SetClick(k, "publish", "nothing")
      \/ SetClick(k, "done", "refused") \/ SetClick(k, "done", "failed")
      \/ SetClick(k, "done", status[RequestId(k)])
  BY DEF OwnerConfirm, ToolConfirm, ServiceConfirm, SourceErase
<1>4. CASE SetClick(k, "publish", "nothing") BY <1>4, <1>1, ClickKeeps
<1>5. CASE SetClick(k, "done", "refused") BY <1>5, <1>1, ClickKeeps
<1>6. CASE SetClick(k, "done", "failed") BY <1>6, <1>1, ClickKeeps DEF Statuses
<1>7. CASE SetClick(k, "done", status[RequestId(k)]) BY <1>7, <1>1, <1>2, ClickKeeps
<1>. QED BY <1>3, <1>4, <1>5, <1>6, <1>7

LEMMA AnswerKeeps ==
  ASSUME DialogueInv, NEW k \in Clicks, Answer(k) \/ AskAgain(k)
  PROVE  DialogueInv'
<1>1. UNCHANGED <<clickOnly, status, stream, left>> /\ SetClick(k, "done", Reported(k))
  BY DEF Answer, AskAgain
<1>2. status[RequestId(k)] \in Statuses
  BY PlanOf DEF DialogueInv, DialogueTypeOK, CommandTyped
<1>3. /\ Reported(k) \in Statuses
      /\ Reported(k) = "applied" => status[RequestId(k)] = "applied"
  BY <1>2 DEF Reported, Outcome, Terminal, Statuses
<1>4. "done" \notin InFlight BY DEF InFlight
<1>. QED BY <1>1, <1>3, <1>4, ClickKeeps

\* One more copy in the stream, of what somebody meant.
LEMMA EnqueueIs ==
  ASSUME CommandTyped, NEW k \in Clicks, NEW id \in Ids, NEW b \in Bodies, Carries(k, id, b),
         stream' = Append(stream, [id |-> id, body |-> b, deliveries |-> 0, state |-> "queued"])
  PROVE  /\ stream' \in Seq(Copies) /\ StreamKept
         /\ \A m \in DOMAIN stream' : m \in DOMAIN stream
                \/ \E j \in Clicks : Carries(j, stream'[m].id, stream'[m].body)
<1> DEFINE c == [id |-> id, body |-> b, deliveries |-> 0, state |-> "queued"]
<1>1. c \in Copies /\ c.id = id /\ c.body = b BY DEF Copies
<1>. HIDE DEF c
<1>2. stream \in Seq(Copies) /\ stream' = Append(stream, c) BY DEF CommandTyped, c
<1>3. stream' \in Seq(Copies) BY <1>1, <1>2
<1>4. /\ Len(stream) \in Nat /\ DOMAIN stream = 1 .. Len(stream)
      /\ DOMAIN stream' = 1 .. Len(stream) + 1
      /\ \A m \in 1 .. Len(stream) : stream'[m] = stream[m]
      /\ stream'[Len(stream) + 1] = c
  BY <1>1, <1>2, AppendProperties
<1>5. \A m \in DOMAIN stream' : m \in DOMAIN stream \/ m = Len(stream) + 1 BY <1>4
<1>6. StreamKept BY <1>4 DEF StreamKept
<1>. QED BY <1>1, <1>3, <1>4, <1>5, <1>6

LEMMA PublishKeeps ==
  ASSUME DialogueInv, NEW k \in Clicks, Publish(k)
  PROVE  DialogueInv'
<1>1. /\ click[k].pc = "publish"
      /\ UNCHANGED <<memoryVars, preview, token, secret, worker, dead>>
  BY DEF Publish, clickOnly, dialogueVars
<1>2. DialogueTyped /\ CommandTyped /\ LeftTyped /\ DialogueTypeOK /\ TokenSays
  BY DEF DialogueInv, DialogueTypeOK
<1>3. SameTokens BY <1>1 DEF SameTokens
<1>4. Knows(k) BY <1>1 DEF DialogueInv, ClicksKnow
<1>5. Body(k) \in Bodies /\ RequestId(k) \in Ids BY <1>2, <1>4, CarriedMeant, PlanOf
<1>6. Carries(k, RequestId(k), Body(k)) BY <1>4 DEF Carries
<1> DEFINE Kept == /\ stream' \in Seq(Copies) /\ StreamKept
                   /\ \A m \in DOMAIN stream' : m \in DOMAIN stream
                          \/ \E j \in Clicks : Carries(j, stream'[m].id, stream'[m].body)
<1>7. Enqueue(k) => Kept BY <1>2, <1>5, <1>6, EnqueueIs DEF Enqueue
<1>8. stream' = stream => Kept BY <1>2 DEF CommandTyped, StreamKept
<1> DEFINE C == [pc : {"new", "publish", "accept", "wait", "done"},
                 told : Statuses \cup {"nothing", "refused"}]
<1>9. click \in [Clicks -> C] BY <1>2 DEF DialogueTyped
<1>10. ASSUME NEW pc \in {"accept", "done"}, NEW told \in {"nothing", "failed"}, SetClick(k, pc, told)
       PROVE  /\ click' \in [Clicks -> C]
              /\ \A j \in Clicks : click'[j].pc \in InFlight => click[j].pc \in InFlight \/ Knows(j)
              /\ \A j \in Clicks : click'[j].told = "applied" => click[j].told = "applied"
  <2>1. click' = [click EXCEPT ![k] = [pc |-> pc, told |-> told]] BY <1>10 DEF SetClick
  <2>. QED BY <2>1, <1>4, <1>9 DEF Statuses
<1>. HIDE DEF C
<1>11. CASE Enqueue(k) /\ SetClick(k, "accept", "nothing") /\ UNCHANGED <<status, left>>
  <2>1. Kept BY <1>7, <1>11
  <2>2. /\ click' \in [Clicks -> C]
        /\ \A j \in Clicks : click'[j].pc \in InFlight => click[j].pc \in InFlight \/ Knows(j)
        /\ \A j \in Clicks : click'[j].told = "applied" => click[j].told = "applied"
    BY <1>10, <1>11
  <2>3. LeftTyped' /\ left'.calm = left.calm BY <1>2, <1>11 DEF LeftTyped
  <2>4. status' = status /\ status \in [Ids -> Statuses] BY <1>2, <1>11 DEF CommandTyped
  <2>. QED BY <1>1, <1>2, <1>3, <2>1, <2>2, <2>3, <2>4, WaitingKeeps DEF DialogueTyped, C
<1>12. CASE /\ Uses("faults") /\ (Enqueue(k) \/ UNCHANGED stream)
            /\ Record(RequestId(k), "failed") /\ SetClick(k, "done", "failed")
  <2>1. Kept BY <1>7, <1>8, <1>12
  <2>2. /\ click' \in [Clicks -> C]
        /\ \A j \in Clicks : click'[j].pc \in InFlight => click[j].pc \in InFlight \/ Knows(j)
        /\ \A j \in Clicks : click'[j].told = "applied" => click[j].told = "applied"
    BY <1>10, <1>12
  <2>3. LeftTyped' /\ left'.calm = left.calm /\ ~left.calm BY <1>2, <1>12, UsesTyped
  <2>4. /\ status' \in [Ids -> Statuses]
        /\ \A j \in Ids : status'[j] = "applied" <=> status[j] = "applied"
    BY <1>2, <1>5, <1>12, RecordIs
  <2>. QED BY <1>1, <1>2, <1>3, <2>1, <2>2, <2>3, <2>4, WaitingKeeps DEF DialogueTyped, C
<1>. QED BY <1>11, <1>12 DEF Publish

LEMMA AcceptKeeps ==
  ASSUME DialogueInv, NEW k \in Clicks, Accept(k)
  PROVE  DialogueInv'
<1>1. /\ click[k].pc = "accept" /\ UNCHANGED <<stream, left>>
      /\ UNCHANGED <<memoryVars, preview, token, secret, worker, dead>>
      /\ Record(RequestId(k), "accepted")
      /\ click' = [click EXCEPT ![k] = [pc |-> "wait", told |-> "nothing"]]
  BY DEF Accept, clickOnly, dialogueVars, SetClick
<1>2. DialogueTyped /\ CommandTyped /\ LeftTyped BY DEF DialogueInv, DialogueTypeOK
<1>3. SameTokens /\ StreamKept BY <1>1 DEF SameTokens, StreamKept
<1>4. LeftTyped' /\ left'.calm = left.calm BY <1>1, <1>2 DEF LeftTyped
<1>5. /\ status' \in [Ids -> Statuses]
      /\ \A j \in Ids : status'[j] = "applied" <=> status[j] = "applied"
      /\ \A j \in Ids : status'[j] = "failed" => status[j] = "failed"
  BY <1>1, <1>2, PlanOf, RecordIs
<1> DEFINE C == [pc : {"new", "publish", "accept", "wait", "done"},
                 told : Statuses \cup {"nothing", "refused"}]
<1>6. click \in [Clicks -> C] BY <1>2 DEF DialogueTyped
<1>7. /\ click' \in [Clicks -> C]
      /\ \A j \in Clicks : click'[j].pc \in InFlight => click[j].pc \in InFlight
      /\ \A j \in Clicks : click'[j].told = "applied" => click[j].told = "applied"
  BY <1>1, <1>6 DEF InFlight
<1>. QED BY <1>1, <1>2, <1>3, <1>4, <1>5, <1>7, WaitingKeeps DEF DialogueTyped, CommandTyped

LEMMA ReplayKeeps ==
  ASSUME DialogueInv, Replay
  PROVE  DialogueInv'
<1>1. PICK e \in dead :
          /\ dead' = dead \ {e}
          /\ stream' = Append(stream, [id |-> e.id, body |-> e.body, deliveries |-> 0, state |-> "queued"])
  BY DEF Replay
<1>2. UNCHANGED <<memoryVars, preview, token, secret, click, status, worker>> /\ Uses("replays")
  BY DEF Replay, dialogueVars
<1>3. DialogueTyped /\ CommandTyped /\ LeftTyped BY DEF DialogueInv, DialogueTypeOK
<1>4. LeftTyped' /\ left'.calm = left.calm BY <1>2, <1>3, UsesTyped
<1>5. SameTokens BY <1>2 DEF SameTokens
<1>6. PICK k \in Clicks : Carries(k, e.id, e.body) BY DEF DialogueInv, CommandsMeant
<1>7. e.id \in Ids /\ e.body \in Bodies BY <1>3 DEF CommandTyped, Letters
<1>8. /\ stream' \in Seq(Copies) /\ StreamKept
      /\ \A m \in DOMAIN stream' : m \in DOMAIN stream
             \/ \E j \in Clicks : Carries(j, stream'[m].id, stream'[m].body)
  BY <1>1, <1>3, <1>6, <1>7, EnqueueIs
<1>. QED BY <1>1, <1>2, <1>3, <1>4, <1>5, <1>8, WaitingKeeps DEF DialogueTyped, CommandTyped

----------------------------------------------------------------------------
(* The worker.                                                              *)

\* The command at hand is what somebody confirmed or named; its drawers have
\* assertions behind them.
LEMMA CommandIs ==
  ASSUME DialogueInv, worker.pc # "idle"
  PROVE  /\ Copy.id \in Ids /\ Copy.body \in Bodies
         /\ \E k \in Clicks : /\ Sent(k) /\ Carries(k, Copy.id, Copy.body)
                              /\ Touched(Copy.body) = Meant(k) /\ Copy.body.hard = Hard(k)
         /\ \A x \in Copy.body.drawers :
                /\ Of[x] \in Assertions /\ Of[x] \in Touched(Copy.body)
                /\ x \in ToSet(rows) \/ Buried(Of[x])
         /\ Touched(Copy.body) \subseteq Assertions \cup Commitments
<1>1. DialogueTypeOK /\ TokenSays /\ CommandTyped BY DEF DialogueInv, DialogueTypeOK
<1>2. worker.copy \in DOMAIN stream BY <1>1 DEF CommandTyped
<1>3. Copy \in Copies
  <2>1. stream \in Seq(Copies) BY <1>1 DEF CommandTyped
  <2>. QED BY <1>2, <2>1 DEF Copy
<1>4. Copy.id \in Ids /\ Copy.body \in Bodies BY <1>3 DEF Copies
<1>5. PICK k \in Clicks : Carries(k, Copy.id, Copy.body)
  BY <1>2 DEF DialogueInv, CommandsMeant, Copy
<1>6. Knows(k) /\ Copy.id = RequestId(k) /\ Copy.body = Body(k) BY <1>5 DEF Carries
<1>7. Sent(k) BY <1>2, <1>6 DEF Sent, Copy
<1>8. Touched(Copy.body) = Meant(k) /\ Copy.body.hard = Hard(k) BY <1>1, <1>6, CarriedMeant
<1>9. ASSUME NEW x \in Copy.body.drawers
      PROVE  /\ Of[x] \in Assertions /\ Of[x] \in Touched(Copy.body)
             /\ x \in ToSet(rows) \/ Buried(Of[x])
  <2>1. Plan[k].surface # "source" BY <1>1, <1>6, CarriedMeant
  <2>2. Plan[k].on \in Dialogues BY <2>1, PlanOf
  <2>3. x \in preview[Plan[k].on].found \cap Drawers BY <1>1, <1>6, <2>1, CarriedMeant
  <2>4. Of[x] \in Assertions /\ (x \in ToSet(rows) \/ Buried(Of[x]))
    BY <2>2, <2>3 DEF DialogueInv, FoundOrBuried
  <2>. QED BY <2>4 DEF Touched
<1>10. Touched(Copy.body) \subseteq Assertions \cup Commitments
  <2>1. Copy.body.promises \subseteq Commitments BY <1>4 DEF Bodies
  <2>. QED BY <1>9, <2>1 DEF Touched
<1>. QED BY <1>4, <1>5, <1>7, <1>8, <1>9, <1>10

\* A copy that is marked stays the copy it was.
LEMMA CopyMarked ==
  ASSUME CommandTyped, NEW m \in DOMAIN stream, NEW n \in Nat,
         NEW state \in {"queued", "held", "acked"},
         stream' = [stream EXCEPT ![m].state = state, ![m].deliveries = n]
  PROVE  /\ stream' \in Seq(Copies) /\ StreamKept
         /\ DOMAIN stream' = DOMAIN stream
<1>1. stream \in Seq(Copies) BY DEF CommandTyped
<1>2. stream[m] \in Copies BY <1>1
<1> DEFINE c == [stream[m] EXCEPT !.state = state, !.deliveries = n]
<1>3. c \in Copies /\ c.id = stream[m].id /\ c.body = stream[m].body BY <1>2 DEF Copies
<1>4. stream' = [stream EXCEPT ![m] = c] OBVIOUS
<1>. HIDE DEF c
<1>5. stream' \in Seq(Copies)
  <2>1. m \in 1 .. Len(stream) BY <1>1
  <2>2. [stream EXCEPT ![m] = c] \in Seq(Copies) BY ONLY <1>1, <1>3, <2>1, ExceptSeq
  <2>. QED BY ONLY <2>2, <1>4
<1>6. DOMAIN stream' = DOMAIN stream BY <1>4
<1>7. StreamKept BY <1>3, <1>4 DEF StreamKept
<1>. QED BY <1>5, <1>6, <1>7

LEMMA SetCopyIs ==
  ASSUME CommandTyped, worker.pc # "idle", NEW state \in {"queued", "held", "acked"}, SetCopy(state)
  PROVE  stream' \in Seq(Copies) /\ StreamKept /\ DOMAIN stream' = DOMAIN stream
<1>1. worker.copy \in DOMAIN stream /\ stream \in Seq(Copies) BY DEF CommandTyped
<1>2. stream[worker.copy] \in Copies BY <1>1
<1> DEFINE c == stream[worker.copy]
           n == c.deliveries
<1>3. n \in Nat /\ [c EXCEPT !.state = state] = [c EXCEPT !.state = state, !.deliveries = n]
  BY <1>2 DEF Copies
<1>4. stream' = [stream EXCEPT ![worker.copy] = [c EXCEPT !.state = state]] BY DEF SetCopy
<1>5. stream' = [stream EXCEPT ![worker.copy] = [c EXCEPT !.state = state, !.deliveries = n]]
  BY <1>3, <1>4
<1>6. stream' = [stream EXCEPT ![worker.copy].state = state, ![worker.copy].deliveries = n]
  BY <1>5
<1>. HIDE DEF n
<1>. QED BY <1>1, <1>3, <1>6, CopyMarked

\* A step of the worker that leaves the memory as it is.
LEMMA WorkerKeeps ==
  ASSUME DialogueInv, UNCHANGED <<memoryVars, dialogueVars, click>>, StreamKept,
         CommandTyped', LeftTyped', \A m \in DOMAIN stream' : m \in DOMAIN stream,
         \A e \in dead' : e \in dead \/ \E k \in Clicks : Sent(k) /\ Carries(k, e.id, e.body),
         WorkerWithin', WorkerDone', AppliedOnce', OwnerUndisturbed'
  PROVE  DialogueInv'
<1>1. UNCHANGED <<preview, token, secret>> BY DEF dialogueVars
<1>2. SameTokens BY <1>1 DEF SameTokens
<1>3. /\ ShownKept /\ MemoryTyped' /\ TokenSays' /\ FoundOrBuried' /\ ForgottenMeant' /\ ScanAhead'
  BY <1>1, <1>2, QuietMemory
<1>4. DialogueTyped' BY <1>1 DEF DialogueInv, DialogueTypeOK, DialogueTyped
<1>5. ClicksKnow' BY <1>3, ClicksFrame DEF DialogueInv
<1>6. CommandsMeant' BY <1>3, CommandsFrame DEF DialogueInv
<1>. QED BY <1>3, <1>4, <1>5, <1>6 DEF DialogueInv, DialogueTypeOK

\* The applied commands and the owner's, across such a step.
LEMMA WorkerApplied ==
  ASSUME DialogueInv, UNCHANGED <<memoryVars, dialogueVars, click>>, StreamKept,
         \A j \in Ids : status'[j] = "applied" => status[j] = "applied",
         worker'.pc \in Working => status'[Copy'.id] # "applied"
  PROVE  AppliedOnce'
<1>1. UNCHANGED <<preview, token, secret>> BY DEF dialogueVars
<1>2. SameTokens BY <1>1 DEF SameTokens
<1>3. ShownKept /\ MemoryKept BY <1>1, <1>2, QuietMemory
<1>4. \A k \in Clicks : status'[RequestId(k)] = "applied" => status[RequestId(k)] = "applied"
  BY PlanOf
<1>. QED BY <1>3, <1>4, AppliedFrame DEF DialogueInv

LEMMA WorkerOwner ==
  ASSUME DialogueInv, UNCHANGED <<memoryVars, dialogueVars, click>>, StreamKept,
         left'.calm = left.calm, \A e \in dead' : e \in dead,
         \A d \in Dialogues : left.calm /\ Alone(d) =>
             /\ status'[d] = "failed" => status[d] = "failed"
             /\ status'[d] # "applied" /\ worker'.pc \notin Erasing =>
                    status[d] # "applied" /\ worker.pc \notin Erasing
  PROVE  OwnerUndisturbed'
<1>1. UNCHANGED <<preview, token, secret>> BY DEF dialogueVars
<1>2. SameTokens BY <1>1 DEF SameTokens
<1>3. SameFound /\ NoneRemoved BY <1>1, <1>2, QuietMemory
<1>. QED BY <1>3, OwnerFrame DEF DialogueInv

LEMMA TakeKeeps ==
  ASSUME DialogueInv, Take
  PROVE  DialogueInv'
<1>1. /\ worker.pc = "idle"
      /\ UNCHANGED <<memoryVars, dialogueVars, click, status, dead, left>>
  BY DEF Take, Doing, workerOnly
<1>2. PICK m \in DOMAIN stream :
          /\ stream' = [stream EXCEPT ![m].state = "held", ![m].deliveries = stream[m].deliveries + 1]
          /\ worker' = [IdleWorker EXCEPT !.copy = m,
                 !.pc = IF status[stream[m].id] = "applied" THEN "ack" ELSE "resolve"]
  BY DEF Take
<1>3. CommandTyped /\ LeftTyped BY DEF DialogueInv, DialogueTypeOK
<1>4. stream \in Seq(Copies) BY <1>3 DEF CommandTyped
<1>5. stream[m] \in Copies /\ m \in Nat BY <1>4
<1>6. stream[m].deliveries + 1 \in Nat /\ stream[m].id \in Ids BY <1>5 DEF Copies
<1>7. stream' \in Seq(Copies) /\ StreamKept /\ DOMAIN stream' = DOMAIN stream
  BY <1>2, <1>3, <1>6, CopyMarked
<1>8. /\ worker'.copy = m /\ worker' \in WorkerStates
      /\ worker'.pc = IF status[stream[m].id] = "applied" THEN "ack" ELSE "resolve"
  BY <1>2, <1>5 DEF WorkerStates, IdleWorker, Working
<1>9. CommandTyped' BY <1>1, <1>3, <1>7, <1>8 DEF CommandTyped
<1>10. LeftTyped' BY <1>1, <1>3 DEF LeftTyped
<1>11. WorkerWithin' /\ WorkerDone' BY <1>8, WorkerIdle
<1>12. Copy'.id = stream[m].id BY <1>7, <1>8 DEF Copy, StreamKept
<1>13. AppliedOnce'
  <2>1. worker'.pc \in Working => status'[Copy'.id] # "applied" BY <1>1, <1>8, <1>12 DEF Working
  <2>. QED BY <2>1, <1>1, <1>7, WorkerApplied
<1>14. OwnerUndisturbed'
  <2>1. worker.pc \notin Erasing BY <1>1 DEF Erasing
  <2>. QED BY <2>1, <1>1, <1>7, WorkerOwner
<1>. QED BY <1>1, <1>7, <1>9, <1>10, <1>11, <1>13, <1>14, WorkerKeeps

\* A command that raises, when no preview is its owner's alone or some call is
\* allowed to fail.
LEMMA RaiseKeeps ==
  ASSUME DialogueInv, Raise, worker.pc # "idle", LeftTyped', left'.calm = left.calm,
         \A d \in Dialogues : ~(left.calm /\ Alone(d))
  PROVE  DialogueInv'
<1>1. UNCHANGED <<memoryVars, dialogueVars, click>> /\ worker' = IdleWorker
  BY DEF Raise, workerOnly
<1>2. CommandTyped BY DEF DialogueInv, DialogueTypeOK
<1>3. PICK s \in {"failed", "retrying"}, state \in {"queued", "acked"} :
          /\ Record(Copy.id, s) /\ SetCopy(state)
          /\ dead' = dead \/ dead' = dead \cup {[id |-> Copy.id, body |-> Copy.body]}
  BY DEF Raise
<1>4. /\ Copy.id \in Ids /\ Copy.body \in Bodies
      /\ \E k \in Clicks : Sent(k) /\ Carries(k, Copy.id, Copy.body)
  BY CommandIs
<1>5. stream' \in Seq(Copies) /\ StreamKept /\ DOMAIN stream' = DOMAIN stream
  BY <1>2, <1>3, SetCopyIs
<1>6. /\ status' \in [Ids -> Statuses]
      /\ \A j \in Ids : status'[j] = "applied" => status[j] = "applied"
  BY <1>2, <1>3, <1>4, RecordIs
<1>7. /\ dead' \subseteq Letters
      /\ \A e \in dead' : e \in dead \/ \E k \in Clicks : Sent(k) /\ Carries(k, e.id, e.body)
  BY <1>2, <1>3, <1>4 DEF CommandTyped, Letters
<1>8. worker' \in WorkerStates /\ worker'.pc = "idle" /\ worker'.copy = 0
  BY <1>1 DEF IdleWorker, WorkerStates
<1>9. CommandTyped' BY <1>5, <1>6, <1>7, <1>8 DEF CommandTyped
<1>10. WorkerWithin' /\ WorkerDone' BY <1>8, WorkerIdle
<1>11. AppliedOnce' BY <1>1, <1>5, <1>6, <1>8, WorkerApplied DEF Working
<1>12. OwnerUndisturbed' BY <1>5, AloneKept DEF OwnerUndisturbed
<1>. QED BY <1>1, <1>5, <1>7, <1>9, <1>10, <1>11, <1>12, WorkerKeeps

LEMMA FaultKeeps ==
  ASSUME DialogueInv, Fault
  PROVE  DialogueInv'
<1>1. worker.pc # "idle" /\ Uses("faults") /\ Raise BY DEF Fault
<1>2. LeftTyped BY DEF DialogueInv, DialogueTypeOK
<1>3. LeftTyped' /\ left'.calm = left.calm /\ ~left.calm BY <1>1, <1>2, UsesTyped
<1>. QED BY <1>1, <1>3, RaiseKeeps

LEMMA AckKeeps ==
  ASSUME DialogueInv, Ack
  PROVE  DialogueInv'
<1>1. /\ worker.pc = "ack" /\ SetCopy("acked") /\ worker' = IdleWorker
      /\ UNCHANGED <<memoryVars, dialogueVars, click, status, dead, left>>
  BY DEF Ack, Doing, workerOnly
<1>2. CommandTyped /\ LeftTyped BY DEF DialogueInv, DialogueTypeOK
<1>3. stream' \in Seq(Copies) /\ StreamKept /\ DOMAIN stream' = DOMAIN stream
  BY <1>1, <1>2, SetCopyIs
<1>4. worker' \in WorkerStates /\ worker'.pc = "idle" /\ worker'.copy = 0
  BY <1>1 DEF IdleWorker, WorkerStates
<1>5. CommandTyped' BY <1>1, <1>2, <1>3, <1>4 DEF CommandTyped
<1>6. LeftTyped' /\ left'.calm = left.calm BY <1>1, <1>2 DEF LeftTyped
<1>7. WorkerWithin' /\ WorkerDone' BY <1>4, WorkerIdle
<1>8. AppliedOnce' BY <1>1, <1>3, <1>4, WorkerApplied DEF Working
<1>9. OwnerUndisturbed' BY <1>1, <1>3, <1>6, WorkerOwner DEF Erasing
<1>. QED BY <1>1, <1>3, <1>5, <1>6, <1>7, <1>8, <1>9, WorkerKeeps

\* Whoever confirmed the owner's preview alone is whose command is at hand.
LEMMA AloneIs ==
  ASSUME DialogueInv, worker.pc # "idle", NEW d \in Dialogues, Alone(d)
  PROVE  Copy.id = d /\ Copy.body.drawers = preview[d].found \cap Drawers
<1>1. PICK k \in Clicks : Sent(k) /\ Carries(k, Copy.id, Copy.body) BY CommandIs
<1>2. Plan[k].surface = "owner" /\ Plan[k].on = d BY <1>1 DEF Alone
<1>3. Knows(k) /\ Copy.id = RequestId(k) /\ Copy.body = Body(k) BY <1>1 DEF Carries
<1>4. Copy.id = d BY <1>2, <1>3 DEF RequestId
<1>5. DialogueTypeOK /\ TokenSays BY DEF DialogueInv
<1>. QED BY <1>2, <1>3, <1>4, <1>5, CarriedMeant

LEMMA ResolveKeeps ==
  ASSUME DialogueInv, Resolve
  PROVE  DialogueInv'
<1> DEFINE b == Copy.body
           behind == {Of[x] : x \in b.drawers \cap ToSet(rows)}
           facts == behind \cup FromSources(Assertions)
<1>1. worker.pc = "resolve" BY DEF Resolve, Doing
<1>2. CommandTyped /\ LeftTyped /\ MemoryTyped BY DEF DialogueInv, DialogueTypeOK
<1>3. /\ Copy.id \in Ids /\ b \in Bodies
      /\ \A x \in b.drawers : /\ Of[x] \in Assertions /\ Of[x] \in Touched(b)
                              /\ x \in ToSet(rows) \/ Buried(Of[x])
  BY <1>1, CommandIs
<1>4. status[Copy.id] # "applied" BY <1>1 DEF DialogueInv, AppliedOnce, Working
<1>5. CASE b.drawers # {} /\ behind = {}
  <2>1. Raise /\ UNCHANGED left BY <1>5 DEF Resolve
  <2>2. LeftTyped' /\ left'.calm = left.calm BY <2>1, <1>2 DEF LeftTyped
  <2>3. ASSUME NEW d \in Dialogues, left.calm, Alone(d) PROVE FALSE
    <3>1. Copy.id = d /\ b.drawers = preview[d].found \cap Drawers BY <2>3, <1>1, AloneIs
    <3>2. b.drawers \subseteq ToSet(rows)
      BY <2>3, <3>1, <1>1, <1>4 DEF DialogueInv, OwnerUndisturbed
    <3>. QED BY <3>2, <1>5
  <2>. QED BY <2>1, <2>2, <2>3, <1>1, RaiseKeeps
<1>6. CASE ~(b.drawers # {} /\ behind = {})
  <2>1. /\ worker' = [worker EXCEPT
               !.pc = IF facts = {} THEN "promises" ELSE "tombstone",
               !.facts = facts,
               !.drawers = b.drawers \cup {x \in ToSet(rows) : Of[x] \in facts}]
        /\ UNCHANGED <<memoryVars, dialogueVars, click, status, stream, dead, left>>
    BY <1>6 DEF Resolve, workerOnly
  <2>2. behind \subseteq Touched(b) /\ behind \subseteq Assertions BY <1>3
  <2>3. /\ FromSources(Assertions) \subseteq Assertions
        /\ FromSources(Assertions) \subseteq Touched(b)
    BY DEF FromSources, Touched
  <2>4. ASSUME NEW a \in Touched(b) \cap Assertions PROVE a \in facts \/ Buried(a)
    <3>1. CASE a \in {Of[x] : x \in b.drawers} BY <3>1, <1>3
    <3>2. CASE a \in b.promises BY <3>2, <1>3, FormAssumption DEF Bodies
    <3>3. CASE Origin[a] \in b.sources BY <3>3 DEF FromSources
    <3>. QED BY <3>1, <3>2, <3>3 DEF Touched
  <2>5. facts \subseteq Touched(b) /\ facts \subseteq Assertions BY <2>2, <2>3
  <2>6. b.drawers \subseteq Drawers /\ ToSet(rows) \subseteq Drawers
    BY <1>2, <1>3 DEF Bodies, MemoryTyped, ToSet
  <2>7. /\ worker \in WorkerStates /\ worker.copy \in DOMAIN stream BY <1>1, <1>2 DEF CommandTyped
  <2>. HIDE DEF facts, b
  <2>8. /\ worker' \in WorkerStates /\ worker'.copy = worker.copy
        /\ worker'.pc = IF facts = {} THEN "promises" ELSE "tombstone"
        /\ worker'.facts = facts
        /\ worker'.drawers = b.drawers \cup {x \in ToSet(rows) : Of[x] \in facts}
    BY <2>1, <2>5, <2>6, <2>7 DEF WorkerStates, Working
  <2>9. StreamKept BY <2>1 DEF StreamKept
  <2>10. CommandTyped' BY <2>1, <2>7, <2>8, <1>2 DEF CommandTyped
  <2>11. LeftTyped' /\ left'.calm = left.calm BY <2>1, <1>2 DEF LeftTyped
  <2>12. Copy' = Copy BY <2>1, <2>8 DEF Copy
  <2>13. UNCHANGED <<rows, hidden, tomb, promise, redacted>> BY <2>1 DEF memoryVars
  <2>14. \A a : Buried(a)' = Buried(a) BY <2>13 DEF Buried, Initially
  <2>15. WorkerWithin'
    <3>1. \A x \in Initially : Of[x] \in facts => x \in worker'.drawers BY <2>8 DEF Initially
    <3>2. Initially' = Initially BY <2>13 DEF Initially
    <3>3. Touched(b)' = Touched(b) BY <2>12 DEF Touched, b
    <3>. QED BY <2>4, <2>5, <2>8, <2>12, <2>14, <3>1, <3>2, <3>3 DEF WorkerWithin, b
  <2>16. WorkerDone'
    <3>1. SUFFICES ASSUME facts = {} PROVE AssertionsGone(b)'
      BY <2>8, <2>12 DEF WorkerDone, b
    <3>2. \A a \in Touched(b) \cap Assertions : Buried(a) BY <3>1, <2>4
    <3>3. Initially' = Initially BY <2>13 DEF Initially
    <3>4. Touched(b)' = Touched(b) BY <2>12 DEF Touched, b
    <3>. QED BY <3>2, <3>3, <3>4, <2>13 DEF AssertionsGone, Buried
  <2>17. AppliedOnce'
    <3>1. status'[Copy'.id] # "applied" BY <1>4, <2>1, <2>12
    <3>. QED BY <3>1, <2>1, <2>9, WorkerApplied
  <2>18. OwnerUndisturbed' BY <2>1, <2>9, <2>11, <1>1, WorkerOwner DEF Erasing
  <2>. QED BY <2>1, <2>9, <2>10, <2>11, <2>15, <2>16, <2>17, <2>18, WorkerKeeps
<1>. QED BY <1>5, <1>6

\* A step of the worker that changes the memory, to the next of its steps.
LEMMA MemoryStep ==
  ASSUME DialogueInv, UNCHANGED <<token, secret, click, status, stream, dead, left>>,
         ShownKept, MemoryKept, NoneNewlyShown, MemoryTyped', preview' \in [Dialogues -> Previews],
         worker.pc \in Working, NEW pc \in Working, Go(pc)
  PROVE  /\ DialogueTypeOK' /\ TokenSays' /\ ClicksKnow' /\ CommandsMeant' /\ AppliedOnce'
         /\ StreamKept /\ Copy' = Copy
         /\ worker'.pc = pc /\ worker'.facts = worker.facts /\ worker'.drawers = worker.drawers
<1>1. DialogueTyped /\ CommandTyped /\ LeftTyped BY DEF DialogueInv, DialogueTypeOK
<1>2. worker \in WorkerStates BY <1>1 DEF CommandTyped
<1>3. /\ worker' \in WorkerStates /\ worker'.pc = pc /\ worker'.copy = worker.copy
      /\ worker'.facts = worker.facts /\ worker'.drawers = worker.drawers
  BY <1>2 DEF Go, WorkerStates
<1>4. StreamKept BY DEF StreamKept
<1>5. Copy' = Copy BY <1>3 DEF Copy
<1>6. pc # "idle" /\ worker.pc # "idle" BY DEF Working
<1>7. CommandTyped' BY <1>1, <1>3, <1>6 DEF CommandTyped
<1>8. LeftTyped' BY <1>1 DEF LeftTyped
<1>9. DialogueTyped' BY <1>1 DEF DialogueTyped
<1>10. DialogueTypeOK' BY <1>7, <1>8, <1>9 DEF DialogueTypeOK
<1>11. TokenSays' BY TokenSaysFrame DEF DialogueInv
<1>12. ClicksKnow' BY ClicksFrame DEF DialogueInv
<1>13. CommandsMeant' BY <1>4, CommandsFrame DEF DialogueInv
<1>14. AppliedOnce'
  <2>1. status'[Copy'.id] # "applied" BY <1>5 DEF DialogueInv, AppliedOnce
  <2>. QED BY <2>1, AppliedFrame DEF DialogueInv
<1>. QED BY <1>3, <1>4, <1>5, <1>10, <1>11, <1>12, <1>13, <1>14

\* What is recorded of a copy that stays, while the memory only loses.
LEMMA RecordedKept ==
  ASSUME MemoryKept, Copy' = Copy
  PROVE  /\ Touched(Copy.body)' = Touched(Copy.body)
         /\ AssertionsGone(Copy.body) => AssertionsGone(Copy.body)'
         /\ CommitmentsGone(Copy.body) => CommitmentsGone(Copy.body)'
<1>1. Touched(Copy.body)' = Touched(Copy.body) BY DEF Touched
<1>2. AssertionsGone(Copy.body) => AssertionsGone(Copy.body)' BY <1>1 DEF AssertionsGone, MemoryKept
<1>3. CommitmentsGone(Copy.body) => CommitmentsGone(Copy.body)'
  BY <1>1 DEF CommitmentsGone, MemoryKept
<1>. QED BY <1>1, <1>2, <1>3

LEMMA TombstoneKeeps ==
  ASSUME DialogueInv, Tombstone
  PROVE  DialogueInv'
<1> DEFINE b == Copy.body
<1>1. /\ worker.pc = "tombstone" /\ tomb' = tomb \cup worker.facts /\ Go("erase")
      /\ UNCHANGED <<preview, token, secret, click, rows, hidden, promise, redacted>>
      /\ UNCHANGED <<status, stream, dead, left>>
  BY DEF Tombstone, Doing, workerOnly, dialogueVars
<1>2. MemoryTyped /\ DialogueTyped /\ CommandTyped BY DEF DialogueInv, DialogueTypeOK
<1>3. ShownKept /\ NoneNewlyShown /\ SameFound /\ NoneRemoved
  BY <1>1 DEF ShownKept, NoneNewlyShown, SameFound, NoneRemoved
<1>4. MemoryKept BY <1>1 DEF MemoryKept, Initially
<1>5. worker.facts \subseteq Assertions BY <1>2 DEF CommandTyped, WorkerStates
<1>6. MemoryTyped' BY <1>1, <1>2, <1>5 DEF MemoryTyped
<1>7. /\ DialogueTypeOK' /\ TokenSays' /\ ClicksKnow' /\ CommandsMeant' /\ AppliedOnce'
      /\ StreamKept /\ Copy' = Copy
      /\ worker'.pc = "erase" /\ worker'.facts = worker.facts /\ worker'.drawers = worker.drawers
  <2>1. worker.pc \in Working /\ "erase" \in Working BY <1>1 DEF Working
  <2>2. preview' \in [Dialogues -> Previews] BY <1>1, <1>2 DEF DialogueTyped
  <2>. QED BY <2>1, <2>2, <1>1, <1>3, <1>4, <1>6, MemoryStep
<1>8. FoundOrBuried' BY <1>3, <1>4, FoundFrame DEF DialogueInv
<1>9. ScanAhead' BY <1>1, ScanFrame DEF DialogueInv
<1>10. /\ worker.facts \subseteq Touched(b)
       /\ \A x \in worker.drawers : x \in b.drawers \/ Of[x] \in worker.facts
       /\ \A a \in Touched(b) \cap Assertions : a \in worker.facts \/ Buried(a)
       /\ \A x \in Initially : Of[x] \in worker.facts => x \in worker.drawers
  BY <1>1 DEF DialogueInv, WorkerWithin
<1>11. WorkerWithin'
  <2>1. Touched(b)' = Touched(b) BY <1>4, <1>7, RecordedKept
  <2>2. \A a \in Touched(b) \cap Assertions : a \in worker.facts \/ Buried(a)'
    BY <1>4, <1>10, BuriedKept
  <2>3. Initially' = Initially BY <1>1 DEF Initially
  <2>. QED BY <1>7, <1>10, <2>1, <2>2, <2>3 DEF WorkerWithin
<1>12. WorkerDone' BY <1>1, <1>7 DEF WorkerDone
<1>13. ForgottenMeant'
  <2>1. PICK k \in Clicks : Sent(k) /\ Carries(k, Copy.id, b) /\ Touched(b) = Meant(k)
    BY <1>1, CommandIs
  <2>2. \A a \in worker.facts : Means(k, a) BY <1>10, <2>1 DEF Means, Carries
  <2>3. \A a \in tomb' : \E j \in Clicks : Means(j, a)
    BY <1>1, <2>2 DEF DialogueInv, ForgottenMeant
  <2>4. \A a \in tomb' : \E j \in Clicks : Means(j, a)' BY <1>3, <1>7, <2>3, MeansKept
  <2>5. ASSUME NEW c \in Commitments, promise[c] # "none"
        PROVE  \E j \in Clicks : Means(j, c)' /\ (promise[c] = "delete" => Hard(j))
    BY <1>3, <1>7, <2>5, MeansKept DEF DialogueInv, ForgottenMeant
  <2>6. ASSUME NEW i \in DOMAIN Stored, Stored[i] \notin ToSet(rows)
        PROVE  \E j \in Clicks : Means(j, Of[Stored[i]])' /\ Hard(j)
    BY <1>3, <1>7, <2>6, MeansKept DEF DialogueInv, ForgottenMeant
  <2>7. \A j \in Clicks : Hard(j)' = Hard(j) BY DEF Hard
  <2>. QED BY <1>1, <2>4, <2>5, <2>6, <2>7 DEF ForgottenMeant
<1>14. OwnerUndisturbed' BY <1>1, <1>3, <1>7, OwnerFrame DEF DialogueInv, Erasing
<1>. QED BY <1>7, <1>8, <1>9, <1>11, <1>12, <1>13, <1>14 DEF DialogueInv

\* What an erasure leaves, and which scans it disturbs.
LEMMA EraseRowsIs ==
  ASSUME MemoryTyped, preview \in [Dialogues -> Previews], NEW gone, NEW shifts \in BOOLEAN,
         EraseRows(gone, shifts), ~shifts => ToSet(rows) \cap gone = {}
  PROVE  /\ rows' \in Seq(Drawers) /\ hidden \subseteq hidden' /\ hidden' \subseteq Drawers
         /\ Copy.body.hard => ToSet(rows') = ToSet(rows) \ gone
         /\ ~Copy.body.hard => rows' = rows /\ preview' = preview /\ gone \cap ToSet(rows) \subseteq hidden'
         /\ ~shifts => rows' = rows
         /\ preview' \in [Dialogues -> Previews]
         /\ \A d \in Dialogues :
                \/ preview'[d] = preview[d]
                   /\ (preview[d].pc \in {"scan", "overflow"} => ~shifts \/ ~Copy.body.hard)
                \/ /\ preview[d].pc \in {"scan", "overflow"}
                   /\ preview'[d] = [preview[d] EXCEPT !.moved = TRUE]
<1>1. rows \in Seq(Drawers) /\ hidden \subseteq Drawers /\ ToSet(rows) \subseteq Drawers
  BY DEF MemoryTyped, ToSet
<1>2. /\ Without(rows, gone) \in Seq(Drawers)
      /\ ToSet(Without(rows, gone)) = ToSet(rows) \ gone
      /\ ToSet(rows) \cap gone = {} => Without(rows, gone) = rows
  BY <1>1, WithoutListing
<1>3. CASE Copy.body.hard
  <2>1. /\ rows' = Without(rows, gone) /\ hidden' = hidden
        /\ preview' = [d \in Dialogues |->
               IF preview[d].pc \in {"scan", "overflow"} /\ shifts
               THEN [preview[d] EXCEPT !.moved = TRUE] ELSE preview[d]]
    BY <1>3 DEF EraseRows
  <2>2. ASSUME NEW d \in Dialogues
        PROVE  /\ preview'[d] \in Previews
               /\ \/ preview'[d] = preview[d] /\ (preview[d].pc \in {"scan", "overflow"} => ~shifts)
                  \/ /\ preview[d].pc \in {"scan", "overflow"}
                     /\ preview'[d] = [preview[d] EXCEPT !.moved = TRUE]
    <3>1. CASE preview[d].pc \in {"scan", "overflow"} /\ shifts
      <4>1. preview'[d] = [preview[d] EXCEPT !.moved = TRUE] BY <2>1, <3>1
      <4>2. preview[d] \in Previews OBVIOUS
      <4>. QED BY <4>1, <4>2, <3>1 DEF Previews
    <3>2. CASE ~(preview[d].pc \in {"scan", "overflow"} /\ shifts)
      <4>1. preview'[d] = preview[d] BY <2>1, <3>2
      <4>. QED BY <4>1, <3>2
    <3>. QED BY <3>1, <3>2
  <2>3. preview' \in [Dialogues -> Previews]
    <3>1. preview' = [d \in Dialogues |-> preview'[d]] BY <2>1
    <3>. QED BY <3>1, <2>2
  <2>. QED BY <1>1, <1>2, <1>3, <2>1, <2>2, <2>3
<1>4. CASE ~Copy.body.hard
  <2>1. hidden' = hidden \cup (gone \cap ToSet(rows)) /\ rows' = rows /\ preview' = preview
    BY <1>4 DEF EraseRows
  <2>. QED BY <1>1, <1>4, <2>1
<1>. QED BY <1>3, <1>4

\* The previews and the scans after an erasure, when the commitments listed
\* change only if it shifts.
LEMMA ErasedScans ==
  ASSUME DialogueInv, NEW gone, NEW shifts \in BOOLEAN, EraseRows(gone, shifts),
         ~shifts => ToSet(rows) \cap gone = {},
         ~shifts \/ ~Copy.body.hard => Listing("promises")' = Listing("promises"), UNCHANGED token
  PROVE  ShownKept /\ NoneNewlyShown /\ SameFound /\ ScanAhead'
<1>1. MemoryTyped /\ preview \in [Dialogues -> Previews]
  BY DEF DialogueInv, DialogueTypeOK, DialogueTyped
<1>2. /\ ~Copy.body.hard => rows' = rows /\ preview' = preview
      /\ ~shifts => rows' = rows
      /\ \A d \in Dialogues :
             \/ preview'[d] = preview[d]
                /\ (preview[d].pc \in {"scan", "overflow"} => ~shifts \/ ~Copy.body.hard)
             \/ /\ preview[d].pc \in {"scan", "overflow"}
                /\ preview'[d] = [preview[d] EXCEPT !.moved = TRUE]
  BY <1>1, EraseRowsIs
<1>3. \A d \in Dialogues :
          /\ preview'[d].pc = preview[d].pc /\ preview'[d].found = preview[d].found
          /\ preview'[d].there = preview[d].there /\ preview'[d].offset = preview[d].offset
          /\ preview[d].pc \notin {"scan", "overflow"} => preview'[d] = preview[d]
          /\ preview[d].pc \in {"scan", "overflow"} /\ ~preview'[d].moved =>
                 preview'[d] = preview[d] /\ (~shifts \/ ~Copy.body.hard)
  <2>1. ASSUME NEW d \in Dialogues
        PROVE  /\ preview'[d].pc = preview[d].pc /\ preview'[d].found = preview[d].found
               /\ preview'[d].there = preview[d].there /\ preview'[d].offset = preview[d].offset
               /\ preview[d].pc \notin {"scan", "overflow"} => preview'[d] = preview[d]
               /\ preview[d].pc \in {"scan", "overflow"} /\ ~preview'[d].moved =>
                      preview'[d] = preview[d] /\ (~shifts \/ ~Copy.body.hard)
    <3>1. preview[d] \in Previews BY <1>1
    <3>2. CASE preview'[d] = preview[d]
               /\ (preview[d].pc \in {"scan", "overflow"} => ~shifts \/ ~Copy.body.hard)
      BY <3>2
    <3>3. CASE /\ preview[d].pc \in {"scan", "overflow"}
               /\ preview'[d] = [preview[d] EXCEPT !.moved = TRUE]
      BY <3>1, <3>3 DEF Previews
    <3>. QED BY <3>2, <3>3, <1>2
  <2>. QED BY <2>1
<1>4. ShownKept BY <1>3 DEF ShownKept
<1>5. NoneNewlyShown /\ SameFound BY <1>3 DEF NoneNewlyShown, SameFound
<1>6. ScanAhead'
  <2>1. ASSUME ~shifts \/ ~Copy.body.hard, NEW p PROVE Ahead(p)' = Ahead(p)
    <3>1. rows' = rows BY <1>2, <2>1
    <3>2. Listing("promises")' = Listing("promises") BY <2>1
    <3>3. p.list = "rows" => Listing(p.list)' = Listing(p.list) BY <3>1 DEF Listing
    <3>4. p.list # "rows" => Listing(p.list) = Listing("promises")
      BY DEF Listing
    <3>5. p.list # "rows" => Listing(p.list)' = Listing("promises")'
      BY DEF Listing
    <3>6. Listing(p.list)' = Listing(p.list) BY <3>2, <3>3, <3>4, <3>5
    <3>. QED BY <3>2, <3>6 DEF Ahead
  <2>2. ScanAhead BY DEF DialogueInv
  <2>3. CASE ~shifts \/ ~Copy.body.hard
    <3>1. \A p : Ahead(p)' = Ahead(p) BY <2>1, <2>3
    <3>. QED BY <2>2, <3>1, <1>3 DEF ScanAhead, PreviewComplete
  <2>4. CASE ~(~shifts \/ ~Copy.body.hard)
    <3>1. \A d \in Dialogues : preview'[d].pc \in {"scan", "overflow"} => preview'[d].moved
      BY <2>4, <1>3
    <3>. QED BY <2>2, <3>1, <1>3 DEF ScanAhead, PreviewComplete
  <2>. QED BY <2>3, <2>4
<1>. QED BY <1>4, <1>5, <1>6

LEMMA EraseKeeps ==
  ASSUME DialogueInv, Erase
  PROVE  DialogueInv'
<1> DEFINE b == Copy.body
           shifts == worker.drawers \cap ToSet(rows) # {}
<1>1. /\ worker.pc = "erase" /\ EraseRows(worker.drawers, shifts) /\ Go("promises")
      /\ UNCHANGED <<token, secret, click, redacted, stream, dead, left, tomb, promise, status>>
  BY DEF Erase, Doing, eraseOnly
<1>2. MemoryTyped /\ preview \in [Dialogues -> Previews]
  BY DEF DialogueInv, DialogueTypeOK, DialogueTyped
<1>3. shifts \in BOOLEAN /\ (~shifts => ToSet(rows) \cap worker.drawers = {}) OBVIOUS
<1>. HIDE DEF shifts
<1>4. /\ rows' \in Seq(Drawers) /\ hidden \subseteq hidden' /\ hidden' \subseteq Drawers
      /\ b.hard => ToSet(rows') = ToSet(rows) \ worker.drawers
      /\ ~b.hard => rows' = rows /\ worker.drawers \cap ToSet(rows) \subseteq hidden'
      /\ preview' \in [Dialogues -> Previews]
  BY <1>1, <1>2, <1>3, EraseRowsIs
<1>5. ShownKept /\ NoneNewlyShown /\ SameFound /\ ScanAhead'
  <2>1. Listing("promises")' = Listing("promises") BY <1>1 DEF Listing
  <2>. QED BY <2>1, <1>1, <1>3, ErasedScans
<1>6. ToSet(rows') \subseteq ToSet(rows) BY <1>4
<1>7. MemoryKept BY <1>1, <1>4, <1>6 DEF MemoryKept, Initially
<1>8. MemoryTyped' BY <1>1, <1>2, <1>4 DEF MemoryTyped
<1>9. /\ DialogueTypeOK' /\ TokenSays' /\ ClicksKnow' /\ CommandsMeant' /\ AppliedOnce'
      /\ StreamKept /\ Copy' = Copy /\ worker'.pc = "promises"
  <2>1. worker.pc \in Working /\ "promises" \in Working BY <1>1 DEF Working
  <2>. QED BY <2>1, <1>1, <1>4, <1>5, <1>7, <1>8, MemoryStep
<1>10. /\ worker.facts \subseteq Touched(b) /\ worker.facts \subseteq tomb
       /\ \A x \in worker.drawers : x \in b.drawers \/ Of[x] \in worker.facts
       /\ \A a \in Touched(b) \cap Assertions : a \in worker.facts \/ Buried(a)
       /\ \A x \in Initially : Of[x] \in worker.facts => x \in worker.drawers
  BY <1>1 DEF DialogueInv, WorkerWithin, WorkerDone
<1>11. \A x \in b.drawers : Of[x] \in Assertions /\ Of[x] \in Touched(b)
  BY <1>1, CommandIs
<1>12. \A a \in Touched(b) \cap Assertions : a \in tomb BY <1>10 DEF Buried
<1>13. ASSUME NEW y \in Initially', Of[y] \in Touched(b) \cap Assertions
       PROVE  ~b.hard /\ y \in hidden'
  <2>1. y \in Initially BY <1>7 DEF MemoryKept
  <2>2. Of[y] \in worker.facts BY <1>10, <1>13, <2>1 DEF Buried
  <2>3. y \in worker.drawers /\ y \in ToSet(rows) BY <1>10, <2>1, <2>2 DEF Initially
  <2>4. ~b.hard BY <1>4, <2>3, <1>13 DEF Initially
  <2>. QED BY <1>4, <2>3, <2>4
<1>14. WorkerWithin' BY <1>9 DEF WorkerWithin
<1>15. WorkerDone'
  <2>1. Touched(b)' = Touched(b) BY <1>7, <1>9, RecordedKept
  <2>2. AssertionsGone(b)' BY <1>1, <1>9, <1>12, <1>13, <2>1 DEF AssertionsGone
  <2>. QED BY <1>9, <2>2 DEF WorkerDone
<1>16. FoundOrBuried'
  <2>1. ASSUME NEW d \in Dialogues, NEW x \in preview[d].found \cap Drawers
        PROVE  Of[x] \in Assertions /\ (x \in ToSet(rows') \/ Buried(Of[x])')
    <3>1. Of[x] \in Assertions /\ (x \in ToSet(rows) \/ Buried(Of[x]))
      BY DEF DialogueInv, FoundOrBuried
    <3>2. Buried(Of[x]) => Buried(Of[x])' BY <1>7, BuriedKept
    <3>3. ASSUME x \notin ToSet(rows'), x \in ToSet(rows) PROVE Buried(Of[x])'
      <4>1. b.hard /\ x \in worker.drawers BY <1>4, <3>3
      <4>2. Of[x] \in Touched(b) \cap Assertions BY <1>10, <1>11, <3>1, <4>1
      <4>3. \A y \in Initially' : Of[y] # Of[x] BY <1>13, <4>1, <4>2
      <4>4. Of[x] \in tomb' BY <1>1, <1>12, <4>2
      <4>. QED BY <4>3, <4>4 DEF Buried
    <3>. QED BY <3>1, <3>2, <3>3
  <2>2. \A d \in Dialogues : preview'[d].found = preview[d].found BY <1>5 DEF SameFound
  <2>. QED BY <2>1, <2>2 DEF FoundOrBuried
<1>17. ForgottenMeant'
  <2>1. PICK k \in Clicks : /\ Sent(k) /\ Carries(k, Copy.id, b)
                            /\ Touched(b) = Meant(k) /\ b.hard = Hard(k)
    BY <1>1, CommandIs
  <2>2. \A a \in tomb : \E j \in Clicks : Means(j, a)'
    BY <1>5, <1>9, MeansKept DEF DialogueInv, ForgottenMeant
  <2>3. ASSUME NEW c \in Commitments, promise[c] # "none"
        PROVE  \E j \in Clicks : Means(j, c)' /\ (promise[c] = "delete" => Hard(j))
    BY <1>5, <1>9, <2>3, MeansKept DEF DialogueInv, ForgottenMeant
  <2>4. ASSUME NEW i \in DOMAIN Stored, Stored[i] \notin ToSet(rows')
        PROVE  \E j \in Clicks : Means(j, Of[Stored[i]])' /\ Hard(j)
    <3>1. CASE Stored[i] \notin ToSet(rows)
      BY <3>1, <1>5, <1>9, MeansKept DEF DialogueInv, ForgottenMeant
    <3>2. CASE Stored[i] \in ToSet(rows)
      <4>1. b.hard /\ Stored[i] \in worker.drawers BY <1>4, <2>4, <3>2
      <4>2. Of[Stored[i]] \in Touched(b) BY <1>10, <1>11, <4>1
      <4>3. Means(k, Of[Stored[i]]) BY <2>1, <4>2 DEF Means, Carries
      <4>. QED BY <1>5, <1>9, <2>1, <4>1, <4>3, MeansKept
    <3>. QED BY <3>1, <3>2
  <2>5. \A j \in Clicks : Hard(j)' = Hard(j) BY DEF Hard
  <2>. QED BY <1>1, <2>2, <2>3, <2>4, <2>5 DEF ForgottenMeant
<1>18. OwnerUndisturbed'
  <2>1. \A d : Alone(d)' => Alone(d) BY <1>9, AloneKept
  <2>. QED BY <2>1, <1>1, <1>9 DEF DialogueInv, OwnerUndisturbed
<1>. QED BY <1>5, <1>9, <1>14, <1>15, <1>16, <1>17, <1>18 DEF DialogueInv

LEMMA PromisesKeeps ==
  ASSUME DialogueInv, Promises
  PROVE  DialogueInv'
<1> DEFINE b == Copy.body
           wanted == b.promises \cup FromSources(Commitments)
           gone == {x \in ToSet(rows) : Of[x] \in wanted}
           shifts == wanted # {}
<1>1. /\ worker.pc = "promises" /\ EraseRows(gone, shifts) /\ Go("redact")
      /\ promise' = [c \in Commitments |->
             IF c \notin wanted \/ promise[c] = "delete" THEN promise[c]
             ELSE IF b.hard THEN "delete" ELSE "archive"]
      /\ UNCHANGED <<token, secret, click, redacted, stream, dead, left, tomb, status>>
  BY DEF Promises, Doing, eraseOnly
<1>2. MemoryTyped /\ preview \in [Dialogues -> Previews]
  BY DEF DialogueInv, DialogueTypeOK, DialogueTyped
<1>3. shifts \in BOOLEAN /\ (~shifts => ToSet(rows) \cap gone = {}) OBVIOUS
<1>4. b \in Bodies /\ (\A x \in b.drawers : Of[x] \in Assertions)
  BY <1>1, CommandIs
<1>5. wanted \subseteq Commitments /\ wanted \subseteq Touched(b) /\ Touched(b) \cap Commitments \subseteq wanted
  <2>1. b.promises \subseteq Commitments BY <1>4 DEF Bodies
  <2>2. \A c \in Commitments : c \notin {Of[x] : x \in b.drawers} BY <1>4, FormAssumption
  <2>. QED BY <2>1, <2>2 DEF FromSources, Touched
<1>6. \A x : x \in gone <=> x \in ToSet(rows) /\ Of[x] \in wanted OBVIOUS
<1>7. shifts = (wanted # {}) OBVIOUS
<1>. HIDE DEF wanted, gone, shifts
<1>8. /\ rows' \in Seq(Drawers) /\ hidden \subseteq hidden' /\ hidden' \subseteq Drawers
      /\ b.hard => ToSet(rows') = ToSet(rows) \ gone
      /\ ~b.hard => rows' = rows /\ gone \cap ToSet(rows) \subseteq hidden'
      /\ preview' \in [Dialogues -> Previews]
  BY <1>1, <1>2, <1>3, EraseRowsIs
<1>9. promise \in [Commitments -> {"none", "archive", "delete"}] BY <1>2 DEF MemoryTyped
<1>10. /\ promise' \in [Commitments -> {"none", "archive", "delete"}]
       /\ \A c \in Commitments : promise[c] # "none" => promise'[c] # "none"
       /\ \A c \in wanted : promise'[c] # "none"
       /\ \A c \in Commitments : c \notin wanted => promise'[c] = promise[c]
       /\ \A c \in Commitments : promise'[c] = "delete" => promise[c] = "delete" \/ b.hard
       /\ \A c \in Commitments : promise[c] = "delete" => promise'[c] = "delete"
  BY <1>1, <1>5, <1>9
<1>11. ~shifts \/ ~b.hard => Listing("promises")' = Listing("promises")
  <2>1. ASSUME ~shifts \/ ~b.hard, NEW c \in Commitments
        PROVE  promise'[c] = "delete" <=> promise[c] = "delete"
    BY <1>7, <1>10, <2>1
  <2>. QED BY <2>1 DEF Listing
<1>12. ShownKept /\ NoneNewlyShown /\ SameFound /\ ScanAhead'
  BY <1>1, <1>3, <1>11, ErasedScans
<1>13. ToSet(rows') \subseteq ToSet(rows) BY <1>8
<1>14. MemoryKept BY <1>1, <1>8, <1>10, <1>13 DEF MemoryKept, Initially
<1>15. MemoryTyped' BY <1>1, <1>2, <1>8, <1>10 DEF MemoryTyped
<1>16. /\ DialogueTypeOK' /\ TokenSays' /\ ClicksKnow' /\ CommandsMeant' /\ AppliedOnce'
       /\ StreamKept /\ Copy' = Copy /\ worker'.pc = "redact"
  <2>1. worker.pc \in Working /\ "redact" \in Working BY <1>1 DEF Working
  <2>. QED BY <2>1, <1>1, <1>8, <1>12, <1>14, <1>15, MemoryStep
<1>17. ASSUME NEW y \in Initially', Of[y] \in wanted
       PROVE  ~b.hard /\ y \in hidden'
  <2>1. y \in ToSet(rows) /\ y \in ToSet(rows') BY <1>13 DEF Initially
  <2>2. y \in gone BY <1>6, <1>17, <2>1
  <2>. QED BY <1>8, <2>1, <2>2
<1>18. WorkerWithin' BY <1>16 DEF WorkerWithin
<1>19. WorkerDone'
  <2>1. Touched(b)' = Touched(b) BY <1>14, <1>16, RecordedKept
  <2>2. AssertionsGone(b)' BY <1>1, <1>14, <1>16, RecordedKept DEF DialogueInv, WorkerDone
  <2>3. CommitmentsGone(b)' BY <1>5, <1>10, <1>16, <1>17, <2>1 DEF CommitmentsGone
  <2>. QED BY <1>16, <2>2, <2>3 DEF WorkerDone
<1>20. FoundOrBuried'
  <2>1. ASSUME NEW d \in Dialogues, NEW x \in preview[d].found \cap Drawers
        PROVE  Of[x] \in Assertions /\ (x \in ToSet(rows') \/ Buried(Of[x])')
    <3>1. Of[x] \in Assertions /\ (x \in ToSet(rows) \/ Buried(Of[x]))
      BY DEF DialogueInv, FoundOrBuried
    <3>2. Buried(Of[x]) => Buried(Of[x])' BY <1>14, BuriedKept
    <3>3. x \notin gone BY <1>5, <1>6, <3>1, FormAssumption
    <3>. QED BY <1>8, <3>1, <3>2, <3>3
  <2>2. \A d \in Dialogues : preview'[d].found = preview[d].found BY <1>12 DEF SameFound
  <2>. QED BY <2>1, <2>2 DEF FoundOrBuried
<1>21. ForgottenMeant'
  <2>1. PICK k \in Clicks : /\ Sent(k) /\ Carries(k, Copy.id, b)
                            /\ Touched(b) = Meant(k) /\ b.hard = Hard(k)
    BY <1>1, CommandIs
  <2>2. \A a \in tomb : \E j \in Clicks : Means(j, a)'
    BY <1>12, <1>16, MeansKept DEF DialogueInv, ForgottenMeant
  <2>3. \A x \in wanted : Means(k, x)' /\ Means(k, x)
    <3>1. \A x \in wanted : Means(k, x) BY <1>5, <2>1 DEF Means, Carries
    <3>. QED BY <3>1, <1>12, <1>16, MeansKept
  <2>4. ASSUME NEW c \in Commitments, promise'[c] # "none"
        PROVE  \E j \in Clicks : Means(j, c)' /\ (promise'[c] = "delete" => Hard(j))
    <3>1. CASE c \in wanted /\ promise[c] # "delete"
      BY <3>1, <1>10, <2>1, <2>3
    <3>2. CASE c \notin wanted \/ promise[c] = "delete"
      <4>1. promise[c] = promise'[c] BY <3>2, <1>10
      <4>2. PICK j \in Clicks : Means(j, c) /\ (promise[c] = "delete" => Hard(j))
        BY <2>4, <4>1 DEF DialogueInv, ForgottenMeant
      <4>. QED BY <4>1, <4>2, <1>12, <1>16, MeansKept
    <3>. QED BY <3>1, <3>2
  <2>5. ASSUME NEW i \in DOMAIN Stored, Stored[i] \notin ToSet(rows')
        PROVE  \E j \in Clicks : Means(j, Of[Stored[i]])' /\ Hard(j)
    <3>1. CASE Stored[i] \notin ToSet(rows)
      BY <3>1, <1>12, <1>16, MeansKept DEF DialogueInv, ForgottenMeant
    <3>2. CASE Stored[i] \in ToSet(rows)
      <4>1. b.hard /\ Stored[i] \in gone BY <1>8, <2>5, <3>2
      <4>. QED BY <1>6, <2>1, <2>3, <4>1
    <3>. QED BY <3>1, <3>2
  <2>6. \A j \in Clicks : Hard(j)' = Hard(j) BY DEF Hard
  <2>. QED BY <1>1, <2>2, <2>4, <2>5, <2>6 DEF ForgottenMeant
<1>22. OwnerUndisturbed'
  <2>1. \A d : Alone(d)' => Alone(d) BY <1>16, AloneKept
  <2>. QED BY <2>1, <1>1, <1>16 DEF DialogueInv, OwnerUndisturbed
<1>. QED BY <1>12, <1>16, <1>18, <1>19, <1>20, <1>21, <1>22 DEF DialogueInv

LEMMA RedactKeeps ==
  ASSUME DialogueInv, Redact
  PROVE  DialogueInv'
<1> DEFINE b == Copy.body
<1>1. /\ worker.pc = "redact" /\ redacted' = redacted \cup b.sources /\ Go("record")
      /\ UNCHANGED <<preview, token, secret, click, rows, hidden, tomb, promise>>
      /\ UNCHANGED <<status, stream, dead, left>>
  BY DEF Redact, Doing, workerOnly, dialogueVars
<1>2. MemoryTyped /\ preview \in [Dialogues -> Previews]
  BY DEF DialogueInv, DialogueTypeOK, DialogueTyped
<1>3. ShownKept /\ NoneNewlyShown /\ SameFound /\ NoneRemoved
  BY <1>1 DEF ShownKept, NoneNewlyShown, SameFound, NoneRemoved
<1>4. MemoryKept BY <1>1 DEF MemoryKept, Initially
<1>5. b.sources \subseteq Sources BY <1>1, CommandIs DEF Bodies
<1>6. MemoryTyped' BY <1>1, <1>2, <1>5 DEF MemoryTyped
<1>7. /\ DialogueTypeOK' /\ TokenSays' /\ ClicksKnow' /\ CommandsMeant' /\ AppliedOnce'
      /\ StreamKept /\ Copy' = Copy /\ worker'.pc = "record"
  <2>1. worker.pc \in Working /\ "record" \in Working BY <1>1 DEF Working
  <2>2. preview' \in [Dialogues -> Previews] BY <1>1, <1>2
  <2>. QED BY <2>1, <2>2, <1>1, <1>3, <1>4, <1>6, MemoryStep
<1>8. FoundOrBuried' BY <1>3, <1>4, FoundFrame DEF DialogueInv
<1>9. ScanAhead' BY <1>1, ScanFrame DEF DialogueInv
<1>10. WorkerWithin' BY <1>7 DEF WorkerWithin
<1>11. WorkerDone'
  <2>1. AssertionsGone(b)' /\ CommitmentsGone(b)'
    BY <1>1, <1>4, <1>7, RecordedKept DEF DialogueInv, WorkerDone
  <2>. QED BY <2>1, <1>1, <1>7 DEF WorkerDone
<1>12. ForgottenMeant' BY <1>1, <1>3, <1>7, MeantFrame DEF DialogueInv
<1>13. OwnerUndisturbed' BY <1>1, <1>3, <1>7, OwnerFrame DEF DialogueInv, Erasing
<1>. QED BY <1>7, <1>8, <1>9, <1>10, <1>11, <1>12, <1>13 DEF DialogueInv

\* Applied is recorded of what has been carried out, for all who asked for it.
LEMMA RecordAppliedKeeps ==
  ASSUME DialogueInv, RecordApplied
  PROVE  DialogueInv'
<1> DEFINE b == Copy.body
<1>1. /\ worker.pc = "record" /\ Record(Copy.id, "applied") /\ Go("ack")
      /\ UNCHANGED <<memoryVars, dialogueVars, click, stream, dead, left>>
  BY DEF RecordApplied, Doing, workerOnly
<1>2. UNCHANGED <<rows, hidden, tomb, promise, redacted, preview, token, secret>>
  BY <1>1 DEF memoryVars, dialogueVars
<1>3. CommandTyped /\ LeftTyped BY DEF DialogueInv, DialogueTypeOK
<1>4. worker \in WorkerStates /\ worker.copy \in DOMAIN stream BY <1>1, <1>3 DEF CommandTyped
<1>5. worker' \in WorkerStates /\ worker'.pc = "ack" /\ worker'.copy = worker.copy
  BY <1>1, <1>4 DEF Go, WorkerStates
<1>6. Copy.id \in Ids BY <1>1, CommandIs
<1>7. /\ status' \in [Ids -> Statuses]
      /\ \A j \in Ids : status'[j] = "applied" => status[j] = "applied" \/ j = Copy.id
      /\ \A j \in Ids : status'[j] = "failed" => status[j] = "failed"
      /\ status'[Copy.id] = "applied"
  BY <1>1, <1>3, <1>6, RecordIs
<1>8. SameTokens /\ StreamKept BY <1>1, <1>2 DEF SameTokens, StreamKept
<1>9. ShownKept /\ MemoryKept /\ SameFound /\ NoneRemoved BY <1>1, <1>2, <1>8, QuietMemory
<1>10. CommandTyped' BY <1>1, <1>3, <1>4, <1>5, <1>7 DEF CommandTyped
<1>11. LeftTyped' /\ left'.calm = left.calm BY <1>1, <1>3 DEF LeftTyped
<1>12. WorkerWithin' /\ WorkerDone' BY <1>5, WorkerIdle
<1>13. PICK k \in Clicks : /\ Carries(k, Copy.id, b)
                           /\ Touched(b) = Meant(k) /\ b.hard = Hard(k)
  BY <1>1, CommandIs
<1>14. Touched(b) \subseteq Assertions \cup Commitments BY <1>1, CommandIs
<1>15. Knows(k) /\ Copy.id = RequestId(k) /\ b = Body(k) BY <1>13 DEF Carries
<1>16. Gone(k)
  <2>1. AssertionsGone(b) /\ CommitmentsGone(b) /\ b.sources \subseteq redacted
    BY <1>1 DEF DialogueInv, WorkerDone
  <2>2. Plan[k].surface = "source" => Plan[k].on \in b.sources
    BY <1>15, CarriedMeant DEF DialogueInv
  <2>. QED BY <1>13, <1>14, <2>1, <2>2 DEF Gone, AssertionsGone, CommitmentsGone
<1>17. ASSUME NEW j \in Clicks, RequestId(j) = Copy.id
       PROVE  Knows(j) /\ Gone(j)
  <2>1. CASE j = k BY <2>1, <1>15, <1>16
  <2>2. CASE j # k
    <3>1. Plan[j].surface = "owner" /\ Plan[k].surface = "owner" /\ Plan[j].on = Plan[k].on
      <4>1. Clicks \cap Dialogues = {} BY PlanAssumption
      <4>2. \A i \in Clicks : IF Plan[i].surface = "owner" THEN RequestId(i) = Plan[i].on /\ Plan[i].on \in Dialogues
                              ELSE RequestId(i) = i
        BY PlanOf DEF RequestId
      <4>. QED BY <4>1, <4>2, <2>2, <1>15, <1>17
    <3>2. Knows(j) BY <3>1, <1>15 DEF Knows, Shown
    <3>3. Meant(j) = Meant(k) /\ Hard(j) = Hard(k) BY <3>1 DEF Meant, Hard
    <3>. QED BY <3>1, <3>2, <3>3, <1>16 DEF Gone
  <2>. QED BY <2>1, <2>2
<1>18. AppliedOnce'
  <2>1. \A j \in Clicks : RequestId(j)' = RequestId(j) /\ RequestId(j) \in Ids
    BY PlanOf DEF RequestId
  <2>2. \A j \in Clicks : status'[RequestId(j)] = "applied" => Knows(j) /\ Gone(j)
    BY <1>7, <1>17, <2>1 DEF DialogueInv, AppliedOnce
  <2>3. \A j \in Clicks : status'[RequestId(j)] = "applied" => Knows(j)' /\ Gone(j)'
    BY <1>9, <2>2, GoneKept
  <2>4. \A j \in Clicks : click[j].told = "applied" => Knows(j)' /\ Gone(j)'
    BY <1>9, GoneKept DEF DialogueInv, AppliedOnce
  <2>. QED BY <1>1, <1>5, <2>1, <2>3, <2>4 DEF AppliedOnce, Working
<1>19. OwnerUndisturbed'
  <2>1. ASSUME NEW d \in Dialogues, left.calm, Alone(d)
        PROVE  /\ status'[d] = "failed" => status[d] = "failed"
               /\ status'[d] = "applied"
    <3>1. Copy.id = d BY <1>1, <2>1, AloneIs
    <3>. QED BY <3>1, <1>6, <1>7
  <2>. QED BY <2>1, <1>1, <1>8, <1>11, WorkerOwner
<1>. QED BY <1>1, <1>8, <1>10, <1>11, <1>12, <1>18, <1>19, WorkerKeeps

----------------------------------------------------------------------------
(* The environment.                                                         *)

\* A turn writes a drawer that was not stored, of nothing that is forgotten.
LEMMA RememberKeeps ==
  ASSUME DialogueInv, NEW x \in Drawers, Remember(x)
  PROVE  DialogueInv'
<1>1. /\ x \in left.coming /\ rows' = Append(rows, x)
      /\ left' = [left EXCEPT !.coming = @ \ {x}]
      /\ UNCHANGED <<hidden, tomb, promise, redacted, preview, token, secret, click>>
      /\ UNCHANGED <<status, stream, worker, dead>>
  BY DEF Remember, dialogueVars
<1>2. MemoryTyped /\ DialogueTyped /\ CommandTyped /\ LeftTyped
  BY DEF DialogueInv, DialogueTypeOK
<1>3. rows \in Seq(Drawers) BY <1>2 DEF MemoryTyped
<1>4. /\ rows' \in Seq(Drawers) /\ Len(rows) \in Nat
      /\ DOMAIN rows = 1 .. Len(rows) /\ DOMAIN rows' = 1 .. Len(rows) + 1
      /\ \A i \in 1 .. Len(rows) : rows'[i] = rows[i]
      /\ rows'[Len(rows) + 1] = x
  BY <1>1, <1>3, AppendProperties
<1>5. ToSet(rows') = ToSet(rows) \cup {x}
  <2>1. \A i : i \in DOMAIN rows' <=> i \in DOMAIN rows \/ i = Len(rows) + 1 BY <1>4
  <2>. QED BY <2>1, <1>4 DEF ToSet
<1>6. x \notin ToSet(Stored) BY <1>1, <1>2 DEF LeftTyped
<1>7. Initially' = Initially BY <1>5, <1>6 DEF Initially
<1>8. ShownKept /\ NoneNewlyShown /\ SameFound /\ NoneRemoved /\ StreamKept
  BY <1>1, <1>5 DEF ShownKept, NoneNewlyShown, SameFound, NoneRemoved, StreamKept
<1>9. MemoryKept BY <1>1, <1>7 DEF MemoryKept
<1>10. left'.calm = left.calm /\ LeftTyped' BY <1>1, <1>2 DEF LeftTyped
<1>11. DialogueTypeOK'
  <2>1. MemoryTyped' BY <1>1, <1>2, <1>4 DEF MemoryTyped
  <2>2. DialogueTyped' BY <1>1, <1>2 DEF DialogueTyped
  <2>3. CommandTyped' BY <1>1, <1>2 DEF CommandTyped
  <2>. QED BY <2>1, <2>2, <2>3, <1>10 DEF DialogueTypeOK
<1>12. TokenSays' BY <1>8, TokenSaysFrame DEF DialogueInv
<1>13. FoundOrBuried' BY <1>8, <1>9, FoundFrame DEF DialogueInv
<1>14. ClicksKnow' BY <1>1, <1>8, ClicksFrame DEF DialogueInv
<1>15. CommandsMeant' BY <1>1, <1>8, CommandsFrame DEF DialogueInv
<1>16. WorkerWithin' /\ WorkerDone' BY <1>1, <1>2, <1>8, <1>9, WorkerFrame DEF DialogueInv
<1>17. AppliedOnce'
  <2>1. worker'.pc \in Working => status'[Copy'.id] # "applied"
    BY <1>1, <1>2, <1>8, WorkingKept DEF DialogueInv
  <2>. QED BY <1>1, <1>8, <1>9, <2>1, AppliedFrame DEF DialogueInv
<1>18. ForgottenMeant' BY <1>1, <1>8, MeantFrame DEF DialogueInv
<1>19. ScanAhead'
  <2>1. Listing("promises")' = Listing("promises") BY <1>1 DEF Listing
  <2>2. ASSUME NEW p PROVE Ahead(p) \subseteq Ahead(p)'
    <3>1. CASE p.list = "rows"
      <4>1. Listing(p.list) = rows /\ Listing(p.list)' = rows' BY <3>1 DEF Listing
      <4>2. \A j \in DOMAIN rows : j \in DOMAIN rows' /\ rows'[j] = rows[j] BY <1>4
      <4>. QED BY <4>1, <4>2, <2>1 DEF Ahead
    <3>2. CASE p.list # "rows"
      <4>1. Listing(p.list)' = Listing(p.list) BY <3>2, <1>1 DEF Listing
      <4>. QED BY <3>2, <4>1 DEF Ahead
    <3>. QED BY <3>1, <3>2
  <2>3. \A p : Candidates(Ahead(p)) \subseteq Candidates(Ahead(p)') BY <2>2 DEF Candidates
  <2>4. ScanAhead BY DEF DialogueInv
  <2>. QED BY <2>3, <2>4, <1>1 DEF ScanAhead, PreviewComplete
<1>20. OwnerUndisturbed' BY <1>1, <1>8, <1>10, OwnerFrame DEF DialogueInv
<1>. QED BY <1>11, <1>12, <1>13, <1>14, <1>15, <1>16, <1>17, <1>18, <1>19, <1>20 DEF DialogueInv

\* A restart loses the scans and the requests; the command comes again.
LEMMA RestartKeeps ==
  ASSUME DialogueInv, Restart
  PROVE  DialogueInv'
<1>1. /\ Uses("crashes") /\ secret' = secret + 1 /\ worker' = IdleWorker
      /\ preview' = [d \in Dialogues |->
             IF preview[d].pc \in {"scan", "overflow"} THEN [preview[d] EXCEPT !.pc = "lost"] ELSE preview[d]]
      /\ click' = [k \in Clicks |->
             IF click[k].pc \in {"new", "done"} THEN click[k] ELSE [click[k] EXCEPT !.pc = "done"]]
      /\ UNCHANGED <<rows, hidden, tomb, promise, redacted, token, status, dead>>
  BY DEF Restart, memoryVars
<1>2. IF worker.copy = 0 THEN UNCHANGED stream ELSE SetCopy("queued") BY DEF Restart
<1>3. MemoryTyped /\ DialogueTyped /\ CommandTyped /\ LeftTyped
  BY DEF DialogueInv, DialogueTypeOK
<1>4. LeftTyped' /\ left'.calm = left.calm /\ ~left.calm BY <1>1, <1>3, UsesTyped
<1>5. preview \in [Dialogues -> Previews] BY <1>3 DEF DialogueTyped
<1>6. \A d \in Dialogues :
          /\ preview'[d] \in Previews
          /\ preview'[d].found = preview[d].found
          /\ preview'[d] = preview[d] \/ preview'[d].pc = "lost"
          /\ preview[d].pc = "shown" => preview'[d] = preview[d]
  <2>1. ASSUME NEW d \in Dialogues
        PROVE  /\ preview'[d] \in Previews
               /\ preview'[d].found = preview[d].found
               /\ preview'[d] = preview[d] \/ preview'[d].pc = "lost"
               /\ preview[d].pc = "shown" => preview'[d] = preview[d]
    <3>1. preview[d] \in Previews BY <1>5
    <3>2. CASE preview[d].pc \in {"scan", "overflow"}
      <4>1. preview'[d] = [preview[d] EXCEPT !.pc = "lost"] BY <1>1, <3>2
      <4>. QED BY <4>1, <3>1, <3>2 DEF Previews
    <3>3. CASE preview[d].pc \notin {"scan", "overflow"}
      <4>1. preview'[d] = preview[d] BY <1>1, <3>3
      <4>. QED BY <4>1, <3>1
    <3>. QED BY <3>2, <3>3
  <2>. QED BY <2>1
<1>7. preview' \in [Dialogues -> Previews]
  <2>1. preview' = [d \in Dialogues |-> preview'[d]] BY <1>1
  <2>. QED BY <2>1, <1>6
<1> DEFINE C == [pc : {"new", "publish", "accept", "wait", "done"},
                 told : Statuses \cup {"nothing", "refused"}]
<1>8. click \in [Clicks -> C] BY <1>3 DEF DialogueTyped
<1>9. /\ click' \in [Clicks -> C]
      /\ \A k \in Clicks : click'[k].pc \notin InFlight /\ click'[k].told = click[k].told
  BY <1>1, <1>8 DEF InFlight
<1>10. stream' \in Seq(Copies) /\ StreamKept /\ DOMAIN stream' = DOMAIN stream
  <2>1. CASE worker.copy = 0 BY <2>1, <1>2, <1>3 DEF StreamKept, CommandTyped
  <2>2. CASE worker.copy # 0
    <3>1. worker.pc # "idle" BY <2>2, <1>3 DEF CommandTyped
    <3>. QED BY <2>2, <3>1, <1>2, <1>3, SetCopyIs
  <2>. QED BY <2>1, <2>2
<1>11. worker' \in WorkerStates /\ worker'.pc = "idle" /\ worker'.copy = 0
  BY <1>1 DEF IdleWorker, WorkerStates
<1>12. DialogueTypeOK'
  <2>1. MemoryTyped' BY <1>1, <1>3 DEF MemoryTyped
  <2>2. DialogueTyped' BY <1>1, <1>3, <1>7, <1>9 DEF DialogueTyped
  <2>3. CommandTyped' BY <1>1, <1>3, <1>10, <1>11 DEF CommandTyped
  <2>. QED BY <2>1, <2>2, <2>3, <1>4 DEF DialogueTypeOK
<1>13. ShownKept /\ NoneNewlyShown /\ SameFound /\ NoneRemoved
  BY <1>1, <1>6 DEF ShownKept, NoneNewlyShown, SameFound, NoneRemoved
<1>14. MemoryKept BY <1>1 DEF MemoryKept, Initially
<1>15. TokenSays' BY <1>13, TokenSaysFrame DEF DialogueInv
<1>16. FoundOrBuried' BY <1>13, <1>14, FoundFrame DEF DialogueInv
<1>17. ClicksKnow' BY <1>9, <1>13, ClicksFrame DEF DialogueInv
<1>18. CommandsMeant' BY <1>1, <1>10, <1>13, CommandsFrame DEF DialogueInv
<1>19. WorkerWithin' /\ WorkerDone' BY <1>11, WorkerIdle
<1>20. AppliedOnce' BY <1>1, <1>9, <1>11, <1>13, <1>14, AppliedFrame DEF DialogueInv, Working
<1>21. ForgottenMeant' BY <1>1, <1>10, <1>13, MeantFrame DEF DialogueInv
<1>22. ScanAhead'
  <2>1. \A list : Listing(list)' = Listing(list) BY <1>1 DEF Listing
  <2>2. \A q : Ahead(q)' = Ahead(q) BY <2>1 DEF Ahead
  <2>3. ScanAhead BY DEF DialogueInv
  <2>. QED BY <2>2, <2>3, <1>6 DEF ScanAhead, PreviewComplete
<1>23. OwnerUndisturbed' BY <1>4 DEF OwnerUndisturbed
<1>. QED BY <1>12, <1>15, <1>16, <1>17, <1>18, <1>19, <1>20, <1>21, <1>22, <1>23 DEF DialogueInv

----------------------------------------------------------------------------
(* The theorems.                                                            *)

LEMMA NextKeeps ==
  ASSUME DialogueInv, Next
  PROVE  DialogueInv'
<1>1. CASE WorkerStep
  BY <1>1, TakeKeeps, ResolveKeeps, TombstoneKeeps, EraseKeeps, PromisesKeeps, RedactKeeps,
     RecordAppliedKeeps, AckKeeps, FaultKeeps DEF WorkerStep
<1>2. CASE DialogueStep
  <2>1. ASSUME NEW d \in Dialogues,
               PreviewExact(d) \/ PreviewTopic(d) \/ ScanPage(d) \/ Overflow(d)
        PROVE  DialogueInv'
    <3>1. PICK q : PreviewMoves(d, q)
      BY <2>1, PreviewExactMoves, PreviewTopicMoves, ScanPageMoves, OverflowMoves
    <3>. QED BY <3>1, PreviewMovesKeeps
  <2>2. ASSUME NEW k \in Clicks,
               \/ OwnerConfirm(k) \/ ToolConfirm(k) \/ ServiceConfirm(k) \/ SourceErase(k)
               \/ Publish(k) \/ Accept(k) \/ Answer(k) \/ AskAgain(k)
        PROVE  DialogueInv'
    BY <2>2, ConfirmKeeps, PublishKeeps, AcceptKeeps, AnswerKeeps
  <2>. QED BY <1>2, <2>1, <2>2 DEF DialogueStep
<1>3. CASE \E d \in Dialogues : Expire(d) BY <1>3, ExpireKeeps
<1>4. CASE \E x \in Drawers : Remember(x) BY <1>4, RememberKeeps
<1>5. CASE Replay BY <1>5, ReplayKeeps
<1>6. CASE Restart BY <1>6, RestartKeeps
<1>. QED BY <1>1, <1>2, <1>3, <1>4, <1>5, <1>6 DEF Next

LEMMA SameKeeps ==
  ASSUME DialogueInv, UNCHANGED vars
  PROVE  DialogueInv'
<1>1. /\ UNCHANGED <<memoryVars, dialogueVars, click, status, stream, worker, dead>>
      /\ left' = left
  BY DEF vars
<1>2. LeftTyped' /\ left'.calm = left.calm BY <1>1 DEF DialogueInv, DialogueTypeOK, LeftTyped
<1>. QED BY <1>1, <1>2, StutterKeeps

LEMMA ReadKeeps ==
  ASSUME DialogueInv, RealmNext \/ UNCHANGED realmVars
  PROVE  DialogueInv'
<1>1. CASE Next BY <1>1, NextKeeps
<1>2. CASE UNCHANGED vars BY <1>2, SameKeeps
<1>3. CASE \E r \in Reads : ReadFails(r)
  <2>1. /\ UNCHANGED <<memoryVars, dialogueVars, click, status, stream, worker, dead>>
        /\ Uses("faults")
    BY <1>3 DEF ReadFails
  <2>2. LeftTyped BY DEF DialogueInv, DialogueTypeOK
  <2>. QED BY <2>1, <2>2, UsesTyped, StutterKeeps
<1>4. ASSUME NEW r \in Reads,
             \/ OpenEntries(r) \/ OpenExport(r) \/ OpenBrowse(r) \/ OpenGraph(r)
             \/ ScanChunk(r) \/ Peek(r)
             \/ AnswerEntries(r) \/ AnswerExport(r) \/ AnswerBrowse(r) \/ AnswerGraph(r)
             \/ NextPage(r)
      PROVE  UNCHANGED vars
  <2>1. CASE OpenEntries(r) \/ OpenExport(r) \/ OpenBrowse(r) \/ OpenGraph(r)
    BY <2>1 DEF OpenEntries, OpenExport, OpenBrowse, OpenGraph, Opens
  <2>2. CASE ScanChunk(r) \/ Peek(r) \/ NextPage(r)
    BY <2>2 DEF ScanChunk, Peek, NextPage, readOnly
  <2>3. CASE AnswerEntries(r) \/ AnswerExport(r) \/ AnswerBrowse(r) \/ AnswerGraph(r)
    BY <2>3 DEF AnswerEntries, AnswerExport, AnswerBrowse, AnswerGraph, readOnly
  <2>. QED BY <1>4, <2>1, <2>2, <2>3
<1>5. \/ Next \/ UNCHANGED vars \/ \E r \in Reads : ReadFails(r)
  BY <1>4 DEF RealmNext, ReadStep, realmVars
<1>. QED BY <1>1, <1>2, <1>3, <1>5

\* The invariant holds in every state of every forget, whatever is written,
\* confirmed again, replayed, lost or restarted in between.
THEOREM DialogueInvariant == Spec => []DialogueInv
<1>1. Init => DialogueInv BY InitHolds
<1>2. DialogueInv /\ [Next]_vars => DialogueInv' BY NextKeeps, SameKeeps
<1>. QED BY <1>1, <1>2, PTL DEF Spec

\* And among the owner's reads, which change nothing of it.
THEOREM ReadingInvariant == ReadSpec => []DialogueInv
<1>1. ReadInit => DialogueInv BY InitHolds DEF ReadInit
<1>2. DialogueInv /\ [RealmNext]_realmVars => DialogueInv' BY ReadKeeps
<1>. QED BY <1>1, <1>2, PTL DEF ReadSpec

\* What the invariant says of the four properties.
LEMMA InvariantSays ==
  ASSUME DialogueInv
  PROVE  NeverWidens /\ PreviewComplete /\ AppliedGone /\ OwnerRetrySafe
<1>1. NeverWidens BY DEF DialogueInv, ForgottenMeant, Means, NeverWidens
<1>2. PreviewComplete BY DEF DialogueInv, ScanAhead
<1>3. AppliedGone BY DEF DialogueInv, AppliedOnce, Gone, Initially, AppliedGone
<1>4. ASSUME NEW k \in Clicks, left.calm, Plan[k].surface = "owner", Alone(Plan[k].on)
      PROVE  status[RequestId(k)] # "failed" /\ ~\E e \in dead : e.id = RequestId(k)
  <2>1. RequestId(k) = Plan[k].on /\ Plan[k].on \in Dialogues BY <1>4, PlanOf DEF RequestId
  <2>. QED BY <1>4, <2>1 DEF DialogueInv, OwnerUndisturbed
<1>5. OwnerRetrySafe BY <1>4 DEF OwnerRetrySafe
<1>. QED BY <1>1, <1>2, <1>3, <1>5

\* A confirmation never widens: for any palace, however its pages shift and
\* whoever confirms what and how often, each assertion and commitment that is
\* forgotten, and each row that is gone, is behind something that a person who
\* sent a confirmation was shown, and is deleted only for a confirmed deletion.
THEOREM ForgetNeverWidens == Spec => []NeverWidens
  BY DialogueInvariant, InvariantSays, PTL

\* A preview is complete or refused, for any page size and caps and any
\* listing that turns append to during the scan.
THEOREM PreviewIsComplete == Spec => []PreviewComplete
  BY DialogueInvariant, InvariantSays, PTL

\* Whoever is told that a forget was applied has lost what was shown, whether
\* this delivery or an earlier one carried it out, and for good.
THEOREM AppliedIsGone == Spec => []AppliedGone
  BY DialogueInvariant, InvariantSays, PTL

\* The owner may confirm one preview as often as she likes: without faults its
\* command never fails and is never dead-lettered.
THEOREM OwnerRetryIsSafe == Spec => []OwnerRetrySafe
  BY DialogueInvariant, InvariantSays, PTL

\* The same holds of a realm whose owner reads it all the while.
THEOREM ForgetsAmongReads == ReadSpec => [](NeverWidens /\ PreviewComplete /\ AppliedGone)
  BY ReadingInvariant, InvariantSays, PTL

=============================================================================
