--------------------------- MODULE RealmSnapshot ---------------------------
(***************************************************************************)
(* The files of one realm: its palace and the ledgers beside it, the copy  *)
(* that snapshot_realm takes of them while the realm is served, and the    *)
(* restore that puts the copy back, within the requests and the processes  *)
(* of Supervisor.                                                          *)
(*                                                                         *)
(* A directory is its content and where it came from.  A memory is written *)
(* to its ledger and then to the palace, and a hard delete takes it from   *)
(* them in that order, so every copy of one file falls between two steps.  *)
(* Time is a counter that hard deletes advance.  A behaviour without the   *)
(* restore has no copy either, and leaves the files alone.                 *)
(***************************************************************************)
EXTENDS Supervisor

CONSTANTS
    Realm,         \* the realm whose files these are
    Restore,       \* the request that restores it
    Memories, Ledgers,
    Old,           \* the memories the realm has at first
    LedgerOf,      \* the ledger a memory is recorded in
    MaxDeletes,    \* hard deletes in a behaviour
    MaxIOErrors    \* renames that fail

ASSUME RealmSnapshotConstants ==
    /\ Realm \in Users
    /\ Restore \in Requests /\ KindOf[Restore] = "restore" /\ TargetOf[Restore] = Realm
    /\ LedgerOf \in [Memories -> Ledgers] /\ Old \subseteq Memories
    /\ MaxDeletes \in Nat /\ MaxIOErrors \in Nat

Dirs == {"palace", "ledgers"}

VARIABLES
    inbox,                \* the memories the agent is still to be told
    now, ioErrors,
    live, staged, aside,  \* the directories in place, built beside them, moved away
    copy,                 \* the snapshot as far as it is written
    restore,              \* where the restore is, and the directory it is at
    settled, dropped      \* hard deletes carried out, before and after the copy was stamped

fileVars == <<inbox, now, ioErrors, live, staged, aside, copy, restore, settled, dropped>>
allVars == <<vars, fileVars>>

\* open: what the palace has yet to be given, or to lose, by the ledger.
NoLedger == [held |-> {}, erased |-> {}, open |-> {}, last |-> 0]
Directory(content, from) == [content |-> content, from |-> from]
NoDir == [from |-> "nowhere"]

Served == \E g \in Gens : sup[Realm].procs["agent"][g].st = "serving"
Ledger(m) == live["ledgers"].content[LedgerOf[m]]

----------------------------------------------------------------------------
(* What the agent that serves the realm does to its files.                  *)

Records(m) ==
    /\ Served /\ m \in inbox
    /\ inbox' = inbox \ {m}
    /\ live' = [live EXCEPT !["ledgers"].content[LedgerOf[m]] =
                    [@ EXCEPT !.held = @ \cup {m}, !.open = @ \cup {m}]]
    /\ UNCHANGED <<vars, now, ioErrors, staged, aside, copy, restore, settled, dropped>>

\* A hard delete: the tombstone and its time.
Erases(m) ==
    /\ Served /\ now < MaxDeletes
    /\ m \in Ledger(m).held
    /\ now' = now + 1
    /\ live' = [live EXCEPT !["ledgers"].content[LedgerOf[m]] =
                    [held |-> @.held \ {m}, erased |-> @.erased \cup {m},
                     open |-> @.open \cup {m}, last |-> now + 1]]
    /\ IF copy.at = "stamped" THEN dropped' = dropped \cup {m} /\ UNCHANGED settled
                              ELSE settled' = settled \cup {m} /\ UNCHANGED dropped
    /\ UNCHANGED <<vars, inbox, ioErrors, staged, aside, copy, restore>>

\* The palace is given what the ledger holds, and loses what it has erased.
Materialises(m) ==
    /\ Served /\ m \in Ledger(m).open
    /\ live' = [live EXCEPT
            !["palace"].content = IF m \in Ledger(m).held THEN @ \cup {m} ELSE @ \ {m},
            !["ledgers"].content[LedgerOf[m]].open = @ \ {m}]
    /\ UNCHANGED <<vars, inbox, now, ioErrors, staged, aside, copy, restore, settled, dropped>>

----------------------------------------------------------------------------
(* snapshot_realm: VACUUM INTO of each file in turn, and the manifest with  *)
(* the time at the end.  It runs in the event loop, so that no task of the  *)
(* supervisor takes a step meanwhile; agents and threads do.                *)

NoCopy == [at |-> "none", palace |-> {}, ledgers |-> [l \in Ledgers |-> NoLedger],
           copied |-> {}, takenAt |-> 0]
otherVars == <<authVars, sup, loop, rec, req, lock, maintenance, palace, budgetVars>>

CopyPalace ==
    /\ copy.at = "none" /\ live["palace"] # NoDir /\ Known(Restore)
    /\ running = Nobody
    /\ running' = "copier"
    /\ copy' = [copy EXCEPT !.at = "ledgers", !.palace = live["palace"].content]
    /\ UNCHANGED <<otherVars, inbox, now, ioErrors, live, staged, aside, restore, settled, dropped>>

CopyLedger(l) ==
    /\ copy.at = "ledgers" /\ l \notin copy.copied
    /\ copy' = [copy EXCEPT !.ledgers[l] = live["ledgers"].content[l], !.copied = @ \cup {l}]
    /\ UNCHANGED <<vars, inbox, now, ioErrors, live, staged, aside, restore, settled, dropped>>

Stamp ==
    /\ copy.at = "ledgers" /\ copy.copied = Ledgers
    /\ copy' = [copy EXCEPT !.at = "stamped", !.takenAt = now]
    /\ running' = Nobody
    /\ UNCHANGED <<otherVars, inbox, now, ioErrors, live, staged, aside, restore, settled, dropped>>

----------------------------------------------------------------------------
(* restore_realm_snapshot, in the thread that holds the realm's lock.       *)

Restoring == At(Restore, "restoring")
Place(at, d) == [at |-> at, dir |-> d]
Idle == Place("idle", "palace")

\* _latest_privacy_watermark.
PrivacyWatermark ==
    LET lasts == {live["ledgers"].content[l].last : l \in Ledgers}
    IN CHOOSE x \in lasts : \A y \in lasts : y <= x

\* verify_realm_snapshot and the privacy watermark: nothing is written yet.
Verify ==
    /\ Restoring /\ restore.at = "idle"
    /\ restore' = IF copy.takenAt < PrivacyWatermark THEN Place("failed", "palace")
                  ELSE Place("staging", "palace")
    /\ UNCHANGED <<vars, inbox, now, ioErrors, live, staged, aside, copy, settled, dropped>>

CopyOf(d) == IF d = "palace" THEN Directory(copy.palace, "copy") ELSE Directory(copy.ledgers, "copy")

\* The replacements are built beside where they will land.
Stage ==
    /\ restore.at = "staging"
    /\ staged' = [d \in Dirs |-> CopyOf(d)]
    /\ restore' = Place("replacing", "palace")
    /\ UNCHANGED <<vars, inbox, now, ioErrors, live, aside, copy, settled, dropped>>

\* copytree fails: its staging directory is removed, that of the palace may stay.
StageFails ==
    /\ restore.at = "staging" /\ ioErrors > 0
    /\ ioErrors' = ioErrors - 1
    /\ \E done \in SUBSET {"palace"} :
        staged' = [d \in Dirs |-> IF d \in done THEN CopyOf(d) ELSE NoDir]
    /\ restore' = Place("failed", "palace")
    /\ UNCHANGED <<vars, inbox, now, live, aside, copy, settled, dropped>>

MoveAside ==
    /\ restore.at = "replacing" /\ live[restore.dir] # NoDir
    /\ aside' = [aside EXCEPT ![restore.dir] = live[restore.dir]]
    /\ live' = [live EXCEPT ![restore.dir] = NoDir]
    /\ restore' = Place("placing", restore.dir)
    /\ UNCHANGED <<vars, inbox, now, ioErrors, staged, copy, settled, dropped>>

\* Mutant: what was moved aside goes as soon as its directory is replaced.
PutInPlaceClearing ==
    /\ \/ restore.at = "placing"
       \/ restore.at = "replacing" /\ live[restore.dir] = NoDir
    /\ live' = [live EXCEPT ![restore.dir] = staged[restore.dir]]
    /\ aside' = [aside EXCEPT ![restore.dir] = NoDir]
    /\ staged' = [staged EXCEPT ![restore.dir] = NoDir]
    /\ restore' = IF restore.dir = "palace" THEN Place("replacing", "ledgers")
                                            ELSE Place("clearing", "palace")
    /\ UNCHANGED <<vars, inbox, now, ioErrors, copy, settled, dropped>>

PutInPlace ==
    /\ \/ restore.at = "placing"
       \/ restore.at = "replacing" /\ live[restore.dir] = NoDir
    /\ live' = [live EXCEPT ![restore.dir] = staged[restore.dir]]
    /\ staged' = [staged EXCEPT ![restore.dir] = NoDir]
    /\ restore' = IF restore.dir = "palace" THEN Place("replacing", "ledgers")
                                            ELSE Place("clearing", "palace")
    /\ UNCHANGED <<vars, inbox, now, ioErrors, aside, copy, settled, dropped>>

\* A rename fails and the restore backs out: what was put in place is removed,
\* and what was moved aside comes back where nothing is in its way.
RenameFails ==
    /\ restore.at \in {"replacing", "placing"} /\ ioErrors > 0
    /\ ioErrors' = ioErrors - 1
    /\ restore' = Place("removing", "palace")
    /\ UNCHANGED <<vars, inbox, now, live, staged, aside, copy, settled, dropped>>

RemoveReplaced ==
    /\ restore.at = "removing"
    /\ live' = [d \in Dirs |-> IF live[d] # NoDir /\ live[d].from = "copy" THEN NoDir
                               ELSE live[d]]
    /\ restore' = Place("returning", "ledgers")
    /\ UNCHANGED <<vars, inbox, now, ioErrors, staged, aside, copy, settled, dropped>>

BringBack ==
    /\ restore.at = "returning"
    /\ LET d == restore.dir
           back == aside[d] # NoDir /\ live[d] = NoDir
       IN /\ live' = IF back THEN [live EXCEPT ![d] = aside[d]] ELSE live
          /\ aside' = IF back THEN [aside EXCEPT ![d] = NoDir] ELSE aside
          /\ restore' = IF d = "ledgers" THEN Place("returning", "palace")
                                         ELSE Place("dropping", "palace")
    /\ UNCHANGED <<vars, inbox, now, ioErrors, staged, copy, settled, dropped>>

DropStaged ==
    /\ restore.at = "dropping"
    /\ staged' = [d \in Dirs |-> NoDir]
    /\ restore' = Place("failed", "palace")
    /\ UNCHANGED <<vars, inbox, now, ioErrors, live, aside, copy, settled, dropped>>

ClearAside ==
    /\ restore.at = "clearing"
    /\ aside' = [d \in Dirs |-> NoDir]
    /\ restore' = Place("done", "palace")
    /\ UNCHANGED <<vars, inbox, now, ioErrors, live, staged, copy, settled, dropped>>

----------------------------------------------------------------------------

\* A step of the processes.  A restore begins with a copy that has its manifest;
\* the request goes on when the restore has ended, and waits for the worker only
\* if it succeeded.
ProcessStep ==
    /\ Next
    /\ At(Restore, "pausing")' => copy.at = "stamped"
    /\ At(Restore, "restoring") /\ ~At(Restore, "restoring")' =>
        /\ restore.at \in {"done", "failed"}
        /\ (req[Restore].at' = "resuming") <=> restore.at = "done"
    /\ UNCHANGED fileVars

FilesInit ==
    /\ now = 0 /\ ioErrors = MaxIOErrors
    /\ live = [d \in Dirs |-> Directory(
                  IF d = "palace" THEN Old
                  ELSE [l \in Ledgers |-> [NoLedger EXCEPT !.held = {m \in Old : LedgerOf[m] = l}]],
                  "live")]
    /\ staged = [d \in Dirs |-> NoDir] /\ aside = [d \in Dirs |-> NoDir]
    /\ restore = Idle
    /\ IF At(Restore, "queued") THEN inbox = Memories \ Old /\ copy = NoCopy
       ELSE inbox = {} /\ copy = [NoCopy EXCEPT !.at = "never"]
    /\ settled = {} /\ dropped = {}

RestoreStep ==
    \/ Verify \/ Stage \/ StageFails \/ MoveAside \/ PutInPlace \/ RenameFails
    \/ RemoveReplaced \/ BringBack \/ DropStaged \/ ClearAside
CopyStep == CopyPalace \/ Stamp \/ \E l \in Ledgers : CopyLedger(l)
AgentStep == \E m \in Memories : Records(m) \/ Erases(m) \/ Materialises(m)

RealmInit == Init /\ FilesInit
RealmSpec == RealmInit /\ [][ProcessStep \/ AgentStep \/ CopyStep \/ RestoreStep]_allVars

\* A copy and a restore that have begun come to an end.
RealmFairSpec ==
    RealmSpec /\ Fairness /\ WF_fileVars(RestoreStep)
    /\ WF_fileVars(Stamp \/ \E l \in Ledgers : CopyLedger(l))

----------------------------------------------------------------------------
(* Properties.                                                              *)

From(d, where, origin) == where[d] # NoDir /\ where[d].from = origin

\* At every moment of a restore - so wherever the process dies - the disk holds
\* either all that was there, in place or moved aside, or all of the copy in
\* place ("recoverable by hand", realm_snapshot.py); and an agent never serves
\* half of each, whichever rename failed.
Recoverable ==
    /\ \/ \A d \in Dirs : From(d, live, "live") \/ From(d, aside, "live")
       \/ \A d \in Dirs : From(d, live, "copy")
    /\ Served => \E origin \in {"live", "copy"} : \A d \in Dirs : From(d, live, origin)

\* What the realm has, but for drawers whose removal the ledger still has to do.
Remembered ==
    UNION {live["ledgers"].content[l].held : l \in Ledgers}
    \cup {m \in live["palace"].content : m \notin Ledger(m).open}

\* "Restoring it would resurrect deleted memory" is why a copy older than a hard
\* delete is refused (realm_snapshot.py): no restore may, whenever the delete was.
NoResurrection ==
    Served /\ (\A d \in Dirs : From(d, live, "copy")) => (settled \cup dropped) \cap Remembered = {}
=============================================================================
