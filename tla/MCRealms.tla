------------------------------ MODULE MCRealms ------------------------------
(* Instances of Supervisor and RealmSnapshot for TLC.                       *)
EXTENDS RealmSnapshot, TLC

CONSTANTS r1, r2, r3, r4, r5, u1, u2, m1, m2

MCKindOf == (r1 :> "restore") @@ (r2 :> "cleanup") @@ (r3 :> "rebuild") @@ (r4 :> "restore")
            @@ (r5 :> "reconcile")
MCTargetOf == [r \in Requests |-> u2]
MCLedgerOf == (m1 :> "facts") @@ (m2 :> "commitments")
MCOrder == <<u1, u2>>
MCSeed == [u \in Users |-> 0]

Absent == [state |-> "absent", cons |-> "off"]
On(c) == [state |-> "enabled", cons |-> c]
Off(c) == [state |-> "disabled", cons |-> c]

S(e, changes, rs, deaths, errors) ==
    [roster |-> [u \in Users |-> IF u = u2 THEN e ELSE Absent],
     edits |-> changes, requests |-> rs,
     early |-> FALSE, stops |-> FALSE, crashes |-> deaths, faults |-> errors]

\* A copy and a restore of the files; a restore, a rebuild and a cleanup with
\* faults; realms that come, change and go, one of which moves the other's port;
\* and a stop.
MCScenarios ==
    {S(On("off"), {}, {r1}, 0, 0),
     S(On("slow"), {}, {r4}, 1, 1),
     S(On("slow"), {<<u2, Off("slow")>>}, {r4, r2}, 0, 1),
     S(On("slow"), {}, {r3}, 1, 1),
     S(Absent, {<<u2, On("slow")>>, <<u2, Off("slow")>>}, {r5}, 1, 0),
     S(Absent, {<<u2, On("slow")>>, <<u2, On("fast")>>}, {}, 1, 1),
     S(On("off"), {<<u1, On("slow")>>, <<u1, Absent>>}, {}, 1, 0),
     [S(On("slow"), {}, {}, 1, 0) EXCEPT !.stops = TRUE]}

MCPaused == {S(On("off"), {}, {r3}, 0, 0)}
MCRestore == {S(On("off"), {}, {r1}, 0, 0)}
=============================================================================
