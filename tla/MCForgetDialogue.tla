-------------------------- MODULE MCForgetDialogue --------------------------
(* An instance of ForgetDialogue and OwnerReading for TLC.                  *)
EXTENDS OwnerReading

MCDrawers == {"d1", "d2", "dc", "legacy", "d3"}
MCOf == [d1 |-> "a1", d2 |-> "a2", dc |-> "c1", legacy |-> "nothing", d3 |-> "a3"]
MCOrigin == [a1 |-> "e1", a2 |-> "e2", a3 |-> "e2", c1 |-> "e1"]
MCMatching == {"d1", "d3", "dc", "legacy", "c1"}
MCStored == <<"legacy", "d2", "dc", "d1">>
MCPromised == <<"c1">>
MCDialogues == {"topic", "again", "exact", "agent"}
MCClicks == {"tap", "tap2", "tap3", "call", "call2", "other", "erase"}
P(s, t, a) == [surface |-> s, target |-> t, action |-> a, space |-> "s"]
K(s, on, sp) == [surface |-> s, on |-> on, space |-> sp]
MCPlan ==
    [topic |-> P("owner", "topic", "delete"), again |-> P("owner", "topic", "delete"), exact |-> P("service", "d1", "delete"),
     agent |-> P("tool", "topic", "archive"),
     tap |-> K("owner", "topic", "s"), tap2 |-> K("owner", "topic", "s"),
     tap3 |-> K("owner", "agent", "s"),
     call |-> K("tool", "agent", "s"), call2 |-> K("service", "exact", "s"),
     other |-> K("service", "topic", "other"), erase |-> K("source", "e2", "s")]
S(on, new, f, c, x, r) ==
    [active |-> on, coming |-> new, faults |-> f, crashes |-> c, expiries |-> x, replays |-> r,
     calm |-> f + c = 0, reads |-> {}]
Reading(s, who) == [s EXCEPT !.reads = who]

\* Drawers d1 and d3 are of one moment, one was told to a companion only.
MCTime == [d1 |-> 2, d2 |-> 3, dc |-> 0, legacy |-> 1, d3 |-> 2, a1 |-> 2, a2 |-> 2, a3 |-> 1]
MCRank == [d1 |-> 1, d2 |-> 2, dc |-> 3, legacy |-> 4, d3 |-> 5, a1 |-> 6, a2 |-> 7, a3 |-> 8]
MCRoom == [d1 |-> "home", d2 |-> "work", dc |-> "work", legacy |-> "home", d3 |-> "home"]
MCTold == [d1 |-> "nothing", d2 |-> "luna", dc |-> "nothing", legacy |-> "nothing", d3 |-> "nothing"]
R(k, who, hist, from, n, scan) ==
    [kind |-> k, companion |-> who, history |-> hist, since |-> from, limit |-> n, scan |-> scan]
MCReads == {"lately", "recent", "copy", "library", "graph", "past"}
MCRequest ==
    [lately |-> R("entries", "nothing", FALSE, 1, 1, 9), recent |-> R("entries", "luna", FALSE, 2, 1, 3),
     copy |-> R("export", "nothing", FALSE, 1, 9, 9), library |-> R("browse", "sol", FALSE, 1, 9, 9),
     graph |-> R("graph", "sol", FALSE, 0, 1, 9), past |-> R("graph", "nothing", TRUE, 0, 1, 9)]
MCScenarios ==
    {S({"topic", "tap", "tap2"}, {"d3"}, 0, 0, 1, 0),
     S({"topic", "again", "tap"}, {}, 1, 1, 0, 1),
     S({"topic", "exact", "tap", "call2"}, {"d3"}, 1, 0, 0, 0),
     S({"agent", "topic", "call", "tap3", "other"}, {}, 0, 1, 1, 0),
     S({"agent", "call", "erase"}, {"d3"}, 0, 1, 0, 0),
     Reading(S({"exact", "call2"}, {"d3"}, 1, 0, 0, 0), {"lately"}),
     Reading(S({"agent", "call"}, {"d3"}, 0, 1, 0, 0), {"lately"}),
     Reading(S({"agent", "call"}, {"d3"}, 0, 0, 0, 0), {"recent", "past"}),
     Reading(S({"exact", "call2"}, {"d3"}, 0, 0, 0, 0), {"copy", "graph"}),
     Reading(S({"agent", "call"}, {"d3"}, 1, 0, 0, 0), {"library"})}
\* the owner's mixed forget, and one crash
MCMixed == {S({"topic", "tap"}, {}, 0, 1, 0, 0)}
=============================================================================
