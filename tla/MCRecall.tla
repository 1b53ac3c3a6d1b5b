------------------------------ MODULE MCRecall ------------------------------
(* An instance of Recall for TLC.                                           *)
EXTENDS Recall

R(w, a, s, v, dev, t, sim, lex, ch) ==
    [wing |-> w, audience |-> a, scope |-> s, visibility |-> v, device |-> dev, turn |-> t,
     sim |-> sim, lex |-> lex, chars |-> ch]
Q(p, n) == [plain |-> p, named |-> n]

MCDrawers == {"old", "near", "desk", "bobs", "hush", "theme"}
MCRow ==
    [old   |-> R("Wing_Life", "owner", "persona", "all_devices", "", "t1", Q(5, 4), Q(0, 1), 1),
     near  |-> R("Wing_Life", "ann", "persona", "all_devices", "", "t2", Q(4, 6), Q(3, 3), 0),
     desk  |-> R("Wing_Work", "owner", "device", "current_device", "desk", "", Q(3, 3), Q(0, 0), 2),
     bobs  |-> R("Wing_Life", "bob", "persona", "all_devices", "", "t3", Q(6, 5), Q(4, 4), 3),
     hush  |-> R("Wing_Privacy", "owner", "persona", "all_devices", "", "t4", Q(7, 7), Q(5, 5), 4),
     theme |-> R("Wing_Theme", "ann", "persona", "all_devices", "", "", Q(2, 2), Q(0, 0), 0)]
MCStatements == {"lives", "sick", "told"}
F(e, a, s, t, k) == [ends |-> e, audience |-> a, sensitive |-> s, turn |-> t, conf |-> k]
MCFact ==
    [lives |-> F({"mum", "town"}, "owner", FALSE, "t1", 3),
     sick  |-> F({"mum"}, "owner", TRUE, "t2", 2),
     told  |-> F({"town"}, "bob", FALSE, "t3", 1)]
Call(v, s, r, d, n, a) ==
    [voice |-> v, scoped |-> s, readable |-> r, device |-> d, names |-> n, alias |-> a, topK |-> 2]
MCCalls == {"voice", "chat", "nobody"}
MCRequest ==
    [voice |-> Call(TRUE, TRUE, {"owner", "ann"}, "desk", <<"mum">>, <<"mum">>),
     chat |-> Call(FALSE, FALSE, {"owner"}, "", <<"mum", "town">>, <<>>),
     nobody |-> Call(FALSE, TRUE, {}, "", <<"mum">>, <<"mum">>)]
MCWings == {"Wing_Life", "Wing_Work"}
MCShadow == {"old", "lives", "theme"}
S(f, h, i, e, c, o) ==
    [faults |-> f, stuck |-> h, index |-> i, hard |-> e, cancels |-> c, on |-> o]
MCScenarios ==
    {S(1, 1, "healthy", FALSE, 0, {"voice"}), S(1, 0, "healthy", TRUE, 1, {"chat"}),
     S(0, 0, "diverged", TRUE, 0, {"chat"}), S(0, 1, "healthy", TRUE, 0, {"voice", "nobody"})}
\* a phrase no stored word matches
MCQuietRow == [d \in MCDrawers |-> [MCRow[d] EXCEPT !.lex = Q(0, 0)]]
MCDiverged == {S(0, 0, "diverged", TRUE, 0, {"chat"})}
=============================================================================
