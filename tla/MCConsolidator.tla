--------------------------- MODULE MCConsolidator ---------------------------
(* An instance of Consolidator for TLC.                                     *)
EXTENDS Consolidator

D(i, a, w, o) == [id |-> i, aud |-> a, wing |-> w, old |-> o]
MCDrawers ==
    {D("a1", "ann", "Wing_Life", FALSE), D("a2", "ann", "Wing_Life", FALSE),
     D("a3", "ann", "Wing_Life", TRUE), D("b1", "bob", "Wing_Life", FALSE),
     D("b2", "bob", "Wing_Life", FALSE), D("p1", "ann", "Wing_Privacy", FALSE)}
MCThemable == {"Wing_Life"}
MCOrder == <<<<"ann", "Wing_Life">>, <<"bob", "Wing_Life">>>>
MCBudgets ==
    {[changes |-> 2, passes |-> 1, faults |-> 0], [changes |-> 0, passes |-> 2, faults |-> 1],
     [changes |-> 1, passes |-> 1, faults |-> 1]}
MCForget == {[changes |-> 1, passes |-> 1, faults |-> 0]}
=============================================================================
