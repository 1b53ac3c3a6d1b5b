---------------------------- MODULE MCTurnIntake ----------------------------
(* Instances of TurnIntake for TLC.                                         *)
EXTENDS TurnIntake, TLC

CONSTANTS t1, t2, f1, f2, f3, live1, live2, batch, again, stray, erase

E(i, h, t, ok) == [id |-> i, hash |-> h, turn |-> t, input |-> 1, valid |-> ok]
D(fs) == [frags |-> fs, target |-> {}]

MCContent ==
    (live1 :> [kind |-> "turn", turn |-> t1, input |-> 1])
    @@ (live2 :> [kind |-> "turn", turn |-> t2, input |-> 2])
    @@ (batch :> [kind |-> "sync", valid |-> TRUE,
                  events |-> <<E(1, 1, t1, TRUE), E(2, 2, t2, TRUE)>>])
    @@ (again :> [kind |-> "sync", valid |-> TRUE,
                  events |-> <<E(3, 1, t1, TRUE), E(4, 4, t2, FALSE)>>])
    @@ (stray :> [kind |-> "sync", valid |-> FALSE, events |-> <<>>])
    @@ (erase :> [kind |-> "cmd", turn |-> t1])

\* t1 says one or two things; t2 nothing, something, or that they be forgotten.
MCSays ==
    (t1 :> {D(<<f1>>), D(<<f1, f2>>)})
    @@ (t2 :> {D(<<>>), D(<<f2, f3>>), [frags |-> <<>>, target |-> {f1, f2}]})

P(ms, c, f, b) == [msgs |-> ms, crashes |-> c, fails |-> f, busy |-> b]
MCPlans ==
    {P({live1, batch}, 0, 0, 0), P({live1, again}, 1, 0, 0), P({live1, live2, erase}, 0, 0, 1),
     P({live1, erase}, 1, 0, 0), P({batch, erase}, 0, 1, 0), P({batch, again, stray}, 1, 1, 0)}
MCLost == {P({batch}, 0, 1, 0)}
MCBusy == {P({live1, live2}, 0, 0, 1)}
=============================================================================
