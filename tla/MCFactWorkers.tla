--------------------------- MODULE MCFactWorkers ---------------------------
(* Small workloads for the write path.                                      *)
EXTENDS FactWorkers, TLC

CONSTANTS berlin, paris, m1, m2, m3, m4

MCCorrections == Msgs \X Facts
MCSlotOf == [f \in Facts |-> "lives_in"]
MCSingle == {"lives_in"}

Turn(ends, adds) ==
    [kind |-> "turn", worker |-> "turn", ends |-> ends, adds |-> adds,
     source |-> NoMsg, hard |-> FALSE]
Command(kind, ends, adds) ==
    [kind |-> kind, worker |-> "cmd", ends |-> ends, adds |-> adds,
     source |-> NoMsg, hard |-> FALSE]
ForgetDrawersOf(f, hard) ==
    [Command("forget_drawers", NoFact, f) EXCEPT !.hard = hard]
ForgetSourceOf(m) ==
    [Command("forget_source", NoFact, NoFact) EXCEPT !.source = m, !.hard = TRUE]

\* Everything a conversation and its commands may say about one slot.
AllTurns == {Turn(NoFact, f) : f \in Facts} \cup {Turn(f, NoFact) : f \in Facts}
                \cup {Turn(berlin, paris), Turn(paris, berlin)}
AllCommands == {Command(k, NoFact, f) : k \in {"assert", "update"}, f \in Facts}
                   \cup {Command("correct", f, NoFact) : f \in Facts}
AllForgets == {ForgetDrawersOf(berlin, h) : h \in BOOLEAN} \cup {ForgetSourceOf(m1)}

Nothing == Command("none", NoFact, NoFact)
Said(c) == {m \in Msgs : c[m].kind # "none"}

\* m1 asserts berlin; the other messages are anything, or nothing from some
\* message on.
Mixed == {c \in [Msgs -> AllTurns \cup AllCommands \cup AllForgets \cup {Nothing}] :
              /\ c[m1] = Turn(NoFact, berlin) /\ c[m2] # Nothing
              /\ m4 \in Msgs /\ c[m3] = Nothing => c[m4] = Nothing}

\* All that C says, said to one worker.
OnOne(C) == {[m \in Msgs |-> [c[m] EXCEPT !.worker = "turn"]] : c \in C}

\* Turns, with updates to berlin; berlin ended, and then said and ended again;
\* a privacy command after a turn about paris.
Changing ==
    LET said == AllTurns \cup {Command("update", NoFact, berlin), Nothing}
    IN OnOne({c \in Mixed : \A m \in Msgs : c[m] \in said})
Returning ==
    LET said == {Turn(NoFact, berlin), Turn(berlin, NoFact)}
    IN OnOne({c \in Mixed : c[m2] = Turn(berlin, NoFact) /\ \A m \in Msgs : c[m] \in said})
Erasing ==
    OnOne({c \in Mixed : /\ c[m2] \in {Turn(NoFact, paris), Turn(berlin, paris)}
                         /\ c[m3] \in AllForgets})

ScenariosOf(C, said, crash, fail) ==
    {[content |-> c, crashes |-> crash, fails |-> fail] :
         c \in {d \in C : Cardinality(Said(d)) = said}}

\* Two messages with a crash or reconnect and a raising call.
MCFaulty == ScenariosOf(Mixed, 2, 1, 1)

\* The same; three messages without a fault; and on one worker, three or four
\* messages with a crash.
MCScenarios ==
    MCFaulty \cup ScenariosOf(Mixed, 3, 0, 0)
        \cup ScenariosOf(Changing, 3, 1, 0) \cup ScenariosOf(Returning, 4, 1, 0)
        \cup ScenariosOf(Erasing, 3, 1, 0)

One(c, n) == {[content |-> c, crashes |-> n, fails |-> 0]}

\* A fact is corrected while a soft forget of it is under way.
MCCorrectForget ==
    One([m \in Msgs |-> CASE m = m1 -> Turn(NoFact, berlin)
                          [] m = m2 -> Turn(berlin, NoFact)
                          [] OTHER -> ForgetDrawersOf(berlin, FALSE)], 0)

\* berlin is ended and said again while a command asserts paris.
MCTwoValues ==
    One([m \in Msgs |-> CASE m = m1 -> Turn(NoFact, berlin)
                          [] m = m2 -> Turn(berlin, NoFact)
                          [] m = m3 -> Turn(NoFact, berlin)
                          [] OTHER -> Command("assert", NoFact, paris)], 0)
=============================================================================
