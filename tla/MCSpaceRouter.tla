--------------------------- MODULE MCSpaceRouter ---------------------------
(* Two processes, two spaces, five clients.                                 *)
EXTENDS SpaceRouter

CONSTANTS p1, p2, home, work, d1, d2, c1, c2, c3, c4, c5

\* Three clients of the first process, two of them about one space, and two
\* of the second: one about that space too, one about a space it does not serve.
MCProcOf == [c \in Clients |-> IF c \in {c4, c5} THEN p2 ELSE p1]
MCSpaceOf == [c \in Clients |-> IF c \in {c3, c5} THEN work ELSE home]
MCModeOf == [c \in Clients |-> IF c = c2 THEN "read" ELSE "write"]
MCAllowed == [p \in Procs |-> IF p = p1 THEN Spaces ELSE {home}]

Own == [s \in Spaces |-> IF s = home THEN d1 ELSE d2]
Overridden == [s \in Spaces |-> d2]
MCScenario(who, first, second, most, die, fail) ==
    [callers |-> who, dirs |-> [p \in Procs |-> IF p = p1 THEN first ELSE second],
     limit |-> most, deaths |-> die, fails |-> fail]

\* Two clients of one space with failures; a pool of one; an override that
\* names one directory for both spaces of a process; two processes about one
\* space, one of which may die; two that meet in a directory under different
\* spaces.
MCScenarios ==
    {MCScenario({c1, c2}, Own, Own, 2, 0, 2),
     MCScenario({c1, c2, c3}, Own, Own, 1, 0, 0),
     MCScenario({c1, c3}, Overridden, Own, 2, 0, 1),
     MCScenario({c1, c4}, Own, Own, 2, 1, 0),
     MCScenario({c3, c4, c5}, Own, Overridden, 2, 0, 1)}
=============================================================================
