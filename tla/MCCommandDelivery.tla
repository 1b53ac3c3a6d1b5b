------------------------- MODULE MCCommandDelivery -------------------------
(* Who takes part in the delivery of small sets of commands.                *)
EXTENDS CommandDelivery

CONSTANTS c1, c2, asker, o1, o2

\* A publisher and somebody else who asks; two publishers who share a status
\* table of one row; one command and two operators.
MCScenarios ==
    {[callers |-> {c1, asker}, operators |-> {}, faults |-> 3],
     [callers |-> {c1, c2}, operators |-> {}, faults |-> 1],
     [callers |-> {c1}, operators |-> {o1, o2}, faults |-> 3]}
=============================================================================
