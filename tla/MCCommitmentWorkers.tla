----------------------- MODULE MCCommitmentWorkers -----------------------
(* Small workloads for commitments.                                         *)
EXTENDS CommitmentWorkers

CONSTANTS call, i1, i2, i3, delete, erase, say, archive

MCTripleOf == [c \in Cids |-> c]

\* A promise, its confirmation and its end.
MCIntentOf ==
    [i \in Intents |->
        [cid |-> call, targeted |-> FALSE, wording |-> "same", status |-> "none",
         op |-> CASE i = i1 -> "add" [] i = i2 -> "confirm" [] OTHER -> "invalidate"]]

\* A delete and an archive by id, the erasure of the promise's source event,
\* and a delete said in a turn, in words that name its statement too.
ForgetBy(by, source, hard, named) ==
    [cid |-> call, hard |-> hard, by |-> by, source |-> source, named |-> named]
MCForgetOf ==
    [f \in Forgets |->
        CASE f = delete -> ForgetBy("id", NoMsg, TRUE, FALSE)
          [] f = archive -> ForgetBy("id", NoMsg, FALSE, FALSE)
          [] f = erase -> ForgetBy("source", i1, TRUE, FALSE)
          [] OTHER -> ForgetBy("turn", NoMsg, TRUE, TRUE)]

\* The whole life of a promise while a turn asks to forget it; a delete, an
\* erasure, and a delete after an archive, all by command.
MCScenarios ==
    {[said |-> {i1, i2, i3, say}, crashes |-> 1, fails |-> 0],
     [said |-> {i1, i3, delete}, crashes |-> 2, fails |-> 1],
     [said |-> {i1, i2, erase}, crashes |-> 2, fails |-> 1],
     [said |-> {i1, i2, archive, delete}, crashes |-> 2, fails |-> 0]}

\* A promise and a delete said in a turn, with a crash.
MCSpoken == {[said |-> {i1, say}, crashes |-> 1, fails |-> 0]}
=============================================================================
