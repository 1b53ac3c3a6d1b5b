--------------------------- MODULE ReadersWriter ---------------------------
(* What a readers-writer lock promises: many readers inside, or one writer. *)

CONSTANT Tasks

VARIABLES
    reading,    \* the tasks inside as readers
    writing     \* the tasks inside as writers

Init == reading = {} /\ writing = {}

EnterRead(t) ==
    /\ writing = {}
    /\ reading' = reading \cup {t}
    /\ UNCHANGED writing

EnterWrite(t) ==
    /\ reading = {} /\ writing = {}
    /\ writing' = {t}
    /\ UNCHANGED reading

Leave(t) ==
    /\ t \in reading \cup writing
    /\ reading' = reading \ {t}
    /\ writing' = writing \ {t}

Next == \E t \in Tasks : EnterRead(t) \/ EnterWrite(t) \/ Leave(t)

Spec == Init /\ [][Next]_<<reading, writing>>
=============================================================================
