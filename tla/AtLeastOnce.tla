----------------------------- MODULE AtLeastOnce -----------------------------
(***************************************************************************)
(* What the outbox promises to the rest of the system: the topic shows     *)
(* committed messages only, and a message counts as published only after   *)
(* the topic has shown it.                                                 *)
(***************************************************************************)
CONSTANT Message

VARIABLES
    committed, \* messages the core has committed
    shown,     \* messages the topic has, once or more often
    confirmed  \* messages the core will not send again

Init == committed = {} /\ shown = {} /\ confirmed = {}

Accept(m) ==
    /\ committed' = committed \cup {m}
    /\ UNCHANGED <<shown, confirmed>>

Show(m) ==
    /\ m \in committed
    /\ shown' = shown \cup {m}
    /\ UNCHANGED <<committed, confirmed>>

\* A batch is confirmed at once.
Confirm(batch) ==
    /\ batch \subseteq shown
    /\ confirmed' = confirmed \cup batch
    /\ UNCHANGED <<committed, shown>>

Next ==
    \/ \E m \in Message : Accept(m) \/ Show(m)
    \/ \E batch \in SUBSET Message : Confirm(batch)

Spec == Init /\ [][Next]_<<committed, shown, confirmed>>
=============================================================================
