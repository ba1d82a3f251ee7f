------------------------------ MODULE EventLog ------------------------------
(***************************************************************************)
(* What the outbox promises: the franchise's events reach Master as one    *)
(* log, in the order they were committed, each exactly once, and Lite      *)
(* counts an event as delivered only when Master has it.  A confirmation   *)
(* may be withdrawn (the event is then sent again); a recorded event is    *)
(* never withdrawn.                                                        *)
(***************************************************************************)
EXTENDS Integers

VARIABLES
    committed,  \* number of events committed at the franchise
    recorded,   \* Master holds events 1..recorded
    confirmed   \* events the franchise knows to be recorded

logVars == <<committed, recorded, confirmed>>

Init == committed = 1 /\ recorded = 0 /\ confirmed = {}

Commit ==
    /\ committed' = committed + 1
    /\ UNCHANGED <<recorded, confirmed>>

Record ==
    /\ recorded < committed
    /\ recorded' = recorded + 1
    /\ UNCHANGED <<committed, confirmed>>

Confirm ==
    /\ \E e \in 1..recorded : confirmed' = confirmed \cup {e}
    /\ UNCHANGED <<committed, recorded>>

Reopen ==
    /\ \E e \in confirmed : confirmed' = confirmed \ {e}
    /\ UNCHANGED <<committed, recorded>>

Next == Commit \/ Record \/ Confirm \/ Reopen

Spec == Init /\ [][Next]_logVars
=============================================================================
