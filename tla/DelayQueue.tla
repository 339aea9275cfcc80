----------------------------- MODULE DelayQueue -----------------------------
(***************************************************************************)
(* What CTimedWork promises, without clock, thread and interrupts: a       *)
(* command given to it is passed on once to the work scheduler, as long as *)
(* the facility is not shut down; what is left then is destroyed.          *)
(***************************************************************************)
CONSTANT Commands

VARIABLES
    waiting,    \* accepted, not passed on yet
    handed,     \* passed on to CWorkScheduler::ScheduleWork
    dropped,    \* destroyed at shutdown
    open        \* no termination requested yet

vars == <<waiting, handed, dropped, open>>

Init == waiting = {} /\ handed = {} /\ dropped = {} /\ open = TRUE

Accept(c) ==
    /\ open
    /\ c \notin waiting \cup handed \cup dropped
    /\ waiting' = waiting \cup {c}
    /\ UNCHANGED <<handed, dropped, open>>

HandOver(c) ==
    /\ c \in waiting
    /\ waiting' = waiting \ {c}
    /\ handed' = handed \cup {c}
    /\ UNCHANGED <<dropped, open>>

Close ==
    /\ open
    /\ open' = FALSE
    /\ UNCHANGED <<waiting, handed, dropped>>

Drop ==
    /\ ~open
    /\ dropped' = dropped \cup waiting
    /\ waiting' = {}
    /\ UNCHANGED <<handed, open>>

Next == Close \/ Drop \/ \E c \in Commands : Accept(c) \/ HandOver(c)

Fairness ==
    /\ \A c \in Commands : WF_vars(open /\ HandOver(c))
    /\ WF_vars(Drop)

Spec == Init /\ [][Next]_vars /\ Fairness
=============================================================================
