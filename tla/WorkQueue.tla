------------------------------ MODULE WorkQueue ------------------------------
(***************************************************************************)
(* What CWorkScheduler promises to the objects that schedule work on it,   *)
(* without threads, locks or the semaphore: commands are accepted into one *)
(* queue, taken out oldest first by a single consumer, handed exactly once *)
(* to every object they are addressed to, and destroyed afterwards.        *)
(***************************************************************************)
EXTENDS Sequences, FiniteSets

CONSTANTS
    Commands,       \* the ICommand objects
    Targets,        \* the ICommandTargets (inverters, filters, connections)
    NULL,
    Trgt,           \* ICommand::getTrgt()
    Broadcasts      \* the commands that go to every subscriber

VARIABLES
    pending,        \* accepted, not yet taken: oldest first
    running,        \* the command being executed, or NULL
    receivers,      \* who still has to be handed `running`
    subscribers,    \* the targets registered for broadcasts
    delivered,      \* who was handed each command
    deleted         \* the commands that were destroyed

vars == <<pending, running, receivers, subscribers, delivered, deleted>>

Pending == { pending[i] : i \in DOMAIN pending }

Recipients(c) == IF c \in Broadcasts THEN subscribers ELSE { Trgt[c] }

Init ==
    /\ pending = <<>>
    /\ running = NULL
    /\ receivers = {}
    /\ subscribers \in SUBSET Targets
    /\ delivered = [c \in Commands |-> {}]
    /\ deleted = {}

(* Ownership of c passes from the caller to the queue. *)
Accept(c) ==
    /\ c \notin Pending \cup deleted \cup {running}
    /\ Trgt[c] # NULL \/ c \in Broadcasts
    /\ pending' = Append(pending, c)
    /\ UNCHANGED <<running, receivers, subscribers, delivered, deleted>>

(* A command nobody is to be called back with is destroyed at once. *)
Discard(c) ==
    /\ c \notin Pending \cup deleted \cup {running}
    /\ Trgt[c] = NULL /\ c \notin Broadcasts
    /\ deleted' = deleted \cup {c}
    /\ UNCHANGED <<pending, running, receivers, subscribers, delivered>>

Subscribe(t) ==
    /\ running = NULL
    /\ subscribers' = subscribers \cup {t}
    /\ UNCHANGED <<pending, running, receivers, delivered, deleted>>

Unsubscribe(t) ==
    /\ running = NULL
    /\ subscribers' = subscribers \ {t}
    /\ UNCHANGED <<pending, running, receivers, delivered, deleted>>

Start ==
    /\ running = NULL
    /\ pending # <<>>
    /\ running' = Head(pending)
    /\ pending' = Tail(pending)
    /\ receivers' = Recipients(Head(pending))
    /\ UNCHANGED <<subscribers, delivered, deleted>>

Deliver(t) ==
    /\ t \in receivers
    /\ receivers' = receivers \ {t}
    /\ delivered' = [delivered EXCEPT ![running] = @ \cup {t}]
    /\ UNCHANGED <<pending, running, subscribers, deleted>>

Finish ==
    /\ running # NULL
    /\ receivers = {}
    /\ running' = NULL
    /\ deleted' = deleted \cup {running}
    /\ UNCHANGED <<pending, receivers, subscribers, delivered>>

Consume == Start \/ Finish \/ \E t \in Targets : Deliver(t)

Next ==
    \/ \E c \in Commands : Accept(c) \/ Discard(c)
    \/ \E t \in Targets : Subscribe(t) \/ Unsubscribe(t)
    \/ Consume

Spec == Init /\ [][Next]_vars /\ WF_vars(Consume)
=============================================================================
