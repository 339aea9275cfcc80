----------------------------- MODULE AsioWorker -----------------------------
(***************************************************************************)
(* What CConnectTCPAsio and CConnectSerialAsio share: the list `cmds` the  *)
(* main thread fills through the IConnect calls, the semaphore, the worker *)
(* thread that takes one CAsyncCommand at a time, AbortAll() and the       *)
(* destructor.  The Handle...() functions are the transport's: here they   *)
(* are the steps between Pop and Delete.                                   *)
(*                                                                         *)
(* What happens under the recursive mutex is one step.  In AbortAll() the  *)
(* worker may answer its own command between the answers to the queued     *)
(* ones; that order is not distinguished.                                  *)
(***************************************************************************)
EXTENDS Integers, Sequences, FiniteSets

CONSTANTS
    Cmds,           \* the CAsyncCommands, one per call of the interface
    NULL,
    MaxCalls,       \* bound: commands pushed
    MaxAborts       \* bound: calls of AbortAll

ASSUME NullAssumption == NULL \notin Cmds
ASSUME BoundAssumption == MaxCalls \in Nat /\ MaxAborts \in Nat

Errno == {"0", "ECANCELED", "ETIMEDOUT", "EIO", "ENOTCONN", "ECONNREFUSED",
          "EPERM"}

VARIABLES
    cmds,
    cmdsemaphore,
    term_request,       \* _thread_term_request
    stopped,            \* ioservice->stopped()
    wpc, donow,         \* worker: where in _main, and the command it handles
    cpc,                \* main thread: where in PushWork or the destructor
    pushed,             \* history: the commands accepted
    answers,            \* history: how often each was answered
    result,             \* history: ICMD_ERRNO of the answer to donow
    aborts,             \* history: calls of AbortAll
    aborted             \* history: the command AbortAll found in progress

historyVars == <<pushed, answers, result, aborts, aborted>>
baseVars == <<cmds, cmdsemaphore, term_request, stopped, wpc, donow, cpc,
              historyVars>>

Queued == { cmds[i] : i \in DOMAIN cmds }

BaseInit ==
    /\ cmds = <<>> /\ cmdsemaphore = 0
    /\ term_request = FALSE /\ stopped = FALSE
    /\ wpc = "check" /\ donow = NULL
    /\ cpc = "idle"
    /\ pushed = {} /\ answers = [c \in Cmds |-> 0] /\ result = "0"
    /\ aborts = 0 /\ aborted = NULL

-----------------------------------------------------------------------------
(* The main thread: PushWork, AbortAll and the destructor.                 *)

PushWork(c) ==
    /\ cpc = "idle" /\ c \notin pushed /\ Cardinality(pushed) < MaxCalls
    /\ cmds' = Append(cmds, c)
    /\ pushed' = pushed \cup {c}
    /\ cpc' = "post"
    /\ UNCHANGED <<cmdsemaphore, term_request, stopped, wpc, donow, answers,
                   result, aborts, aborted>>

Posted_Forgotten(n) == n      \* mutant: no sem_post after the push

Posted(n) == n + 1

PostWork ==
    /\ cpc = "post"
    /\ cmdsemaphore' = Posted(cmdsemaphore)
    /\ cpc' = "idle"
    /\ UNCHANGED <<cmds, term_request, stopped, wpc, donow, historyVars>>

(* Every queued command is answered with ECANCELED and stays in the list. *)
AbortAll ==
    /\ cpc = "idle" /\ aborts < MaxAborts
    /\ answers' = [c \in Cmds |->
                      answers[c] + (IF c \in Queued THEN 1 ELSE 0)]
    /\ stopped' = TRUE
    /\ aborts' = aborts + 1
    /\ aborted' = donow
    /\ UNCHANGED <<cmds, cmdsemaphore, term_request, wpc, donow, cpc, pushed,
                   result>>

(* The destructor: SetThreadTermRequest(), ... *)
RequestTerm ==
    /\ cpc = "idle"
    /\ term_request' = TRUE
    /\ cpc' = "clear"
    /\ UNCHANGED <<cmds, cmdsemaphore, stopped, wpc, donow, historyVars>>

(* ... the list cleared and the service stopped under the mutex, ... *)
ClearWork ==
    /\ cpc = "clear"
    /\ cmds' = <<>>
    /\ stopped' = TRUE
    /\ cpc' = "wake"
    /\ UNCHANGED <<cmdsemaphore, term_request, wpc, donow, historyVars>>

WakeUp_Forgotten(n) == n      \* mutant: no sem_post in the destructor

WakeUp(n) == n + 1

(* ... sem_post, ... *)
WakeWorker ==
    /\ cpc = "wake"
    /\ cmdsemaphore' = WakeUp(cmdsemaphore)
    /\ cpc' = "join"
    /\ UNCHANGED <<cmds, term_request, stopped, wpc, donow, historyVars>>

(* ... and workerthread.join(). *)
Join ==
    /\ cpc = "join" /\ wpc = "ended"
    /\ cpc' = "gone"
    /\ UNCHANGED <<cmds, cmdsemaphore, term_request, stopped, wpc, donow,
                   historyVars>>

-----------------------------------------------------------------------------
(* The worker thread: _main().                                             *)

CheckTerm ==
    /\ wpc = "check"
    /\ wpc' = IF term_request THEN "ended" ELSE "wait"
    /\ UNCHANGED <<cmds, cmdsemaphore, term_request, stopped, donow, cpc,
                   historyVars>>

SemWait ==
    /\ wpc = "wait" /\ cmdsemaphore > 0
    /\ cmdsemaphore' = cmdsemaphore - 1
    /\ wpc' = "lock"
    /\ UNCHANGED <<cmds, term_request, stopped, donow, cpc, historyVars>>

(* The safety check: the destructor has cleared the list. *)
NothingToPop ==
    /\ wpc = "lock" /\ cmds = <<>>
    /\ wpc' = "check"
    /\ UNCHANGED <<cmds, cmdsemaphore, term_request, stopped, donow, cpc,
                   historyVars>>

(* The mutex is held from pop_front to the reset of the service: an abort  *)
(* either finds the command still queued or stops the service after the    *)
(* reset.                                                                  *)
Pop ==
    /\ wpc = "lock" /\ cmds # <<>>
    /\ donow' = Head(cmds) /\ cmds' = Tail(cmds)
    /\ stopped' = FALSE
    /\ wpc' = "handle"
    /\ UNCHANGED <<cmdsemaphore, term_request, cpc, historyVars>>

ResetAtEntry_Late == FALSE      \* mutant: another reset, without the mutex

(* Entering Handle...() does nothing to the service. *)
ResetAtEntry == stopped

HandlerPcs == {"handle", "start", "run", "ran", "poll", "eval", "rest",
               "accept"}

(* A step of the transport's function that leaves the list alone. *)
Handle(from, to) ==
    /\ wpc = from /\ wpc' = to
    /\ stopped' = IF from = "handle" THEN ResetAtEntry ELSE stopped
    /\ UNCHANGED <<cmds, cmdsemaphore, term_request, donow, cpc, historyVars>>

(* HandleCompletion(): the callback, carrying errno, goes to the scheduler. *)
Answer(from, errno) ==
    /\ errno \in Errno
    /\ wpc = from /\ wpc' = "answered"
    /\ answers' = [answers EXCEPT ![donow] = @ + 1]
    /\ result' = errno
    /\ UNCHANGED <<cmds, cmdsemaphore, term_request, stopped, donow, cpc,
                   pushed, aborts, aborted>>

(* An exception that nobody catches on the worker thread ends the process. *)
Throw(from) ==
    /\ wpc = from /\ wpc' = "thrown" /\ cpc' = "thrown"
    /\ UNCHANGED <<cmds, cmdsemaphore, term_request, stopped, donow,
                   historyVars>>

(* What Handle...() does after the answer, and `delete donow`. *)
Delete ==
    /\ wpc = "answered" /\ wpc' = "check"
    /\ donow' = NULL /\ aborted' = NULL /\ result' = "0"
    /\ UNCHANGED <<cmds, cmdsemaphore, term_request, stopped, cpc, pushed,
                   answers, aborts>>

-----------------------------------------------------------------------------
(* Whatever the transport, it moves the worker with these steps only. *)
BaseNext ==
    \/ \E c \in Cmds : PushWork(c)
    \/ PostWork \/ AbortAll
    \/ RequestTerm \/ ClearWork \/ WakeWorker \/ Join
    \/ CheckTerm \/ SemWait \/ NothingToPop \/ Pop
    \/ \E from \in HandlerPcs, to \in HandlerPcs : Handle(from, to)
    \/ \E from \in HandlerPcs, errno \in Errno : Answer(from, errno)
    \/ \E from \in HandlerPcs : Throw(from)
    \/ Delete

BaseSpec == BaseInit /\ [][BaseNext]_baseVars

-----------------------------------------------------------------------------
BaseTypeOK ==
    /\ cmds \in Seq(Cmds) /\ cmdsemaphore \in Nat
    /\ term_request \in BOOLEAN /\ stopped \in BOOLEAN
    /\ wpc \in {"check", "wait", "lock", "answered", "ended", "thrown"}
              \cup HandlerPcs
    /\ donow \in Cmds \cup {NULL}
    /\ cpc \in {"idle", "post", "clear", "wake", "join", "gone", "thrown"}
    /\ pushed \in SUBSET Cmds
    /\ answers \in [Cmds -> Nat] /\ result \in Errno
    /\ aborts \in 0..MaxAborts /\ aborted \in Cmds \cup {NULL}

(* The posts under way, and the one the worker has just taken.             *)
PendingWakeups ==
    cmdsemaphore + (IF cpc \in {"post", "wake"} THEN 1 ELSE 0)
                 + (IF wpc = "lock" THEN 1 ELSE 0)

(* Every command in the list has a semaphore count of its own on the way,  *)
(* so the worker's sem_wait never sleeps on a filled list.  The pops, the  *)
(* pushes, AbortAll and the destructor's clear() keep it, whatever their   *)
(* order.  (Not once an exception has ended the process.)                  *)
EveryCommandCounted == wpc # "thrown" => Len(cmds) <= PendingWakeups

(* An abort is not lost: while the command that AbortAll found in progress *)
(* is being handled, the I/O service stays stopped, so its run_one returns *)
(* at once.  This is the race the comments at the reset speak of ("must be *)
(* done with mutex held due to a possible race with abortall").            *)
AbortNotLost == aborted # NULL => donow = aborted /\ stopped
=============================================================================
