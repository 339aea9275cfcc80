---------------------------- MODULE WorkScheduler ----------------------------
(***************************************************************************)
(* CWorkScheduler: the queue of due commands, filled by any thread and     *)
(* emptied by the main thread.  The list is protected by `mut`; a POSIX    *)
(* semaphore counts its elements, and the consumer waits on the semaphore  *)
(* alone: getnextcmd() takes front() without asking whether there is one.  *)
(*                                                                         *)
(* One context of execution per thread, and one for the signal handler,    *)
(* which runs on the main thread's stack: while it is active the main      *)
(* thread stands still, with whatever lock it holds.                       *)
(***************************************************************************)
EXTENDS Integers, Sequences, FiniteSets

CONSTANTS
    Commands,       \* the ICommand objects, each handed over at most once
    Targets,        \* the ICommandTargets
    NULL,           \* the null pointer, also "nobody" for the mutex
    Code,           \* ICommand::getCmd()
    Trgt,           \* ICommand::getTrgt()
    Workers,        \* timed-work thread, connection threads, terminator thread
    Main,           \* the thread that calls DoWork
    SigHandler      \* the SIGTERM handler, interrupting Main

CMD_BROADCAST_MAX == 1      \* BasicCommands.h

Contexts == Workers \cup {Main, SigHandler}

Broadcasts == { c \in Commands : Code[c] <= CMD_BROADCAST_MAX }

(* ICommands the callers build: a broadcast never names a target (the       *)
(* assertion in both ScheduleWork functions).                               *)
ASSUME CommandAssumption ==
    /\ Code \in [Commands -> Nat]
    /\ Trgt \in [Commands -> Targets \cup {NULL}]
    /\ \A c \in Broadcasts : Trgt[c] = NULL
    /\ NULL \notin Commands \cup Targets

ASSUME ContextAssumption ==
    /\ IsFiniteSet(Workers)
    /\ NULL \notin Contexts
    /\ Main # SigHandler /\ Main \notin Workers /\ SigHandler \notin Workers

VARIABLES
    CommandsDue,            \* std::list<ICommand*>
    semaphore,
    mut,                    \* who holds the mutex
    broadcast_subscribers,
    spc, scmd,              \* per context: where in ScheduleWork, and with what
    mpc, mcmd,              \* where in DoWork, and the command taken out
    todo,                   \* the targets DoWork still has to call for mcmd
    delivered,              \* history: who was called with each command
    deleted                 \* the commands deleted so far

queueVars == <<CommandsDue, semaphore, mut>>
callVars == <<spc, scmd>>
workVars == <<mpc, mcmd, todo, delivered>>
vars == <<queueVars, broadcast_subscribers, callVars, workVars, deleted>>

Due == { CommandsDue[i] : i \in DOMAIN CommandsDue }

(* The caller still owns c: nothing of the scheduler refers to it. *)
Unscheduled(c) ==
    /\ c \notin Due \cup deleted \cup {mcmd}
    /\ \A x \in Contexts : scmd[x] # c

(* The handler suspends the main thread until it returns. *)
Runs(x) == x = Main => spc[SigHandler] = "idle"

Init ==
    /\ CommandsDue = <<>> /\ semaphore = 0 /\ mut = NULL
    /\ broadcast_subscribers = {}
    /\ spc = [x \in Contexts |-> "idle"]
    /\ scmd = [x \in Contexts |-> NULL]
    /\ mpc = "idle" /\ mcmd = NULL /\ todo = {}
    /\ delivered = [c \in Commands |-> {}]
    /\ deleted = {}

-----------------------------------------------------------------------------
(* ScheduleWork(Command, tryonly)                                          *)

FireAndForget(c) == Code[c] >= CMD_BROADCAST_MAX /\ Trgt[c] = NULL

(* Only the signal handler passes tryonly = true. *)
TryOnly(x) == x = SigHandler

(* The main thread schedules work from the command it executes, or outside *)
(* of DoWork (setting the objects up, answering in the main loop).         *)
MayCall(x) == x = Main => mpc \in {"idle", "handler"}

(* The function goes on past the early return for fire-and-forget commands. *)
GoesOn_Always(c) == TRUE      \* mutant: no return after the delete

GoesOn(c) == ~FireAndForget(c)

(* Entering: the command changes its owner, a command without a target to  *)
(* call back is deleted.                                                   *)
CallScheduleWork(x, c) ==
    /\ spc[x] = "idle" /\ Runs(x) /\ MayCall(x)
    /\ Unscheduled(c)
    /\ deleted' = IF FireAndForget(c) THEN deleted \cup {c} ELSE deleted
    /\ IF GoesOn(c) THEN /\ spc' = [spc EXCEPT ![x] = "lock"]
                         /\ scmd' = [scmd EXCEPT ![x] = c]
                    ELSE UNCHANGED callVars
    /\ UNCHANGED <<queueVars, broadcast_subscribers, workVars>>

(* boost::mutex::lock waits until nobody holds the mutex. *)
Lockable == mut = NULL

LockForPush(x) ==
    /\ spc[x] = "lock" /\ Runs(x)
    /\ Lockable
    /\ mut' = x
    /\ spc' = [spc EXCEPT ![x] = "push"]
    /\ UNCHANGED <<CommandsDue, semaphore, broadcast_subscribers, scmd,
                   workVars, deleted>>

(* try_lock fails: ScheduleWork returns false, the caller keeps Command. *)
TryLockFails(x) ==
    /\ spc[x] = "lock" /\ Runs(x)
    /\ TryOnly(x) /\ mut # NULL
    /\ spc' = [spc EXCEPT ![x] = "idle"]
    /\ scmd' = [scmd EXCEPT ![x] = NULL]
    /\ UNCHANGED <<queueVars, broadcast_subscribers, workVars, deleted>>

PushAndUnlock(x) ==
    /\ spc[x] = "push" /\ Runs(x)
    /\ CommandsDue' = Append(CommandsDue, scmd[x])
    /\ mut' = NULL
    /\ spc' = [spc EXCEPT ![x] = "post"]
    /\ scmd' = [scmd EXCEPT ![x] = NULL]
    /\ UNCHANGED <<semaphore, broadcast_subscribers, workVars, deleted>>

Posted_NotIfTryOnly(x) ==      \* mutant: try_lock'ed calls do not post
    IF TryOnly(x) THEN semaphore ELSE semaphore + 1

Posted(x) == semaphore + 1

Post(x) ==
    /\ spc[x] = "post" /\ Runs(x)
    /\ semaphore' = Posted(x)
    /\ spc' = [spc EXCEPT ![x] = "idle"]
    /\ UNCHANGED <<CommandsDue, mut, broadcast_subscribers, scmd, workVars,
                   deleted>>

ScheduleWork(x) ==
    LockForPush(x) \/ TryLockFails(x) \/ PushAndUnlock(x) \/ Post(x)

-----------------------------------------------------------------------------
(* DoWork(block), on the main thread                                       *)

InMain(pc) == mpc = pc /\ Runs(Main) /\ spc[Main] = "idle"

(* The callers are constructors and CheckConfig functions, all before the  *)
(* main loop: no command is being executed.                                *)
RegisterBroadcasts(t, subscribe) ==
    /\ InMain("idle")
    /\ broadcast_subscribers' = IF subscribe THEN broadcast_subscribers \cup {t}
                                ELSE broadcast_subscribers \ {t}
    /\ UNCHANGED <<queueVars, callVars, workVars, deleted>>

CallDoWork(block) ==
    /\ InMain("idle")
    /\ mpc' = IF block THEN "wait" ELSE "checklock"
    /\ UNCHANGED <<queueVars, broadcast_subscribers, callVars, mcmd, todo,
                   delivered, deleted>>

LockForCheck ==
    /\ InMain("checklock")
    /\ Lockable
    /\ mut' = Main
    /\ mpc' = "check"
    /\ UNCHANGED <<CommandsDue, semaphore, broadcast_subscribers, callVars,
                   mcmd, todo, delivered, deleted>>

AfterCheck_NoWait ==      \* mutant: a command was seen, no need to sem_wait
    IF CommandsDue = <<>> THEN "idle" ELSE "getlock"

(* Nothing due: DoWork(false) returns false. *)
AfterCheck == IF CommandsDue = <<>> THEN "idle" ELSE "wait"

CheckEmpty ==
    /\ InMain("check")
    /\ mut' = NULL
    /\ mpc' = AfterCheck
    /\ UNCHANGED <<CommandsDue, semaphore, broadcast_subscribers, callVars,
                   mcmd, todo, delivered, deleted>>

(* sem_wait                                                                *)
SemDown_Interrupted ==    \* mutant: EINTR, and the result is not looked at
    semaphore' = IF semaphore > 0 THEN semaphore - 1 ELSE 0

SemDown == semaphore > 0 /\ semaphore' = semaphore - 1

SemWait ==
    /\ InMain("wait")
    /\ SemDown
    /\ mpc' = "getlock"
    /\ UNCHANGED <<CommandsDue, mut, broadcast_subscribers, callVars, mcmd,
                   todo, delivered, deleted>>

LockForGet ==
    /\ InMain("getlock")
    /\ Lockable
    /\ mut' = Main
    /\ mpc' = "pop"
    /\ UNCHANGED <<CommandsDue, semaphore, broadcast_subscribers, callVars,
                   mcmd, todo, delivered, deleted>>

(* getnextcmd: front() and pop_front(), which need a non-empty list. *)
GetNextCmd ==
    /\ InMain("pop")
    /\ CommandsDue # <<>>
    /\ mcmd' = Head(CommandsDue)
    /\ CommandsDue' = Tail(CommandsDue)
    /\ mut' = NULL
    /\ mpc' = "dispatch"
    /\ UNCHANGED <<semaphore, broadcast_subscribers, callVars, todo, delivered,
                   deleted>>

Recipients_OffByOne(c) ==     \* mutant: the first code after the broadcasts
    IF Code[c] > CMD_BROADCAST_MAX + 1 THEN {Trgt[c]} ELSE broadcast_subscribers

(* A broadcast goes to all subscribers, anything else to its own target.   *)
Recipients(c) ==
    IF Code[c] > CMD_BROADCAST_MAX THEN {Trgt[c]} ELSE broadcast_subscribers

Dispatch ==
    /\ InMain("dispatch")
    /\ todo' = Recipients(mcmd)
    /\ mpc' = "execute"
    /\ UNCHANGED <<queueVars, broadcast_subscribers, callVars, mcmd, delivered,
                   deleted>>

(* The subscribers form a set ordered by address: any order can occur. *)
ExecuteCommand(t) ==
    /\ InMain("execute")
    /\ t \in todo
    /\ todo' = todo \ {t}
    /\ delivered' = [delivered EXCEPT ![mcmd] = @ \cup {t}]
    /\ mpc' = "handler"
    /\ UNCHANGED <<queueVars, broadcast_subscribers, callVars, mcmd, deleted>>

HandlerReturns ==
    /\ InMain("handler")
    /\ mpc' = "execute"
    /\ UNCHANGED <<queueVars, broadcast_subscribers, callVars, mcmd, todo,
                   delivered, deleted>>

DeleteCmd ==
    /\ InMain("execute")
    /\ todo = {}
    /\ deleted' = deleted \cup {mcmd}
    /\ mcmd' = NULL
    /\ mpc' = "idle"
    /\ UNCHANGED <<queueVars, broadcast_subscribers, callVars, todo, delivered>>

DoWork ==
    \/ LockForCheck \/ CheckEmpty \/ SemWait \/ LockForGet \/ GetNextCmd
    \/ Dispatch \/ (\E t \in Targets : ExecuteCommand(t)) \/ HandlerReturns
    \/ DeleteCmd

-----------------------------------------------------------------------------
Next ==
    \/ \E x \in Contexts, c \in Commands : CallScheduleWork(x, c)
    \/ \E x \in Contexts : ScheduleWork(x)
    \/ \E t \in Targets, b \in BOOLEAN : RegisterBroadcasts(t, b)
    \/ \E b \in BOOLEAN : CallDoWork(b)
    \/ DoWork

Spec == Init /\ [][Next]_vars

(* Every thread that is inside a function goes on, and the main loop calls *)
(* DoWork again and again.  Strong fairness where the main thread can be   *)
(* held up by others only now and then: a mutex that keeps becoming free   *)
(* is obtained, and signals leave the main thread time between them.       *)
Fairness ==
    /\ \A x \in Contexts : SF_vars(ScheduleWork(x))
    /\ SF_vars(DoWork)
    /\ SF_vars(CallDoWork(TRUE))

FairSpec == Spec /\ Fairness

-----------------------------------------------------------------------------
(* Properties                                                              *)

TypeOK ==
    /\ CommandsDue \in Seq(Commands)
    /\ semaphore \in Nat
    /\ mut \in Contexts \cup {NULL}
    /\ broadcast_subscribers \in SUBSET Targets
    /\ spc \in [Contexts -> {"idle", "lock", "push", "post"}]
    /\ scmd \in [Contexts -> Commands \cup {NULL}]
    /\ mpc \in {"idle", "checklock", "check", "wait", "getlock", "pop",
                "dispatch", "execute", "handler"}
    /\ mcmd \in Commands \cup {NULL}
    /\ todo \in SUBSET Targets
    /\ delivered \in [Commands -> SUBSET Targets]
    /\ deleted \in SUBSET Commands

(* A mutex that is taken is held by the one context that is in a critical  *)
(* section, wherever a signal interrupts it.                               *)
InCriticalSection(x) ==
    spc[x] = "push" \/ (x = Main /\ mpc \in {"check", "pop"})

MutualExclusion == \A x \in Contexts : InCriticalSection(x) <=> mut = x

Posting == { x \in Contexts : spc[x] = "post" }

(* The semaphore lags the list by the commands whose sem_post is still     *)
(* outstanding and leads it by the one DoWork has waited for but not taken *)
(* out yet.                                                                *)
SemaphoreCountsQueue ==
    Len(CommandsDue) = semaphore + Cardinality(Posting)
                       + (IF mpc \in {"getlock", "pop"} THEN 1 ELSE 0)

(* getnextcmd() never calls front() on an empty list, although it does not *)
(* look (CWorkScheduler.cpp:125).                                          *)
FrontExists == mpc = "pop" => CommandsDue # <<>>

(* What holds of the scheduler's data whatever the interleaving: one       *)
(* thread at a time is in the list, and the pop finds a command.           *)
SchedulerInv == TypeOK /\ MutualExclusion /\ FrontExists

(* One owner at a time: a command is with one caller of ScheduleWork, or   *)
(* once in the list, or being executed, or deleted; "CWorkScheduler is     *)
(* owner of the object and will destroy it later" (CWorkScheduler.h:61).   *)
OneOwner ==
    /\ \A x, y \in Contexts : scmd[x] = scmd[y] /\ scmd[x] # NULL => x = y
    /\ \A x \in Contexts : scmd[x] # NULL =>
            scmd[x] # mcmd /\ scmd[x] \notin Due /\ scmd[x] \notin deleted
    /\ \A i, j \in DOMAIN CommandsDue : CommandsDue[i] = CommandsDue[j] => i = j
    /\ mcmd \notin Due /\ mcmd \notin deleted
    /\ Due \cap deleted = {}

(* What the call frames hold: a caller between entry and push has its       *)
(* command, DoWork between pop and delete has its own, and ScheduleWork is *)
(* entered on the main thread only from outside of DoWork or from the      *)
(* command being executed.                                                 *)
Frames ==
    /\ \A x \in Contexts : spc[x] \in {"lock", "push"} <=> scmd[x] # NULL
    /\ mpc \in {"dispatch", "execute", "handler"} <=> mcmd # NULL
    /\ spc[Main] # "idle" => mpc \in {"idle", "handler"}

(* Nothing in the scheduler's hands lacks somebody to be handed to. *)
Addressed ==
    \A c \in Due \cup {mcmd} \cup { scmd[x] : x \in Contexts } :
        c # NULL => ~FireAndForget(c)

(* The inductive invariant. *)
IInv ==
    /\ TypeOK /\ Frames /\ Addressed
    /\ MutualExclusion /\ SemaphoreCountsQueue

(* A SIGTERM never blocks the program: the handler comes back from         *)
(* ScheduleWork(cmd, true) even when it interrupted the holder of mut.     *)
SignalHandlerReturns == spc[SigHandler] # "idle" ~> spc[SigHandler] = "idle"

(* DoWork(false) comes back, with or without having done work, although it *)
(* may wait for a command whose sem_post is still outstanding: the drain   *)
(* loop of main() cannot hang in it.                                       *)
DrainReturns == mpc = "checklock" ~> mpc \in {"idle", "dispatch"}

(* The two calls that promise not to block keep the promise.               *)
NonBlockingReturns == SignalHandlerReturns /\ DrainReturns

(* The queue the other components rely on.                                 *)
Abstract == INSTANCE WorkQueue WITH
    pending <- CommandsDue,
    running <- mcmd,
    receivers <- IF mpc = "dispatch" THEN Recipients(mcmd) ELSE todo,
    subscribers <- broadcast_subscribers,
    Broadcasts <- { c \in Commands : Code[c] < CMD_BROADCAST_MAX }

(* First come, first served; every command handed over is executed, once   *)
(* for each object it is addressed to, and then destroyed.                 *)
ImplementsWorkQueue == Abstract!Spec
=============================================================================
