------------------------------ MODULE MainLoop ------------------------------
(***************************************************************************)
(* The life of the process: main() of solarpowerlog.cpp sets the objects   *)
(* up, works until SIGTERM, drains the scheduler and tears everything      *)
(* down, while the SIGTERM handler of daemon.cpp may interrupt it anywhere *)
(* and the timed-work and connection threads keep scheduling work.         *)
(*                                                                         *)
(* The scheduler is WorkScheduler.  CTimedWork is used through what it     *)
(* promises (DelayQueue): a set of waiting commands of which each may be   *)
(* handed over at any time.  A connection is a thread that owes its caller *)
(* one completion callback for each operation it was asked for.            *)
(***************************************************************************)
EXTENDS WorkScheduler

CONSTANTS
    Shutdown,       \* the CMD_BRC_SHUTDOWN command the handler creates
    Timer,          \* the thread of CTimedWork
    Connection,     \* the thread of a connection
    Terminator      \* terminator_thread

ASSUME ProcessAssumption ==
    /\ Shutdown \in Broadcasts
    /\ Code[Shutdown] = 0
    /\ Workers = {Timer, Connection, Terminator}
    /\ Timer # Connection /\ Terminator \notin {Timer, Connection}

VARIABLES
    killsignal,
    lpc,            \* where main() is
    terminator,     \* terminator_thread
    timed,          \* commands waiting in CTimedWork
    operations,     \* callbacks a connection owes
    threads         \* which of Timer and Connection have not been joined

mainVars == <<killsignal, lpc, terminator, timed, operations, threads>>
allVars == <<vars, mainVars>>

MInit ==
    /\ Init
    /\ killsignal = FALSE
    /\ lpc = "setup"
    /\ terminator = "none"
    /\ timed = {} /\ operations = {}
    /\ threads = {Timer, Connection}

(* Nobody holds c yet. *)
New(c) == c # Shutdown /\ Unscheduled(c) /\ c \notin timed \cup operations

(* Objects schedule work from their constructors and command handlers. *)
InObject == InMain("handler") \/ (lpc = "setup" /\ InMain("idle"))

-----------------------------------------------------------------------------
(* What inverters and filters do                                           *)

ScheduleNow(c) ==
    /\ InObject /\ New(c)
    /\ CallScheduleWork(Main, c)
    /\ UNCHANGED mainVars

ScheduleLater(c) ==
    /\ InObject /\ New(c) /\ ~FireAndForget(c)
    /\ timed' = timed \cup {c}
    /\ UNCHANGED <<vars, killsignal, lpc, terminator, operations, threads>>

StartOperation(c) ==
    /\ InObject /\ New(c) /\ ~FireAndForget(c)
    /\ operations' = operations \cup {c}
    /\ UNCHANGED <<vars, killsignal, lpc, terminator, timed, threads>>

Subscribe(t) ==
    /\ lpc = "setup"
    /\ RegisterBroadcasts(t, TRUE)
    /\ UNCHANGED mainVars

-----------------------------------------------------------------------------
(* The other threads                                                       *)

TimerHandsOver(c) ==
    /\ Timer \in threads /\ c \in timed
    /\ CallScheduleWork(Timer, c)
    /\ timed' = timed \ {c}
    /\ UNCHANGED <<killsignal, lpc, terminator, operations, threads>>

(* CAsyncCommand::HandleCompletion *)
OperationCompletes(c) ==
    /\ Connection \in threads /\ c \in operations
    /\ CallScheduleWork(Connection, c)
    /\ operations' = operations \ {c}
    /\ UNCHANGED <<killsignal, lpc, terminator, timed, threads>>

(* terminator_thread is started with a reference to a local variable of    *)
(* the handler, which has usually returned when the thread reads it: the   *)
(* command is still found there, or a wild pointer.                        *)
TerminatorStarts ==
    /\ terminator = "spawned"
    /\ CallScheduleWork(Terminator, Shutdown)
    /\ terminator' = "running"
    /\ UNCHANGED <<killsignal, lpc, timed, operations, threads>>

TerminatorCrashes ==
    /\ terminator = "spawned"
    /\ lpc' = "crashed"
    /\ UNCHANGED <<vars, killsignal, terminator, timed, operations, threads>>

-----------------------------------------------------------------------------
(* SignalHandler(SIGTERM); the handlers are installed before the set-up.   *)

Sigterm ==
    /\ lpc # "exit"
    /\ ~killsignal
    /\ CallScheduleWork(SigHandler, Shutdown)
    /\ killsignal' = TRUE
    /\ UNCHANGED <<lpc, terminator, timed, operations, threads>>

HandlerTryLockFails ==
    /\ TryLockFails(SigHandler)
    /\ terminator' = "spawned"
    /\ UNCHANGED <<killsignal, lpc, timed, operations, threads>>

-----------------------------------------------------------------------------
(* main()                                                                  *)

EndSetup ==
    /\ lpc = "setup" /\ InMain("idle")
    /\ lpc' = "test"
    /\ UNCHANGED <<vars, killsignal, terminator, timed, operations, threads>>

(* while (!killsignal) *)
TestKillsignal ==
    /\ lpc = "test" /\ InMain("idle")
    /\ lpc' = IF killsignal THEN "join" ELSE "work"
    /\ UNCHANGED <<vars, killsignal, terminator, timed, operations, threads>>

Work ==
    /\ lpc = "work"
    /\ CallDoWork(TRUE)
    /\ lpc' = "test"
    /\ UNCHANGED <<killsignal, terminator, timed, operations, threads>>

TerminatorEnded_NotAsked == TRUE      \* mutant: no terminator_thread.join()

TerminatorEnded ==
    terminator = "none" \/ (terminator = "running" /\ spc[Terminator] = "idle")

JoinTerminator ==
    /\ lpc = "join" /\ InMain("idle")
    /\ TerminatorEnded
    /\ lpc' = "drain"
    /\ UNCHANGED <<vars, killsignal, terminator, timed, operations, threads>>

(* while (DoWork(false)); *)
Drain ==
    /\ lpc = "drain"
    /\ CallDoWork(FALSE)
    /\ UNCHANGED mainVars

DrainReturnsFalse ==
    /\ lpc = "drain"
    /\ CheckEmpty
    /\ lpc' = IF CommandsDue = <<>> THEN "delete objects" ELSE lpc
    /\ UNCHANGED <<killsignal, terminator, timed, operations, threads>>

(* Registry::Shutdown: inverters and filters are deleted, their connections *)
(* clear their queue and join their thread ...                              *)
ConnectionEnded == spc[Connection] = "idle"

DeleteObjects ==
    /\ lpc = "delete objects" /\ InMain("idle")
    /\ ConnectionEnded
    /\ threads' = threads \ {Connection}
    /\ operations' = {}
    /\ lpc' = "delete scheduler"
    /\ UNCHANGED <<vars, killsignal, terminator, timed>>

(* ... then the scheduler, which joins the timed-work thread first.        *)
DeleteScheduler ==
    /\ lpc = "delete scheduler" /\ InMain("idle")
    /\ spc[Timer] = "idle"
    /\ threads' = threads \ {Timer}
    /\ timed' = {}
    /\ lpc' = "exit"
    /\ UNCHANGED <<vars, killsignal, terminator, operations>>

-----------------------------------------------------------------------------
(* The steps inside ScheduleWork and DoWork.  *)
InScheduleWork(x) ==
    \/ /\ LockForPush(x) \/ PushAndUnlock(x) \/ Post(x)
       /\ UNCHANGED mainVars
    \/ x = SigHandler /\ HandlerTryLockFails

InDoWork ==
    /\ \/ LockForCheck \/ SemWait \/ LockForGet \/ GetNextCmd \/ Dispatch
       \/ (\E t \in Targets : ExecuteCommand(t)) \/ HandlerReturns \/ DeleteCmd
    /\ UNCHANGED mainVars

MainSteps ==
    \/ InDoWork \/ TestKillsignal \/ Work \/ JoinTerminator \/ Drain
    \/ DrainReturnsFalse \/ DeleteObjects \/ DeleteScheduler \/ EndSetup

MNext ==
    /\ lpc # "crashed"
    /\ \/ \E c \in Commands :
            \/ ScheduleNow(c) \/ ScheduleLater(c) \/ StartOperation(c)
            \/ TimerHandsOver(c) \/ OperationCompletes(c)
       \/ \E t \in Targets : Subscribe(t)
       \/ Sigterm \/ TerminatorStarts \/ TerminatorCrashes
       \/ \E x \in Contexts : InScheduleWork(x)
       \/ MainSteps

(* Threads go on, strongly fair for the mutex they compete for.  Nothing   *)
(* says that SIGTERM comes, that time passes or that an operation ends.    *)
MSpec ==
    /\ MInit /\ [][MNext]_allVars
    /\ \A x \in Contexts : SF_allVars(InScheduleWork(x))
    /\ WF_allVars(TerminatorStarts)
    /\ SF_allVars(MainSteps)

-----------------------------------------------------------------------------
(* Properties                                                              *)

MTypeOK ==
    /\ TypeOK
    /\ killsignal \in BOOLEAN
    /\ lpc \in {"setup", "test", "work", "join", "drain", "delete objects",
                "delete scheduler", "exit", "crashed"}
    /\ terminator \in {"none", "spawned", "running"}
    /\ timed \in SUBSET Commands /\ operations \in SUBSET Commands
    /\ threads \in SUBSET {Timer, Connection}

ShutdownDelivered == delivered[Shutdown] = broadcast_subscribers

(* When the objects are deleted, every one that asked for it has been told *)
(* to shut down, whether the handler could schedule the broadcast itself   *)
(* or left it to terminator_thread.                                        *)
ShutdownNotLost ==
    lpc \in {"delete objects", "delete scheduler", "exit"} => ShutdownDelivered

(* When an object is deleted no command for it is being executed, and when *)
(* the scheduler is, nobody is inside one of its functions or will enter   *)
(* one: every thread was joined before.                                    *)
NoUseAfterDelete ==
    /\ lpc \in {"delete objects", "delete scheduler", "exit"} => mpc = "idle"
    /\ lpc \in {"delete scheduler", "exit"} => spc[Connection] = "idle"
    /\ lpc = "exit" => /\ \A x \in Contexts : spc[x] = "idle"
                       /\ mut = NULL /\ threads = {}

(* The program goes down in order: everybody is told before anything is    *)
(* deleted, and nobody works with what has been deleted.                   *)
MainInv == MTypeOK /\ ShutdownNotLost /\ NoUseAfterDelete

(* What each phase of main() has left behind: DoWork and the signal handler *)
(* have returned, the terminator thread has been joined, the other threads  *)
(* are gone one after the other.                                            *)
Deleting == {"delete objects", "delete scheduler", "exit"}

Phases ==
    /\ lpc \in {"setup", "work", "join"} \cup Deleting => mpc = "idle"
    /\ lpc \in {"join", "drain"} \cup Deleting => killsignal
    /\ lpc \in {"drain"} \cup Deleting =>
            terminator # "spawned" /\ spc[SigHandler] = "idle"
                                  /\ spc[Terminator] = "idle"
    /\ lpc \in {"delete scheduler", "exit"} =>
            Connection \notin threads /\ spc[Connection] = "idle"
    /\ lpc = "exit" => threads = {} /\ spc[Timer] = "idle" /\ spc[Main] = "idle"
    /\ terminator # "running" => spc[Terminator] = "idle"
    /\ spc[SigHandler] # "idle" => killsignal /\ terminator = "none"
    /\ terminator # "none" => killsignal

(* Where the shutdown command is: nowhere before the signal, and from then *)
(* on always somewhere on its way to the objects - with the handler, with  *)
(* the thread that takes over from it, or with the scheduler.              *)
ShutdownOnItsWay ==
    /\ ~killsignal => Unscheduled(Shutdown)
    /\ killsignal => \/ scmd[SigHandler] = Shutdown
                     \/ terminator = "spawned" \/ scmd[Terminator] = Shutdown
                     \/ Shutdown \in Due \cup deleted \cup {mcmd}
    /\ \A x \in Contexts : scmd[x] = Shutdown => x \in {SigHandler, Terminator}
    /\ Shutdown \notin timed \cup operations
    /\ lpc = "setup" => Shutdown \notin deleted
    /\ lpc \in Deleting => Shutdown \in deleted

(* While it is executed it has reached, or is still to reach, everybody who *)
(* subscribed; before nobody, afterwards all.                              *)
Telling == mcmd = Shutdown /\ mpc \in {"execute", "handler"}

ShutdownTold ==
    /\ Telling => delivered[Shutdown] \cup todo = broadcast_subscribers
    /\ Shutdown \in deleted => ShutdownDelivered
    /\ ~Telling /\ Shutdown \notin deleted => delivered[Shutdown] = {}

(* The inductive invariant of the main loop. *)
MIInv == MTypeOK /\ Phases /\ ShutdownOnItsWay /\ ShutdownTold

(* A SIGTERM ends the program, wherever it hits the main thread, also when *)
(* that thread is about to wait for work or holds the scheduler's mutex.   *)
(* (The wild pointer of terminator_thread ends it, too.)                   *)
SigtermTerminates == killsignal ~> lpc \in {"exit", "crashed"}
=============================================================================
