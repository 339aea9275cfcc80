------------------------------ MODULE TimedWork ------------------------------
(***************************************************************************)
(* CTimedWork: a thread that keeps commands with a due time and passes     *)
(* each on to the work scheduler when its time has come.  It sleeps until  *)
(* the first one is due; a caller that puts an earlier one in front, or    *)
(* one into the empty list, interrupts the sleep.  A boost interrupt is    *)
(* remembered until the thread reaches the next interruption point.        *)
(*                                                                         *)
(* What the code does between lock and unlock of `mut` is one step here;   *)
(* ScheduleWork interrupts after unlocking, in a step of its own.          *)
(***************************************************************************)
EXTENDS Integers, FiniteSets

CONSTANTS
    Commands,       \* the ICommand objects, each scheduled at most once
    Callers,        \* the threads that call ScheduleWork
    Delays,         \* the time specifications they use, in ticks
    Hour,           \* how long the thread sleeps when nothing is waiting
    MaxTime,        \* bound of the model: no command is wanted after it
    Horizon,        \* bound of the model: the clock stops there
    Offsets         \* local_time() minus elapsed time (time zone, DST, settime)

ASSUME TimeAssumption ==
    /\ Delays \subseteq Nat
    /\ Hour \in Nat
    /\ MaxTime \in Nat /\ Horizon \in Nat
    /\ Offsets \subseteq Int /\ 0 \in Offsets

(* A caller cannot schedule the null pointer; None stands for it below. *)
ASSUME CommandAssumption == "none" \notin Commands

VARIABLES
    now, offset,    \* elapsed time; the local clock is ahead of it by offset
    clockSet,       \* history: the local clock has been set
    TimedCommands,  \* the multimap: [cmd, due, wanted, no]
    calls,          \* number of insertions, orders entries with equal due
    cpc, entry,     \* per caller: where in ScheduleWork, and its entry
    tpc,            \* where the thread is in _main
    current,        \* the entry it is passing on
    until,          \* the local time it is going to sleep for
    wakeAt,         \* the elapsed time at which that sleep ends
    interrupted,    \* boost: interruption requested
    terminate,      \* the flag tested by the loop
    dpc,            \* the destructor: alive, requested, joining, gone
    handed,         \* history: what was passed on, with the time of it
    dropped         \* history: what the destructor deleted

clockVars == <<now, offset, clockSet>>
callerVars == <<cpc, entry>>
threadVars == <<tpc, current, until, wakeAt>>
endVars == <<terminate, dpc, dropped>>
vars == <<clockVars, TimedCommands, calls, callerVars, threadVars,
          interrupted, endVars, handed>>

None == [cmd |-> "none", due |-> 0, wanted |-> 0, no |-> 0]

LocalTime == now + offset

(* time_compare is <=, so that std::multimap puts an entry in front of     *)
(* those with the same due time.                                           *)
IsFirst(e) ==
    /\ e \in TimedCommands
    /\ \A f \in TimedCommands :
          e.due < f.due \/ (e.due = f.due /\ e.no >= f.no)

Known == { e.cmd : e \in TimedCommands \cup dropped } \cup { e.cmd : e \in handed }
         \cup { entry[x].cmd : x \in Callers } \cup {current.cmd}

Init ==
    /\ now = 0 /\ offset = 0 /\ clockSet = FALSE
    /\ TimedCommands = {} /\ calls = 0
    /\ cpc = [x \in Callers |-> "idle"]
    /\ entry = [x \in Callers |-> None]
    /\ tpc = "top" /\ current = None /\ until = 0 /\ wakeAt = 0
    /\ interrupted = FALSE
    /\ terminate = FALSE /\ dpc = "alive"
    /\ handed = {} /\ dropped = {}

-----------------------------------------------------------------------------
(* ScheduleWork(Command, ts)                                               *)

(* The due time is read from the local clock before the lock is taken. *)
CallScheduleWork(x, c, ts) ==
    /\ cpc[x] = "idle" /\ dpc = "alive"
    /\ c \notin Known
    /\ now + ts <= MaxTime
    /\ cpc' = [cpc EXCEPT ![x] = "insert"]
    /\ entry' = [entry EXCEPT ![x] =
                    [cmd |-> c, due |-> LocalTime + ts, wanted |-> now + ts,
                     no |-> 0]]
    /\ UNCHANGED <<clockVars, TimedCommands, calls, threadVars, interrupted,
                   endVars, handed>>

NeedInterrupt_IfOthers(n) ==      \* mutant: forgets the empty list
    TimedCommands # {} /\ \A e \in TimedCommands : e.due > n

(* The list was empty, or its first entry is due after the new one. *)
NeedInterrupt(n) == \A e \in TimedCommands : e.due > n

Insert(x) ==
    /\ cpc[x] = "insert"
    /\ TimedCommands' = TimedCommands \cup {[entry[x] EXCEPT !.no = calls]}
    /\ calls' = calls + 1
    /\ cpc' = [cpc EXCEPT ![x] =
                  IF NeedInterrupt(entry[x].due) THEN "interrupt" ELSE "idle"]
    /\ entry' = [entry EXCEPT ![x] = None]
    /\ UNCHANGED <<clockVars, threadVars, interrupted, endVars, handed>>

Interrupt(x) ==
    /\ cpc[x] = "interrupt"
    /\ interrupted' = TRUE
    /\ cpc' = [cpc EXCEPT ![x] = "idle"]
    /\ UNCHANGED <<clockVars, TimedCommands, calls, entry, threadVars, endVars,
                   handed>>

-----------------------------------------------------------------------------
(* _main                                                                   *)

Top ==
    /\ tpc = "top"
    /\ tpc' = IF terminate THEN "done" ELSE "scan"
    /\ UNCHANGED <<clockVars, TimedCommands, calls, callerVars, current, until,
                   wakeAt, interrupted, endVars, handed>>

NotDue(e) == e.due > LocalTime

(* The first entry is due: take it out. *)
ScanDue(e) ==
    /\ tpc = "scan"
    /\ IsFirst(e) /\ ~NotDue(e)
    /\ TimedCommands' = TimedCommands \ {e}
    /\ current' = e
    /\ tpc' = "deliver"
    /\ UNCHANGED <<clockVars, calls, callerVars, until, wakeAt, interrupted,
                   endVars, handed>>

(* It is not: sleep until then, or for an hour if there is none. *)
ScanWait ==
    /\ tpc = "scan"
    /\ \/ \E e \in TimedCommands : IsFirst(e) /\ NotDue(e) /\ until' = e.due
       \/ TimedCommands = {} /\ until' = LocalTime + Hour
    /\ wakeAt' = now + (until' - LocalTime)
    /\ tpc' = "presleep"
    /\ UNCHANGED <<clockVars, TimedCommands, calls, callerVars, current,
                   interrupted, endVars, handed>>

Passed_Erased == None      \* mutant: read from the list after the erase

Passed == current

(* sch->ScheduleWork(cmd), without holding mut. *)
Deliver ==
    /\ tpc = "deliver"
    /\ handed' = handed \cup {[cmd |-> Passed.cmd, wanted |-> Passed.wanted,
                            at |-> now]}
    /\ current' = None
    /\ tpc' = "top"
    /\ UNCHANGED <<clockVars, TimedCommands, calls, callerVars, until, wakeAt,
                   interrupted, endVars>>

(* Entering boost::this_thread::sleep is an interruption point: a request  *)
(* made since the last one is honoured, and the sleep does not begin.      *)
Sleep_Forgetful ==      \* mutant: requests do not outlive the running thread
    /\ tpc' = "asleep" /\ interrupted' = FALSE

Sleep ==
    /\ tpc' = IF interrupted THEN "top" ELSE "asleep"
    /\ interrupted' = FALSE

EnterSleep ==
    /\ tpc = "presleep"
    /\ Sleep
    /\ UNCHANGED <<clockVars, TimedCommands, calls, callerVars, current, until,
                   wakeAt, endVars, handed>>

WakeInterrupted ==
    /\ tpc = "asleep" /\ interrupted
    /\ interrupted' = FALSE
    /\ tpc' = "top"
    /\ UNCHANGED <<clockVars, TimedCommands, calls, callerVars, current, until,
                   wakeAt, endVars, handed>>

WakeTimeout ==
    /\ tpc = "asleep" /\ now >= wakeAt
    /\ tpc' = "top"
    /\ UNCHANGED <<clockVars, TimedCommands, calls, callerVars, current, until,
                   wakeAt, interrupted, endVars, handed>>

Thread ==
    \/ Top \/ (\E e \in TimedCommands : ScanDue(e)) \/ ScanWait \/ Deliver
    \/ EnterSleep \/ WakeInterrupted \/ WakeTimeout

-----------------------------------------------------------------------------
(* ~CTimedWork, called when nobody schedules work any more                 *)

RequestTermination ==
    /\ dpc = "alive"
    /\ \A x \in Callers : cpc[x] = "idle"
    /\ terminate' = TRUE
    /\ dpc' = "requested"
    /\ UNCHANGED <<clockVars, TimedCommands, calls, callerVars, threadVars,
                   interrupted, dropped, handed>>

InterruptForGood_Missing == FALSE     \* mutant: only the flag is set

InterruptForGood == TRUE

InterruptThread ==
    /\ dpc = "requested"
    /\ interrupted' = (interrupted \/ InterruptForGood)
    /\ dpc' = "joining"
    /\ UNCHANGED <<clockVars, TimedCommands, calls, callerVars, threadVars,
                   terminate, dropped, handed>>

(* thread.join(), then delete what is left. *)
JoinAndClear ==
    /\ dpc = "joining" /\ tpc = "done"
    /\ dropped' = dropped \cup TimedCommands
    /\ TimedCommands' = {}
    /\ dpc' = "gone"
    /\ UNCHANGED <<clockVars, calls, callerVars, threadVars, interrupted,
                   terminate, handed>>

-----------------------------------------------------------------------------
(* The clock.  A tick is long against what the program computes: time does *)
(* not pass while the thread or a caller has something to do.              *)
Quiet ==
    /\ \/ tpc = "asleep" /\ ~interrupted /\ now < wakeAt
       \/ tpc = "done"
    /\ \A x \in Callers : cpc[x] = "idle"
    /\ dpc \in {"alive", "gone"}

Tick ==
    /\ Quiet
    /\ now < Horizon
    /\ now' = now + 1
    /\ UNCHANGED <<offset, clockSet, TimedCommands, calls, callerVars, threadVars,
                   interrupted, endVars, handed>>

(* Summer time begins or ends, or somebody sets the clock; once at most is  *)
(* a bound of the model.                                                   *)
SetClock(o) ==
    /\ ~clockSet /\ clockSet' = TRUE
    /\ o # offset /\ offset' = o
    /\ UNCHANGED <<now, TimedCommands, calls, callerVars, threadVars,
                   interrupted, endVars, handed>>

Next ==
    \/ \E x \in Callers, c \in Commands, ts \in Delays : CallScheduleWork(x, c, ts)
    \/ \E x \in Callers : Insert(x) \/ Interrupt(x)
    \/ Thread
    \/ RequestTermination \/ InterruptThread \/ JoinAndClear
    \/ Tick \/ \E o \in Offsets : SetClock(o)

Spec == Init /\ [][Next]_vars

(* Threads inside a function go on, and time passes. *)
Fairness ==
    /\ \A x \in Callers : WF_vars(Insert(x) \/ Interrupt(x))
    /\ WF_vars(Thread)
    /\ WF_vars(InterruptThread \/ JoinAndClear)
    /\ WF_vars(Tick)

FairSpec == Spec /\ Fairness

-----------------------------------------------------------------------------
(* Properties                                                              *)

Entries == [cmd : Commands, due : Int, wanted : Nat, no : Nat]

TypeOK ==
    /\ now \in Nat /\ offset \in Offsets /\ clockSet \in BOOLEAN
    /\ TimedCommands \in SUBSET Entries
    /\ calls \in Nat
    /\ cpc \in [Callers -> {"idle", "insert", "interrupt"}]
    /\ entry \in [Callers -> Entries \cup {None}]
    /\ tpc \in {"top", "scan", "deliver", "presleep", "asleep", "done"}
    /\ current \in Entries \cup {None}
    /\ until \in Int /\ wakeAt \in Int
    /\ interrupted \in BOOLEAN /\ terminate \in BOOLEAN
    /\ dpc \in {"alive", "requested", "joining", "gone"}
    /\ handed \in SUBSET [cmd : Commands, wanted : Nat, at : Nat]
    /\ dropped \in SUBSET Entries

WakeupPending == interrupted \/ \E x \in Callers : cpc[x] = "interrupt"

(* No wakeup is lost: the thread never sleeps, or is about to, for longer   *)
(* than until the first command is due, unless an interrupt is on its way.  *)
(* The decision to interrupt is made under the mutex, the interrupt itself  *)
(* comes later, when the thread may be anywhere in its loop.                *)
NoLostWakeup ==
    tpc \in {"presleep", "asleep"} =>
        WakeupPending \/ \A e \in TimedCommands : until <= e.due

(* "Issue work in the future. (when ts elapsed)" (CTimedWork.h:67): no      *)
(* command is still waiting after the time it was scheduled for.           *)
OnTime == dpc = "alive" => \A e \in TimedCommands : now <= e.wanted

(* True as long as nobody sets the local clock. *)
OnTimeBySteadyClock == ~clockSet => OnTime

(* ... and with such a clock none is passed on too early either. *)
NeverEarly == ~clockSet => \A e \in handed : e.at >= e.wanted

(* Commands that left the facility, passed on or destroyed. *)
Finished == { e.cmd : e \in handed } \cup { e.cmd : e \in dropped }

(* A command is with one caller between entry and insertion, or once in     *)
(* the list, or with the thread, or has left; the thread and the callers    *)
(* have nothing in their hands elsewhere, and nobody is inside ScheduleWork *)
(* any more when the destructor runs.                                       *)
OneOwner ==
    /\ \A e, f \in TimedCommands : e.cmd = f.cmd => e = f
    /\ \A e \in TimedCommands : e.cmd \notin Finished \cup {current.cmd}
    /\ \A x \in Callers :
          IF cpc[x] = "insert"
          THEN /\ entry[x].cmd \notin Finished \cup {current.cmd}
               /\ \A e \in TimedCommands : e.cmd # entry[x].cmd
               /\ \A y \in Callers : entry[y].cmd = entry[x].cmd => y = x
          ELSE entry[x] = None
    /\ IF tpc = "deliver" THEN current.cmd \notin Finished ELSE current = None
    /\ dpc = "alive" <=> ~terminate
    /\ terminate => \A x \in Callers : cpc[x] = "idle"

(* Every sleep ends in time for the first command of the set, no command is *)
(* passed on before its date, and none twice or once it was destroyed.     *)
TimedInv == TypeOK /\ NoLostWakeup /\ NeverEarly /\ OneOwner

(* ~CTimedWork returns: the request to terminate reaches the thread in      *)
(* every place of its loop, also just before it falls asleep for an hour.   *)
TerminationCompletes == dpc = "requested" ~> dpc = "gone"

(* What the thread and the callers have in their hands, and the link        *)
(* between the flag and the phases of the destructor.                      *)
Frames ==
    /\ \A x \in Callers : cpc[x] = "insert" => entry[x] \in Entries
    /\ tpc = "deliver" => current \in Entries
    /\ tpc = "done" => terminate
    /\ terminate => dpc # "alive"

(* With a steady clock, due times are the wanted times, and the sleep ends  *)
(* at the time it is meant for.                                            *)
Steady ==
    ~clockSet =>
        /\ offset = 0
        /\ \A e \in TimedCommands : e.due = e.wanted
        /\ \A x \in Callers : cpc[x] = "insert" =>
              entry[x].due = entry[x].wanted /\ now <= entry[x].wanted
        /\ tpc = "deliver" => current.wanted <= now
        /\ tpc \in {"presleep", "asleep"} => wakeAt = until

(* The inductive invariant. *)
IInv ==
    /\ TypeOK /\ Frames /\ NoLostWakeup
    /\ Steady /\ OnTimeBySteadyClock /\ NeverEarly

Abstract == INSTANCE DelayQueue WITH
    waiting <- { e.cmd : e \in TimedCommands } \cup ({current.cmd} \cap Commands),
    handed <- { e.cmd : e \in handed },
    dropped <- { e.cmd : e \in dropped },
    open <- ~terminate

(* Each command is passed on once, and eventually, unless the program ends. *)
ImplementsDelayQueue == Abstract!Spec
=============================================================================
