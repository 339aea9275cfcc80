--------------------- MODULE TimedWorkAndFilters_proofs ---------------------
(***************************************************************************)
(* Theorems about CTimedWork for any number of callers, any delays and any *)
(* way the local clock is set: no wakeup is lost, and with a steady clock  *)
(* commands are passed on exactly when they are due.  Then about the       *)
(* output filters that CTimedWork wakes, for any chains of any number of   *)
(* CSV, HTML and dump filters: what reaches a filter, a file and a page.   *)
(***************************************************************************)
EXTENDS TimedWork, DataFilters, FiniteSetTheorems, WellFoundedInduction, TLAPS

-----------------------------------------------------------------------------
(* The thread of CTimedWork.                                               *)

(* The initial state satisfies the inductive invariant. *)
LEMMA InitIInv == Init => IInv
<1> SUFFICES ASSUME Init PROVE IInv
  OBVIOUS
<1>1. TypeOK
  BY TimeAssumption DEF Init, TypeOK
<1>2. Frames /\ NoLostWakeup /\ Steady
  BY DEF Init, Frames, NoLostWakeup, Steady
<1>3. OnTimeBySteadyClock /\ NeverEarly
  BY DEF Init, OnTimeBySteadyClock, OnTime, NeverEarly
<1> QED
  BY <1>1, <1>2, <1>3 DEF IInv

(* Every variable stays in its range. *)
LEMMA TypeStep == IInv /\ [Next]_vars => TypeOK'
<1> SUFFICES ASSUME IInv, [Next]_vars PROVE TypeOK'
  OBVIOUS
<1> USE DEF IInv, TypeOK, Frames, Entries, clockVars, callerVars, threadVars,
    endVars
<1>1. ASSUME NEW x \in Callers, NEW c \in Commands, NEW ts \in Delays, CallScheduleWork(x, c, ts)
      PROVE TypeOK'
  BY <1>1, TimeAssumption DEF CallScheduleWork, LocalTime
<1>2. ASSUME NEW x \in Callers, Insert(x) PROVE TypeOK'
  BY <1>2 DEF Insert
<1>3. ASSUME NEW x \in Callers, Interrupt(x) PROVE TypeOK'
  BY <1>3 DEF Interrupt
<1>4. ASSUME Top PROVE TypeOK'
  BY <1>4 DEF Top
<1>5. ASSUME NEW e \in TimedCommands, ScanDue(e) PROVE TypeOK'
  BY <1>5 DEF ScanDue
<1>6. ASSUME ScanWait PROVE TypeOK'
  BY <1>6, TimeAssumption DEF ScanWait, LocalTime
<1>7. ASSUME Deliver PROVE TypeOK'
  BY <1>7 DEF Deliver, Passed
<1>8. ASSUME EnterSleep PROVE TypeOK'
  BY <1>8 DEF EnterSleep, Sleep
<1>9. ASSUME WakeInterrupted PROVE TypeOK'
  BY <1>9 DEF WakeInterrupted
<1>10. ASSUME WakeTimeout PROVE TypeOK'
  BY <1>10 DEF WakeTimeout
<1>11. ASSUME RequestTermination PROVE TypeOK'
  BY <1>11 DEF RequestTermination
<1>12. ASSUME InterruptThread PROVE TypeOK'
  BY <1>12 DEF InterruptThread
<1>13. ASSUME JoinAndClear PROVE TypeOK'
  BY <1>13 DEF JoinAndClear
<1>14. ASSUME Tick PROVE TypeOK'
  BY <1>14 DEF Tick
<1>15. ASSUME NEW o \in Offsets, SetClock(o) PROVE TypeOK'
  BY <1>15, TimeAssumption DEF SetClock
<1>16. CASE UNCHANGED vars
  BY <1>16 DEF vars
<1> QED
  BY <1>1, <1>2, <1>3, <1>4, <1>5, <1>6, <1>7, <1>8, <1>9, <1>10, <1>11, <1>12,
      <1>13, <1>14, <1>15, <1>16 DEF Next, Thread

(* Callers and thread hold entries where they need them. *)
LEMMA FramesStep == IInv /\ [Next]_vars => Frames'
<1> SUFFICES ASSUME IInv, [Next]_vars PROVE Frames'
  OBVIOUS
<1> USE DEF IInv, TypeOK, Frames, Entries, clockVars, callerVars, threadVars,
    endVars
<1>1. ASSUME NEW x \in Callers, NEW c \in Commands, NEW ts \in Delays, CallScheduleWork(x, c, ts)
      PROVE Frames'
  BY <1>1, TimeAssumption DEF CallScheduleWork, LocalTime
<1>2. ASSUME NEW x \in Callers, Insert(x) PROVE Frames'
  BY <1>2 DEF Insert
<1>3. ASSUME NEW x \in Callers, Interrupt(x) PROVE Frames'
  BY <1>3 DEF Interrupt
<1>4. ASSUME Top PROVE Frames'
  BY <1>4 DEF Top
<1>5. ASSUME NEW e \in TimedCommands, ScanDue(e) PROVE Frames'
  BY <1>5 DEF ScanDue
<1>6. ASSUME ScanWait PROVE Frames'
  BY <1>6 DEF ScanWait
<1>7. ASSUME Deliver PROVE Frames'
  BY <1>7 DEF Deliver, Passed
<1>8. ASSUME EnterSleep PROVE Frames'
  BY <1>8 DEF EnterSleep, Sleep
<1>9. ASSUME WakeInterrupted PROVE Frames'
  BY <1>9 DEF WakeInterrupted
<1>10. ASSUME WakeTimeout PROVE Frames'
  BY <1>10 DEF WakeTimeout
<1>11. ASSUME RequestTermination PROVE Frames'
  BY <1>11 DEF RequestTermination
<1>12. ASSUME InterruptThread PROVE Frames'
  BY <1>12 DEF InterruptThread
<1>13. ASSUME JoinAndClear PROVE Frames'
  BY <1>13 DEF JoinAndClear
<1>14. ASSUME Tick PROVE Frames'
  BY <1>14 DEF Tick
<1>15. ASSUME NEW o \in Offsets, SetClock(o) PROVE Frames'
  BY <1>15 DEF SetClock
<1>16. CASE UNCHANGED vars
  BY <1>16 DEF vars
<1> QED
  BY <1>1, <1>2, <1>3, <1>4, <1>5, <1>6, <1>7, <1>8, <1>9, <1>10, <1>11, <1>12,
      <1>13, <1>14, <1>15, <1>16 DEF Next, Thread

(* A caller that puts an entry before the time the thread sleeps for finds *)
(* no entry as early in the list, and so interrupts: now, or later.         *)
LEMMA WakeupStep == IInv /\ [Next]_vars => NoLostWakeup'
<1> SUFFICES ASSUME IInv, [Next]_vars PROVE NoLostWakeup'
  OBVIOUS
<1> USE DEF IInv, TypeOK, Frames, NoLostWakeup, WakeupPending, Entries,
    clockVars, callerVars, threadVars, endVars
<1>1. ASSUME NEW x \in Callers, NEW c \in Commands, NEW ts \in Delays, CallScheduleWork(x, c, ts)
      PROVE NoLostWakeup'
  BY <1>1 DEF CallScheduleWork
<1>2. ASSUME NEW x \in Callers, Insert(x) PROVE NoLostWakeup'
  BY <1>2 DEF Insert, NeedInterrupt
<1>3. ASSUME NEW x \in Callers, Interrupt(x) PROVE NoLostWakeup'
  BY <1>3 DEF Interrupt
<1>4. ASSUME Top PROVE NoLostWakeup'
  BY <1>4 DEF Top
<1>5. ASSUME NEW e \in TimedCommands, ScanDue(e) PROVE NoLostWakeup'
  BY <1>5 DEF ScanDue
<1>6. ASSUME ScanWait PROVE NoLostWakeup'
  BY <1>6 DEF ScanWait, IsFirst
<1>7. ASSUME Deliver PROVE NoLostWakeup'
  BY <1>7 DEF Deliver, Passed
<1>8. ASSUME EnterSleep PROVE NoLostWakeup'
  BY <1>8 DEF EnterSleep, Sleep
<1>9. ASSUME WakeInterrupted PROVE NoLostWakeup'
  BY <1>9 DEF WakeInterrupted
<1>10. ASSUME WakeTimeout PROVE NoLostWakeup'
  BY <1>10 DEF WakeTimeout
<1>11. ASSUME RequestTermination PROVE NoLostWakeup'
  BY <1>11 DEF RequestTermination
<1>12. ASSUME InterruptThread PROVE NoLostWakeup'
  BY <1>12 DEF InterruptThread
<1>13. ASSUME JoinAndClear PROVE NoLostWakeup'
  BY <1>13 DEF JoinAndClear
<1>14. ASSUME Tick PROVE NoLostWakeup'
  BY <1>14 DEF Tick
<1>15. ASSUME NEW o \in Offsets, SetClock(o) PROVE NoLostWakeup'
  BY <1>15 DEF SetClock
<1>16. CASE UNCHANGED vars
  BY <1>16 DEF vars
<1> QED
  BY <1>1, <1>2, <1>3, <1>4, <1>5, <1>6, <1>7, <1>8, <1>9, <1>10, <1>11, <1>12,
      <1>13, <1>14, <1>15, <1>16 DEF Next, Thread

(* The local clock and the elapsed time stay together until it is set. *)
LEMMA SteadyStep == IInv /\ [Next]_vars => Steady'
<1> SUFFICES ASSUME IInv, [Next]_vars PROVE Steady'
  OBVIOUS
<1> USE DEF IInv, TypeOK, Frames, Steady, Entries, clockVars, callerVars,
    threadVars, endVars
<1>1. ASSUME NEW x \in Callers, NEW c \in Commands, NEW ts \in Delays, CallScheduleWork(x, c, ts)
      PROVE Steady'
  BY <1>1, TimeAssumption DEF CallScheduleWork, LocalTime
<1>2. ASSUME NEW x \in Callers, Insert(x) PROVE Steady'
  BY <1>2 DEF Insert
<1>3. ASSUME NEW x \in Callers, Interrupt(x) PROVE Steady'
  BY <1>3 DEF Interrupt
<1>4. ASSUME Top PROVE Steady'
  BY <1>4 DEF Top
<1>5. ASSUME NEW e \in TimedCommands, ScanDue(e) PROVE Steady'
  BY <1>5 DEF ScanDue, NotDue, LocalTime
<1>6. ASSUME ScanWait PROVE Steady'
  <2>1. until' \in Int
    BY <1>6, TimeAssumption DEF ScanWait, LocalTime
  <2>2. wakeAt' = now + (until' - (now + offset))
    BY <1>6 DEF ScanWait, LocalTime
  <2>3. \A a, b \in Int : a + (b - (a + 0)) = b
    OBVIOUS
  <2>4. now \in Int
    OBVIOUS
  <2>5. offset = 0 => wakeAt' = until'
    BY ONLY <2>1, <2>2, <2>3, <2>4
  <2> QED
    BY <1>6, <2>5 DEF ScanWait
<1>7. ASSUME Deliver PROVE Steady'
  BY <1>7 DEF Deliver, Passed
<1>8. ASSUME EnterSleep PROVE Steady'
  BY <1>8 DEF EnterSleep, Sleep
<1>9. ASSUME WakeInterrupted PROVE Steady'
  BY <1>9 DEF WakeInterrupted
<1>10. ASSUME WakeTimeout PROVE Steady'
  BY <1>10 DEF WakeTimeout
<1>11. ASSUME RequestTermination PROVE Steady'
  BY <1>11 DEF RequestTermination
<1>12. ASSUME InterruptThread PROVE Steady'
  BY <1>12 DEF InterruptThread
<1>13. ASSUME JoinAndClear PROVE Steady'
  BY <1>13 DEF JoinAndClear
<1>14. ASSUME Tick PROVE Steady'
  BY <1>14 DEF Tick, Quiet
<1>15. ASSUME NEW o \in Offsets, SetClock(o) PROVE Steady'
  BY <1>15 DEF SetClock
<1>16. CASE UNCHANGED vars
  BY <1>16 DEF vars
<1> QED
  BY <1>1, <1>2, <1>3, <1>4, <1>5, <1>6, <1>7, <1>8, <1>9, <1>10, <1>11, <1>12,
      <1>13, <1>14, <1>15, <1>16 DEF Next, Thread

(* Time passes only while the thread sleeps, which it does until the first *)
(* entry is due at most.                                                   *)
LEMMA OnTimeStep == IInv /\ [Next]_vars => OnTimeBySteadyClock'
<1> SUFFICES ASSUME IInv, [Next]_vars PROVE OnTimeBySteadyClock'
  OBVIOUS
<1> USE DEF IInv, TypeOK, Frames, Steady, OnTimeBySteadyClock, OnTime, Entries,
    clockVars, callerVars, threadVars, endVars
<1>1. ASSUME NEW x \in Callers, NEW c \in Commands, NEW ts \in Delays, CallScheduleWork(x, c, ts)
      PROVE OnTimeBySteadyClock'
  BY <1>1 DEF CallScheduleWork
<1>2. ASSUME NEW x \in Callers, Insert(x) PROVE OnTimeBySteadyClock'
  BY <1>2 DEF Insert
<1>3. ASSUME NEW x \in Callers, Interrupt(x) PROVE OnTimeBySteadyClock'
  BY <1>3 DEF Interrupt
<1>4. ASSUME Top PROVE OnTimeBySteadyClock'
  BY <1>4 DEF Top
<1>5. ASSUME NEW e \in TimedCommands, ScanDue(e) PROVE OnTimeBySteadyClock'
  BY <1>5 DEF ScanDue
<1>6. ASSUME ScanWait PROVE OnTimeBySteadyClock'
  BY <1>6 DEF ScanWait
<1>7. ASSUME Deliver PROVE OnTimeBySteadyClock'
  BY <1>7 DEF Deliver, Passed
<1>8. ASSUME EnterSleep PROVE OnTimeBySteadyClock'
  BY <1>8 DEF EnterSleep, Sleep
<1>9. ASSUME WakeInterrupted PROVE OnTimeBySteadyClock'
  BY <1>9 DEF WakeInterrupted
<1>10. ASSUME WakeTimeout PROVE OnTimeBySteadyClock'
  BY <1>10 DEF WakeTimeout
<1>11. ASSUME RequestTermination PROVE OnTimeBySteadyClock'
  BY <1>11 DEF RequestTermination
<1>12. ASSUME InterruptThread PROVE OnTimeBySteadyClock'
  BY <1>12 DEF InterruptThread
<1>13. ASSUME JoinAndClear PROVE OnTimeBySteadyClock'
  BY <1>13 DEF JoinAndClear
<1>14. ASSUME Tick PROVE OnTimeBySteadyClock'
  BY <1>14 DEF Tick, Quiet, NoLostWakeup, WakeupPending
<1>15. ASSUME NEW o \in Offsets, SetClock(o) PROVE OnTimeBySteadyClock'
  BY <1>15 DEF SetClock
<1>16. CASE UNCHANGED vars
  BY <1>16 DEF vars
<1> QED
  BY <1>1, <1>2, <1>3, <1>4, <1>5, <1>6, <1>7, <1>8, <1>9, <1>10, <1>11, <1>12,
      <1>13, <1>14, <1>15, <1>16 DEF Next, Thread

(* The thread takes out only what is due. *)
LEMMA EarlyStep == IInv /\ [Next]_vars => NeverEarly'
<1> SUFFICES ASSUME IInv, [Next]_vars PROVE NeverEarly'
  OBVIOUS
<1> USE DEF IInv, TypeOK, Frames, Steady, NeverEarly, Entries, clockVars,
    callerVars, threadVars, endVars
<1>1. ASSUME NEW x \in Callers, NEW c \in Commands, NEW ts \in Delays, CallScheduleWork(x, c, ts)
      PROVE NeverEarly'
  BY <1>1 DEF CallScheduleWork
<1>2. ASSUME NEW x \in Callers, Insert(x) PROVE NeverEarly'
  BY <1>2 DEF Insert
<1>3. ASSUME NEW x \in Callers, Interrupt(x) PROVE NeverEarly'
  BY <1>3 DEF Interrupt
<1>4. ASSUME Top PROVE NeverEarly'
  BY <1>4 DEF Top
<1>5. ASSUME NEW e \in TimedCommands, ScanDue(e) PROVE NeverEarly'
  BY <1>5 DEF ScanDue
<1>6. ASSUME ScanWait PROVE NeverEarly'
  BY <1>6 DEF ScanWait
<1>7. ASSUME Deliver PROVE NeverEarly'
  BY <1>7 DEF Deliver, Passed
<1>8. ASSUME EnterSleep PROVE NeverEarly'
  BY <1>8 DEF EnterSleep, Sleep
<1>9. ASSUME WakeInterrupted PROVE NeverEarly'
  BY <1>9 DEF WakeInterrupted
<1>10. ASSUME WakeTimeout PROVE NeverEarly'
  BY <1>10 DEF WakeTimeout
<1>11. ASSUME RequestTermination PROVE NeverEarly'
  BY <1>11 DEF RequestTermination
<1>12. ASSUME InterruptThread PROVE NeverEarly'
  BY <1>12 DEF InterruptThread
<1>13. ASSUME JoinAndClear PROVE NeverEarly'
  BY <1>13 DEF JoinAndClear
<1>14. ASSUME Tick PROVE NeverEarly'
  BY <1>14 DEF Tick
<1>15. ASSUME NEW o \in Offsets, SetClock(o) PROVE NeverEarly'
  BY <1>15 DEF SetClock
<1>16. CASE UNCHANGED vars
  BY <1>16 DEF vars
<1> QED
  BY <1>1, <1>2, <1>3, <1>4, <1>5, <1>6, <1>7, <1>8, <1>9, <1>10, <1>11, <1>12,
      <1>13, <1>14, <1>15, <1>16 DEF Next, Thread

(* The invariant holds of the initial states and survives every step. *)
THEOREM Invariance == Spec => []IInv
<1>1. IInv /\ [Next]_vars => IInv'
  BY TypeStep, FramesStep, WakeupStep, SteadyStep, OnTimeStep, EarlyStep
    DEF IInv
<1> QED
  BY InitIInv, <1>1, PTL DEF Spec

(* Every variable of CTimedWork stays in its range. *)
THEOREM TypeCorrect == Spec => []TypeOK
<1>1. IInv => TypeOK
  BY DEF IInv
<1> QED
  BY <1>1, Invariance, PTL

(* The thread never sleeps past the first due command without an interrupt *)
(* on its way, whatever the callers and the clock do.                      *)
THEOREM WakeupsArrive == Spec => []NoLostWakeup
<1>1. IInv => NoLostWakeup
  BY DEF IInv
<1> QED
  BY <1>1, Invariance, PTL

(* With a steady clock no command waits longer than it was asked to. *)
THEOREM DeliveredOnTime == Spec => []OnTimeBySteadyClock
<1>1. IInv => OnTimeBySteadyClock
  BY DEF IInv
<1> QED
  BY <1>1, Invariance, PTL

(* ... and none is passed on before its time. *)
THEOREM DeliveredNotBefore == Spec => []NeverEarly
<1>1. IInv => NeverEarly
  BY DEF IInv
<1> QED
  BY <1>1, Invariance, PTL

-----------------------------------------------------------------------------
(* CTimedWork implements DelayQueue, step by step.                          *)

(* A command has one owner from ScheduleWork to the hand-over: the thread   *)
(* removes exactly the entry it passes on.                                  *)
LEMMA OwnerStep == IInv /\ OneOwner /\ [Next]_vars => OneOwner'
<1> SUFFICES ASSUME IInv, OneOwner, [Next]_vars PROVE OneOwner'
  OBVIOUS
<1> USE CommandAssumption DEF IInv, TypeOK, Frames, OneOwner, Entries,
    clockVars, callerVars, threadVars, endVars
<1>1. ASSUME NEW x \in Callers, NEW c \in Commands, NEW ts \in Delays, CallScheduleWork(x, c, ts)
      PROVE OneOwner'
  BY <1>1 DEF CallScheduleWork, LocalTime, Known, Finished, None
<1>2. ASSUME NEW x \in Callers, Insert(x)
      PROVE OneOwner'
  BY <1>2 DEF Insert, Finished, None
<1>3. ASSUME NEW x \in Callers, Interrupt(x)
      PROVE OneOwner'
  BY <1>3 DEF Finished, Interrupt
<1>4. ASSUME Top
      PROVE OneOwner'
  BY <1>4 DEF Finished, Top
<1>5. ASSUME NEW e \in TimedCommands, ScanDue(e)
      PROVE OneOwner'
  BY <1>5 DEF ScanDue, Finished
<1>6. ASSUME ScanWait
      PROVE OneOwner'
  BY <1>6 DEF Finished, ScanWait
<1>7. ASSUME Deliver
      PROVE OneOwner'
  BY <1>7 DEF Deliver, Passed, Finished, None
<1>8. ASSUME EnterSleep
      PROVE OneOwner'
  BY <1>8 DEF Finished, EnterSleep, Sleep
<1>9. ASSUME WakeInterrupted
      PROVE OneOwner'
  BY <1>9 DEF Finished, WakeInterrupted
<1>10. ASSUME WakeTimeout
      PROVE OneOwner'
  BY <1>10 DEF Finished, WakeTimeout
<1>11. ASSUME RequestTermination
      PROVE OneOwner'
  BY <1>11 DEF Finished, RequestTermination
<1>12. ASSUME InterruptThread
      PROVE OneOwner'
  BY <1>12 DEF Finished, InterruptThread
<1>13. ASSUME JoinAndClear
      PROVE OneOwner'
  BY <1>13 DEF JoinAndClear, Finished
<1>14. ASSUME Tick
      PROVE OneOwner'
  BY <1>14 DEF Finished, Tick
<1>15. ASSUME NEW o \in Offsets, SetClock(o)
      PROVE OneOwner'
  BY <1>15 DEF Finished, SetClock
<1>16. CASE UNCHANGED vars
  BY <1>16 DEF vars, Finished
<1> QED
  BY <1>1, <1>2, <1>3, <1>4, <1>5, <1>6, <1>7, <1>8, <1>9, <1>10, <1>11, <1>12,
      <1>13, <1>14, <1>15, <1>16 DEF Next, Thread

(* Every step of CTimedWork is the one step of the delay queue that its    *)
(* callers see, or none: the insertion is the acceptance, a command is     *)
(* waiting until ScheduleWork of the scheduler was called with it.         *)
LEMMA DelayStep ==
    IInv /\ OneOwner /\ [Next]_vars => [Abstract!Next]_(Abstract!vars)
<1> SUFFICES ASSUME IInv, OneOwner, [Next]_vars
             PROVE  [Abstract!Next]_(Abstract!vars)
  OBVIOUS
<1> DEFINE Same == UNCHANGED Abstract!vars
<1> USE CommandAssumption DEF clockVars, callerVars, threadVars, endVars,
    Abstract!vars
<1>1. ASSUME NEW x \in Callers, NEW c \in Commands, NEW ts \in Delays,
             CallScheduleWork(x, c, ts)
      PROVE Same
  BY <1>1 DEF CallScheduleWork
<1>2. ASSUME NEW x \in Callers, Insert(x) PROVE Abstract!Next
  <2> DEFINE new == [entry[x] EXCEPT !.no = calls]
  <2>1. entry[x] \in Entries /\ cpc[x] = "insert"
    BY <1>2 DEF Insert, IInv, Frames
  <2>2. PICK c \in Commands : c = entry[x].cmd
    BY <2>1 DEF Entries
  <2>3. c \notin Finished \cup {current.cmd} /\ \A e \in TimedCommands : e.cmd # c
    BY <2>1, <2>2 DEF OneOwner
  <2>4. ~terminate
    BY <2>1 DEF OneOwner
  <2>5. { e.cmd : e \in TimedCommands' } = { e.cmd : e \in TimedCommands } \cup {c}
    <3>1. new.cmd = c
      BY <2>1, <2>2 DEF Entries
    <3>2. TimedCommands' = TimedCommands \cup {new}
      BY <1>2 DEF Insert
    <3> HIDE DEF new
    <3> QED
      BY <3>1, <3>2
  <2>6. UNCHANGED <<current, handed, dropped, terminate>>
    BY <1>2 DEF Insert
  <2>7. Abstract!Accept(c)
    BY <2>2, <2>3, <2>4, <2>5, <2>6 DEF Abstract!Accept, Finished
  <2> QED
    BY <2>7 DEF Abstract!Next
<1>3. ASSUME NEW x \in Callers, Interrupt(x) PROVE Same
  BY <1>3 DEF Interrupt
<1>4. ASSUME Top PROVE Same
  BY <1>4 DEF Top
<1>5. ASSUME NEW e \in TimedCommands, ScanDue(e) PROVE Same
  <2>1. /\ TimedCommands' = TimedCommands \ {e} /\ current' = e
        /\ UNCHANGED <<handed, dropped, terminate>>
        /\ current = None
    BY <1>5 DEF ScanDue, OneOwner
  <2>2. e.cmd \in Commands /\ None.cmd \notin Commands
    BY DEF IInv, TypeOK, Entries, None
  <2>3. { f.cmd : f \in TimedCommands } = { f.cmd : f \in TimedCommands' } \cup {e.cmd}
    BY <2>1
  <2> QED
    BY <2>1, <2>2, <2>3
<1>6. ASSUME ScanWait PROVE Same
  BY <1>6 DEF ScanWait
<1>7. ASSUME Deliver PROVE Abstract!Next
  <2> DEFINE new == [cmd |-> current.cmd, wanted |-> current.wanted, at |-> now]
  <2>1. /\ current \in Entries /\ tpc = "deliver"
        /\ handed' = handed \cup {new} /\ current' = None
        /\ UNCHANGED <<TimedCommands, dropped, terminate>>
    BY <1>7 DEF Deliver, Passed, IInv, Frames
  <2>2. PICK c \in Commands : c = current.cmd
    BY <2>1 DEF Entries
  <2>3. c \notin { e.cmd : e \in TimedCommands } /\ None.cmd \notin Commands
    BY <2>2 DEF OneOwner, None
  <2>4. { e.cmd : e \in handed' } = { e.cmd : e \in handed } \cup {c}
    <3>1. new.cmd = c
      BY <2>2
    <3>2. handed' = handed \cup {new}
      BY <2>1
    <3> HIDE DEF new
    <3> QED
      BY <3>1, <3>2
  <2>5. Abstract!HandOver(c)
    BY <2>1, <2>2, <2>3, <2>4 DEF Abstract!HandOver
  <2> QED
    BY <2>5 DEF Abstract!Next
<1>8. ASSUME EnterSleep PROVE Same
  BY <1>8 DEF EnterSleep
<1>9. ASSUME WakeInterrupted PROVE Same
  BY <1>9 DEF WakeInterrupted
<1>10. ASSUME WakeTimeout PROVE Same
  BY <1>10 DEF WakeTimeout
<1>11. ASSUME RequestTermination PROVE Abstract!Next
  <2>1. Abstract!Close
    BY <1>11 DEF RequestTermination, OneOwner, Abstract!Close
  <2> QED
    BY <2>1 DEF Abstract!Next
<1>12. ASSUME InterruptThread PROVE Same
  BY <1>12 DEF InterruptThread
<1>13. ASSUME JoinAndClear PROVE Abstract!Next
  <2>1. /\ current = None /\ terminate
        /\ dropped' = dropped \cup TimedCommands /\ TimedCommands' = {}
        /\ UNCHANGED <<current, handed, terminate>>
    BY <1>13 DEF JoinAndClear, OneOwner
  <2>2. None.cmd \notin Commands
    BY DEF None
  <2>3. { e.cmd : e \in dropped' } =
            { e.cmd : e \in dropped } \cup { e.cmd : e \in TimedCommands }
    BY <2>1
  <2>4. Abstract!Drop
    BY <2>1, <2>2, <2>3 DEF Abstract!Drop
  <2> QED
    BY <2>4 DEF Abstract!Next
<1>14. ASSUME Tick PROVE Same
  BY <1>14 DEF Tick
<1>15. ASSUME NEW o \in Offsets, SetClock(o) PROVE Same
  BY <1>15 DEF SetClock
<1>16. CASE UNCHANGED vars
  BY <1>16 DEF vars
<1> QED
  BY <1>1, <1>2, <1>3, <1>4, <1>5, <1>6, <1>7, <1>8, <1>9, <1>10, <1>11, <1>12,
      <1>13, <1>14, <1>15, <1>16 DEF Next, Thread

(* No command is passed on twice, passed on and also destroyed, or in the  *)
(* list twice, whoever schedules and however the thread is interrupted.    *)
THEOREM Ownership == Spec => []OneOwner
<1>1. Init => OneOwner
  BY CommandAssumption DEF Init, OneOwner, Finished, None
<1> QED
  BY <1>1, OwnerStep, Invariance, PTL DEF Spec

(* Sleeps end in time, nothing is passed on early and nothing twice, for    *)
(* any callers, delays and changes of the clock.                           *)
THEOREM TimedWorkSound == Spec => []TimedInv
<1>1. TypeOK /\ NoLostWakeup /\ NeverEarly /\ OneOwner => TimedInv
  BY DEF TimedInv
<1> QED
  BY <1>1, TypeCorrect, WakeupsArrive, DeliveredNotBefore, Ownership, PTL

(* CTimedWork is a delay queue: every behaviour of it is one of DelayQueue *)
(* (its safety part), with any number of callers and commands.             *)
THEOREM DelayQueueImplemented ==
    Spec => Abstract!Init /\ [][Abstract!Next]_(Abstract!vars)
<1>1. Init => Abstract!Init
  BY CommandAssumption DEF Init, Abstract!Init, None
<1> QED
  BY <1>1, DelayStep, Invariance, Ownership, PTL DEF Spec

-----------------------------------------------------------------------------
(* Sequences, and the functions that recur along them.                     *)

(* A set of natural numbers that is not empty has a least element.         *)
LEMMA LeastOf ==
    ASSUME NEW A, A \subseteq Nat, A # {}
    PROVE  \E m \in A : \A j \in A : m <= j
<1> DEFINE R == OpToRel(<, Nat)
<1>1. IsWellFoundedOn(R, Nat)
  BY NatLessThanWellFounded
<1>2. PICK m \in A : \A j \in A : ~ (<<j, m>> \in R)
  <2> HIDE DEF R
  <2> QED
    BY <1>1, WFMin
<1>3. \A j \in A : ~ (j < m)
  BY <1>2 DEF OpToRel
<1>4. \A j \in A : m <= j
  BY <1>3
<1> QED
  BY <1>4

(* Induction from 0 to n with a set in place of a predicate: the form of   *)
(* the least-number principle that needs no operator parameter.            *)
LEMMA InductionUpTo ==
    ASSUME NEW n \in Nat, NEW T, 0 \in T, \A i \in 0..n : i \in T /\ i # n => i + 1 \in T
    PROVE  0..n \subseteq T
<1> SUFFICES ASSUME NEW k \in 0..n, k \notin T PROVE FALSE
  OBVIOUS
<1> DEFINE D == { i \in 0..n : i \notin T }
<1>1. D \subseteq Nat /\ D # {}
  OBVIOUS
<1>2. PICK m \in D : \A y \in D : m <= y
  <2> HIDE DEF D
  <2> QED
    BY <1>1, LeastOf
<1>3. m # 0 /\ m \in 1..n /\ m - 1 \in 0..n
  OBVIOUS
<1>4. m - 1 \in T
  BY <1>2, <1>3
<1> QED
  BY <1>3, <1>4

Follows(f, n, v0, step) == f[0] = v0 /\ \A i \in 1..n : f[i] = step[i][f[i - 1]]

(* Recursion along 0..n, with the step as a function: what it defines      *)
(* exists, and stays in V.                                                 *)
LEMMA Recursion ==
    ASSUME NEW n \in Nat, NEW V, NEW v0 \in V, NEW step \in [1..n -> [V -> V]]
    PROVE  \E f \in [0..n -> V] : Follows(f, n, v0, step)
<1> DEFINE Good(m, f) == f[0] = v0 /\ \A i \in 1..m : f[i] = step[i][f[i - 1]]
           T == { m \in 0..n : \E f \in [0..m -> V] : Good(m, f) }
<1>1. 0 \in T
  <2>1. PICK f : f = [i \in 0..0 |-> v0]
    OBVIOUS
  <2>2. f \in [0..0 -> V] /\ Good(0, f)
    BY <2>1
  <2> QED
    BY <2>2
<1>2. ASSUME NEW m \in 0..n, m \in T, m # n PROVE m + 1 \in T
  <2>1. PICK f \in [0..m -> V] : Good(m, f)
    BY <1>2
  <2>2. PICK g : g = [i \in 0..(m + 1) |-> IF i = m + 1 THEN step[m + 1][f[m]] ELSE f[i]]
    OBVIOUS
  <2>3. step[m + 1] \in [V -> V] /\ f[m] \in V
    BY <1>2
  <2>4. g \in [0..(m + 1) -> V]
    BY <2>2, <2>3
  <2>5. Good(m + 1, g)
    BY <2>1, <2>2
  <2> QED
    BY <1>2, <2>4, <2>5
<1>3. 0..n \subseteq T
  <2> HIDE DEF T
  <2> QED
    BY <1>1, <1>2, InductionUpTo
<1>4. n \in T
  BY <1>3
<1> QED
  BY <1>4 DEF Follows

(* f[i] is what Only() has kept of the first i elements of s.              *)
Filtered(f, n, s, qs) ==
    /\ f[0] = <<>>
    /\ \A i \in 1..n :
          f[i] = IF s[i] \in qs THEN Append(f[i - 1], s[i]) ELSE f[i - 1]

(* Only() is the function its recursive definition describes.              *)
LEMMA OnlyUnfolds ==
    ASSUME NEW S, NEW s \in Seq(S), NEW qs, NEW n, n = Len(s)
    PROVE  \E f \in [0..n -> Seq(S)] : Only(s, qs) = f[n] /\ Filtered(f, n, s, qs)
<1> DEFINE next(i, v) == IF s[i] \in qs THEN Append(v, s[i]) ELSE v
           Def(g) == [i \in 0..n |-> IF i = 0 THEN <<>> ELSE next(i, g[i - 1])]
           only == CHOOSE g : g = Def(g)
<1>1. n \in Nat /\ \A i \in 1..n : s[i] \in S
  OBVIOUS
<1>a. \A i \in 0..n : i = 0 \/ (i \in 1..n /\ i - 1 \in 0..n)
  BY ONLY <1>1
<1>b. \A i \in 1..n : i # 0 /\ i \in 0..n /\ i - 1 \in 0..n
  BY ONLY <1>1
<1>c. 0 \in 0..n
  BY ONLY <1>1
<1>2. PICK step \in [1..n -> [Seq(S) -> Seq(S)]] :
         \A i \in 1..n, v \in Seq(S) : step[i][v] = next(i, v)
  <2>1. \A i \in 1..n, v \in Seq(S) : next(i, v) \in Seq(S)
    BY <1>1
  <2>2. [i \in 1..n |-> [v \in Seq(S) |-> next(i, v)]] \in [1..n -> [Seq(S) -> Seq(S)]]
    <3> HIDE DEF next
    <3> QED
      BY <2>1
  <2> HIDE DEF next
  <2> QED
    BY <2>2
<1>3. PICK f \in [0..n -> Seq(S)] : f[0] = <<>> /\ \A i \in 1..n : f[i] = step[i][f[i - 1]]
  <2>1. PICK V : V = Seq(S)
    OBVIOUS
  <2>2. PICK e : e = <<>>
    OBVIOUS
  <2>3. n \in Nat /\ e \in V /\ step \in [1..n -> [V -> V]]
    BY <1>1, <1>2, <2>1, <2>2
  <2>4. \E f \in [0..n -> V] : Follows(f, n, e, step)
    BY ONLY <2>3, Recursion
  <2> QED
    BY ONLY <2>1, <2>2, <2>4 DEF Follows
<1>4. \A i \in 1..n : f[i] = next(i, f[i - 1])
  <2> HIDE DEF next
  <2> QED
    BY ONLY f \in [0..n -> Seq(S)], <1>b, <1>2, <1>3
<1>5. f = Def(f)
  <2> HIDE DEF next
  <2> QED
    BY <1>a, <1>3, <1>4
<1>6. only = Def(only)
  <2> HIDE DEF Def
  <2> QED
    BY <1>5
<1>7. only[0] = <<>> /\ \A i \in 1..n : only[i] = next(i, only[i - 1])
  <2> HIDE DEF only, next
  <2>1. only[0] = IF 0 = 0 THEN <<>> ELSE next(0, only[0 - 1])
    BY <1>c, <1>6
  <2>2. ASSUME NEW i \in 1..n PROVE only[i] = next(i, only[i - 1])
    BY <1>b, <1>6
  <2> QED
    BY <2>1, <2>2
<1> DEFINE T == { i \in 0..n : only[i] = f[i] }
<1>8. 0 \in T
  <2> HIDE DEF only
  <2> QED
    BY <1>1, <1>3, <1>7
<1>9. ASSUME NEW i \in 0..n, i \in T, i # n PROVE i + 1 \in T
  <2>1. i + 1 \in 1..n /\ (i + 1) - 1 = i
    BY <1>1, <1>9
  <2> HIDE DEF only, next
  <2>2. only[i + 1] = next(i + 1, only[i]) /\ f[i + 1] = next(i + 1, f[i])
    BY <1>4, <1>7, <2>1
  <2> QED
    BY <1>9, <2>1, <2>2
<1>10. 0..n \subseteq T
  <2> HIDE DEF T
  <2> QED
    BY ONLY <1>1, <1>8, <1>9, InductionUpTo
<1>11. Only(s, qs) = only[n]
  BY DEF Only
<1>12. Only(s, qs) = f[n]
  <2> HIDE DEF only
  <2> QED
    BY <1>1, <1>10, <1>11
<1>13. Filtered(f, n, s, qs)
  BY <1>3, <1>4 DEF Filtered
<1> QED
  BY <1>12, <1>13

LEMMA AppendRange ==
    ASSUME NEW S, NEW s \in Seq(S), NEW e \in S
    PROVE  /\ Append(s, e) \in Seq(S) /\ Range(Append(s, e)) = Range(s) \cup {e}
           /\ IsInjective(s) /\ e \notin Range(s) => IsInjective(Append(s, e))
<1>1. DOMAIN Append(s, e) = 1..(Len(s) + 1) /\ DOMAIN s = 1..Len(s) /\ Len(s) \in Nat
  OBVIOUS
<1>2. /\ \A i \in 1..Len(s) : Append(s, e)[i] = s[i]
      /\ Append(s, e)[Len(s) + 1] = e
  OBVIOUS
<1>3. Range(Append(s, e)) = Range(s) \cup {e}
  BY <1>1, <1>2 DEF Range
<1>4. ASSUME IsInjective(s), e \notin Range(s)
      PROVE  IsInjective(Append(s, e))
  BY <1>1, <1>2, <1>4 DEF IsInjective, Range
<1> QED
  BY <1>3, <1>4

LEMMA ConcatRange ==
    ASSUME NEW S, NEW s \in Seq(S), NEW t \in Seq(S)
    PROVE  /\ s \o t \in Seq(S) /\ Range(s \o t) = Range(s) \cup Range(t)
           /\ IsInjective(s) /\ IsInjective(t) /\ Range(s) \cap Range(t) = {} => IsInjective(s \o t)
<1>1. /\ DOMAIN (s \o t) = 1..(Len(s) + Len(t)) /\ Len(s) \in Nat /\ Len(t) \in Nat
      /\ DOMAIN s = 1..Len(s) /\ DOMAIN t = 1..Len(t) /\ s \o t \in Seq(S)
  OBVIOUS
<1>2. /\ \A i \in 1..Len(s) : (s \o t)[i] = s[i]
      /\ \A i \in 1..Len(t) : (s \o t)[Len(s) + i] = t[i]
      /\ \A i \in 1..(Len(s) + Len(t)) : i \in 1..Len(s) \/ i - Len(s) \in 1..Len(t)
      /\ \A i \in 1..(Len(s) + Len(t)) : i \notin 1..Len(s) => (s \o t)[i] = t[i - Len(s)]
  OBVIOUS
<1>3. Range(s \o t) = Range(s) \cup Range(t)
  <2>1. ASSUME NEW e \in Range(s \o t) PROVE e \in Range(s) \cup Range(t)
    BY <1>1, <1>2 DEF Range
  <2>2. ASSUME NEW e \in Range(s) PROVE e \in Range(s \o t)
    <3>1. PICK i \in 1..Len(s) : e = s[i]
      BY <1>1 DEF Range
    <3>2. i \in DOMAIN (s \o t) /\ (s \o t)[i] = e
      BY <1>1, <1>2, <3>1
    <3> QED
      BY <3>2 DEF Range
  <2>3. ASSUME NEW e \in Range(t) PROVE e \in Range(s \o t)
    <3>1. PICK i \in 1..Len(t) : e = t[i]
      BY <1>1 DEF Range
    <3>2. Len(s) + i \in DOMAIN (s \o t) /\ (s \o t)[Len(s) + i] = e
      BY <1>1, <1>2, <3>1
    <3> QED
      BY <3>2 DEF Range
  <2> QED
    BY <2>1, <2>2, <2>3
<1>4. ASSUME IsInjective(s), IsInjective(t), Range(s) \cap Range(t) = {}
      PROVE  IsInjective(s \o t)
  <2> SUFFICES ASSUME NEW i \in DOMAIN (s \o t), NEW j \in DOMAIN (s \o t), (s \o t)[i] = (s \o t)[j]
               PROVE  i = j
    BY DEF IsInjective
  <2>1. CASE i \in 1..Len(s) /\ j \in 1..Len(s)
    BY <1>1, <1>2, <1>4, <2>1 DEF IsInjective
  <2>2. CASE i \notin 1..Len(s) /\ j \notin 1..Len(s)
    <3>1. i - Len(s) \in DOMAIN t /\ j - Len(s) \in DOMAIN t /\ t[i - Len(s)] = t[j - Len(s)]
      BY <1>1, <1>2, <2>2
    <3>2. i - Len(s) = j - Len(s)
      BY <1>4, <3>1 DEF IsInjective
    <3> QED
      BY <1>1, <3>2
  <2>3. ASSUME NEW a \in 1..Len(s), NEW b \in 1..(Len(s) + Len(t)), b \notin 1..Len(s)
        PROVE  (s \o t)[a] # (s \o t)[b]
    <3>1. (s \o t)[a] \in Range(s) /\ (s \o t)[b] \in Range(t)
      BY <1>1, <1>2, <2>3 DEF Range
    <3> QED
      BY <1>4, <3>1
  <2> QED
    BY <1>1, <2>1, <2>2, <2>3
<1> QED
  BY <1>1, <1>3, <1>4

(* Only() keeps what is in Q, in its order.                                *)
LEMMA OnlyKeeps ==
    ASSUME NEW S, NEW s \in Seq(S), NEW Q
    PROVE  /\ Only(s, Q) \in Seq(S) /\ Range(Only(s, Q)) = Range(s) \cap Q
           /\ IsInjective(s) => IsInjective(Only(s, Q))
<1>0. PICK n : n = Len(s)
  OBVIOUS
<1>1. n \in Nat /\ DOMAIN s = 1..n
  BY <1>0
<1>2. PICK f \in [0..n -> Seq(S)] : Only(s, Q) = f[n] /\ Filtered(f, n, s, Q)
  BY <1>0, OnlyUnfolds
<1> DEFINE Upto(i) == { s[j] : j \in 1..i }
           T == { i \in 0..n : Range(f[i]) = Upto(i) \cap Q /\ (IsInjective(s) => IsInjective(f[i])) }
<1>3. 0 \in T
  <2>1. f[0] = <<>> /\ Upto(0) = {}
    BY <1>2 DEF Filtered
  <2> QED
    BY <1>1, <2>1 DEF Range, IsInjective
<1>4. ASSUME NEW i \in 0..n, i \in T, i # n PROVE i + 1 \in T
  <2>1. i + 1 \in 1..n /\ (i + 1) - 1 = i /\ i + 1 \in 0..n
    BY <1>1, <1>4
  <2>2. f[i + 1] = IF s[i + 1] \in Q THEN Append(f[i], s[i + 1]) ELSE f[i]
    BY <1>2, <2>1 DEF Filtered
  <2>a. i \in Nat /\ \A j : j \in 1..(i + 1) <=> j \in 1..i \/ j = i + 1
    BY ONLY <1>1, i \in 0..n
  <2>3. Upto(i + 1) = Upto(i) \cup {s[i + 1]}
    BY ONLY <2>a
  <2>4. f[i] \in Seq(S) /\ s[i + 1] \in S
    BY <1>1, <1>2, <2>1
  <2>5. Range(f[i]) = Upto(i) \cap Q /\ (IsInjective(s) => IsInjective(f[i]))
    BY <1>4
  <2>6. CASE s[i + 1] \notin Q
    <3> HIDE DEF Upto
    <3> QED
      BY <2>1, <2>2, <2>3, <2>5, <2>6
  <2>7. CASE s[i + 1] \in Q
    <3>1. Range(Append(f[i], s[i + 1])) = Range(f[i]) \cup {s[i + 1]}
      BY <2>4, AppendRange
    <3>a. \A j \in 1..i : j \in 1..n /\ j # i + 1
      BY <1>1, <2>1
    <3>2. IsInjective(s) => s[i + 1] \notin Upto(i)
      BY <1>1, <2>1, <3>a DEF IsInjective
    <3>3. IsInjective(s) => IsInjective(Append(f[i], s[i + 1]))
      BY <2>4, <2>5, <3>2, AppendRange
    <3> HIDE DEF Upto
    <3> QED
      BY <2>1, <2>2, <2>3, <2>5, <2>7, <3>1, <3>3
  <2> QED
    BY <2>6, <2>7
<1>a. 0..n \subseteq T
  <2> HIDE DEF T
  <2> QED
    BY ONLY <1>1, <1>3, <1>4, InductionUpTo
<1>5. n \in T
  BY <1>1, <1>a
<1>6. Upto(n) = Range(s)
  BY <1>1 DEF Range
<1> HIDE DEF Upto
<1> QED
  BY <1>1, <1>2, <1>5, <1>6

-----------------------------------------------------------------------------
(* Functions that recur on smaller ranks.                                  *)

Fixpoint(f, S, step) == \A x \in S : f[x] = step[x][f]

\* What step says of x depends only on arguments of smaller rank.
LooksDown(N, S, V, rank, step) ==
    /\ N \in Nat /\ rank \in [S -> 0..N] /\ step \in [S -> [[S -> V] -> V]]
    /\ \A x \in S : \A g, h \in [S -> V] :
          (\A y \in S : rank[y] < rank[x] => g[y] = h[y]) => step[x][g] = step[x][h]

(* A recursion whose value at x looks only at arguments of smaller rank    *)
(* defines a function, and it stays in V.                                  *)
LEMMA RankRecursion ==
    ASSUME NEW N, NEW S, NEW V, NEW v0 \in V, NEW rank, NEW step,
           LooksDown(N, S, V, rank, step)
    PROVE  \E f \in [S -> V] : Fixpoint(f, S, step)
<1> DEFINE Good(m, f) == \A x \in S : rank[x] <= m => f[x] = step[x][f]
           T == { m \in 0..N : \E f \in [S -> V] : Good(m, f) }
<1>0. /\ N \in Nat /\ rank \in [S -> 0..N] /\ step \in [S -> [[S -> V] -> V]]
      /\ \A x \in S : \A g, h \in [S -> V] :
            (\A y \in S : rank[y] < rank[x] => g[y] = h[y]) => step[x][g] = step[x][h]
  BY DEF LooksDown
<1> USE <1>0
<1>1. ASSUME NEW m \in Nat, NEW f \in [S -> V], \A x \in S : rank[x] < m => f[x] = step[x][f]
      PROVE  \E g \in [S -> V] : Good(m, g)
  <2>1. PICK g : g = [x \in S |-> IF rank[x] < m THEN f[x] ELSE step[x][f]]
    OBVIOUS
  <2>2. g \in [S -> V]
    BY <2>1
  <2>3. ASSUME NEW x \in S, rank[x] <= m PROVE g[x] = step[x][g]
    <3>1. \A y \in S : rank[y] < rank[x] => g[y] = f[y]
      BY <1>1, <2>1, <2>3
    <3>2. step[x][g] = step[x][f]
      BY <2>2, <3>1
    <3> QED
      BY <1>1, <2>1, <3>2
  <2> QED
    BY <2>2, <2>3
<1>2. 0 \in T
  <2>1. PICK f : f = [x \in S |-> v0]
    OBVIOUS
  <2>2. f \in [S -> V] /\ \A x \in S : rank[x] < 0 => f[x] = step[x][f]
    BY <2>1
  <2>3. 0 \in Nat /\ 0 \in 0..N
    OBVIOUS
  <2>4. \E g \in [S -> V] : Good(0, g)
    <3> HIDE DEF Good
    <3> QED
      BY ONLY <1>1, <2>2, <2>3
  <2> QED
    BY <2>3, <2>4
<1>3. ASSUME NEW m \in 0..N, m \in T, m # N PROVE m + 1 \in T
  <2>1. PICK f \in [S -> V] : Good(m, f)
    BY <1>3
  <2>2. m + 1 \in 0..N /\ m + 1 \in Nat
    BY <1>3
  <2>3. \A x \in S : rank[x] < m + 1 => f[x] = step[x][f]
    BY <2>1
  <2>4. \E g \in [S -> V] : Good(m + 1, g)
    <3> HIDE DEF Good
    <3> QED
      BY ONLY <1>1, <2>1, <2>2, <2>3
  <2> QED
    BY <2>2, <2>4
<1>4. N \in T
  <2> HIDE DEF T
  <2>1. 0..N \subseteq T
    BY ONLY <1>0, <1>2, <1>3, InductionUpTo
  <2> QED
    BY <2>1
<1>5. PICK f \in [S -> V] : Good(N, f)
  BY <1>4
<1> QED
  BY <1>5 DEF Fixpoint

-----------------------------------------------------------------------------
(* The chain of data sources.                                              *)

\* As FiltersAssumption has it of every configuration.
Chained(b) ==
    /\ b \in [Filters -> Objects]
    /\ \A i \in DOMAIN Loggers : b[Loggers[i]] \in {Inverter} \cup { Loggers[j] : j \in 1 .. i - 1 }

\* The position in the configuration file: sources come before their filters.
Ranks(rank, b) ==
    /\ rank \in [Objects -> 0 .. Len(Loggers)]
    /\ \A f \in Filters : rank[b[f]] < rank[f]

LEMMA Ranked ==
    ASSUME NEW b, Chained(b) PROVE \E rank : Ranks(rank, b)
<1> USE CapabilitiesAssumption, FiltersAssumption
<1>1. PICK n : n = Len(Loggers)
  OBVIOUS
<1>2. n \in Nat /\ DOMAIN Loggers = 1..n
  BY <1>1
<1>3. \A f \in Filters : \E i \in 1..n : Loggers[i] = f
  BY <1>2 DEF Range
<1>4. \A i \in 1..n, j \in 1..n : Loggers[i] = Loggers[j] => i = j
  BY <1>2 DEF IsInjective
<1>5. \A i \in 1..n : Loggers[i] \in Filters
  BY <1>2 DEF Range
<1>6. PICK rank : rank = [x \in Objects |-> IF x = Inverter THEN 0
                                            ELSE CHOOSE i \in 1..n : Loggers[i] = x]
  OBVIOUS
<1>7. ASSUME NEW i \in 1..n PROVE Loggers[i] \in Objects /\ rank[Loggers[i]] = i
  <2>1. Loggers[i] \in Filters /\ Loggers[i] \in Objects /\ Loggers[i] # Inverter
    BY <1>5 DEF Objects
  <2>2. (CHOOSE k \in 1..n : Loggers[k] = Loggers[i]) \in 1..n
        /\ Loggers[CHOOSE k \in 1..n : Loggers[k] = Loggers[i]] = Loggers[i]
    OBVIOUS
  <2>3. (CHOOSE k \in 1..n : Loggers[k] = Loggers[i]) = i
    BY <1>4, <2>2
  <2> QED
    BY <1>6, <2>1, <2>3
<1>8. Inverter \in Objects /\ rank[Inverter] = 0
  BY <1>6 DEF Objects
<1>9. ASSUME NEW x \in Objects PROVE rank[x] \in 0..n
  <2>1. CASE x = Inverter
    BY <1>2, <1>8, <2>1
  <2>2. CASE x \in Filters
    <3>1. PICK i \in 1..n : Loggers[i] = x
      BY <1>3, <2>2
    <3>2. rank[x] = i
      BY <1>7, <3>1
    <3> QED
      BY <1>2, <3>2
  <2> QED
    BY <2>1, <2>2 DEF Objects
<1>10. rank \in [Objects -> 0..n]
  BY <1>6, <1>9
<1>11. ASSUME NEW f \in Filters PROVE rank[b[f]] < rank[f]
  <2>1. PICK i \in 1..n : Loggers[i] = f
    BY <1>3
  <2>2. rank[f] = i /\ i > 0
    BY <1>2, <1>7, <2>1
  <2>3. b[f] = Inverter \/ \E j \in 1..i - 1 : b[f] = Loggers[j]
    <3>1. i \in DOMAIN Loggers
      BY <1>2
    <3> QED
      BY ONLY Chained(b), <2>1, <3>1 DEF Chained
  <2>4. CASE b[f] = Inverter
    BY <1>8, <2>2, <2>4
  <2>5. ASSUME NEW j \in 1..i - 1, b[f] = Loggers[j] PROVE rank[b[f]] < rank[f]
    <3>1. j \in 1..n /\ j < i
      BY <1>2
    <3> QED
      BY <1>7, <2>2, <2>5, <3>1
  <2> QED
    BY <2>3, <2>4, <2>5
<1> QED
  BY <1>1, <1>10, <1>11 DEF Ranks

(* Induction from the inverter to the filters at the end of a chain.       *)
LEMMA Downstream ==
    ASSUME NEW b, Chained(b), NEW T, Inverter \in T,
           \A f \in Filters : b[f] \in T => f \in T
    PROVE  Objects \subseteq T
<1>1. PICK rank : Ranks(rank, b)
  BY Ranked
<1>2. PICK n : n = Len(Loggers)
  OBVIOUS
<1>3. n \in Nat
  BY <1>2, FiltersAssumption
<1> DEFINE U == { m \in 0..n : \A x \in Objects : rank[x] <= m => x \in T }
<1>4. \A x \in Objects : rank[x] \in 0..n
  BY <1>1, <1>2 DEF Ranks
<1>5. \A f \in Filters : b[f] \in Objects /\ rank[b[f]] < rank[f]
  BY <1>1 DEF Ranks, Chained
<1>6. 0 \in U
  <2> SUFFICES ASSUME NEW x \in Objects, rank[x] <= 0 PROVE x \in T
    BY <1>3
  <2>1. CASE x \in Filters
    BY <1>4, <1>5, <2>1
  <2> QED
    BY <2>1 DEF Objects
<1>7. ASSUME NEW m \in 0..n, m \in U, m # n PROVE m + 1 \in U
  <2>1. m + 1 \in 0..n
    BY <1>3, <1>7
  <2>2. ASSUME NEW x \in Objects, rank[x] <= m + 1 PROVE x \in T
    <3>1. CASE x \in Filters
      <4>1. rank[b[x]] <= m
        BY <1>4, <1>5, <2>2, <3>1
      <4> QED
        BY <1>5, <1>7, <3>1, <4>1
    <3> QED
      BY <3>1 DEF Objects
  <2> QED
    BY <2>1, <2>2
<1>8. 0..n \subseteq U
  <2> HIDE DEF U
  <2> QED
    BY ONLY <1>3, <1>6, <1>7, InductionUpTo
<1>9. n \in U
  BY <1>3, <1>8
<1> QED
  BY <1>4, <1>9

(* Induction from the ends of the chains to the inverter.                  *)
LEMMA Upstream ==
    ASSUME NEW b, Chained(b), NEW T,
           \A x \in Objects : (\A f \in Filters : b[f] = x => f \in T) => x \in T
    PROVE  Objects \subseteq T
<1>1. PICK rank : Ranks(rank, b)
  BY Ranked
<1>2. PICK n : n = Len(Loggers)
  OBVIOUS
<1>3. n \in Nat
  BY <1>2, FiltersAssumption
<1> DEFINE U == { m \in 0..n : \A x \in Objects : n - rank[x] <= m => x \in T }
<1>4. \A x \in Objects : rank[x] \in 0..n
  BY <1>1, <1>2 DEF Ranks
<1>5. \A f \in Filters : f \in Objects /\ rank[b[f]] < rank[f]
  BY <1>1 DEF Ranks, Objects
<1>6. 0 \in U
  <2> SUFFICES ASSUME NEW x \in Objects, n - rank[x] <= 0 PROVE x \in T
    BY <1>3
  <2>1. \A f \in Filters : b[f] # x
    BY <1>3, <1>4, <1>5
  <2> QED
    BY <2>1
<1>7. ASSUME NEW m \in 0..n, m \in U, m # n PROVE m + 1 \in U
  <2>1. m + 1 \in 0..n
    BY <1>3, <1>7
  <2>2. ASSUME NEW x \in Objects, n - rank[x] <= m + 1 PROVE x \in T
    <3>1. ASSUME NEW f \in Filters, b[f] = x PROVE f \in T
      <4>1. f \in Objects /\ n - rank[f] <= m
        BY <1>3, <1>4, <1>5, <2>2, <3>1
      <4> QED
        BY <1>7, <4>1
    <3> QED
      BY <3>1
  <2> QED
    BY <2>1, <2>2
<1>8. 0..n \subseteq U
  <2> HIDE DEF U
  <2> QED
    BY ONLY <1>3, <1>6, <1>7, InductionUpTo
<1>9. n \in U
  BY <1>3, <1>8
<1> QED
  BY <1>3, <1>4, <1>9

\* A step of a recursion from a filter to its data source.
ChainStep(b, V, step) ==
    /\ Chained(b) /\ step \in [Objects -> [[Objects -> V] -> V]]
    /\ \A x \in Objects : \A g, h \in [Objects -> V] :
          (x \in Filters => g[b[x]] = h[b[x]]) => step[x][g] = step[x][h]

(* Such a recursion defines a function.                                    *)
LEMMA ChainRecursion ==
    ASSUME NEW b, NEW V, NEW v0 \in V, NEW step, ChainStep(b, V, step)
    PROVE  \E f \in [Objects -> V] : Fixpoint(f, Objects, step)
<1>0. Chained(b)
  BY DEF ChainStep
<1>1. PICK rank : Ranks(rank, b)
  BY <1>0, Ranked
<1>2. PICK n : n = Len(Loggers)
  OBVIOUS
<1>3. n \in Nat
  BY <1>2, FiltersAssumption
<1>4. rank \in [Objects -> 0..n] /\ \A f \in Filters : b[f] \in Objects /\ rank[b[f]] < rank[f]
  BY <1>0, <1>1, <1>2 DEF Ranks, Chained
<1>5. ASSUME NEW x \in Objects, NEW g \in [Objects -> V], NEW h \in [Objects -> V],
             \A y \in Objects : rank[y] < rank[x] => g[y] = h[y]
      PROVE  step[x][g] = step[x][h]
  BY <1>4, <1>5 DEF ChainStep
<1>6. LooksDown(n, Objects, V, rank, step)
  <2>1. step \in [Objects -> [[Objects -> V] -> V]]
    BY DEF ChainStep
  <2> QED
    BY ONLY <1>3, <1>4, <1>5, <2>1 DEF LooksDown
<1> QED
  BY <1>6, RankRecursion

-----------------------------------------------------------------------------
(* Looking a capability up.                                                *)

\* Concrete() as an operator of the state it reads.
LookUp(b, ow, o, n) ==
    LET search[x \in Objects] ==
            IF n \in ow[x] THEN <<x, n>>
            ELSE IF x = Inverter THEN NoCap ELSE search[b[x]]
    IN  search[o]

LEMMA ConcreteLooksUp ==
    ASSUME NEW o, NEW n
    PROVE  /\ Concrete(o, n) = LookUp(base, owned, o, n)
           /\ Concrete(o, n)' = LookUp(base', owned', o, n)
BY DEF Concrete, LookUp

LEMMA LookUpUnfolds ==
    ASSUME NEW b, Chained(b), NEW ow, NEW n, NEW o \in Objects
    PROVE  LookUp(b, ow, o, n) =
              IF n \in ow[o] THEN <<o, n>>
              ELSE IF o = Inverter THEN NoCap ELSE LookUp(b, ow, b[o], n)
<1> DEFINE next(x, g) == IF n \in ow[x] THEN <<x, n>>
                         ELSE IF x = Inverter THEN NoCap ELSE g[b[x]]
           Def(g) == [x \in Objects |-> next(x, g)]
           search == CHOOSE g : g = Def(g)
<1>1. PICK V : V = (Objects \X {n}) \cup {NoCap}
  OBVIOUS
<1>2. /\ \A x \in Objects : x = Inverter \/ b[x] \in Objects
      /\ \A x \in Filters : x # Inverter
  BY CapabilitiesAssumption DEF Chained, Objects
<1>3. \A x \in Objects, g \in [Objects -> V] : next(x, g) \in V
  BY <1>1, <1>2
<1>4. PICK step : step = [x \in Objects |-> [g \in [Objects -> V] |-> next(x, g)]]
  OBVIOUS
<1>5. step \in [Objects -> [[Objects -> V] -> V]]
  <2> HIDE DEF next
  <2> QED
    BY <1>3, <1>4
<1>6. ASSUME NEW x \in Objects, NEW g \in [Objects -> V], NEW h \in [Objects -> V],
             x \in Filters => g[b[x]] = h[b[x]]
      PROVE  step[x][g] = step[x][h]
  <2>1. next(x, g) = next(x, h)
    BY <1>6 DEF Objects
  <2> HIDE DEF next
  <2> QED
    BY <1>4, <2>1
<1>7. PICK f \in [Objects -> V] : Fixpoint(f, Objects, step)
  <2>1. NoCap \in V
    BY <1>1
  <2>2. ChainStep(b, V, step)
    BY ONLY Chained(b), <1>5, <1>6 DEF ChainStep
  <2> QED
    BY <2>1, <2>2, ChainRecursion
<1>8. f = Def(f)
  <2> HIDE DEF next
  <2> QED
    BY <1>4, <1>7 DEF Fixpoint
<1>9. search = Def(search)
  <2> HIDE DEF Def
  <2> QED
    BY <1>8
<1>10. \A x \in Objects : search[x] = next(x, search)
  <2> HIDE DEF search, next
  <2> QED
    BY <1>9
<1>11. \A x : LookUp(b, ow, x, n) = search[x]
  BY DEF LookUp
<1> HIDE DEF search
<1> QED
  BY <1>10, <1>11

(* What a look-up finds is a capability that its object publishes.         *)
LEMMA LookUpFinds ==
    ASSUME NEW b, Chained(b), NEW ow, NEW n, NEW o \in Objects
    PROVE  \/ LookUp(b, ow, o, n) = NoCap
           \/ \E x \in Objects : n \in ow[x] /\ LookUp(b, ow, o, n) = <<x, n>>
<1> DEFINE T == { y \in Objects : \/ LookUp(b, ow, y, n) = NoCap
                                  \/ \E x \in Objects : n \in ow[x] /\ LookUp(b, ow, y, n) = <<x, n>> }
<1>1. Inverter \in T
  <2>1. Inverter \in Objects
    BY DEF Objects
  <2> QED
    BY <2>1, LookUpUnfolds
<1>2. ASSUME NEW f \in Filters, b[f] \in T PROVE f \in T
  <2>1. f \in Objects /\ f # Inverter
    BY CapabilitiesAssumption DEF Objects
  <2>2. LookUp(b, ow, f, n) = IF n \in ow[f] THEN <<f, n>> ELSE LookUp(b, ow, b[f], n)
    BY <2>1, LookUpUnfolds
  <2> QED
    BY <1>2, <2>1, <2>2
<1>3. Objects \subseteq T
  <2> HIDE DEF T
  <2> QED
    BY ONLY Chained(b), <1>1, <1>2, Downstream
<1> QED
  BY <1>3

(* What the inverter alone publishes is found there from everywhere.       *)
LEMMA LookUpAtInverter ==
    ASSUME NEW b, Chained(b), NEW ow, NEW n, n \in ow[Inverter],
           \A f \in Filters : n \notin ow[f], NEW o \in Objects
    PROVE  LookUp(b, ow, o, n) = <<Inverter, n>>
<1> DEFINE T == { y \in Objects : LookUp(b, ow, y, n) = <<Inverter, n>> }
<1>1. Inverter \in T
  <2>1. Inverter \in Objects
    BY DEF Objects
  <2> QED
    BY <2>1, LookUpUnfolds
<1>2. ASSUME NEW f \in Filters, b[f] \in T PROVE f \in T
  <2>1. f \in Objects /\ f # Inverter
    BY CapabilitiesAssumption DEF Objects
  <2> QED
    BY <1>2, <2>1, LookUpUnfolds
<1>3. Objects \subseteq T
  <2> HIDE DEF T
  <2> QED
    BY ONLY Chained(b), <1>1, <1>2, Downstream
<1> QED
  BY <1>3

-----------------------------------------------------------------------------
(* The iterator.                                                           *)

\* Unfiltered() and Iterate() as operators of the state they read.
VisitedAt(b, ow, top, x) ==
    LET kept == { n \in Names : LookUp(b, ow, top, n) = <<x, n>> }
        m == Only(NameOrder, ow[x])
    IN  IF x = top \/ m = <<>> THEN Only(m, kept)
        ELSE <<Head(m)>> \o Only(Tail(m), kept)

VisitsFrom(b, ow, top, o) ==
    LET visit[x \in Objects] ==
            VisitedAt(b, ow, top, x) \o (IF x = Inverter THEN <<>> ELSE visit[b[x]])
    IN  visit[o]

LEMMA UnfilteredVisits ==
    ASSUME NEW o, NEW x
    PROVE  /\ Unfiltered(o, x) = VisitedAt(base, owned, o, x)
           /\ Unfiltered(o, x)' = VisitedAt(base', owned', o, x)
<1>1. ASSUME NEW n PROVE Concrete(o, n) = LookUp(base, owned, o, n)
                         /\ Concrete(o, n)' = LookUp(base', owned', o, n)
  BY ConcreteLooksUp
<1>2. { n \in Names : Concrete(o, n) = <<x, n>> } = { n \in Names : LookUp(base, owned, o, n) = <<x, n>> }
  BY <1>1
<1>3. { n \in Names : Concrete(o, n)' = <<x, n>> } = { n \in Names : LookUp(base', owned', o, n) = <<x, n>> }
  BY <1>1
<1> QED
  BY <1>2, <1>3 DEF Unfiltered, VisitedAt, Map

LEMMA IterateVisits ==
    ASSUME NEW o
    PROVE  /\ Iterate(o) = VisitsFrom(base, owned, o, o)
           /\ Iterate(o)' = VisitsFrom(base', owned', o, o)
<1>1. \A x : Unfiltered(o, x) = VisitedAt(base, owned, o, x)
  BY UnfilteredVisits
<1>2. \A x : Unfiltered(o, x)' = VisitedAt(base', owned', o, x)
  BY UnfilteredVisits
<1>3. Iterate(o) = VisitsFrom(base, owned, o, o)
  <2> DEFINE Walk(v) ==
                v = [x \in Objects |-> Unfiltered(o, x) \o
                                         (IF x = Inverter THEN <<>> ELSE v[base[x]])]
             Visit(v) ==
                v = [x \in Objects |-> VisitedAt(base, owned, o, x) \o
                                         (IF x = Inverter THEN <<>> ELSE v[base[x]])]
  <2>1. Iterate(o) = (CHOOSE v : Walk(v))[o]
    BY DEF Iterate
  <2>2. VisitsFrom(base, owned, o, o) = (CHOOSE v : Visit(v))[o]
    BY DEF VisitsFrom
  <2>3. \A v : Walk(v) <=> Visit(v)
    BY ONLY <1>1
  <2> HIDE DEF Walk, Visit
  <2>4. (CHOOSE v : Walk(v)) = (CHOOSE v : Visit(v))
    BY ONLY <2>3, Zenon
  <2> QED
    BY ONLY <2>1, <2>2, <2>4
<1>4. Iterate(o)' = VisitsFrom(base', owned', o, o)
  <2> DEFINE Walk(v) ==
                v = [x \in Objects |-> Unfiltered(o, x)' \o
                                         (IF x = Inverter THEN <<>> ELSE v[base'[x]])]
             Visit(v) ==
                v = [x \in Objects |-> VisitedAt(base', owned', o, x) \o
                                         (IF x = Inverter THEN <<>> ELSE v[base'[x]])]
  <2>1. Iterate(o)' = (CHOOSE v : Walk(v))[o]
    BY DEF Iterate
  <2>2. VisitsFrom(base', owned', o, o) = (CHOOSE v : Visit(v))[o]
    BY DEF VisitsFrom
  <2>3. \A v : Walk(v) <=> Visit(v)
    BY ONLY <1>2
  <2> HIDE DEF Walk, Visit
  <2>4. (CHOOSE v : Walk(v)) = (CHOOSE v : Visit(v))
    BY ONLY <2>3, Zenon
  <2> QED
    BY ONLY <2>1, <2>2, <2>4
<1> QED
  BY <1>3, <1>4

(* What an object adds to the iteration.                                   *)
LEMMA VisitedFacts ==
    ASSUME NEW b, NEW ow, NEW top, NEW x
    PROVE  /\ VisitedAt(b, ow, top, x) \in Seq(Names)
           /\ Range(VisitedAt(b, ow, top, x)) \subseteq ow[x]
           /\ \A n \in Names : n \in ow[x] /\ LookUp(b, ow, top, n) = <<x, n>> =>
                 n \in Range(VisitedAt(b, ow, top, x))
<1>1. PICK kept : kept = { n \in Names : LookUp(b, ow, top, n) = <<x, n>> }
  OBVIOUS
<1>2. PICK m : m = Only(NameOrder, ow[x])
  OBVIOUS
<1>3. /\ m \in Seq(Names) /\ Range(m) = Names \cap ow[x]
  <2>1. NameOrder \in Seq(Names) /\ Range(NameOrder) = Names
    BY CapabilitiesAssumption DEF Names
  <2> QED
    BY <1>2, <2>1, OnlyKeeps
<1>4. \A n \in Names : n \in ow[x] /\ LookUp(b, ow, top, n) = <<x, n>> => n \in Range(m) \cap kept
  BY <1>1, <1>3
<1>5. VisitedAt(b, ow, top, x) = IF x = top \/ m = <<>> THEN Only(m, kept)
                                 ELSE <<Head(m)>> \o Only(Tail(m), kept)
  BY <1>1, <1>2 DEF VisitedAt
<1>6. CASE x = top \/ m = <<>>
  <2>1. VisitedAt(b, ow, top, x) = Only(m, kept)
    BY <1>5, <1>6
  <2>2. Only(m, kept) \in Seq(Names) /\ Range(Only(m, kept)) = Range(m) \cap kept
    BY <1>3, OnlyKeeps
  <2> QED
    BY <1>3, <1>4, <2>1, <2>2
<1>7. CASE ~ (x = top \/ m = <<>>)
  <2>1. VisitedAt(b, ow, top, x) = <<Head(m)>> \o Only(Tail(m), kept)
    BY <1>5, <1>7
  <2>2. PICK h, t : h = Head(m) /\ t = Tail(m)
    OBVIOUS
  <2>3. h \in Names /\ t \in Seq(Names) /\ m = <<h>> \o t /\ <<h>> \in Seq(Names)
    BY <1>3, <1>7, <2>2
  <2>4. Range(<<h>>) = {h}
    BY DEF Range
  <2>a. PICK o : o = Only(t, kept)
    OBVIOUS
  <2>b. PICK s : s = <<h>>
    OBVIOUS
  <2>5. Range(m) = {h} \cup Range(t)
    <3>1. s \in Seq(Names) /\ t \in Seq(Names)
      BY <2>3, <2>b
    <3>2. Range(s \o t) = Range(s) \cup Range(t)
      BY ONLY <3>1, ConcatRange
    <3> QED
      BY <2>3, <2>4, <2>b, <3>2
  <2>6. Only(t, kept) \in Seq(Names) /\ Range(Only(t, kept)) = Range(t) \cap kept
    BY <2>3, OnlyKeeps
  <2>7. /\ <<h>> \o Only(t, kept) \in Seq(Names)
        /\ Range(<<h>> \o Only(t, kept)) = {h} \cup Range(Only(t, kept))
    <3>1. s \in Seq(Names) /\ o \in Seq(Names)
      BY <2>3, <2>6, <2>a, <2>b
    <3>2. s \o o \in Seq(Names) /\ Range(s \o o) = Range(s) \cup Range(o)
      BY ONLY <3>1, ConcatRange
    <3> QED
      BY <2>4, <2>a, <2>b, <3>2
  <2> QED
    BY <1>3, <1>4, <2>1, <2>2, <2>5, <2>6, <2>7
<1> QED
  BY <1>6, <1>7

LEMMA VisitsUnfold ==
    ASSUME NEW b, Chained(b), NEW ow, NEW top, NEW o \in Objects
    PROVE  VisitsFrom(b, ow, top, o) =
              VisitedAt(b, ow, top, o) \o
                 (IF o = Inverter THEN <<>> ELSE VisitsFrom(b, ow, top, b[o]))
<1> DEFINE next(x, g) == VisitedAt(b, ow, top, x) \o (IF x = Inverter THEN <<>> ELSE g[b[x]])
           Def(g) == [x \in Objects |-> next(x, g)]
           visit == CHOOSE g : g = Def(g)
<1>1. PICK V : V = Seq(Names)
  OBVIOUS
<1>2. /\ \A x \in Objects : x = Inverter \/ b[x] \in Objects
      /\ \A x \in Filters : x # Inverter
  BY CapabilitiesAssumption DEF Chained, Objects
<1>3. ASSUME NEW x \in Objects, NEW g \in [Objects -> V] PROVE next(x, g) \in V
  <2>1. PICK s : s = VisitedAt(b, ow, top, x)
    OBVIOUS
  <2>2. s \in Seq(Names)
    BY <2>1, VisitedFacts
  <2>3. x # Inverter => g[b[x]] \in Seq(Names)
    BY <1>1, <1>2
  <2>4. \A t \in Seq(Names) : s \o t \in Seq(Names)
    BY <2>2
  <2>5. <<>> \in Seq(Names)
    OBVIOUS
  <2> QED
    BY <1>1, <2>1, <2>3, <2>4, <2>5
<1>4. PICK step : step = [x \in Objects |-> [g \in [Objects -> V] |-> next(x, g)]]
  OBVIOUS
<1>5. step \in [Objects -> [[Objects -> V] -> V]]
  <2> HIDE DEF next
  <2> QED
    BY <1>3, <1>4
<1>6. ASSUME NEW x \in Objects, NEW g \in [Objects -> V], NEW h \in [Objects -> V],
             x \in Filters => g[b[x]] = h[b[x]]
      PROVE  step[x][g] = step[x][h]
  <2>1. next(x, g) = next(x, h)
    BY <1>6 DEF Objects
  <2> HIDE DEF next
  <2> QED
    BY <1>4, <2>1
<1>7. PICK f \in [Objects -> V] : Fixpoint(f, Objects, step)
  <2>1. <<>> \in V
    BY <1>1
  <2>2. ChainStep(b, V, step)
    BY ONLY Chained(b), <1>5, <1>6 DEF ChainStep
  <2> QED
    BY <2>1, <2>2, ChainRecursion
<1>8. f = Def(f)
  <2> HIDE DEF next
  <2> QED
    BY <1>4, <1>7 DEF Fixpoint
<1>9. visit = Def(visit)
  <2> HIDE DEF Def
  <2> QED
    BY <1>8
<1>10. \A x \in Objects : visit[x] = next(x, visit)
  <2> HIDE DEF visit, next
  <2> QED
    BY <1>9
<1>11. \A x : VisitsFrom(b, ow, top, x) = visit[x]
  BY DEF VisitsFrom
<1> HIDE DEF visit
<1> QED
  BY <1>10, <1>11

(* The iteration visits exactly the names the look-up finds.               *)
LEMMA VisitsAreVisible ==
    ASSUME NEW b, Chained(b), NEW ow, NEW top \in Objects
    PROVE  /\ VisitsFrom(b, ow, top, top) \in Seq(Names)
           /\ Range(VisitsFrom(b, ow, top, top)) = { n \in Names : LookUp(b, ow, top, n) # NoCap }
<1> DEFINE Reached(x) ==
              /\ VisitsFrom(b, ow, top, x) \in Seq(Names)
              /\ \A n \in Range(VisitsFrom(b, ow, top, x)) : n \in Names /\ LookUp(b, ow, x, n) # NoCap
              /\ \A n \in Names :
                    LookUp(b, ow, x, n) = LookUp(b, ow, top, n) /\ LookUp(b, ow, x, n) # NoCap =>
                       n \in Range(VisitsFrom(b, ow, top, x))
           T == { x \in Objects : Reached(x) }
<1>1. \A x \in Objects, n \in Names : <<x, n>> # NoCap
  BY CapabilitiesAssumption
<1>2. Inverter \in Objects /\ \A f \in Filters : f \in Objects /\ f # Inverter /\ b[f] \in Objects
  BY CapabilitiesAssumption DEF Objects, Chained
<1>3. ASSUME NEW x \in Objects, NEW rest \in Seq(Names),
             VisitsFrom(b, ow, top, x) = VisitedAt(b, ow, top, x) \o rest,
             \A n \in Range(rest) : LookUp(b, ow, x, n) # NoCap,
             \A n \in Names : n \notin ow[x] /\ LookUp(b, ow, x, n) = LookUp(b, ow, top, n)
                                /\ LookUp(b, ow, x, n) # NoCap => n \in Range(rest)
      PROVE  Reached(x)
  <2>1. PICK s : s = VisitedAt(b, ow, top, x)
    OBVIOUS
  <2>2. /\ s \in Seq(Names) /\ Range(s) \subseteq ow[x]
        /\ \A n \in Names : n \in ow[x] /\ LookUp(b, ow, top, n) = <<x, n>> => n \in Range(s)
    BY <2>1, VisitedFacts
  <2>3. s \o rest \in Seq(Names) /\ Range(s \o rest) = Range(s) \cup Range(rest)
    BY <2>2, ConcatRange
  <2>4. VisitsFrom(b, ow, top, x) = s \o rest
    BY <1>3, <2>1
  <2>5. \A n \in Names : n \in ow[x] => LookUp(b, ow, x, n) = <<x, n>>
    BY LookUpUnfolds
  <2>6. Range(s) \subseteq Names /\ Range(rest) \subseteq Names
    BY <2>2 DEF Range
  <2>7. \A n \in Range(s) : LookUp(b, ow, x, n) # NoCap
    BY <1>1, <2>2, <2>5, <2>6
  <2>8. ASSUME NEW n \in Names, LookUp(b, ow, x, n) = LookUp(b, ow, top, n), LookUp(b, ow, x, n) # NoCap
        PROVE  n \in Range(s \o rest)
    <3>1. CASE n \in ow[x]
      BY <2>2, <2>3, <2>5, <2>8, <3>1
    <3>2. CASE n \notin ow[x]
      BY <1>3, <2>3, <2>8, <3>2
    <3> QED
      BY <3>1, <3>2
  <2> QED
    BY <1>3, <2>3, <2>4, <2>6, <2>7, <2>8
<1>4. Inverter \in T
  <2>1. VisitsFrom(b, ow, top, Inverter) = VisitedAt(b, ow, top, Inverter) \o <<>>
    BY <1>2, VisitsUnfold
  <2>2. \A n \in Names : n \notin ow[Inverter] => LookUp(b, ow, Inverter, n) = NoCap
    BY <1>2, LookUpUnfolds
  <2>3. <<>> \in Seq(Names) /\ Range(<<>>) = {}
    BY DEF Range
  <2>4. Reached(Inverter)
    <3> HIDE DEF Reached
    <3> QED
      BY <1>2, <1>3, <2>1, <2>2, <2>3
  <2> QED
    BY <1>2, <2>4
<1>5. ASSUME NEW f \in Filters, b[f] \in T PROVE f \in T
  <2>1. PICK rest : rest = VisitsFrom(b, ow, top, b[f])
    OBVIOUS
  <2>2. VisitsFrom(b, ow, top, f) = VisitedAt(b, ow, top, f) \o rest
    BY <1>2, <2>1, VisitsUnfold
  <2>3. \A n : n \notin ow[f] => LookUp(b, ow, f, n) = LookUp(b, ow, b[f], n)
    BY <1>2, LookUpUnfolds
  <2>4. \A n \in Names : n \in ow[f] => LookUp(b, ow, f, n) = <<f, n>>
    BY <1>2, LookUpUnfolds
  <2>5. /\ rest \in Seq(Names)
        /\ \A n \in Range(rest) : n \in Names /\ LookUp(b, ow, b[f], n) # NoCap
        /\ \A n \in Names :
              LookUp(b, ow, b[f], n) = LookUp(b, ow, top, n) /\ LookUp(b, ow, b[f], n) # NoCap =>
                 n \in Range(rest)
    BY <1>5, <2>1
  <2>6. \A n \in Range(rest) : LookUp(b, ow, f, n) # NoCap
    BY <1>1, <1>2, <2>3, <2>4, <2>5
  <2>7. Reached(f)
    <3> HIDE DEF Reached
    <3> QED
      BY <1>2, <1>3, <2>2, <2>3, <2>5, <2>6
  <2> QED
    BY <1>2, <2>7
<1>6. top \in T
  <2>1. Objects \subseteq T
    <3> HIDE DEF T
    <3> QED
      BY ONLY Chained(b), <1>4, <1>5, Downstream
  <2> QED
    BY <2>1
<1> QED
  BY <1>6

LEMMA IterationFacts ==
    ASSUME Chained(base), NEW o \in Objects
    PROVE  Iterate(o) \in Seq(Names) /\ Range(Iterate(o)) = Visible(o)
<1>1. \A n : Concrete(o, n) = LookUp(base, owned, o, n)
  BY ConcreteLooksUp
<1>2. Visible(o) = { n \in Names : LookUp(base, owned, o, n) # NoCap }
  BY <1>1 DEF Visible
<1>3. Iterate(o) = VisitsFrom(base, owned, o, o)
  BY IterateVisits
<1> QED
  BY <1>2, <1>3, VisitsAreVisible

-----------------------------------------------------------------------------
(* Joining sequences.                                                      *)

\* f[i] joins the first i sequences of ss.
Joins(f, n, ss) == f[1] = ss[1] /\ \A i \in 2..n : f[i] = f[i - 1] \o ss[i]

LEMMA FlattenUnfolds ==
    ASSUME NEW S, NEW ss \in Seq(Seq(S)), NEW n, n = Len(ss), n # 0
    PROVE  \E f \in [1..n -> Seq(S)] : FlattenSeq(ss) = f[n] /\ Joins(f, n, ss)
<1> DEFINE next(i, g) == IF i = 1 THEN ss[i] ELSE g[i - 1] \o ss[i]
           Def(g) == [i \in 1..n |-> next(i, g)]
           flatten == CHOOSE g : g = Def(g)
<1>1. n \in Nat /\ 1 \in 1..n /\ n \in 1..n /\ \A i \in 1..n : ss[i] \in Seq(S)
  OBVIOUS
<1>2. \A i \in 1..n : i = 1 \/ (i - 1 \in 1..n /\ i - 1 < i)
  BY ONLY <1>1
<1>3. PICK V : V = Seq(S)
  OBVIOUS
<1>4. ASSUME NEW i \in 1..n, NEW g \in [1..n -> V] PROVE next(i, g) \in V
  <2>1. \A s, t \in Seq(S) : s \o t \in Seq(S)
    OBVIOUS
  <2>2. i # 1 => g[i - 1] \in Seq(S)
    BY <1>2, <1>3
  <2> QED
    BY <1>1, <1>3, <2>1, <2>2
<1>5. PICK step : step = [i \in 1..n |-> [g \in [1..n -> V] |-> next(i, g)]]
  OBVIOUS
<1>6. step \in [1..n -> [[1..n -> V] -> V]]
  <2> HIDE DEF next
  <2> QED
    BY <1>4, <1>5
<1>7. PICK rank : rank = [i \in 1..n |-> i]
  OBVIOUS
<1>8. rank \in [1..n -> 0..n]
  BY <1>1, <1>7
<1>9. ASSUME NEW i \in 1..n, NEW g \in [1..n -> V], NEW h \in [1..n -> V],
             \A j \in 1..n : rank[j] < rank[i] => g[j] = h[j]
      PROVE  step[i][g] = step[i][h]
  <2>1. i # 1 => g[i - 1] = h[i - 1]
    BY <1>2, <1>7, <1>9
  <2>2. next(i, g) = next(i, h)
    BY <2>1
  <2> HIDE DEF next
  <2> QED
    BY <1>5, <2>2
<1>10. PICK f \in [1..n -> V] : Fixpoint(f, 1..n, step)
  <2>1. <<>> \in V
    BY <1>3
  <2>2. LooksDown(n, 1..n, V, rank, step)
    BY ONLY <1>1, <1>6, <1>8, <1>9 DEF LooksDown
  <2> QED
    BY <2>1, <2>2, RankRecursion
<1>11. f = Def(f)
  <2> HIDE DEF next
  <2> QED
    BY <1>5, <1>10 DEF Fixpoint
<1>12. flatten = Def(flatten)
  <2> HIDE DEF Def
  <2> QED
    BY <1>11
<1>13. \A i \in 1..n : flatten[i] = next(i, flatten)
  <2> HIDE DEF flatten, next
  <2> QED
    BY <1>12
<1> DEFINE T == { i \in 0..n : i = 0 \/ flatten[i] \in Seq(S) }
<1>14. 0..n \subseteq T
  <2>1. 0 \in T
    BY <1>1
  <2>2. ASSUME NEW i \in 0..n, i \in T, i # n PROVE i + 1 \in T
    <3> HIDE DEF flatten
    <3>1. i + 1 \in 1..n /\ (i + 1) - 1 = i /\ i + 1 \in 0..n
      BY <1>1, <2>2
    <3>2. flatten[i + 1] = IF i = 0 THEN ss[i + 1] ELSE flatten[i] \o ss[i + 1]
      BY <1>13, <3>1
    <3>3. \A s, t \in Seq(S) : s \o t \in Seq(S)
      OBVIOUS
    <3> QED
      BY <1>1, <2>2, <3>1, <3>2, <3>3
  <2> HIDE DEF T
  <2> QED
    BY ONLY <1>1, <2>1, <2>2, InductionUpTo
<1>15. flatten \in [1..n -> Seq(S)]
  <2>1. ASSUME NEW i \in 1..n PROVE flatten[i] \in Seq(S)
    <3>1. i \in 0..n /\ i # 0
      BY <1>1
    <3> HIDE DEF flatten
    <3> QED
      BY <1>14, <3>1
  <2> HIDE DEF flatten, next
  <2> QED
    BY <1>12, <2>1
<1>16. FlattenSeq(ss) = flatten[n]
  BY DEF FlattenSeq
<1>17. Joins(flatten, n, ss)
  <2> HIDE DEF flatten
  <2>1. flatten[1] = ss[1]
    BY <1>1, <1>13
  <2>2. ASSUME NEW i \in 2..n PROVE flatten[i] = flatten[i - 1] \o ss[i]
    <3>1. i \in 1..n /\ i # 1
      BY <1>1
    <3> QED
      BY <1>13, <3>1
  <2> QED
    BY <2>1, <2>2 DEF Joins
<1> HIDE DEF flatten
<1> QED
  BY <1>15, <1>16, <1>17

(* The joined sequence has the elements of all; if none is in two places,  *)
(* it repeats none.                                                        *)
LEMMA FlattenFacts ==
    ASSUME NEW S, NEW ss \in Seq(Seq(S)), NEW n, n = Len(ss)
    PROVE  /\ FlattenSeq(ss) \in Seq(S)
           /\ \A e : e \in Range(FlattenSeq(ss)) <=> \E i \in 1..n : e \in Range(ss[i])
           /\ (/\ \A i \in 1..n : IsInjective(ss[i])
               /\ \A i, j \in 1..n : i # j => Range(ss[i]) \cap Range(ss[j]) = {})
              => IsInjective(FlattenSeq(ss))
<1>1. n \in Nat /\ \A i \in 1..n : ss[i] \in Seq(S)
  OBVIOUS
<1>2. CASE n = 0
  <2>a. Len(ss) = 0 /\ ss = <<>>
    <3>1. PICK U : U = Seq(S)
      OBVIOUS
    <3>2. ss \in Seq(U) /\ Len(ss) = 0
      BY <1>2, <3>1
    <3>3. ss = <<>>
      BY ONLY <3>2
    <3> QED
      BY <3>2, <3>3
  <2>1. FlattenSeq(ss) = <<>>
    BY ONLY <2>a DEF FlattenSeq
  <2> QED
    BY <1>2, <2>1 DEF Range, IsInjective
<1>3. CASE n # 0
  <2>1. PICK f \in [1..n -> Seq(S)] : FlattenSeq(ss) = f[n] /\ Joins(f, n, ss)
    BY <1>3, FlattenUnfolds
  <2> DEFINE Apart == /\ \A i \in 1..n : IsInjective(ss[i])
                      /\ \A i, j \in 1..n : i # j => Range(ss[i]) \cap Range(ss[j]) = {}
             Good(m) == /\ \A e : e \in Range(f[m]) <=> \E i \in 1..m : e \in Range(ss[i])
                        /\ Apart => IsInjective(f[m])
             T == { m \in 0..n : m = 0 \/ Good(m) }
  <2>2. 0 \in T
    BY <1>1
  <2>3. ASSUME NEW m \in 0..n, m \in T, m # n PROVE m + 1 \in T
    <3>1. m + 1 \in 1..n /\ (m + 1) - 1 = m /\ m + 1 \in 0..n /\ m \in Nat
      BY <1>1, <2>3
    <3>2. CASE m = 0
      <4>1. f[1] = ss[1] /\ m + 1 = 1
        BY <2>1, <3>2 DEF Joins
      <4>2. \A i : i \in 1..1 <=> i = 1
        OBVIOUS
      <4>3. Good(1)
        BY <3>1, <4>1, <4>2
      <4> QED
        BY <3>1, <4>1, <4>3
    <3>3. CASE m # 0
      <4>1. m \in 1..n /\ m + 1 \in 2..n
        BY <1>1, <3>1, <3>3
      <4>2. f[m + 1] = f[m] \o ss[m + 1] /\ f[m] \in Seq(S) /\ ss[m + 1] \in Seq(S)
        BY <1>1, <2>1, <3>1, <4>1 DEF Joins
      <4>3. Good(m)
        BY <2>3, <3>3
      <4>4. Range(f[m + 1]) = Range(f[m]) \cup Range(ss[m + 1])
        BY <4>2, ConcatRange
      <4>5. \A i : i \in 1..(m + 1) <=> i \in 1..m \/ i = m + 1
        BY <3>1
      <4>6. \A e : e \in Range(f[m + 1]) <=> \E i \in 1..(m + 1) : e \in Range(ss[i])
        BY <4>3, <4>4, <4>5
      <4>7. ASSUME Apart PROVE IsInjective(f[m + 1])
        <5>1. IsInjective(f[m]) /\ IsInjective(ss[m + 1])
          BY <3>1, <4>3, <4>7
        <5>2. \A i \in 1..m : i \in 1..n /\ i # m + 1
          BY <3>1, <4>1
        <5>3. Range(f[m]) \cap Range(ss[m + 1]) = {}
          BY <3>1, <4>3, <4>7, <5>2
        <5> QED
          BY <4>2, <5>1, <5>3, ConcatRange
      <4> QED
        BY <3>1, <4>6, <4>7
    <3> QED
      BY <3>2, <3>3
  <2>4. 0..n \subseteq T
    <3> HIDE DEF T
    <3> QED
      BY ONLY <1>1, <2>2, <2>3, InductionUpTo
  <2>5. Good(n)
    <3>1. n \in 0..n
      BY <1>1
    <3> HIDE DEF Good
    <3> QED
      BY <1>3, <2>4, <3>1
  <2>6. f[n] \in Seq(S)
    BY <1>1, <1>3, <2>1
  <2> QED
    BY <2>1, <2>5, <2>6
<1> QED
  BY <1>2, <1>3

-----------------------------------------------------------------------------
(* Who is told the news.                                                   *)

\* Told() as an operator of the state it reads.
ToldBy(obs, k, o) ==
    LET told[x \in Objects] ==
            LET ob == obs[<<x, Updated>>]
            IN  FlattenSeq([i \in 1 .. Len(ob) |->
                    <<ob[i]>> \o (IF k[ob[i]] = "dump" THEN <<>> ELSE told[ob[i]])])
    IN  told[o]

LEMMA ToldIsToldBy ==
    ASSUME NEW o PROVE Told(o) = ToldBy(observers, kind, o)
BY DEF Told, ToldBy

\* The observers of the names of x are filters that have x as their source.
Attached(obs, b) ==
    \A x \in Objects :
        LET ob == obs[<<x, Updated>>]
        IN  ob \in Seq(Filters) /\ IsInjective(ob) /\ \A f \in Range(ob) : b[f] = x

\* What the observers w of an object make of the news.
PassedOn(obs, k, w) ==
    FlattenSeq([i \in 1 .. Len(w) |->
        <<w[i]>> \o (IF k[w[i]] = "dump" THEN <<>> ELSE ToldBy(obs, k, w[i]))])

LEMMA ToldUnfolds ==
    ASSUME NEW b, Chained(b), NEW obs, Attached(obs, b), NEW k, NEW o \in Objects
    PROVE  /\ ToldBy(obs, k, o) = PassedOn(obs, k, obs[<<o, Updated>>])
           /\ ToldBy(obs, k, o) \in Seq(Filters)
<1> DEFINE part(w, g, i) == <<w[i]>> \o (IF k[w[i]] = "dump" THEN <<>> ELSE g[w[i]])
           flat(w, g) == FlattenSeq([i \in 1 .. Len(w) |-> part(w, g, i)])
           next(x, g) == flat(obs[<<x, Updated>>], g)
           Def(g) == [x \in Objects |-> next(x, g)]
           told == CHOOSE g : g = Def(g)
<1>1. PICK V : V = Seq(Filters)
  OBVIOUS
<1>2. Filters \subseteq Objects
  BY DEF Objects
<1>3. ASSUME NEW x \in Objects, NEW g, \A f \in Filters : b[f] = x => g[f] \in Seq(Filters)
      PROVE  next(x, g) \in Seq(Filters)
  <2>1. PICK w : w = obs[<<x, Updated>>]
    OBVIOUS
  <2>2. w \in Seq(Filters) /\ \A f \in Range(w) : b[f] = x
    BY <2>1 DEF Attached
  <2>3. PICK m : m = Len(w)
    OBVIOUS
  <2>4. m \in Nat /\ \A i \in 1..m : w[i] \in Filters /\ b[w[i]] = x
    BY <2>2, <2>3 DEF Range
  <2>5. ASSUME NEW i \in 1..m PROVE part(w, g, i) \in Seq(Filters)
    <3>1. <<w[i]>> \in Seq(Filters) /\ <<>> \in Seq(Filters) /\ g[w[i]] \in Seq(Filters)
      BY <1>3, <2>4
    <3>2. \A s, t \in Seq(Filters) : s \o t \in Seq(Filters)
      OBVIOUS
    <3> QED
      BY <3>1, <3>2
  <2>6. PICK ss : ss = [i \in 1..m |-> part(w, g, i)]
    OBVIOUS
  <2>7. ss \in Seq(Seq(Filters))
    <3> HIDE DEF part
    <3> QED
      BY <2>4, <2>5, <2>6
  <2>8. FlattenSeq(ss) \in Seq(Filters)
    BY <2>7, FlattenFacts
  <2> QED
    BY <2>1, <2>3, <2>6, <2>8
<1>4. PICK step : step = [x \in Objects |-> [g \in [Objects -> V] |-> next(x, g)]]
  OBVIOUS
<1>5. step \in [Objects -> [[Objects -> V] -> V]]
  <2>1. \A x \in Objects, g \in [Objects -> V] : next(x, g) \in V
    <3> HIDE DEF next
    <3> QED
      BY <1>1, <1>2, <1>3
  <2> HIDE DEF next
  <2> QED
    BY <1>4, <2>1
<1>6. ASSUME NEW x \in Objects, NEW g, NEW h, \A f \in Filters : b[f] = x => g[f] = h[f]
      PROVE  next(x, g) = next(x, h)
  <2>1. PICK w : w = obs[<<x, Updated>>]
    OBVIOUS
  <2>2. w \in Seq(Filters) /\ \A f \in Range(w) : b[f] = x
    BY <2>1 DEF Attached
  <2>3. \A i \in 1..Len(w) : g[w[i]] = h[w[i]]
    BY <1>6, <2>2 DEF Range
  <2>4. \A i \in 1..Len(w) : part(w, g, i) = part(w, h, i)
    BY <2>3
  <2>5. [i \in 1..Len(w) |-> part(w, g, i)] = [i \in 1..Len(w) |-> part(w, h, i)]
    <3> HIDE DEF part
    <3> QED
      BY <2>4
  <2> HIDE DEF part
  <2> QED
    BY <2>1, <2>5
<1>7. PICK n, rank0 : n = Len(Loggers) /\ Ranks(rank0, b)
  BY Ranked
<1>8. n \in Nat
  BY <1>7, FiltersAssumption
<1>9. /\ \A x \in Objects : rank0[x] \in 0..n
      /\ \A f \in Filters : rank0[b[f]] < rank0[f]
  BY <1>7 DEF Ranks
<1>10. PICK rank : rank = [x \in Objects |-> n - rank0[x]]
  OBVIOUS
<1>11. rank \in [Objects -> 0..n]
  BY <1>8, <1>9, <1>10
<1>12. ASSUME NEW x \in Objects, NEW g \in [Objects -> V], NEW h \in [Objects -> V],
              \A y \in Objects : rank[y] < rank[x] => g[y] = h[y]
       PROVE  step[x][g] = step[x][h]
  <2>1. ASSUME NEW f \in Filters, b[f] = x PROVE g[f] = h[f]
    <3>1. rank[f] < rank[x]
      BY <1>2, <1>8, <1>9, <1>10, <2>1
    <3> QED
      BY <1>2, <1>12, <3>1
  <2> HIDE DEF next
  <2>2. next(x, g) = next(x, h)
    BY <1>6, <2>1
  <2> QED
    BY <1>4, <2>2
<1>13. PICK f \in [Objects -> V] : Fixpoint(f, Objects, step)
  <2>1. <<>> \in V
    BY <1>1
  <2>2. LooksDown(n, Objects, V, rank, step)
    BY ONLY <1>8, <1>5, <1>11, <1>12 DEF LooksDown
  <2> QED
    BY <2>1, <2>2, RankRecursion
<1>14. f = Def(f)
  <2> HIDE DEF next
  <2> QED
    BY <1>4, <1>13 DEF Fixpoint
<1>15. told = Def(told)
  <2> HIDE DEF Def
  <2> QED
    BY <1>14
<1>16. \A x \in Objects : told[x] = next(x, told)
  <2> HIDE DEF told, next
  <2> QED
    BY <1>15
<1>17. \A x : ToldBy(obs, k, x) = told[x]
  BY DEF ToldBy
<1>18. told[o] \in Seq(Filters)
  <2> DEFINE T == { x \in Objects : told[x] \in Seq(Filters) }
  <2> HIDE DEF told, next
  <2>1. ASSUME NEW x \in Objects, \A g \in Filters : b[g] = x => g \in T
        PROVE  x \in T
    BY <1>3, <1>16, <2>1
  <2>2. Objects \subseteq T
    <3> HIDE DEF T
    <3> QED
      BY ONLY Chained(b), <2>1, Upstream
  <2> QED
    BY <2>2
<1>19. told[o] = flat(obs[<<o, Updated>>], told)
  <2> HIDE DEF told
  <2> QED
    BY <1>16
<1>20. ToldBy(obs, k, o) = PassedOn(obs, k, obs[<<o, Updated>>])
  <2> HIDE DEF told
  <2>1. PICK w : w = obs[<<o, Updated>>]
    OBVIOUS
  <2>2. \A i : part(w, told, i) =
           <<w[i]>> \o (IF k[w[i]] = "dump" THEN <<>> ELSE ToldBy(obs, k, w[i]))
    BY <1>17
  <2>3. [i \in 1 .. Len(w) |-> part(w, told, i)] =
        [i \in 1 .. Len(w) |->
           <<w[i]>> \o (IF k[w[i]] = "dump" THEN <<>> ELSE ToldBy(obs, k, w[i]))]
    BY ONLY <2>2
  <2>4. PassedOn(obs, k, w) = flat(w, told)
    BY <2>3 DEF PassedOn
  <2> HIDE DEF flat
  <2> QED
    BY <1>17, <1>19, <2>1, <2>4
<1> HIDE DEF told
<1> QED
  BY <1>17, <1>18, <1>20

-----------------------------------------------------------------------------
(* The columns of a CSV file.                                              *)

\* f[i] is cols with what is missing of the first i names of w.
Adds(f, n, cols, w) ==
    /\ f[0] = cols
    /\ \A i \in 1..n : f[i] = IF Missing(cols, w, i) THEN Append(f[i - 1], w[i]) ELSE f[i - 1]

LEMMA ExtendedUnfolds ==
    ASSUME NEW S, NEW cols \in Seq(S), NEW w \in Seq(S), NEW n, n = Len(w)
    PROVE  \E f \in [0..n -> Seq(S)] : Extended(cols, w) = f[n] /\ Adds(f, n, cols, w)
<1> DEFINE next(i, v) == IF Missing(cols, w, i) THEN Append(v, w[i]) ELSE v
           value0(i, g) == IF i = 0 THEN cols ELSE next(i, g[i - 1])
           Def(g) == [i \in 0..n |-> value0(i, g)]
           added == CHOOSE g : g = Def(g)
<1>1. n \in Nat /\ 0 \in 0..n /\ \A i \in 1..n : w[i] \in S
  OBVIOUS
<1>2. /\ \A i \in 0..n : i = 0 \/ (i \in 1..n /\ i - 1 \in 0..n /\ i - 1 < i)
      /\ \A i \in 1..n : i # 0 /\ i \in 0..n /\ i - 1 \in 0..n
  BY ONLY <1>1
<1>3. PICK V : V = Seq(S)
  OBVIOUS
<1>4. ASSUME NEW i \in 0..n, NEW g \in [0..n -> V] PROVE value0(i, g) \in V
  <2>1. \A v \in Seq(S), e \in S : Append(v, e) \in Seq(S)
    OBVIOUS
  <2> QED
    BY <1>1, <1>2, <1>3, <2>1
<1>5. PICK step : step = [i \in 0..n |-> [g \in [0..n -> V] |-> value0(i, g)]]
  OBVIOUS
<1>6. step \in [0..n -> [[0..n -> V] -> V]]
  <2> HIDE DEF value0
  <2> QED
    BY <1>4, <1>5
<1>7. PICK rank : rank = [i \in 0..n |-> i]
  OBVIOUS
<1>8. rank \in [0..n -> 0..n]
  BY <1>7
<1>9. ASSUME NEW i \in 0..n, NEW g \in [0..n -> V], NEW h \in [0..n -> V],
             \A j \in 0..n : rank[j] < rank[i] => g[j] = h[j]
      PROVE  step[i][g] = step[i][h]
  <2>1. i # 0 => g[i - 1] = h[i - 1]
    BY <1>2, <1>7, <1>9
  <2>2. value0(i, g) = value0(i, h)
    BY <2>1
  <2> HIDE DEF value0
  <2> QED
    BY <1>5, <2>2
<1>10. PICK f \in [0..n -> V] : Fixpoint(f, 0..n, step)
  <2>1. <<>> \in V
    BY <1>3
  <2>2. LooksDown(n, 0..n, V, rank, step)
    BY ONLY <1>1, <1>6, <1>8, <1>9 DEF LooksDown
  <2> QED
    BY <2>1, <2>2, RankRecursion
<1>11. f = Def(f)
  <2> HIDE DEF value0
  <2> QED
    BY <1>5, <1>10 DEF Fixpoint
<1>12. added = Def(added)
  <2> HIDE DEF Def
  <2> QED
    BY <1>11
<1>13. \A i \in 0..n : added[i] = value0(i, added)
  <2> HIDE DEF added, value0
  <2> QED
    BY <1>12
<1>14. Adds(added, n, cols, w)
  <2> HIDE DEF added
  <2>1. added[0] = cols
    BY <1>1, <1>13
  <2>2. ASSUME NEW i \in 1..n PROVE added[i] = next(i, added[i - 1])
    BY <1>2, <1>13
  <2> QED
    BY <2>1, <2>2 DEF Adds
<1> DEFINE T == { i \in 0..n : added[i] \in Seq(S) }
<1>15. 0..n \subseteq T
  <2>1. 0 \in T
    <3> HIDE DEF added
    <3> QED
      BY <1>1, <1>14 DEF Adds
  <2>2. ASSUME NEW i \in 0..n, i \in T, i # n PROVE i + 1 \in T
    <3> HIDE DEF added
    <3>1. i + 1 \in 1..n /\ (i + 1) - 1 = i /\ i + 1 \in 0..n
      BY <1>1, <2>2
    <3>2. added[i + 1] = IF Missing(cols, w, i + 1) THEN Append(added[i], w[i + 1]) ELSE added[i]
      BY <1>14, <3>1 DEF Adds
    <3>3. w[i + 1] \in S
      BY <1>1, <3>1
    <3>4. added[i] \in Seq(S)
      BY <2>2
    <3>5. added[i + 1] \in Seq(S)
      BY ONLY <3>2, <3>3, <3>4
    <3> QED
      BY <3>1, <3>5
  <2> HIDE DEF T
  <2> QED
    BY ONLY <1>1, <2>1, <2>2, InductionUpTo
<1>16. added \in [0..n -> Seq(S)]
  <2>1. \A i \in 0..n : added[i] \in Seq(S)
    BY <1>15
  <2> HIDE DEF added, value0
  <2> QED
    BY <1>12, <2>1
<1>17. Extended(cols, w) = added[n]
  BY DEF Extended
<1> HIDE DEF added
<1> QED
  BY <1>14, <1>16, <1>17

\* t goes on where s ends.
GoesOn(s, t) == Len(s) <= Len(t) /\ \A i \in 1..Len(s) : t[i] = s[i]

(* The columns stay where they are, and every wanted name gets one.        *)
LEMMA ExtendedFacts ==
    ASSUME NEW S, NEW cols \in Seq(S), NEW w \in Seq(S)
    PROVE  /\ Extended(cols, w) \in Seq(S)
           /\ Range(Extended(cols, w)) = Range(cols) \cup Range(w)
           /\ IsInjective(cols) => IsInjective(Extended(cols, w))
           /\ GoesOn(cols, Extended(cols, w))
<1>0. PICK n : n = Len(w)
  OBVIOUS
<1>1. n \in Nat /\ DOMAIN w = 1..n /\ \A i \in 1..n : w[i] \in S
  BY <1>0
<1>2. PICK f \in [0..n -> Seq(S)] : Extended(cols, w) = f[n] /\ Adds(f, n, cols, w)
  BY <1>0, ExtendedUnfolds
<1> DEFINE Upto(i) == { w[j] : j \in 1..i }
           Good(i) == /\ Range(f[i]) = Range(cols) \cup Upto(i)
                      /\ IsInjective(cols) => IsInjective(f[i])
                      /\ GoesOn(cols, f[i])
           T == { i \in 0..n : Good(i) }
<1>3. 0 \in T
  <2>1. f[0] = cols /\ Upto(0) = {} /\ 0 \in 0..n
    BY <1>1, <1>2 DEF Adds
  <2>2. GoesOn(cols, cols)
    BY DEF GoesOn
  <2> HIDE DEF Upto
  <2> QED
    BY <2>1, <2>2
<1>4. ASSUME NEW i \in 0..n, i \in T, i # n PROVE i + 1 \in T
  <2>a. i \in 0..n /\ i # n
    BY <1>4
  <2>1. i + 1 \in 1..n /\ (i + 1) - 1 = i /\ i + 1 \in 0..n
    BY ONLY <1>1, <2>a
  <2>2. f[i + 1] = IF Missing(cols, w, i + 1) THEN Append(f[i], w[i + 1]) ELSE f[i]
    BY <1>2, <2>1 DEF Adds
  <2>3. i \in Nat /\ \A j : j \in 1..(i + 1) <=> j \in 1..i \/ j = i + 1
    BY ONLY <1>1, <2>a
  <2>4. Upto(i + 1) = Upto(i) \cup {w[i + 1]}
    BY ONLY <2>3
  <2>5. f[i] \in Seq(S) /\ w[i + 1] \in S
    BY <1>1, <1>2, <2>1
  <2>6. Good(i)
    BY <1>4
  <2>7. Missing(cols, w, i + 1) <=> w[i + 1] \notin Range(f[i])
    <3>1. Missing(cols, w, i + 1) <=> w[i + 1] \notin Range(cols) /\ \A j \in 1..i : w[j] # w[i + 1]
      BY <2>1 DEF Missing
    <3>2. w[i + 1] \in Upto(i) <=> \E j \in 1..i : w[j] = w[i + 1]
      OBVIOUS
    <3> HIDE DEF Upto
    <3> QED
      BY <2>6, <3>1, <3>2
  <2>8. CASE ~Missing(cols, w, i + 1)
    <3> HIDE DEF Upto
    <3>1. f[i + 1] = f[i] /\ Range(f[i]) = Range(cols) \cup Upto(i + 1)
      BY <2>2, <2>4, <2>6, <2>7, <2>8
    <3> QED
      BY <2>1, <2>6, <3>1
  <2>9. CASE Missing(cols, w, i + 1)
    <3>1. PICK e : e = w[i + 1]
      OBVIOUS
    <3>2. f[i + 1] = Append(f[i], e) /\ e \in S /\ e \notin Range(f[i])
      BY <2>2, <2>5, <2>7, <2>9, <3>1
    <3>3. /\ Range(f[i + 1]) = Range(f[i]) \cup {e}
          /\ IsInjective(f[i]) => IsInjective(f[i + 1])
      BY <2>5, <3>2, AppendRange
    <3>4. GoesOn(cols, f[i + 1])
      <4>1. Len(f[i + 1]) = Len(f[i]) + 1 /\ \A j \in 1..Len(f[i]) : f[i + 1][j] = f[i][j]
        BY <2>5, <3>2
      <4>2. Len(cols) \in Nat /\ Len(f[i]) \in Nat /\ GoesOn(cols, f[i])
        BY <2>5, <2>6
      <4>3. ASSUME NEW j \in 1..Len(cols) PROVE f[i + 1][j] = cols[j]
        <5>1. j \in 1..Len(f[i])
          BY <4>2 DEF GoesOn
        <5>2. f[i][j] = cols[j]
          BY <4>2 DEF GoesOn
        <5> QED
          BY <4>1, <5>1, <5>2
      <4>4. Len(cols) <= Len(f[i + 1])
        BY ONLY <4>1, <4>2 DEF GoesOn
      <4> QED
        BY <4>3, <4>4 DEF GoesOn
    <3> HIDE DEF Upto
    <3> QED
      BY <2>1, <2>4, <2>6, <3>1, <3>3, <3>4
  <2> QED
    BY <2>8, <2>9
<1>a. 0..n \subseteq T
  <2> HIDE DEF T
  <2> QED
    BY ONLY <1>1, <1>3, <1>4, InductionUpTo
<1>5. Good(n)
  <2>1. n \in 0..n
    BY <1>1
  <2> HIDE DEF Good
  <2> QED
    BY <1>a, <2>1
<1>6. Upto(n) = Range(w) /\ f[n] \in Seq(S)
  BY <1>1, <1>2 DEF Range
<1> HIDE DEF Upto
<1> QED
  BY <1>2, <1>5, <1>6

(* A sequence of names that repeats none is not longer than NameOrder.     *)
LEMMA NoLongerThanNames ==
    ASSUME NEW s \in Seq(Names), IsInjective(s)
    PROVE  Len(s) <= Len(NameOrder)
<1>1. PICK n, m : n = Len(NameOrder) /\ m = Len(s)
  OBVIOUS
<1>2. n \in Nat /\ m \in Nat /\ DOMAIN NameOrder = 1..n /\ DOMAIN s = 1..m
      /\ \A i \in 1..m : s[i] \in Range(NameOrder)
  BY <1>1, CapabilitiesAssumption DEF Names
<1>3. \A i \in 1..m : \E j \in 1..n : NameOrder[j] = s[i]
  BY <1>2 DEF Range
<1>4. PICK f : f = [i \in 1..m |-> CHOOSE j \in 1..n : NameOrder[j] = s[i]]
  OBVIOUS
<1>5. \A i \in 1..m : f[i] \in 1..n /\ NameOrder[f[i]] = s[i]
  BY <1>3, <1>4
<1>6. f \in [1..m -> 1..n]
  BY <1>4, <1>5
<1>7. ASSUME NEW i \in 1..m, NEW j \in 1..m, f[i] = f[j] PROVE i = j
  BY <1>2, <1>5, <1>7 DEF IsInjective
<1>8. IsFiniteSet(1..m) /\ IsFiniteSet(1..n) /\ Cardinality(1..m) = m /\ Cardinality(1..n) = n
  <2>1. 1 \in Int /\ m \in Int /\ n \in Int
    BY <1>2
  <2> QED
    BY <1>2, <2>1, FS_Interval
<1>9. ~ (n < m)
  <2> SUFFICES ASSUME n < m PROVE FALSE
    OBVIOUS
  <2>1. \E i, j \in 1..m : i # j /\ f[i] = f[j]
    BY <1>6, <1>8, FS_PigeonHole
  <2> QED
    BY <1>7, <2>1
<1> QED
  BY <1>1, <1>2, <1>9

\* The filters that get the news of x.
Hears(obs, k, x) == Range(ToldBy(obs, k, x))

(* Told are the observers, and whom those tell that do not put it off.     *)
LEMMA ToldMembers ==
    ASSUME NEW b, Chained(b), NEW obs, Attached(obs, b), NEW k, NEW x \in Objects
    PROVE  /\ ToldBy(obs, k, x) \in Seq(Filters) /\ Hears(obs, k, x) \subseteq Filters
           /\ \A e : e \in Hears(obs, k, x) <=>
                \E f \in Range(obs[<<x, Updated>>]) : e = f \/ (k[f] # "dump" /\ e \in Hears(obs, k, f))
<1>1. PICK w, n : w = obs[<<x, Updated>>] /\ n = Len(w)
  OBVIOUS
<1>2. w \in Seq(Filters) /\ n \in Nat /\ DOMAIN w = 1..n
  BY <1>1 DEF Attached
<1>3. \A f \in Filters : f \in Objects
  BY DEF Objects
<1> DEFINE part(i) == <<w[i]>> \o (IF k[w[i]] = "dump" THEN <<>> ELSE ToldBy(obs, k, w[i]))
<1>4. ASSUME NEW i \in 1..n
      PROVE  /\ part(i) \in Seq(Filters)
             /\ \A e : e \in Range(part(i)) <=>
                   e = w[i] \/ (k[w[i]] # "dump" /\ e \in Hears(obs, k, w[i]))
  <2>1. PICK f : f = w[i]
    OBVIOUS
  <2>2. f \in Filters /\ f \in Objects
    BY <1>2, <1>3, <2>1
  <2>3. PICK t : t = IF k[f] = "dump" THEN <<>> ELSE ToldBy(obs, k, f)
    OBVIOUS
  <2>4. ToldBy(obs, k, f) \in Seq(Filters)
    BY <2>2, ToldUnfolds
  <2>5. t \in Seq(Filters) /\ Range(t) = IF k[f] = "dump" THEN {} ELSE Hears(obs, k, f)
    <3>1. Range(<<>>) = {} /\ <<>> \in Seq(Filters)
      BY DEF Range
    <3> QED
      BY <2>3, <2>4, <3>1 DEF Hears
  <2>6. PICK s : s = <<f>>
    OBVIOUS
  <2>7. s \in Seq(Filters) /\ Range(s) = {f}
    BY <2>2, <2>6 DEF Range
  <2>8. s \o t \in Seq(Filters) /\ Range(s \o t) = Range(s) \cup Range(t)
    BY <2>5, <2>7, ConcatRange
  <2>9. part(i) = s \o t
    BY <2>1, <2>3, <2>6
  <2> QED
    BY <2>1, <2>5, <2>7, <2>8, <2>9
<1>5. PICK ss : ss = [i \in 1..n |-> part(i)]
  OBVIOUS
<1>6. ss \in Seq(Seq(Filters)) /\ n = Len(ss) /\ \A i \in 1..n : ss[i] = part(i)
  <2> HIDE DEF part
  <2> QED
    BY <1>2, <1>4, <1>5
<1>7. /\ FlattenSeq(ss) \in Seq(Filters)
      /\ \A e : e \in Range(FlattenSeq(ss)) <=> \E i \in 1..n : e \in Range(ss[i])
  BY <1>6, FlattenFacts
<1>8. ToldBy(obs, k, x) = FlattenSeq(ss)
  <2>1. ToldBy(obs, k, x) = PassedOn(obs, k, w)
    BY <1>1, ToldUnfolds
  <2>2. PassedOn(obs, k, w) = FlattenSeq(ss)
    BY <1>1, <1>5 DEF PassedOn
  <2> QED
    BY ONLY <2>1, <2>2
<1>9. \A e : e \in Hears(obs, k, x) <=>
         \E i \in 1..n : e = w[i] \/ (k[w[i]] # "dump" /\ e \in Hears(obs, k, w[i]))
  <2> HIDE DEF part
  <2> QED
    BY <1>4, <1>6, <1>7, <1>8 DEF Hears
<1>10. \A e : e \in Hears(obs, k, x) <=>
         \E f \in Range(w) : e = f \/ (k[f] # "dump" /\ e \in Hears(obs, k, f))
  BY ONLY <1>2, <1>9 DEF Range
<1>11. Hears(obs, k, x) \subseteq Filters
  BY <1>7, <1>8 DEF Hears, Range
<1> QED
  BY <1>1, <1>7, <1>8, <1>10, <1>11

LEMMA ObserversHear ==
    ASSUME NEW b, Chained(b), NEW obs, Attached(obs, b), NEW x \in Objects,
           NEW f \in Range(obs[<<x, Updated>>])
    PROVE  f \in Filters /\ b[f] = x
BY DEF Attached, Range

(* Whoever hears of x observes x or one that hears of it, and comes later  *)
(* in the configuration.                                                   *)
LEMMA HeardFromSource ==
    ASSUME NEW b, Chained(b), NEW obs, Attached(obs, b), NEW k, NEW rank, Ranks(rank, b)
    PROVE  \A x \in Objects : \A e \in Hears(obs, k, x) :
              e \in Filters /\ (b[e] = x \/ b[e] \in Hears(obs, k, x)) /\ rank[x] < rank[e]
<1> DEFINE T == { x \in Objects : \A e \in Hears(obs, k, x) :
                     e \in Filters /\ (b[e] = x \/ b[e] \in Hears(obs, k, x)) /\ rank[x] < rank[e] }
<1>1. /\ \A x \in Objects : rank[x] \in Int
      /\ \A f \in Filters : f \in Objects /\ rank[b[f]] < rank[f]
  BY FiltersAssumption DEF Ranks, Objects
<1>2. ASSUME NEW x \in Objects, \A f \in Filters : b[f] = x => f \in T PROVE x \in T
  <2> SUFFICES ASSUME NEW e \in Hears(obs, k, x)
               PROVE  e \in Filters /\ (b[e] = x \/ b[e] \in Hears(obs, k, x)) /\ rank[x] < rank[e]
    OBVIOUS
  <2>1. PICK f \in Range(obs[<<x, Updated>>]) : e = f \/ (k[f] # "dump" /\ e \in Hears(obs, k, f))
    BY ToldMembers
  <2>2. f \in Filters /\ b[f] = x /\ f \in Objects /\ rank[x] < rank[f]
    BY <1>1, <2>1, ObserversHear
  <2>3. CASE e = f
    BY <2>2, <2>3
  <2>4. CASE k[f] # "dump" /\ e \in Hears(obs, k, f)
    <3>1. e \in Filters /\ (b[e] = f \/ b[e] \in Hears(obs, k, f)) /\ rank[f] < rank[e]
      BY <1>2, <2>2, <2>4
    <3>2. f \in Hears(obs, k, x) /\ Hears(obs, k, f) \subseteq Hears(obs, k, x)
      BY <2>1, <2>4, ToldMembers
    <3>3. rank[x] < rank[e]
      BY <1>1, <2>2, <3>1
    <3> QED
      BY <3>1, <3>2, <3>3
  <2> QED
    BY <2>1, <2>3, <2>4
<1>3. Objects \subseteq T
  <2> HIDE DEF T
  <2> QED
    BY ONLY Chained(b), <1>2, Upstream
<1> QED
  BY <1>3

(* Two observers of the same source never tell the same filter.            *)
LEMMA HeardOnce ==
    ASSUME NEW b, Chained(b), NEW obs, Attached(obs, b), NEW k,
           NEW f \in Filters, NEW g \in Filters, b[f] = b[g],
           NEW e, e \in {f} \cup Hears(obs, k, f), e \in {g} \cup Hears(obs, k, g)
    PROVE  f = g
<1>1. PICK rank : Ranks(rank, b)
  BY Ranked
<1>2. /\ \A x \in Objects : rank[x] \in Int
      /\ \A h \in Filters : h \in Objects /\ rank[b[h]] < rank[h] /\ b[h] \in Objects
  BY <1>1, FiltersAssumption DEF Ranks, Objects, Chained
<1>3. \A x \in Objects : \A h \in Hears(obs, k, x) :
              h \in Filters /\ (b[h] = x \/ b[h] \in Hears(obs, k, x)) /\ rank[x] < rank[h]
  BY <1>1, HeardFromSource
<1> DEFINE Both(y) == y \in {f} \cup Hears(obs, k, f) /\ y \in {g} \cup Hears(obs, k, g)
           T == { y \in Objects : Both(y) => f = g }
<1>4. Inverter \in T
  <2>1. Inverter \in Objects /\ Inverter \notin Filters
    BY CapabilitiesAssumption DEF Objects
  <2> QED
    BY <1>2, <1>3, <2>1
<1>5. ASSUME NEW y \in Filters, b[y] \in T PROVE y \in T
  <2> SUFFICES ASSUME Both(y), f # g PROVE FALSE
    BY <1>2
  <2>1. CASE y = f
    <3>1. y \in Hears(obs, k, g) /\ b[y] = b[g]
      BY <2>1
    <3>2. b[y] = g \/ b[y] \in Hears(obs, k, g)
      BY <1>2, <1>3, <3>1
    <3>3. rank[g] <= rank[b[g]]
      BY <1>2, <1>3, <3>1, <3>2
    <3> QED
      BY <1>2, <3>3
  <2>2. CASE y = g
    <3>1. y \in Hears(obs, k, f) /\ b[y] = b[f]
      BY <2>2
    <3>2. b[y] = f \/ b[y] \in Hears(obs, k, f)
      BY <1>2, <1>3, <3>1
    <3>3. rank[f] <= rank[b[f]]
      BY <1>2, <1>3, <3>1, <3>2
    <3> QED
      BY <1>2, <3>3
  <2>3. CASE y \in Hears(obs, k, f) /\ y \in Hears(obs, k, g)
    <3>1. Both(b[y])
      BY <1>2, <1>3, <2>3
    <3> QED
      BY <1>5, <3>1
  <2> QED
    BY <2>1, <2>2, <2>3
<1>6. Objects \subseteq T
  <2> HIDE DEF T
  <2> QED
    BY ONLY Chained(b), <1>4, <1>5, Downstream
<1>7. e \in Objects
  BY <1>2, <1>3
<1> QED
  BY <1>6, <1>7

(* Nobody is told the same news twice, and nobody by itself.               *)
LEMMA ToldOnce ==
    ASSUME NEW b, Chained(b), NEW obs, Attached(obs, b), NEW k, NEW o \in Objects
    PROVE  IsInjective(ToldBy(obs, k, o)) /\ o \notin Hears(obs, k, o)
<1>1. PICK rank : Ranks(rank, b)
  BY Ranked
<1>2. /\ \A x \in Objects : rank[x] \in Int
      /\ \A h \in Filters : h \in Objects
  BY <1>1, FiltersAssumption DEF Ranks, Objects
<1>3. \A x \in Objects : \A h \in Hears(obs, k, x) : rank[x] < rank[h]
  BY <1>1, HeardFromSource
<1> DEFINE T == { x \in Objects : IsInjective(ToldBy(obs, k, x)) }
<1>4. ASSUME NEW x \in Objects, \A f \in Filters : b[f] = x => f \in T PROVE x \in T
  <2>1. PICK w, n : w = obs[<<x, Updated>>] /\ n = Len(w)
    OBVIOUS
  <2>2. w \in Seq(Filters) /\ n \in Nat /\ DOMAIN w = 1..n /\ IsInjective(w)
    BY <2>1 DEF Attached
  <2>3. \A i \in 1..n : w[i] \in Filters /\ b[w[i]] = x
    BY <2>1, <2>2, ObserversHear DEF Range
  <2> DEFINE part(i) == <<w[i]>> \o (IF k[w[i]] = "dump" THEN <<>> ELSE ToldBy(obs, k, w[i]))
  <2>4. ASSUME NEW i \in 1..n
        PROVE  /\ part(i) \in Seq(Filters) /\ IsInjective(part(i))
               /\ Range(part(i)) \subseteq {w[i]} \cup Hears(obs, k, w[i])
    <3>1. PICK f : f = w[i]
      OBVIOUS
    <3>2. f \in Filters /\ f \in Objects /\ b[f] = x
      BY <1>2, <2>3, <3>1
    <3>3. PICK t : t = IF k[f] = "dump" THEN <<>> ELSE ToldBy(obs, k, f)
      OBVIOUS
    <3>4. ToldBy(obs, k, f) \in Seq(Filters) /\ IsInjective(ToldBy(obs, k, f))
      BY <1>4, <3>2, ToldUnfolds
    <3>5. t \in Seq(Filters) /\ IsInjective(t) /\ Range(t) \subseteq Hears(obs, k, f)
      <4>1. Range(<<>>) = {} /\ <<>> \in Seq(Filters) /\ IsInjective(<<>>)
        BY DEF Range, IsInjective
      <4> QED
        BY <3>3, <3>4, <4>1 DEF Hears
    <3>6. PICK s : s = <<f>>
      OBVIOUS
    <3>7. s \in Seq(Filters) /\ Range(s) = {f} /\ IsInjective(s)
      BY <3>2, <3>6 DEF Range, IsInjective
    <3>8. f \notin Hears(obs, k, f)
      BY <1>2, <1>3, <3>2
    <3>9. /\ s \o t \in Seq(Filters) /\ Range(s \o t) = Range(s) \cup Range(t)
          /\ IsInjective(s \o t)
      <4>1. Range(s) \cap Range(t) = {}
        BY <3>5, <3>7, <3>8
      <4> QED
        BY <3>5, <3>7, <4>1, ConcatRange
    <3>10. part(i) = s \o t
      BY <3>1, <3>3, <3>6
    <3> QED
      BY <3>1, <3>5, <3>7, <3>9, <3>10
  <2>5. ASSUME NEW i \in 1..n, NEW j \in 1..n, i # j
        PROVE  Range(part(i)) \cap Range(part(j)) = {}
    <3>1. w[i] # w[j]
      BY <2>2, <2>5 DEF IsInjective
    <3> HIDE DEF part
    <3> SUFFICES ASSUME NEW e, e \in Range(part(i)), e \in Range(part(j)) PROVE FALSE
      OBVIOUS
    <3>2. e \in {w[i]} \cup Hears(obs, k, w[i]) /\ e \in {w[j]} \cup Hears(obs, k, w[j])
      BY <2>4
    <3>3. w[i] \in Filters /\ w[j] \in Filters /\ b[w[i]] = b[w[j]]
      BY <2>3
    <3> QED
      BY <3>1, <3>2, <3>3, HeardOnce
  <2>6. PICK ss : ss = [i \in 1..n |-> part(i)]
    OBVIOUS
  <2>7. ss \in Seq(Seq(Filters)) /\ n = Len(ss) /\ \A i \in 1..n : ss[i] = part(i)
    <3> HIDE DEF part
    <3> QED
      BY <2>2, <2>4, <2>6
  <2>8. IsInjective(FlattenSeq(ss))
    <3>1. \A i \in 1..n : IsInjective(ss[i])
      <4> HIDE DEF part
      <4> QED
        BY <2>4, <2>7
    <3>2. \A i, j \in 1..n : i # j => Range(ss[i]) \cap Range(ss[j]) = {}
      <4> HIDE DEF part
      <4> QED
        BY <2>5, <2>7
    <3>3. ss \in Seq(Seq(Filters)) /\ n = Len(ss)
      BY <2>7
    <3> QED
      BY ONLY <3>1, <3>2, <3>3, FlattenFacts
  <2>9. ToldBy(obs, k, x) = FlattenSeq(ss)
    <3>1. ToldBy(obs, k, x) = PassedOn(obs, k, w)
      BY <2>1, ToldUnfolds
    <3>2. PassedOn(obs, k, w) = FlattenSeq(ss)
      BY <2>1, <2>6 DEF PassedOn
    <3> QED
      BY ONLY <3>1, <3>2
  <2> QED
    BY <2>8, <2>9
<1>5. Objects \subseteq T
  <2> HIDE DEF T
  <2> QED
    BY ONLY Chained(b), <1>4, Upstream
<1> QED
  BY <1>2, <1>3, <1>5

(* A filter that hears of x and puts nothing off passes it to its own.     *)
LEMMA HeardOn ==
    ASSUME NEW b, Chained(b), NEW obs, Attached(obs, b), NEW k, NEW o \in Objects,
           NEW g \in Hears(obs, k, o), k[g] # "dump", NEW f \in Range(obs[<<g, Updated>>])
    PROVE  f \in Hears(obs, k, o)
<1> DEFINE T == { x \in Objects : g \in Hears(obs, k, x) => f \in Hears(obs, k, x) }
<1>1. ASSUME NEW x \in Objects, \A h \in Filters : b[h] = x => h \in T PROVE x \in T
  <2> SUFFICES ASSUME g \in Hears(obs, k, x) PROVE f \in Hears(obs, k, x)
    OBVIOUS
  <2>1. PICK h \in Range(obs[<<x, Updated>>]) : g = h \/ (k[h] # "dump" /\ g \in Hears(obs, k, h))
    BY ToldMembers
  <2>2. h \in Filters /\ b[h] = x /\ h \in Objects
    BY ObserversHear DEF Objects
  <2>3. f \in Hears(obs, k, h)
    <3>1. CASE g = h
      BY <2>2, <3>1, ToldMembers
    <3>2. CASE g \in Hears(obs, k, h)
      BY <1>1, <2>2, <3>2
    <3> QED
      BY <2>1, <3>1, <3>2
  <2>4. k[h] # "dump"
    BY <2>1
  <2> QED
    BY <2>1, <2>3, <2>4, ToldMembers
<1>2. Objects \subseteq T
  <2> HIDE DEF T
  <2> QED
    BY ONLY Chained(b), <1>1, Upstream
<1> QED
  BY <1>2

-----------------------------------------------------------------------------
(* News that a dump filter holds back.                                     *)

\* Delayed() as an operator of the state it reads.
DelayedBy(b, ac, f) ==
    LET delayed[x \in Objects] == x # Inverter /\ (ac[x] \/ delayed[b[x]])
    IN  delayed[f]

LEMMA DelayedIsDelayedBy ==
    ASSUME NEW f
    PROVE  /\ Delayed(f) = DelayedBy(base, AddedCaps, f)
           /\ Delayed(f)' = DelayedBy(base', AddedCaps', f)
BY DEF Delayed, DelayedBy

LEMMA DelayedUnfolds ==
    ASSUME NEW b, Chained(b), NEW ac \in [Filters -> BOOLEAN], NEW o \in Objects
    PROVE  DelayedBy(b, ac, o) = (o # Inverter /\ (ac[o] \/ DelayedBy(b, ac, b[o])))
<1> DEFINE next(x, g) == x # Inverter /\ (ac[x] \/ g[b[x]])
           Def(g) == [x \in Objects |-> next(x, g)]
           delayed == CHOOSE g : g = Def(g)
<1>1. \A x, g : next(x, g) \in BOOLEAN
  OBVIOUS
<1>2. PICK step : step = [x \in Objects |-> [g \in [Objects -> BOOLEAN] |-> next(x, g)]]
  OBVIOUS
<1>3. step \in [Objects -> [[Objects -> BOOLEAN] -> BOOLEAN]]
  <2> HIDE DEF next
  <2> QED
    BY <1>1, <1>2
<1>4. ASSUME NEW x \in Objects, NEW g \in [Objects -> BOOLEAN], NEW h \in [Objects -> BOOLEAN],
             x \in Filters => g[b[x]] = h[b[x]]
      PROVE  step[x][g] = step[x][h]
  <2>1. next(x, g) = next(x, h)
    BY <1>4 DEF Objects
  <2> HIDE DEF next
  <2> QED
    BY <1>2, <2>1
<1>5. PICK f \in [Objects -> BOOLEAN] : Fixpoint(f, Objects, step)
  <2>1. TRUE \in BOOLEAN
    OBVIOUS
  <2>2. ChainStep(b, BOOLEAN, step)
    BY ONLY Chained(b), <1>3, <1>4 DEF ChainStep
  <2> QED
    BY <2>1, <2>2, ChainRecursion
<1>6. f = Def(f)
  <2> HIDE DEF next
  <2> QED
    BY <1>2, <1>5 DEF Fixpoint
<1>7. delayed = Def(delayed)
  <2> HIDE DEF Def
  <2> QED
    BY <1>6
<1>8. \A x \in Objects : delayed[x] = next(x, delayed)
  <2> HIDE DEF delayed, next
  <2> QED
    BY <1>7
<1>9. \A x : DelayedBy(b, ac, x) = delayed[x]
  BY DEF DelayedBy
<1> HIDE DEF delayed
<1> QED
  BY <1>8, <1>9

\* Every filter observes the names of its source.
AllAttached(obs, b) ==
    \A x \in Objects : Range(obs[<<x, Updated>>]) = { f \in Filters : b[f] = x }

(* A new name of the inverter is heard of by every filter that no dump     *)
(* filter keeps from it.                                                   *)
LEMMA NewsOfInverter ==
    ASSUME NEW b, Chained(b), NEW obs, Attached(obs, b), AllAttached(obs, b), NEW k,
           NEW ac \in [Filters -> BOOLEAN],
           \A f \in Hears(obs, k, Inverter) : k[f] = "dump" => ac[f]
    PROVE  \A f \in Filters : f \in Hears(obs, k, Inverter) \/ DelayedBy(b, ac, b[f])
<1> DEFINE T == {Inverter} \cup
                { f \in Filters : f \in Hears(obs, k, Inverter) \/ DelayedBy(b, ac, b[f]) }
<1>1. /\ \A f \in Filters : f \in Objects /\ f # Inverter /\ b[f] \in Objects
      /\ Inverter \in Objects
  BY CapabilitiesAssumption DEF Objects, Chained
<1>2. ASSUME NEW f \in Filters, b[f] \in T PROVE f \in T
  <2>1. f \in Range(obs[<<b[f], Updated>>])
    BY <1>1 DEF AllAttached
  <2>2. CASE b[f] = Inverter
    BY <1>1, <2>1, <2>2, ToldMembers
  <2>3. CASE b[f] \in Filters /\ b[f] \in Hears(obs, k, Inverter) /\ k[b[f]] # "dump"
    <3>1. f \in Hears(obs, k, Inverter)
      BY <1>1, <2>1, <2>3, HeardOn
    <3> QED
      BY <3>1
  <2>4. CASE b[f] \in Filters /\ (ac[b[f]] \/ DelayedBy(b, ac, b[b[f]]))
    <3>1. DelayedBy(b, ac, b[f])
      BY <1>1, <2>4, DelayedUnfolds
    <3> QED
      BY <3>1
  <2> QED
    BY <1>2, <2>2, <2>3, <2>4
<1>3. Objects \subseteq T
  <2>1. Inverter \in T
    OBVIOUS
  <2> HIDE DEF T
  <2> QED
    BY ONLY Chained(b), <1>2, <2>1, Downstream
<1> QED
  BY <1>1, <1>3

(* News that d has held back and now passes on reach a filter, or the next *)
(* dump filter before it.                                                  *)
LEMMA NewsPassedOn ==
    ASSUME NEW b, Chained(b), NEW obs, Attached(obs, b), AllAttached(obs, b), NEW k,
           NEW before \in [Filters -> BOOLEAN], NEW ac \in [Filters -> BOOLEAN],
           NEW d \in Filters, \A f \in Filters \ {d} : before[f] => ac[f],
           \A f \in Hears(obs, k, d) : k[f] = "dump" => ac[f]
    PROVE  \A f \in Filters : DelayedBy(b, before, b[f]) =>
                                 f \in Hears(obs, k, d) \/ DelayedBy(b, ac, b[f])
<1> DEFINE T == {Inverter} \cup
                { f \in Filters : DelayedBy(b, before, b[f]) =>
                                     f \in Hears(obs, k, d) \/ DelayedBy(b, ac, b[f]) }
<1>1. /\ \A f \in Filters : f \in Objects /\ f # Inverter /\ b[f] \in Objects
      /\ Inverter \in Objects
  BY CapabilitiesAssumption DEF Objects, Chained
<1>2. ASSUME NEW f \in Filters, b[f] \in T PROVE f \in T
  <2> SUFFICES ASSUME DelayedBy(b, before, b[f])
               PROVE  f \in Hears(obs, k, d) \/ DelayedBy(b, ac, b[f])
    OBVIOUS
  <2>1. f \in Range(obs[<<b[f], Updated>>])
    BY <1>1 DEF AllAttached
  <2>2. b[f] # Inverter /\ (before[b[f]] \/ DelayedBy(b, before, b[b[f]]))
    BY <1>1, DelayedUnfolds
  <2>3. b[f] \in Filters
    BY <1>1, <2>2 DEF Objects
  <2>4. CASE b[f] = d
    BY <1>1, <2>1, <2>4, ToldMembers
  <2>5. CASE ac[b[f]] \/ DelayedBy(b, ac, b[b[f]])
    BY <1>1, <2>3, <2>5, DelayedUnfolds
  <2>6. CASE b[f] \in Hears(obs, k, d) /\ k[b[f]] # "dump"
    BY <1>1, <2>1, <2>3, <2>6, HeardOn
  <2> QED
    BY <1>2, <2>2, <2>3, <2>4, <2>5, <2>6
<1>3. Objects \subseteq T
  <2>1. Inverter \in T
    OBVIOUS
  <2> HIDE DEF T
  <2> QED
    BY ONLY Chained(b), <1>2, <2>1, Downstream
<1> QED
  BY <1>1, <1>3

-----------------------------------------------------------------------------
(* The inductive invariant of the filters.                                 *)

FilterCommands == [to : Filters, cmd : {"INIT", "ADDED_CAPAS"}]
InitFor(f) == [to |-> f, cmd |-> "INIT"]
NewsFor(f) == [to |-> f, cmd |-> "ADDED_CAPAS"]

\* The configuration, and what everybody publishes.
ConfigOk ==
    /\ Chained(base) /\ kind \in [Filters -> {"csv", "html", "dump"}]
    /\ owned \in [Objects -> SUBSET Names]
    /\ Mandatory \subseteq owned[Inverter] /\ owned[Inverter] \subseteq Mandatory \cup Data
    /\ \A f \in Filters : owned[f] = Published(kind[f])

\* A filter subscribes when it executes CMD_INIT, and never again.
ObserversOk ==
    /\ cyclic \subseteq Filters
    /\ observers \in [AllCaps -> Seq(Filters)]
    /\ \A c \in AllCaps : IsInjective(observers[c])
    /\ \A x \in Objects : Range(observers[<<x, Updated>>]) = { f \in cyclic : base[f] = x }
    /\ Range(observers[<<Inverter, DataState>>]) = cyclic

\* A command for the news is in the queue exactly while AddedCaps says so, and
\* CMD_INIT comes once.
QueueOk ==
    /\ queue \in Seq(FilterCommands) /\ IsInjective(queue)
    /\ AddedCaps \in [Filters -> BOOLEAN]
    /\ \A f \in Filters : AddedCaps[f] <=> NewsFor(f) \in Range(queue)
    /\ \A f \in Filters : AddedCaps[f] => kind[f] = "dump" /\ Started
    /\ \A f \in cyclic : InitFor(f) \notin Range(queue)

\* The copy of the data's validity is the original, for those who keep one.
ValidOk ==
    /\ dataState \in BOOLEAN /\ value \in [Data -> 0 .. 1] /\ day \in Days
    /\ datavalid \in [Filters -> BOOLEAN]
    /\ \A f \in Filters : datavalid[f] => dataState /\ kind[f] # "dump" /\ f \in cyclic

\* The file of f, its columns, and the rotation that is due the day after.
FileOk(f) ==
    /\ columns[f] \in Seq(Names) /\ IsInjective(columns[f])
    /\ logged[f] \in Seq(Names) /\ GoesOn(logged[f], columns[f])
    /\ file[f] \in Days \cup {NotOpen} /\ file[f] <= day
    /\ f \in cyclic /\ Csv(f) =>
          \E d \in Nat : rotation[f] = <<d>> /\ (file[f] # NotOpen => d = file[f] + 1)
    /\ ~ (f \in cyclic /\ Csv(f)) => rotation[f] = <<>> /\ file[f] = NotOpen
    /\ headerwritten[f] \in BOOLEAN
    /\ headerwritten[f] =>
          /\ file[f] # NotOpen
          /\ written[f] = [header |-> columns[f], row |-> columns[f], line |-> last_line[f]]
    /\ ~headerwritten[f] => written[f] = Empty

FilesOk ==
    /\ DOMAIN columns = Filters /\ DOMAIN logged = Filters /\ DOMAIN file = Filters
    /\ DOMAIN rotation = Filters /\ DOMAIN headerwritten = Filters
    /\ DOMAIN written = Filters /\ DOMAIN last_line = Filters
    /\ capsupdated \in [Filters -> BOOLEAN]
    /\ \A f \in Filters : FileOk(f)

\* A page names a column of the nearest CSV file that has what was searched.
PageOk(f) ==
    /\ page[f] \in Nat
    /\ page[f] # 0 =>
          \E g \in Filters : /\ Concrete(f, Logged) = <<g, Logged>>
                             /\ page[f] \in 1 .. Len(columns[g])
                             /\ columns[g][page[f]] \in Containing

PagesOk == DOMAIN page = Filters /\ \A f \in Filters : PageOk(f)

FiltersIInv ==
    ConfigOk /\ ObserversOk /\ QueueOk /\ ValidOk /\ FilesOk /\ PagesOk /\ NewsOnTheWay

-----------------------------------------------------------------------------

LEMMA PublishedFacts ==
    ASSUME ConfigOk
    PROVE  /\ \A x \in Objects : Updated \in owned[x]
           /\ DataState \in owned[Inverter] /\ RemoveAll \in owned[Inverter]
           /\ \A f \in Filters : DataState \notin owned[f]
           /\ Logged \notin owned[Inverter]
           /\ Inverter \in Objects
<1>1. Updated \in Mandatory /\ DataState \in Mandatory /\ RemoveAll \in Mandatory
  BY DEF Mandatory
<1>2. Logged \notin Mandatory /\ Logged \notin Data
  BY DEF Logged, Mandatory, Data, Updated, DataState, RemoveAll
<1>3. ASSUME NEW f \in Filters PROVE Updated \in owned[f] /\ DataState \notin owned[f]
  <2>1. owned[f] = Published(kind[f]) /\ kind[f] \in {"csv", "html", "dump"}
    BY DEF ConfigOk
  <2>2. CASE kind[f] = "csv"
    BY <2>1, <2>2 DEF Published, Updated, DataState, Filename, Logged, RemoveAll
  <2>3. CASE kind[f] = "html"
    BY <2>1, <2>3 DEF Published, Updated, DataState, Filename, Logged, RemoveAll
  <2>4. CASE kind[f] = "dump"
    BY <2>1, <2>4 DEF Published, Updated, DataState, Filename, Logged, RemoveAll
  <2> QED
    BY <2>1, <2>2, <2>3, <2>4
<1>4. Mandatory \subseteq owned[Inverter] /\ owned[Inverter] \subseteq Mandatory \cup Data
  BY DEF ConfigOk
<1>5. Inverter \in Objects /\ \A x \in Objects : x = Inverter \/ x \in Filters
  BY DEF Objects
<1> QED
  BY <1>1, <1>2, <1>3, <1>4, <1>5

(* What a filter subscribes to.                                            *)
LEMMA SubscribedTo ==
    ASSUME ConfigOk, NEW o \in Objects
    PROVE  /\ Concrete(o, Updated) = <<o, Updated>>
           /\ Concrete(o, DataState) = <<Inverter, DataState>>
           /\ Concrete(o, RemoveAll) = NoCap \/ \E x \in Objects : Concrete(o, RemoveAll) = <<x, RemoveAll>>
<1>1. Chained(base)
  BY DEF ConfigOk
<1>2. Concrete(o, Updated) = <<o, Updated>>
  BY <1>1, PublishedFacts, ConcreteLooksUp, LookUpUnfolds
<1>3. Concrete(o, DataState) = <<Inverter, DataState>>
  BY <1>1, PublishedFacts, ConcreteLooksUp, LookUpAtInverter
<1>4. Concrete(o, RemoveAll) = NoCap \/ \E x \in Objects : Concrete(o, RemoveAll) = <<x, RemoveAll>>
  BY <1>1, ConcreteLooksUp, LookUpFinds
<1> QED
  BY <1>2, <1>3, <1>4

(* Names and objects that are told apart.                                  *)
LEMMA CapabilityFacts ==
    /\ Updated # DataState /\ Updated # RemoveAll /\ DataState # RemoveAll
    /\ Updated \in Names /\ DataState \in Names /\ RemoveAll \in Names
    /\ \A o \in Objects, n \in Names : <<o, n>> \in AllCaps /\ <<o, n>> # NoCap
<1>1. Updated # DataState /\ Updated # RemoveAll /\ DataState # RemoveAll
  BY DEF Updated, DataState, RemoveAll
<1>2. Updated \in Names /\ DataState \in Names /\ RemoveAll \in Names
  BY CapabilitiesAssumption DEF Mandatory
<1>3. \A o \in Objects, n \in Names : <<o, n>> \in AllCaps /\ <<o, n>> # NoCap
  BY CapabilitiesAssumption DEF AllCaps, CapsOf
<1> QED
  BY <1>1, <1>2, <1>3

LEMMA AttachedFacts ==
    ASSUME ConfigOk, ObserversOk
    PROVE  Attached(observers, base) /\ (Started => AllAttached(observers, base))
<1>1. ASSUME NEW x \in Objects PROVE <<x, Updated>> \in AllCaps
  BY CapabilityFacts
<1> QED
  BY <1>1 DEF Attached, AllAttached, ObserversOk, Started

(* Looking up a name depends only on who publishes it.                     *)
LEMMA LookUpSame ==
    ASSUME NEW b, Chained(b), NEW n, NEW ow, NEW ow2, \A x \in Objects : n \in ow[x] <=> n \in ow2[x],
           NEW o \in Objects
    PROVE  LookUp(b, ow, o, n) = LookUp(b, ow2, o, n)
<1> DEFINE T == { x \in Objects : LookUp(b, ow, x, n) = LookUp(b, ow2, x, n) }
<1>1. Inverter \in Objects /\ \A f \in Filters : f \in Objects /\ f # Inverter
  BY CapabilitiesAssumption DEF Objects
<1>2. Inverter \in T
  BY <1>1, LookUpUnfolds
<1>3. ASSUME NEW f \in Filters, b[f] \in T PROVE f \in T
  <2>1. LookUp(b, ow, f, n) = IF n \in ow[f] THEN <<f, n>> ELSE LookUp(b, ow, b[f], n)
    BY <1>1, LookUpUnfolds
  <2>2. LookUp(b, ow2, f, n) = IF n \in ow2[f] THEN <<f, n>> ELSE LookUp(b, ow2, b[f], n)
    BY <1>1, LookUpUnfolds
  <2> QED
    BY <1>1, <1>3, <2>1, <2>2
<1>4. Objects \subseteq T
  <2> HIDE DEF T
  <2> QED
    BY ONLY Chained(b), <1>2, <1>3, Downstream
<1> QED
  BY <1>4

(* What NotifyUpdated does to the queue, the flags and the CSV filters.    *)
LEMMA NotifyFacts ==
    ASSUME ConfigOk, ObserversOk, QueueOk, NEW o \in Objects,
           NEW q \in Seq(FilterCommands), IsInjective(q),
           NEW flags \in [Filters -> BOOLEAN],
           \A f \in Filters : flags[f] <=> NewsFor(f) \in Range(q),
           \A f \in Filters : f # o => (flags[f] <=> AddedCaps[f]),
           capsupdated \in [Filters -> BOOLEAN],
           NotifyUpdated(o, q, flags)
    PROVE  /\ queue' \in Seq(FilterCommands) /\ IsInjective(queue')
           /\ AddedCaps' \in [Filters -> BOOLEAN]
           /\ \A f \in Filters : AddedCaps'[f] <=> NewsFor(f) \in Range(queue')
           /\ \A f \in Filters : AddedCaps'[f] <=>
                 flags[f] \/ (f \in Hears(observers, kind, o) /\ kind[f] = "dump")
           /\ \A f \in Filters : InitFor(f) \in Range(queue') => InitFor(f) \in Range(q)
           /\ capsupdated' \in [Filters -> BOOLEAN]
           /\ \A f \in Filters : capsupdated'[f] <=>
                 capsupdated[f] \/ (f \in Hears(observers, kind, o) /\ Csv(f))
<1>1. Chained(base) /\ Attached(observers, base)
  BY AttachedFacts DEF ConfigOk
<1>2. PICK told : told = Told(o)
  OBVIOUS
<1>3. told = ToldBy(observers, kind, o)
  BY <1>2, ToldIsToldBy
<1>4. /\ told \in Seq(Filters) /\ IsInjective(told)
      /\ Range(told) = Hears(observers, kind, o) /\ Range(told) \subseteq Filters
      /\ o \notin Range(told)
  BY <1>1, <1>3, ToldMembers, ToldOnce DEF Hears
<1>5. PICK D, deferred : /\ D = { f \in Filters : kind[f] = "dump" /\ ~AddedCaps[f] }
                         /\ deferred = Only(told, D)
  OBVIOUS
<1>6. /\ deferred \in Seq(Filters) /\ IsInjective(deferred)
      /\ Range(deferred) = Range(told) \cap D
  BY <1>4, <1>5, OnlyKeeps
<1>7. PICK t : t = [i \in DOMAIN deferred |-> [to |-> deferred[i], cmd |-> "ADDED_CAPAS"]]
  OBVIOUS
<1>8. Deferring(told) = deferred
  BY <1>5 DEF Deferring
<1>9. /\ capsupdated' = [f \in Filters |-> capsupdated[f] \/ (f \in Range(told) /\ Csv(f))]
      /\ AddedCaps' = [f \in Filters |-> flags[f] \/ f \in Range(deferred)]
      /\ queue' = q \o t
  BY <1>2, <1>7, <1>8 DEF NotifyUpdated
<1>10. /\ t \in Seq(FilterCommands) /\ IsInjective(t)
       /\ \A c : c \in Range(t) <=> \E f \in Range(deferred) : c = NewsFor(f)
  <2>1. PICK n : n = Len(deferred)
    OBVIOUS
  <2>2. n \in Nat /\ DOMAIN deferred = 1..n /\ \A i \in 1..n : deferred[i] \in Filters
    BY <1>6, <2>1
  <2>3. DOMAIN t = 1..n /\ \A i \in 1..n : t[i] = NewsFor(deferred[i])
    BY <1>7, <2>2 DEF NewsFor
  <2>4. \A f \in Filters : NewsFor(f) \in FilterCommands
    BY DEF NewsFor, FilterCommands
  <2>5. t \in [1..n -> FilterCommands]
    BY <1>7, <2>2, <2>3, <2>4
  <2>6. t \in Seq(FilterCommands)
    BY <2>2, <2>5
  <2>7. \A f, g : NewsFor(f) = NewsFor(g) => f = g
    BY DEF NewsFor
  <2>8. IsInjective(t)
    BY <1>6, <2>2, <2>3, <2>7 DEF IsInjective
  <2>9. \A c : c \in Range(t) <=> \E f \in Range(deferred) : c = NewsFor(f)
    BY <2>2, <2>3 DEF Range
  <2> QED
    BY <2>6, <2>8, <2>9
<1>11. \A f \in Range(deferred) : f \in Filters /\ ~flags[f]
  BY <1>4, <1>5, <1>6
<1>12. Range(q) \cap Range(t) = {}
  BY <1>10, <1>11
<1>13. q \o t \in Seq(FilterCommands) /\ Range(q \o t) = Range(q) \cup Range(t) /\ IsInjective(q \o t)
  BY <1>10, <1>12, ConcatRange
<1>14. \A f, g : /\ NewsFor(f) = NewsFor(g) => f = g
                 /\ InitFor(f) # NewsFor(g)
  BY DEF NewsFor, InitFor
<1>15. ASSUME NEW f \in Filters
       PROVE  AddedCaps'[f] <=> NewsFor(f) \in Range(queue')
  <2>a. NewsFor(f) \in Range(t) <=> \E g \in Range(deferred) : NewsFor(f) = NewsFor(g)
    BY <1>10
  <2>1. NewsFor(f) \in Range(t) <=> f \in Range(deferred)
    BY <1>14, <2>a
  <2> QED
    BY <1>9, <1>13, <2>1
<1>16. ASSUME NEW f \in Filters
       PROVE  AddedCaps'[f] <=> flags[f] \/ (f \in Hears(observers, kind, o) /\ kind[f] = "dump")
  <2>1. AddedCaps'[f] <=> flags[f] \/ f \in Range(deferred)
    BY <1>9
  <2>2. f \in Range(deferred) <=> f \in Range(told) /\ kind[f] = "dump" /\ ~AddedCaps[f]
    BY <1>5, <1>6
  <2>3. f \in Range(told) => (flags[f] <=> AddedCaps[f])
    BY <1>4
  <2> QED
    BY <1>4, <2>1, <2>2, <2>3
<1>17. \A f \in Filters : InitFor(f) \in Range(queue') => InitFor(f) \in Range(q)
  BY <1>9, <1>10, <1>13, <1>14
<1>18. AddedCaps' \in [Filters -> BOOLEAN] /\ capsupdated' \in [Filters -> BOOLEAN]
  BY <1>9
<1>19. \A f \in Filters : capsupdated'[f] <=>
                 capsupdated[f] \/ (f \in Hears(observers, kind, o) /\ Csv(f))
  BY <1>4, <1>9
<1> QED
  BY <1>9, <1>13, <1>15, <1>16, <1>17, <1>18, <1>19

LEMMA InitFiltersIInv == FiltersInit => FiltersIInv
<1> SUFFICES ASSUME FiltersInit PROVE FiltersIInv
  OBVIOUS
<1>1. PICK n : n = Len(Loggers)
  OBVIOUS
<1>2. /\ n \in Nat /\ DOMAIN Loggers = 1..n /\ \A i \in 1..n : Loggers[i] \in Filters
      /\ IsInjective(Loggers) /\ Filters = Range(Loggers)
  BY <1>1, FiltersAssumption
<1>3. ConfigOk
  <2>1. PICK c \in Chains : /\ kind = [f \in Filters |-> c[f].kind]
                            /\ base = [f \in Filters |-> c[f].base]
    BY DEF FiltersInit
  <2>2. \A i \in 1..n : /\ c[Loggers[i]].kind \in {"csv", "html", "dump"}
                        /\ c[Loggers[i]].base \in {Inverter} \cup { Loggers[j] : j \in 1 .. i - 1 }
    BY <1>2, FiltersAssumption
  <2>3. \A f \in Filters : \E i \in 1..n : Loggers[i] = f
    BY <1>2 DEF Range
  <2>4. \A i \in 1..n : \A j \in 1 .. i - 1 : j \in 1..n
    BY <1>2
  <2>5. kind \in [Filters -> {"csv", "html", "dump"}]
    <3>1. \A f \in Filters : c[f].kind \in {"csv", "html", "dump"}
      BY <2>2, <2>3
    <3> QED
      BY <2>1, <3>1
  <2>6. Chained(base)
    <3>1. \A i \in 1..n : base[Loggers[i]] \in {Inverter} \cup { Loggers[j] : j \in 1 .. i - 1 }
      BY <1>2, <2>1, <2>2
    <3>2. \A f \in Filters : base[f] \in Objects
      BY <1>2, <2>3, <2>4, <3>1 DEF Objects
    <3>3. base \in [Filters -> Objects]
      BY <2>1, <3>2
    <3> QED
      BY <1>2, <3>1, <3>3 DEF Chained
  <2>7. owned = [o \in Objects |-> IF o = Inverter THEN Mandatory ELSE Published(kind[o])]
    BY DEF FiltersInit
  <2>8. Inverter \in Objects /\ \A f \in Filters : f \in Objects /\ f # Inverter
    BY CapabilitiesAssumption DEF Objects
  <2>9. Mandatory \subseteq Names
    BY CapabilitiesAssumption
  <2>10. \A f \in Filters : owned[f] = Published(kind[f])
    BY <2>7, <2>8
  <2>11. owned \in [Objects -> SUBSET Names]
    <3>1. {Updated, RemoveAll, Filename, Logged} \subseteq Names
      BY CapabilitiesAssumption, FiltersAssumption DEF Mandatory
    <3>2. \A f \in Filters : Published(kind[f]) \subseteq Names
      BY <2>5, <3>1 DEF Published
    <3>3. \A o \in Objects : o = Inverter \/ o \in Filters
      BY DEF Objects
    <3>4. \A o \in Objects : (IF o = Inverter THEN Mandatory ELSE Published(kind[o])) \in SUBSET Names
      BY <2>9, <3>2, <3>3
    <3> QED
      BY <2>7, <3>4
  <2>12. owned[Inverter] = Mandatory
    BY <2>7, <2>8
  <2> QED
    BY <2>5, <2>6, <2>10, <2>11, <2>12 DEF ConfigOk
<1>4. ObserversOk
  <2>1. observers = [c \in AllCaps |-> <<>>] /\ cyclic = {}
    BY DEF FiltersInit
  <2>2. <<>> \in Seq(Filters) /\ IsInjective(<<>>) /\ Range(<<>>) = {}
    BY DEF IsInjective, Range
  <2>3. \A x \in Objects : <<x, Updated>> \in AllCaps
    BY CapabilityFacts
  <2>4. <<Inverter, DataState>> \in AllCaps
    BY CapabilityFacts DEF Objects
  <2> QED
    BY <2>1, <2>2, <2>3, <2>4 DEF ObserversOk
<1>5. QueueOk
  <2>1. queue = [i \in 1..n |-> InitFor(Loggers[i])] /\ AddedCaps = [f \in Filters |-> FALSE] /\ cyclic = {}
    BY <1>2 DEF FiltersInit, InitFor
  <2>2. \A i \in 1..n : InitFor(Loggers[i]) \in FilterCommands
    BY <1>2 DEF InitFor, FilterCommands
  <2>3. queue \in Seq(FilterCommands) /\ DOMAIN queue = 1..n
    BY <1>2, <2>1, <2>2
  <2>4. \A f, g : (InitFor(f) = InitFor(g) => f = g) /\ InitFor(f) # NewsFor(g)
    BY DEF InitFor, NewsFor
  <2>5. IsInjective(queue)
    BY <1>2, <2>1, <2>3, <2>4 DEF IsInjective
  <2>6. \A f : NewsFor(f) \notin Range(queue)
    BY <2>1, <2>3, <2>4 DEF Range
  <2> QED
    BY <2>1, <2>3, <2>5, <2>6 DEF QueueOk
<1>6. ValidOk
  <2>1. 1 \in Days
    BY FiltersAssumption DEF Days
  <2>2. /\ dataState = FALSE /\ value = [n0 \in Data |-> 0] /\ day = 1
        /\ datavalid = [f \in Filters |-> FALSE]
    BY DEF FiltersInit
  <2>3. value \in [Data -> 0 .. 1] /\ datavalid \in [Filters -> BOOLEAN]
    BY <2>2
  <2> QED
    BY <2>1, <2>2, <2>3 DEF ValidOk
<1>7. FilesOk
  <2>1. /\ columns = [f \in Filters |-> <<>>] /\ last_line = [f \in Filters |-> <<>>]
        /\ logged = [f \in Filters |-> <<>>] /\ rotation = [f \in Filters |-> <<>>]
        /\ headerwritten = [f \in Filters |-> FALSE] /\ capsupdated = [f \in Filters |-> FALSE]
        /\ file = [f \in Filters |-> NotOpen] /\ written = [f \in Filters |-> Empty]
        /\ day = 1 /\ cyclic = {}
    BY DEF FiltersInit
  <2>2. <<>> \in Seq(Names) /\ IsInjective(<<>>) /\ GoesOn(<<>>, <<>>)
    BY DEF IsInjective, GoesOn
  <2>3. \A f \in Filters : FileOk(f)
    BY <2>1, <2>2 DEF FileOk, NotOpen
  <2> QED
    BY <2>1, <2>3 DEF FilesOk
<1>8. PagesOk
  BY DEF FiltersInit, PagesOk, PageOk
<1>9. NewsOnTheWay
  BY DEF FiltersInit, NewsOnTheWay
<1> QED
  BY <1>3, <1>4, <1>5, <1>6, <1>7, <1>8, <1>9 DEF FiltersIInv

-----------------------------------------------------------------------------
(* The steps.                                                              *)

(* The part of the news that a filter keeps while nobody publishes a name, *)
(* no dump filter passes news on and its own file stays as it is.          *)
LEMMA NewsKept ==
    ASSUME NewsOnTheWay, configuration' = configuration, owned' = owned, AddedCaps' = AddedCaps,
           NEW f \in cyclic, Csv(f), cfg[f].all, columns'[f] = columns[f],
           capsupdated'[f] = capsupdated[f], headerwritten'[f] = headerwritten[f]
    PROVE  \/ Visible(base[f])' \subseteq Range(columns'[f])
           \/ capsupdated'[f] \/ ~headerwritten'[f] \/ Delayed(f)'
<1>1. base' = base
  BY DEF configuration
<1>2. \A n : Concrete(base[f], n) = LookUp(base, owned, base[f], n)
             /\ Concrete(base[f], n)' = LookUp(base', owned', base'[f], n)
  BY ConcreteLooksUp
<1>3. Visible(base[f])' = Visible(base[f])
  BY <1>1, <1>2 DEF Visible
<1>4. Delayed(f)' = Delayed(f)
  BY <1>1, DelayedIsDelayedBy
<1> QED
  BY <1>3, <1>4 DEF NewsOnTheWay

(* Without a new name a page goes on naming the column it named, whatever  *)
(* columns follow.                                                         *)
LEMMA PagesKept ==
    ASSUME ConfigOk, FilesOk, PagesOk, base' = base, page' = page,
           \A x \in Objects : Logged \in owned'[x] <=> Logged \in owned[x],
           \A g \in Filters : columns'[g] \in Seq(Names) /\ GoesOn(columns[g], columns'[g])
    PROVE  PagesOk'
<1>1. ASSUME NEW f \in Filters PROVE Concrete(f, Logged)' = Concrete(f, Logged)
  <2>1. f \in Objects /\ Chained(base)
    BY DEF ConfigOk, Objects
  <2>2. LookUp(base, owned, f, Logged) = LookUp(base, owned', f, Logged)
    BY <2>1, LookUpSame
  <2> QED
    BY <2>2, ConcreteLooksUp
<1>2. ASSUME NEW f \in Filters PROVE PageOk(f)'
  <2>1. PageOk(f)
    BY DEF PagesOk
  <2>2. ASSUME page[f] # 0
        PROVE \E g \in Filters : /\ Concrete(f, Logged)' = <<g, Logged>>
                                 /\ page'[f] \in 1 .. Len(columns'[g])
                                 /\ columns'[g][page'[f]] \in Containing
    <3>1. PICK g \in Filters : /\ Concrete(f, Logged) = <<g, Logged>>
                               /\ page[f] \in 1 .. Len(columns[g])
                               /\ columns[g][page[f]] \in Containing
      BY <2>1, <2>2 DEF PageOk
    <3>2. columns[g] \in Seq(Names) /\ columns'[g] \in Seq(Names)
      BY DEF FilesOk, FileOk
    <3>3. GoesOn(columns[g], columns'[g])
      OBVIOUS
    <3>4. page[f] \in 1 .. Len(columns'[g]) /\ columns'[g][page[f]] = columns[g][page[f]]
      BY <3>1, <3>2, <3>3 DEF GoesOn
    <3> QED
      BY <1>1, <3>1, <3>4
  <2> QED
    BY <2>1, <2>2 DEF PageOk
<1> QED
  BY <1>2 DEF PagesOk

(* The first command of the queue is in it only once.                      *)
LEMMA TakenFromQueue ==
    ASSUME QueueOk, NEW f \in Filters, NEW c \in {"INIT", "ADDED_CAPAS"}, Take(f, c)
    PROVE  /\ Tail(queue) \in Seq(FilterCommands) /\ IsInjective(Tail(queue))
           /\ Range(Tail(queue)) = Range(queue) \ {[to |-> f, cmd |-> c]}
           /\ [to |-> f, cmd |-> c] \in Range(queue)
<1>1. PICK e : e = [to |-> f, cmd |-> c]
  OBVIOUS
<1>2. queue \in Seq(FilterCommands) /\ queue # <<>> /\ Head(queue) = e /\ IsInjective(queue)
  BY <1>1 DEF QueueOk, Take
<1>3. PICK n, t : n = Len(queue) /\ t = Tail(queue)
  OBVIOUS
<1>4. n \in Nat /\ n > 0 /\ DOMAIN queue = 1..n /\ queue[1] = e
  BY <1>2, <1>3
<1>5. t \in Seq(FilterCommands) /\ DOMAIN t = 1..(n - 1) /\ \A i \in 1..(n - 1) : t[i] = queue[i + 1]
  BY <1>2, <1>3
<1>6. IsInjective(t)
  <2> SUFFICES ASSUME NEW i \in 1..(n - 1), NEW j \in 1..(n - 1), t[i] = t[j] PROVE i = j
    BY <1>5 DEF IsInjective
  <2>1. i + 1 \in 1..n /\ j + 1 \in 1..n /\ queue[i + 1] = queue[j + 1]
    BY <1>4, <1>5
  <2>2. i + 1 = j + 1
    BY <1>2, <1>4, <2>1 DEF IsInjective
  <2> QED
    BY <1>4, <2>2
<1>7. ASSUME NEW x \in Range(t) PROVE x \in Range(queue) /\ x # e
  <2>1. PICK i \in 1..(n - 1) : x = t[i]
    BY <1>5 DEF Range
  <2>2. i + 1 \in 1..n /\ i + 1 # 1 /\ 1 \in 1..n /\ x = queue[i + 1]
    BY <1>4, <1>5, <2>1
  <2> QED
    BY <1>2, <1>4, <2>2 DEF IsInjective, Range
<1>8. ASSUME NEW x \in Range(queue), x # e PROVE x \in Range(t)
  <2>1. PICK i \in 1..n : x = queue[i]
    BY <1>4 DEF Range
  <2>2. i - 1 \in 1..(n - 1) /\ x = t[i - 1]
    <3>1. i # 1
      BY <1>4, <1>8, <2>1
    <3>2. i - 1 \in 1..(n - 1) /\ (i - 1) + 1 = i
      BY <1>4, <3>1
    <3> QED
      BY <1>5, <2>1, <3>2
  <2> QED
    BY <1>5, <2>2 DEF Range
<1>9. e \in Range(queue)
  <2>1. 1 \in 1..n
    BY <1>4
  <2> QED
    BY <1>4, <2>1 DEF Range
<1> QED
  BY <1>1, <1>3, <1>5, <1>6, <1>7, <1>8, <1>9

(* DoINITCmd: a new, empty file and the rotation of the day after.         *)
LEMMA InitialisesFile ==
    ASSUME FilesOk, ValidOk, NEW f \in Filters, Csv(f), DoINITCmd(f, <<>>),
           cyclic' = cyclic \cup {f}, kind' = kind, day' = day, capsupdated' = capsupdated
    PROVE  /\ FilesOk' /\ columns' = columns /\ ~headerwritten'[f]
           /\ \A g \in Filters \ {f} : headerwritten'[g] = headerwritten[g]
<1>1. PICK d \in CanOpen(f) : file' = [file EXCEPT ![f] = d]
  BY DEF DoINITCmd
<1>2. d \in Days \cup {NotOpen} /\ d <= day /\ (d # NotOpen => d = day) /\ day \in Nat
  BY <1>1, FiltersAssumption DEF CanOpen, ValidOk, Days, NotOpen
<1>3. /\ headerwritten' = [headerwritten EXCEPT ![f] = FALSE]
      /\ rotation' = [rotation EXCEPT ![f] = Append(<<>>, day + 1)]
      /\ written' = [written EXCEPT ![f] = Empty]
      /\ columns' = columns /\ logged' = logged /\ last_line' = last_line
  BY DEF DoINITCmd
<1>4. Append(<<>>, day + 1) = <<day + 1>>
  OBVIOUS
<1>5. /\ DOMAIN columns = Filters /\ DOMAIN logged = Filters /\ DOMAIN file = Filters
      /\ DOMAIN rotation = Filters /\ DOMAIN headerwritten = Filters
      /\ DOMAIN written = Filters /\ DOMAIN last_line = Filters
      /\ capsupdated \in [Filters -> BOOLEAN]
  BY DEF FilesOk
<1>6. ASSUME NEW g \in Filters PROVE FileOk(g)'
  <2>1. FileOk(g)
    BY DEF FilesOk
  <2>2. CASE g = f
    <3>1. /\ file'[g] = d /\ headerwritten'[g] = FALSE /\ rotation'[g] = <<day + 1>>
          /\ written'[g] = Empty
      BY <1>1, <1>3, <1>4, <1>5, <2>2
    <3>2. day + 1 \in Nat /\ (d # NotOpen => day + 1 = d + 1)
      BY <1>2
    <3>3. /\ columns[g] \in Seq(Names) /\ IsInjective(columns[g])
          /\ logged[g] \in Seq(Names) /\ GoesOn(logged[g], columns[g])
      BY <2>1 DEF FileOk
    <3>4. g \in cyclic' /\ kind'[g] = "csv"
      BY <2>2 DEF Csv
    <3>5. (g \in cyclic /\ Csv(g))' <=> TRUE
      BY <3>4 DEF Csv
    <3> QED
      BY <1>2, <1>3, <3>1, <3>2, <3>3, <3>5 DEF FileOk
  <2>3. CASE g # f
    <3>1. /\ file'[g] = file[g] /\ headerwritten'[g] = headerwritten[g]
          /\ rotation'[g] = rotation[g] /\ written'[g] = written[g]
          /\ g \in cyclic' <=> g \in cyclic
      BY <1>1, <1>3, <1>5, <2>3
    <3> QED
      BY <1>3, <2>1, <3>1 DEF FileOk, Csv
  <2> QED
    BY <2>2, <2>3
<1>7. FilesOk'
  BY <1>1, <1>3, <1>5, <1>6 DEF FilesOk
<1>8. ~headerwritten'[f] /\ \A g \in Filters \ {f} : headerwritten'[g] = headerwritten[g]
  BY <1>3, <1>5
<1> QED
  BY <1>3, <1>7, <1>8

(* The columns of all files stay.                                          *)
LEMMA ColumnsKept ==
    ASSUME FilesOk, columns' = columns
    PROVE  \A g \in Filters : columns'[g] \in Seq(Names) /\ GoesOn(columns[g], columns'[g])
<1>1. \A g \in Filters : columns[g] \in Seq(Names)
  BY DEF FilesOk, FileOk
<1> QED
  BY <1>1 DEF GoesOn

LEMMA SubscribeFacts ==
    ASSUME ConfigOk, ObserversOk, NEW f \in Filters, observers' = SubscribeMandatory(observers, f),
           cyclic' = cyclic \cup {f}, base' = base
    PROVE  ObserversOk'
<1>1. PICK wanted : wanted = { Concrete(base[f], n) : n \in Mandatory }
  OBVIOUS
<1>2. base[f] \in Objects /\ f \in Filters
  BY DEF ConfigOk, Chained
<1>3. /\ Concrete(base[f], Updated) = <<base[f], Updated>>
      /\ Concrete(base[f], DataState) = <<Inverter, DataState>>
      /\ Concrete(base[f], RemoveAll) = NoCap
            \/ \E x \in Objects : Concrete(base[f], RemoveAll) = <<x, RemoveAll>>
  BY <1>2, SubscribedTo
<1>4. wanted = {<<base[f], Updated>>, Concrete(base[f], RemoveAll), <<Inverter, DataState>>}
  BY <1>1, <1>3 DEF Mandatory
<1>5. observers' = [c \in AllCaps |-> IF c \in wanted THEN Subscribe(observers, f, c)[c] ELSE observers[c]]
  BY <1>1 DEF SubscribeMandatory
<1>6. \A c \in AllCaps : observers[c] \in Seq(Filters) /\ IsInjective(observers[c])
  BY DEF ObserversOk
<1>7. ASSUME NEW c \in AllCaps
      PROVE  /\ observers'[c] \in Seq(Filters) /\ IsInjective(observers'[c])
             /\ Range(observers'[c]) = IF c \in wanted THEN Range(observers[c]) \cup {f}
                                                       ELSE Range(observers[c])
  <2>1. CASE c \notin wanted
    BY <1>5, <1>6, <2>1
  <2>2. CASE c \in wanted /\ f \in Range(observers[c])
    <3>1. Subscribe(observers, f, c) = observers
      BY <2>2 DEF Subscribe, Subscribed
    <3> QED
      BY <1>5, <1>6, <2>2, <3>1
  <2>3. CASE c \in wanted /\ f \notin Range(observers[c])
    <3>1. Subscribe(observers, f, c) = [observers EXCEPT ![c] = Append(@, f)]
      BY <2>3 DEF Subscribe, Subscribed
    <3>2. Subscribe(observers, f, c)[c] = Append(observers[c], f)
      BY <3>1 DEF ObserversOk
    <3>3. /\ Append(observers[c], f) \in Seq(Filters) /\ IsInjective(Append(observers[c], f))
          /\ Range(Append(observers[c], f)) = Range(observers[c]) \cup {f}
      BY <1>6, <2>3, AppendRange
    <3> QED
      BY <1>5, <2>3, <3>2, <3>3
  <2> QED
    BY <2>1, <2>2, <2>3
<1>8. observers' \in [AllCaps -> Seq(Filters)]
  <2>1. DOMAIN observers' = AllCaps
    BY <1>5
  <2>2. observers' = [c \in AllCaps |-> observers'[c]]
    BY <1>5
  <2> QED
    BY <1>7, <2>2
<1>9. ASSUME NEW x \in Objects
      PROVE  Range(observers'[<<x, Updated>>]) = { g \in cyclic' : base[g] = x }
  <2>1. <<x, Updated>> \in AllCaps /\ <<x, Updated>> # NoCap
    BY CapabilityFacts
  <2>2. <<x, Updated>> \in wanted <=> x = base[f]
    BY <1>3, <1>4, <2>1, CapabilityFacts
  <2>3. Range(observers[<<x, Updated>>]) = { g \in cyclic : base[g] = x }
    BY DEF ObserversOk
  <2> QED
    BY <1>7, <2>1, <2>2, <2>3
<1>10. Range(observers'[<<Inverter, DataState>>]) = cyclic'
  <2>1. <<Inverter, DataState>> \in AllCaps
    BY CapabilityFacts DEF Objects
  <2>2. <<Inverter, DataState>> \in wanted
    BY <1>4
  <2> QED
    BY <1>7, <2>1, <2>2 DEF ObserversOk
<1>11. cyclic' \subseteq Filters
  BY DEF ObserversOk
<1> QED
  BY <1>7, <1>8, <1>9, <1>10, <1>11 DEF ObserversOk

LEMMA FiltersCmdInit ==
    ASSUME FiltersIInv, NEW f \in Filters, CmdInit(f)
    PROVE  FiltersIInv'
<1>1. ConfigOk /\ ObserversOk /\ QueueOk /\ ValidOk /\ FilesOk /\ PagesOk /\ NewsOnTheWay
  BY DEF FiltersIInv
<1>2. /\ Take(f, "INIT") /\ queue' = Tail(queue) /\ observers' = SubscribeMandatory(observers, f)
      /\ cyclic' = cyclic \cup {f}
      /\ IF Csv(f) THEN DoINITCmd(f, <<>>) ELSE UNCHANGED csvVars
      /\ kind' = kind /\ cfg' = cfg /\ base' = base /\ configuration' = configuration
      /\ dataState' = dataState /\ value' = value /\ owned' = owned
      /\ day' = day /\ datavalid' = datavalid /\ capsupdated' = capsupdated
      /\ AddedCaps' = AddedCaps /\ page' = page
  BY DEF CmdInit, configuration, inverterVars
<1>3. /\ Tail(queue) \in Seq(FilterCommands) /\ IsInjective(Tail(queue))
      /\ Range(Tail(queue)) = Range(queue) \ {InitFor(f)}
      /\ InitFor(f) \in Range(queue)
  BY <1>1, <1>2, TakenFromQueue DEF InitFor
<1>4. f \notin cyclic /\ ~Started
  BY <1>1, <1>3 DEF QueueOk, Started
<1>5. ConfigOk'
  BY <1>1, <1>2 DEF ConfigOk, Published
<1>6. ObserversOk'
  BY <1>1, <1>2, SubscribeFacts
<1>7. QueueOk'
  <2>1. \A g : NewsFor(g) # InitFor(f) /\ (InitFor(g) = InitFor(f) => g = f)
    BY DEF NewsFor, InitFor
  <2>2. \A g \in Filters : ~AddedCaps[g]
    BY <1>1, <1>4 DEF QueueOk
  <2> QED
    BY <1>1, <1>2, <1>3, <2>1, <2>2 DEF QueueOk
<1>8. ValidOk'
  BY <1>1, <1>2 DEF ValidOk, Days
<1>9. /\ FilesOk' /\ columns' = columns
      /\ \A g \in Filters \ {f} : headerwritten'[g] = headerwritten[g]
      /\ Csv(f) => ~headerwritten'[f]
  <2>1. CASE Csv(f)
    BY <1>1, <1>2, <2>1, InitialisesFile
  <2>2. CASE ~Csv(f)
    <3>1. csvVars' = csvVars
      BY <1>2, <2>2
    <3>2. /\ headerwritten' = headerwritten /\ columns' = columns /\ file' = file
          /\ last_line' = last_line /\ logged' = logged /\ rotation' = rotation /\ written' = written
      BY <3>1 DEF csvVars
    <3>3. ASSUME NEW g \in Filters PROVE FileOk(g)'
      <4>1. (g \in cyclic /\ Csv(g))' <=> (g \in cyclic /\ Csv(g))
        BY <1>2, <2>2 DEF Csv
      <4>2. FileOk(g)
        BY <1>1 DEF FilesOk
      <4> QED
        BY <1>2, <3>2, <4>1, <4>2 DEF FileOk, Days
    <3>4. FilesOk'
      BY <1>1, <1>2, <3>2, <3>3 DEF FilesOk
    <3> QED
      BY <2>2, <3>2, <3>4
  <2> QED
    BY <2>1, <2>2
<1>10. PagesOk'
  BY <1>1, <1>2, <1>9, ColumnsKept, PagesKept
<1>11. NewsOnTheWay'
  <2>1. ASSUME NEW g \in cyclic', Csv(g)', (cfg[g].all)'
        PROVE  \/ Visible(base[g])' \subseteq Range(columns'[g])
               \/ capsupdated'[g] \/ ~headerwritten'[g] \/ Delayed(g)'
    <3>a. kind'[g] = "csv" /\ kind[g] = "csv" /\ Csv(g) /\ cfg[g].all
      BY <1>2, <2>1 DEF Csv
    <3>1. CASE g = f
      <4>1. ~headerwritten'[g]
        BY <1>9, <3>1, <3>a
      <4> QED
        BY <4>1
    <3>2. CASE g # f
      <4>1. g \in cyclic /\ g \in Filters
        BY <1>1, <1>2, <2>1, <3>2 DEF ObserversOk
      <4>2. columns'[g] = columns[g] /\ capsupdated'[g] = capsupdated[g] /\ headerwritten'[g] = headerwritten[g]
        BY <1>2, <1>9, <3>2, <4>1
      <4> QED
        BY ONLY <1>1, <1>2, <3>a, <4>1, <4>2, NewsKept
    <3> QED
      BY <3>1, <3>2
  <2> QED
    BY <2>1 DEF NewsOnTheWay
<1> QED
  BY <1>5, <1>6, <1>7, <1>8, <1>9, <1>10, <1>11 DEF FiltersIInv

LEMMA PrefixesChain ==
    ASSUME NEW S, NEW r \in Seq(S), NEW s \in Seq(S), NEW t \in Seq(S), GoesOn(r, s), GoesOn(s, t)
    PROVE  GoesOn(r, t)
<1>1. Len(r) \in Nat /\ Len(s) \in Nat /\ Len(t) \in Nat /\ Len(r) <= Len(s) /\ Len(s) <= Len(t)
  BY DEF GoesOn
<1>2. ASSUME NEW i \in 1..Len(r) PROVE t[i] = r[i]
  <2>1. i \in 1..Len(s)
    BY <1>1
  <2>2. t[i] = s[i] /\ s[i] = r[i]
    BY <2>1 DEF GoesOn
  <2> QED
    BY <2>2
<1> QED
  BY <1>1, <1>2 DEF GoesOn

LEMMA PrefixesSelf ==
    ASSUME NEW S, NEW s \in Seq(S) PROVE GoesOn(s, s)
BY DEF GoesOn

(* What CMDCyclic_CheckCapas makes of the columns.                         *)
LEMMA CheckedColumns ==
    ASSUME ConfigOk, FilesOk, NEW f \in Filters, NEW cols \in Columns(f)
    PROVE  /\ cols \in Seq(Names) /\ IsInjective(cols) /\ GoesOn(columns[f], cols)
           /\ ~Check(f) => cols = columns[f]
           /\ Check(f) /\ cfg[f].all => Visible(base[f]) \subseteq Range(cols)
<1>1. columns[f] \in Seq(Names) /\ IsInjective(columns[f])
  BY DEF FilesOk, FileOk
<1>2. base[f] \in Objects /\ Chained(base)
  BY DEF ConfigOk, Chained
<1>3. PICK w : w = Wanted(f)
  OBVIOUS
<1>4. Iterate(base[f]) \in Seq(Names) /\ Range(Iterate(base[f])) = Visible(base[f])
  BY <1>2, IterationFacts
<1>5. w \in Seq(Names) /\ (cfg[f].all => Range(w) = Visible(base[f]))
  <2>1. CASE cfg[f].all
    <3>1. w = Iterate(base[f])
      BY <1>3, <2>1 DEF Wanted
    <3> QED
      BY <1>4, <3>1
  <2>2. CASE ~cfg[f].all
    <3>1. w = Listed \/ w = Iterate(base[f])
      BY <1>3 DEF Wanted
    <3> QED
      BY <1>4, <2>2, <3>1, FiltersAssumption
  <2> QED
    BY <2>1, <2>2
<1>6. cols = IF Check(f) THEN Extended(columns[f], w) ELSE columns[f]
  BY <1>3 DEF Columns
<1>7. /\ Extended(columns[f], w) \in Seq(Names) /\ IsInjective(Extended(columns[f], w))
      /\ Range(Extended(columns[f], w)) = Range(columns[f]) \cup Range(w)
      /\ GoesOn(columns[f], Extended(columns[f], w))
  BY <1>1, <1>5, ExtendedFacts
<1>8. GoesOn(columns[f], columns[f])
  BY <1>1, PrefixesSelf
<1> QED
  BY <1>1, <1>5, <1>6, <1>7, <1>8

(* DoCYCLICmd: the columns grow at the end, and with an open file header   *)
(* and row agree again.                                                    *)
LEMMA WritesFile ==
    ASSUME ConfigOk, FilesOk, ValidOk, NEW f \in Filters, DoCYCLICmd(f),
           cyclic' = cyclic, kind' = kind, cfg' = cfg, day' = day, base' = base, owned' = owned
    PROVE  /\ FilesOk'
           /\ \A g \in Filters : columns'[g] \in Seq(Names) /\ GoesOn(columns[g], columns'[g])
           /\ \A g \in Filters \ {f} : /\ columns'[g] = columns[g]
                                       /\ capsupdated'[g] = capsupdated[g]
                                       /\ headerwritten'[g] = headerwritten[g]
           /\ \/ columns'[f] = columns[f] /\ capsupdated'[f] = capsupdated[f]
                 /\ headerwritten'[f] = headerwritten[f]
              \/ cfg[f].all => Visible(base[f]) \subseteq Range(columns'[f])
<1>1. PICK cols \in Columns(f) :
         LET headed == headerwritten[f] /\ cols = columns[f]
             line == [i \in DOMAIN cols |-> Text(base[f], cols[i])]
             header == IF headed THEN written[f].header ELSE cols
         IN  /\ columns' = [columns EXCEPT ![f] = cols]
             /\ capsupdated' = [capsupdated EXCEPT ![f] = @ /\ ~Check(f)]
             /\ found_all_capas' = [found_all_capas EXCEPT ![f] = @ \/ (Check(f) /\ ~cfg[f].all)]
             /\ headerwritten' = [headerwritten EXCEPT ![f] = file[f] # NotOpen \/ headed]
             /\ IF file[f] = NotOpen
                THEN UNCHANGED <<logged, last_line, written>>
                ELSE /\ logged' = [logged EXCEPT ![f] = IF headed THEN @ ELSE cols]
                     /\ last_line' = [last_line EXCEPT ![f] = line]
                     /\ written' = [written EXCEPT ![f] =
                            IF Suppressed(f, line, LineBefore(f, headed))
                            THEN [@ EXCEPT !.header = header]
                            ELSE [header |-> header, row |-> cols, line |-> line]]
             /\ UNCHANGED <<file, rotation>>
  BY DEF DoCYCLICmd
<1>2. PICK headed, line, header :
         /\ headed = (headerwritten[f] /\ cols = columns[f])
         /\ line = [i \in DOMAIN cols |-> Text(base[f], cols[i])]
         /\ header = IF headed THEN written[f].header ELSE cols
  OBVIOUS
<1>3. /\ columns' = [columns EXCEPT ![f] = cols]
      /\ capsupdated' = [capsupdated EXCEPT ![f] = @ /\ ~Check(f)]
      /\ headerwritten' = [headerwritten EXCEPT ![f] = file[f] # NotOpen \/ headed]
      /\ file' = file /\ rotation' = rotation
      /\ file[f] = NotOpen => logged' = logged /\ last_line' = last_line /\ written' = written
      /\ file[f] # NotOpen =>
           /\ logged' = [logged EXCEPT ![f] = IF headed THEN @ ELSE cols]
           /\ last_line' = [last_line EXCEPT ![f] = line]
           /\ written' = [written EXCEPT ![f] =
                  IF Suppressed(f, line, LineBefore(f, headed))
                  THEN [@ EXCEPT !.header = header]
                  ELSE [header |-> header, row |-> cols, line |-> line]]
  BY <1>1, <1>2
<1>4. /\ cols \in Seq(Names) /\ IsInjective(cols) /\ GoesOn(columns[f], cols)
      /\ ~Check(f) => cols = columns[f]
      /\ Check(f) /\ cfg[f].all => Visible(base[f]) \subseteq Range(cols)
  BY CheckedColumns
<1>5. /\ DOMAIN columns = Filters /\ DOMAIN logged = Filters /\ DOMAIN file = Filters
      /\ DOMAIN rotation = Filters /\ DOMAIN headerwritten = Filters
      /\ DOMAIN written = Filters /\ DOMAIN last_line = Filters
      /\ capsupdated \in [Filters -> BOOLEAN]
  BY DEF FilesOk
<1>6. FileOk(f) /\ headerwritten[f] \in BOOLEAN
  BY DEF FilesOk, FileOk
<1>7. /\ columns[f] \in Seq(Names) /\ logged[f] \in Seq(Names) /\ GoesOn(logged[f], columns[f])
      /\ headerwritten[f] =>
          /\ file[f] # NotOpen
          /\ written[f] = [header |-> columns[f], row |-> columns[f], line |-> last_line[f]]
      /\ ~headerwritten[f] => written[f] = Empty
  BY <1>6 DEF FileOk
<1>8. GoesOn(logged[f], cols) /\ GoesOn(cols, cols)
  BY <1>4, <1>7, PrefixesChain, PrefixesSelf
<1>9. columns'[f] = cols /\ headerwritten'[f] = (file[f] # NotOpen \/ headed)
  BY <1>3, <1>5
<1>10. /\ headerwritten'[f] \in BOOLEAN
       /\ headerwritten'[f] <=> file[f] # NotOpen
  BY <1>2, <1>7, <1>9
<1>11. logged'[f] \in Seq(Names) /\ GoesOn(logged'[f], cols)
  BY <1>3, <1>4, <1>5, <1>7, <1>8
<1>12. ASSUME file[f] # NotOpen
       PROVE  written'[f] = [header |-> cols, row |-> cols, line |-> last_line'[f]]
  <2>1. /\ last_line'[f] = line
        /\ written'[f] = IF Suppressed(f, line, LineBefore(f, headed))
                         THEN [written[f] EXCEPT !.header = header]
                         ELSE [header |-> header, row |-> cols, line |-> line]
    BY <1>3, <1>5, <1>12
  <2>2. header = cols
    <3>1. CASE headed
      <4>1. headerwritten[f] /\ cols = columns[f]
        BY <1>2, <3>1
      <4>2. written[f].header = columns[f]
        BY <1>7, <4>1
      <4> QED
        BY <1>2, <3>1, <4>1, <4>2
    <3>2. CASE ~headed
      BY <1>2, <3>2
    <3> QED
      BY <3>1, <3>2
  <2>3. CASE ~Suppressed(f, line, LineBefore(f, headed))
    BY <2>1, <2>2, <2>3
  <2>4. CASE Suppressed(f, line, LineBefore(f, headed)) /\ headed
    <3>1. line = last_line[f] /\ cols = columns[f] /\ headerwritten[f]
      BY <1>2, <2>4 DEF Suppressed, LineBefore
    <3>2. written[f] = [header |-> cols, row |-> cols, line |-> line]
      BY <1>7, <3>1
    <3> QED
      BY <2>1, <2>2, <2>4, <3>2
  <2>5. CASE Suppressed(f, line, LineBefore(f, headed)) /\ ~headed
    <3>1. line = <<>>
      BY <2>5 DEF Suppressed, LineBefore
    <3>2. DOMAIN cols = {}
      BY <1>2, <3>1
    <3>3. cols = <<>>
      BY <1>4, <3>2
    <3>4. columns[f] = <<>>
      BY <1>4, <1>7, <3>3 DEF GoesOn
    <3>5. ~headerwritten[f]
      BY <1>2, <2>5, <3>3, <3>4
    <3>6. written[f] = [header |-> <<>>, row |-> <<>>, line |-> <<>>]
      BY <1>7, <3>5 DEF Empty
    <3> QED
      BY <2>1, <2>2, <2>5, <3>1, <3>3, <3>6
  <2> QED
    BY <2>3, <2>4, <2>5
<1>13. ASSUME file[f] = NotOpen PROVE written'[f] = Empty
  BY <1>3, <1>7, <1>13
<1>14. FileOk(f)'
  <2>1. /\ file'[f] = file[f] /\ rotation'[f] = rotation[f]
        /\ (f \in cyclic /\ Csv(f))' <=> (f \in cyclic /\ Csv(f))
    BY <1>3 DEF Csv
  <2>2. /\ file[f] \in Days \cup {NotOpen} /\ file[f] <= day
        /\ f \in cyclic /\ Csv(f) =>
              \E d \in Nat : rotation[f] = <<d>> /\ (file[f] # NotOpen => d = file[f] + 1)
        /\ ~ (f \in cyclic /\ Csv(f)) => rotation[f] = <<>> /\ file[f] = NotOpen
    BY <1>6 DEF FileOk
  <2>3. headerwritten'[f] => written'[f] = [header |-> columns'[f], row |-> columns'[f], line |-> last_line'[f]]
    BY <1>9, <1>10, <1>12
  <2>4. ~headerwritten'[f] => written'[f] = Empty
    BY <1>10, <1>13
  <2> HIDE <1>3, <1>1, <1>2, <1>6, <1>7
  <2> QED
    BY <1>4, <1>9, <1>10, <1>11, <2>1, <2>2, <2>3, <2>4 DEF FileOk, Days
<1>15. ASSUME NEW g \in Filters \ {f}
       PROVE  /\ columns'[g] = columns[g] /\ capsupdated'[g] = capsupdated[g]
              /\ headerwritten'[g] = headerwritten[g] /\ logged'[g] = logged[g]
              /\ last_line'[g] = last_line[g] /\ written'[g] = written[g]
  BY <1>3, <1>5
<1>16. ASSUME NEW g \in Filters PROVE FileOk(g)'
  <2>1. CASE g = f
    BY <1>14, <2>1
  <2>2. CASE g # f
    <3>1. FileOk(g)
      BY DEF FilesOk
    <3>2. file' = file /\ rotation' = rotation
      BY <1>3
    <3>3. (g \in cyclic /\ Csv(g))' <=> (g \in cyclic /\ Csv(g))
      BY DEF Csv
    <3> QED
      BY <1>15, <2>2, <3>1, <3>2, <3>3 DEF FileOk, Days
  <2> QED
    BY <2>1, <2>2
<1>17. /\ DOMAIN columns' = Filters /\ DOMAIN logged' = Filters /\ DOMAIN file' = Filters
       /\ DOMAIN rotation' = Filters /\ DOMAIN headerwritten' = Filters
       /\ DOMAIN written' = Filters /\ DOMAIN last_line' = Filters
       /\ capsupdated' \in [Filters -> BOOLEAN]
  BY <1>3, <1>5
<1>18. FilesOk'
  BY <1>16, <1>17 DEF FilesOk
<1>19. ASSUME NEW g \in Filters PROVE columns'[g] \in Seq(Names) /\ GoesOn(columns[g], columns'[g])
  <2>1. columns[g] \in Seq(Names)
    BY DEF FilesOk, FileOk
  <2>2. GoesOn(columns[g], columns[g])
    BY <2>1, PrefixesSelf
  <2> QED
    BY <1>4, <1>9, <1>15, <2>1, <2>2
<1>20. \/ /\ columns'[f] = columns[f] /\ capsupdated'[f] = capsupdated[f]
          /\ headerwritten'[f] = headerwritten[f]
       \/ cfg[f].all => Visible(base[f]) \subseteq Range(columns'[f])
  <2>1. CASE Check(f)
    BY <1>4, <1>9, <2>1
  <2>2. CASE ~Check(f)
    <3>1. cols = columns[f] /\ headerwritten[f] /\ ~capsupdated[f]
      BY <1>4, <2>2 DEF Check
    <3>2. capsupdated'[f] = (capsupdated[f] /\ ~Check(f))
      BY <1>3, <1>5
    <3>3. headerwritten'[f] = headerwritten[f]
      BY <1>6, <1>7, <1>10, <3>1
    <3>4. capsupdated'[f] = capsupdated[f]
      BY <1>5, <3>1, <3>2
    <3> QED
      BY <1>9, <3>1, <3>3, <3>4
  <2> QED
    BY <2>1, <2>2
<1> QED
  BY <1>15, <1>18, <1>19, <1>20

(* The page of an HTML filter names a column of the CSV file below it.     *)
LEMMA PageShown ==
    ASSUME ConfigOk, FilesOk, PagesOk, NEW f \in Filters,
           page' = [page EXCEPT ![f] = ColumnShown(f)],
           base' = base, owned' = owned, columns' = columns
    PROVE  PagesOk'
<1>1. DOMAIN page = Filters
  BY DEF PagesOk
<1>2. \A g \in Filters : g \in Objects
  BY DEF Objects
<1>3. ASSUME NEW g \in Filters PROVE Concrete(g, Logged)' = Concrete(g, Logged)
  BY ConcreteLooksUp
<1>4. /\ ColumnShown(f) \in Nat
      /\ ColumnShown(f) # 0 =>
           \E g \in Filters : /\ Concrete(f, Logged) = <<g, Logged>>
                              /\ ColumnShown(f) \in 1 .. Len(columns[g])
                              /\ columns[g][ColumnShown(f)] \in Containing
  <2>1. CASE Concrete(f, Logged) = NoCap
    BY <2>1 DEF ColumnShown
  <2>2. CASE Concrete(f, Logged) # NoCap
    <3>1. PICK g \in Objects : Logged \in owned[g] /\ Concrete(f, Logged) = <<g, Logged>>
      BY <1>2, <2>2, ConcreteLooksUp, LookUpFinds DEF ConfigOk
    <3>2. g \in Filters
      BY <3>1, PublishedFacts DEF Objects
    <3>3. PICK s : s = logged[g]
      OBVIOUS
    <3>4. ColumnShown(f) = SearchCSVEntry(s)
      BY <2>2, <3>1, <3>3 DEF ColumnShown
    <3>5. s \in Seq(Names) /\ GoesOn(s, columns[g]) /\ columns[g] \in Seq(Names)
      BY <3>2, <3>3 DEF FilesOk, FileOk
    <3>6. PICK found : found = { i \in DOMAIN s : s[i] \in Containing }
      OBVIOUS
    <3>7. CASE found = {}
      BY <3>4, <3>6, <3>7 DEF SearchCSVEntry
    <3>8. CASE found # {}
      <4>1. found \subseteq Nat /\ DOMAIN s = 1..Len(s) /\ Len(s) \in Nat
        BY <3>5, <3>6
      <4>2. PICK m \in found : \A j \in found : m <= j
        BY <3>8, <4>1, LeastOf
      <4>3. ColumnShown(f) = CHOOSE i \in found : \A j \in found : i <= j
        BY <3>4, <3>6, <3>8 DEF SearchCSVEntry
      <4>4. ColumnShown(f) \in found
        BY <4>2, <4>3
      <4>5. ColumnShown(f) \in 1..Len(s) /\ s[ColumnShown(f)] \in Containing
        BY <3>6, <4>1, <4>4
      <4>6. ColumnShown(f) \in 1..Len(columns[g]) /\ columns[g][ColumnShown(f)] = s[ColumnShown(f)]
        BY <3>5, <4>1, <4>5 DEF GoesOn
      <4> QED
        BY <3>1, <3>2, <4>1, <4>5, <4>6
    <3> QED
      BY <3>7, <3>8
  <2> QED
    BY <2>1, <2>2
<1>5. ASSUME NEW g \in Filters PROVE PageOk(g)'
  <2>1. CASE g = f
    <3>1. page'[g] = ColumnShown(f)
      BY <1>1, <2>1
    <3> QED
      BY <1>3, <1>4, <2>1, <3>1 DEF PageOk
  <2>2. CASE g # f
    <3>1. page'[g] = page[g] /\ PageOk(g)
      BY <1>1, <2>2 DEF PagesOk
    <3> QED
      BY <1>3, <3>1 DEF PageOk
  <2> QED
    BY <2>1, <2>2
<1> QED
  BY <1>1, <1>5 DEF PagesOk

LEMMA FiltersCyclic ==
    ASSUME FiltersIInv, NEW f \in Filters, Cyclic(f)
    PROVE  FiltersIInv'
<1>1. ConfigOk /\ ObserversOk /\ QueueOk /\ ValidOk /\ FilesOk /\ PagesOk /\ NewsOnTheWay
  BY DEF FiltersIInv
<1>2. /\ f \in cyclic
      /\ kind' = kind /\ cfg' = cfg /\ base' = base /\ configuration' = configuration
      /\ dataState' = dataState /\ value' = value /\ owned' = owned
      /\ observers' = observers /\ queue' = queue /\ cyclic' = cyclic
      /\ day' = day /\ datavalid' = datavalid /\ AddedCaps' = AddedCaps
  BY DEF Cyclic, configuration, inverterVars
<1>3. ConfigOk' /\ ObserversOk'
  BY <1>1, <1>2 DEF ConfigOk, ObserversOk, Published
<1>4. QueueOk' /\ ValidOk'
  BY <1>1, <1>2 DEF QueueOk, ValidOk, Started, Days
<1>5. CASE Csv(f) /\ datavalid[f]
  <2>1. DoCYCLICmd(f) /\ page' = page
    BY <1>5 DEF Cyclic, Csv
  <2>2. /\ FilesOk'
        /\ \A g \in Filters : columns'[g] \in Seq(Names) /\ GoesOn(columns[g], columns'[g])
        /\ \A g \in Filters \ {f} : /\ columns'[g] = columns[g]
                                    /\ capsupdated'[g] = capsupdated[g]
                                    /\ headerwritten'[g] = headerwritten[g]
        /\ \/ columns'[f] = columns[f] /\ capsupdated'[f] = capsupdated[f]
              /\ headerwritten'[f] = headerwritten[f]
           \/ cfg[f].all => Visible(base[f]) \subseteq Range(columns'[f])
    BY <1>1, <1>2, <2>1, WritesFile
  <2>3. PagesOk'
    BY <1>1, <1>2, <2>1, <2>2, PagesKept
  <2>4. NewsOnTheWay'
    <3>1. ASSUME NEW g \in cyclic', Csv(g)', (cfg[g].all)'
          PROVE  \/ Visible(base[g])' \subseteq Range(columns'[g])
                 \/ capsupdated'[g] \/ ~headerwritten'[g] \/ Delayed(g)'
      <4>1. g \in cyclic /\ g \in Filters /\ Csv(g) /\ cfg[g].all
        BY <1>1, <1>2, <3>1 DEF Csv, ObserversOk
      <4>2. CASE /\ columns'[g] = columns[g] /\ capsupdated'[g] = capsupdated[g]
                 /\ headerwritten'[g] = headerwritten[g]
        BY ONLY <1>1, <1>2, <4>1, <4>2, NewsKept
      <4>3. CASE g = f /\ Visible(base[f]) \subseteq Range(columns'[f])
        <5>1. Visible(base[f])' = Visible(base[f])
          BY <1>2, ConcreteLooksUp DEF Visible
        <5> QED
          BY <4>3, <5>1
      <4> QED
        BY <2>2, <4>1, <4>2, <4>3
    <3> QED
      BY <3>1 DEF NewsOnTheWay
  <2> QED
    BY <1>3, <1>4, <2>2, <2>3, <2>4 DEF FiltersIInv
<1>6. CASE ~ (Csv(f) /\ datavalid[f])
  <2>1. csvVars' = csvVars /\ capsupdated' = capsupdated
    BY <1>6 DEF Cyclic
  <2>2. /\ headerwritten' = headerwritten /\ columns' = columns /\ file' = file
        /\ last_line' = last_line /\ logged' = logged /\ rotation' = rotation /\ written' = written
    BY <2>1 DEF csvVars
  <2>3. FilesOk'
    BY <1>1, <1>2, <2>1, <2>2 DEF FilesOk, FileOk, Csv, Days
  <2>4. NewsOnTheWay'
    <3>1. ASSUME NEW g \in cyclic', Csv(g)', (cfg[g].all)'
          PROVE  \/ Visible(base[g])' \subseteq Range(columns'[g])
                 \/ capsupdated'[g] \/ ~headerwritten'[g] \/ Delayed(g)'
      <4>1. g \in cyclic /\ g \in Filters /\ Csv(g) /\ cfg[g].all
        BY <1>1, <1>2, <3>1 DEF Csv, ObserversOk
      <4>2. /\ columns'[g] = columns[g] /\ capsupdated'[g] = capsupdated[g]
            /\ headerwritten'[g] = headerwritten[g]
        BY <2>1, <2>2
      <4> QED
        BY ONLY <1>1, <1>2, <4>1, <4>2, NewsKept
    <3> QED
      BY <3>1 DEF NewsOnTheWay
  <2>5. CASE page' = page
    <3>1. PagesOk'
      BY <1>1, <1>2, <2>2, <2>5, ColumnsKept, PagesKept
    <3> QED
      BY <1>3, <1>4, <2>3, <2>4, <3>1 DEF FiltersIInv
  <2>6. CASE page' = [page EXCEPT ![f] = ColumnShown(f)]
    <3>1. PagesOk'
      BY <1>1, <1>2, <2>2, <2>6, PageShown
    <3> QED
      BY <1>3, <1>4, <2>3, <2>4, <3>1 DEF FiltersIInv
  <2>7. page' = page \/ page' = [page EXCEPT ![f] = ColumnShown(f)]
    BY DEF Cyclic, DoCyclicCmd
  <2> QED
    BY <2>5, <2>6, <2>7
<1> QED
  BY <1>5, <1>6

LEMMA FiltersCmdRotate ==
    ASSUME FiltersIInv, NEW f \in Filters, CmdRotate(f)
    PROVE  FiltersIInv'
<1>1. ConfigOk /\ ObserversOk /\ QueueOk /\ ValidOk /\ FilesOk /\ PagesOk /\ NewsOnTheWay
  BY DEF FiltersIInv
<1>2. /\ kind' = kind /\ cfg' = cfg /\ base' = base /\ configuration' = configuration
      /\ dataState' = dataState /\ value' = value /\ owned' = owned
      /\ observers' = observers /\ queue' = queue /\ cyclic' = cyclic /\ capsupdated' = capsupdated
      /\ day' = day /\ datavalid' = datavalid /\ AddedCaps' = AddedCaps /\ page' = page
  BY DEF CmdRotate, configuration, inverterVars
<1>3. f \in cyclic /\ Csv(f) /\ Tail(rotation[f]) = <<>>
  <2>1. FileOk(f) /\ rotation[f] # <<>>
    BY <1>1 DEF FilesOk, CmdRotate
  <2>2. f \in cyclic /\ Csv(f) /\ \E d \in Nat : rotation[f] = <<d>>
    BY <2>1 DEF FileOk
  <2> QED
    BY <2>2
<1>4. DoINITCmd(f, <<>>)
  BY <1>3 DEF CmdRotate
<1>5. /\ FilesOk' /\ columns' = columns /\ ~headerwritten'[f]
      /\ \A g \in Filters \ {f} : headerwritten'[g] = headerwritten[g]
  <2>1. cyclic' = cyclic \cup {f}
    BY <1>2, <1>3
  <2> QED
    BY <1>1, <1>2, <1>3, <1>4, <2>1, InitialisesFile
<1>6. ConfigOk' /\ ObserversOk'
  BY <1>1, <1>2 DEF ConfigOk, ObserversOk, Published
<1>7. QueueOk' /\ ValidOk'
  BY <1>1, <1>2 DEF QueueOk, ValidOk, Started, Days
<1>8. PagesOk'
  BY <1>1, <1>2, <1>5, ColumnsKept, PagesKept
<1>9. NewsOnTheWay'
  <2>1. ASSUME NEW g \in cyclic', Csv(g)', (cfg[g].all)'
        PROVE  \/ Visible(base[g])' \subseteq Range(columns'[g])
               \/ capsupdated'[g] \/ ~headerwritten'[g] \/ Delayed(g)'
    <3>1. g \in cyclic /\ g \in Filters /\ Csv(g) /\ cfg[g].all
      BY <1>1, <1>2, <2>1 DEF Csv, ObserversOk
    <3>2. CASE g = f
      BY <1>5, <3>2
    <3>3. CASE g # f
      <4>1. /\ columns'[g] = columns[g] /\ capsupdated'[g] = capsupdated[g]
            /\ headerwritten'[g] = headerwritten[g]
        BY <1>2, <1>5, <3>1, <3>3
      <4> QED
        BY ONLY <1>1, <1>2, <3>1, <4>1, NewsKept
    <3> QED
      BY <3>2, <3>3
  <2> QED
    BY <2>1 DEF NewsOnTheWay
<1> QED
  BY <1>5, <1>6, <1>7, <1>8, <1>9 DEF FiltersIInv

LEMMA FiltersCmdAddedCapas ==
    ASSUME FiltersIInv, NEW f \in Filters, CmdAddedCapas(f)
    PROVE  FiltersIInv'
<1>1. ConfigOk /\ ObserversOk /\ QueueOk /\ ValidOk /\ FilesOk /\ PagesOk /\ NewsOnTheWay
  BY DEF FiltersIInv
<1>2. PICK q, flags : q = Tail(queue) /\ flags = [AddedCaps EXCEPT ![f] = FALSE]
  OBVIOUS
<1>3. /\ Take(f, "ADDED_CAPAS") /\ NotifyUpdated(f, q, flags)
      /\ observers' = Subscribe(observers, f, Concrete(base[f], DataState))
      /\ kind' = kind /\ cfg' = cfg /\ base' = base /\ configuration' = configuration
      /\ dataState' = dataState /\ value' = value /\ owned' = owned
      /\ cyclic' = cyclic /\ csvVars' = csvVars
      /\ day' = day /\ datavalid' = datavalid /\ page' = page
  BY <1>2 DEF CmdAddedCapas, configuration, inverterVars
<1>4. /\ q \in Seq(FilterCommands) /\ IsInjective(q) /\ Range(q) = Range(queue) \ {NewsFor(f)}
      /\ NewsFor(f) \in Range(queue)
  BY <1>1, <1>2, <1>3, TakenFromQueue DEF NewsFor
<1>5. AddedCaps[f] /\ Started
  BY <1>1, <1>4 DEF QueueOk
<1>6. observers' = observers
  <2>1. Concrete(base[f], DataState) = <<Inverter, DataState>>
    <3>1. base[f] \in Objects
      BY <1>1 DEF ConfigOk, Chained
    <3> QED
      BY <1>1, <3>1, SubscribedTo
  <2>2. f \in Range(observers[<<Inverter, DataState>>])
    BY <1>1, <1>5 DEF ObserversOk, Started
  <2> QED
    BY <1>3, <2>1, <2>2 DEF Subscribe, Subscribed
<1>7. /\ flags \in [Filters -> BOOLEAN]
      /\ \A g \in Filters : g # f => flags[g] = AddedCaps[g]
      /\ flags[f] = FALSE
  BY <1>1, <1>2 DEF QueueOk
<1>8. \A g \in Filters : flags[g] <=> NewsFor(g) \in Range(q)
  <2>1. \A g : NewsFor(g) = NewsFor(f) => g = f
    BY DEF NewsFor
  <2>2. \A g \in Filters : AddedCaps[g] <=> NewsFor(g) \in Range(queue)
    BY <1>1 DEF QueueOk
  <2>3. \A g \in Filters : g # f => (flags[g] <=> AddedCaps[g])
    BY <1>7
  <2> QED
    BY <1>4, <1>7, <2>1, <2>2, <2>3
<1>9. capsupdated \in [Filters -> BOOLEAN] /\ f \in Objects
  BY <1>1 DEF FilesOk, Objects
<1>10. /\ queue' \in Seq(FilterCommands) /\ IsInjective(queue')
       /\ AddedCaps' \in [Filters -> BOOLEAN]
       /\ \A g \in Filters : AddedCaps'[g] <=> NewsFor(g) \in Range(queue')
       /\ \A g \in Filters : AddedCaps'[g] <=>
             flags[g] \/ (g \in Hears(observers, kind, f) /\ kind[g] = "dump")
       /\ \A g \in Filters : InitFor(g) \in Range(queue') => InitFor(g) \in Range(q)
       /\ capsupdated' \in [Filters -> BOOLEAN]
       /\ \A g \in Filters : capsupdated'[g] <=>
             capsupdated[g] \/ (g \in Hears(observers, kind, f) /\ Csv(g))
  <2>1. \A g \in Filters : g # f => (flags[g] <=> AddedCaps[g])
    BY <1>7
  <2> QED
    BY ONLY <1>1, <1>3, <1>4, <1>7, <1>8, <1>9, <2>1, NotifyFacts
<1>11. ConfigOk' /\ ObserversOk'
  <2>1. /\ kind' = kind /\ base' = base /\ owned' = owned
        /\ observers' = observers /\ cyclic' = cyclic
    BY <1>3, <1>6
  <2>2. ConfigOk'
    BY ONLY <1>1, <2>1 DEF ConfigOk, Published
  <2>3. ObserversOk'
    BY ONLY <1>1, <2>1 DEF ObserversOk
  <2> QED
    BY <2>2, <2>3
<1>12. QueueOk'
  <2>1. \A g \in Filters : AddedCaps'[g] => kind'[g] = "dump"
    BY <1>1, <1>3, <1>7, <1>10 DEF QueueOk
  <2>2. Started'
    BY <1>3, <1>5 DEF Started
  <2>3. \A g \in cyclic' : InitFor(g) \notin Range(queue')
    BY <1>1, <1>3, <1>4, <1>10 DEF QueueOk, ObserversOk
  <2> QED
    BY <1>10, <2>1, <2>2, <2>3 DEF QueueOk
<1>13. ValidOk'
  BY <1>1, <1>3 DEF ValidOk, Days
<1>14. /\ headerwritten' = headerwritten /\ columns' = columns /\ file' = file
       /\ last_line' = last_line /\ logged' = logged /\ rotation' = rotation /\ written' = written
  BY <1>3 DEF csvVars
<1>15. FilesOk'
  BY <1>1, <1>3, <1>10, <1>14 DEF FilesOk, FileOk, Csv, Days
<1>16. PagesOk'
  BY <1>1, <1>3, <1>14, ColumnsKept, PagesKept
<1>17. NewsOnTheWay'
  <2>1. Chained(base) /\ Attached(observers, base) /\ AllAttached(observers, base)
    BY <1>1, <1>5, AttachedFacts DEF ConfigOk
  <2>2. \A g \in Filters \ {f} : AddedCaps[g] => AddedCaps'[g]
    BY <1>7, <1>10
  <2>3. \A g \in Hears(observers, kind, f) : kind[g] = "dump" => AddedCaps'[g]
    BY <1>9, <1>10, <2>1, ToldMembers
  <2>4. AddedCaps \in [Filters -> BOOLEAN]
    BY <1>1 DEF QueueOk
  <2>5. \A g \in Filters : DelayedBy(base, AddedCaps, base[g]) =>
                              g \in Hears(observers, kind, f) \/ DelayedBy(base, AddedCaps', base[g])
    BY <1>10, <2>1, <2>2, <2>3, <2>4, NewsPassedOn
  <2>6. ASSUME NEW g \in cyclic', Csv(g)', (cfg[g].all)'
        PROVE  \/ Visible(base[g])' \subseteq Range(columns'[g])
               \/ capsupdated'[g] \/ ~headerwritten'[g] \/ Delayed(g)'
    <3>1. g \in cyclic /\ g \in Filters /\ Csv(g) /\ cfg[g].all
      BY <1>1, <1>3, <2>6 DEF Csv, ObserversOk
    <3>2. g \in Objects /\ g # Inverter
      BY <3>1, CapabilitiesAssumption DEF Objects
    <3>3. \/ Visible(base[g]) \subseteq Range(columns[g])
          \/ capsupdated[g] \/ ~headerwritten[g] \/ Delayed(g)
      BY <1>1, <3>1 DEF NewsOnTheWay
    <3>4. CASE Visible(base[g]) \subseteq Range(columns[g])
      <4>1. Visible(base[g])' = Visible(base[g])
        BY <1>3, ConcreteLooksUp DEF Visible
      <4> QED
        BY <1>14, <3>4, <4>1
    <3>5. CASE capsupdated[g] \/ ~headerwritten[g]
      BY <1>10, <1>14, <3>1, <3>5
    <3>6. CASE Delayed(g)
      <4>1. DelayedBy(base, AddedCaps, g)
        BY <3>6, DelayedIsDelayedBy
      <4>2. ~AddedCaps[g]
        BY <1>1, <3>1 DEF QueueOk, Csv
      <4>3. DelayedBy(base, AddedCaps, base[g])
        BY <2>1, <2>4, <3>2, <4>1, <4>2, DelayedUnfolds
      <4>4. CASE g \in Hears(observers, kind, f)
        BY <1>10, <3>1, <4>4
      <4>5. CASE DelayedBy(base, AddedCaps', base[g])
        <5>1. DelayedBy(base, AddedCaps', g)
          BY <1>10, <2>1, <3>2, <4>5, DelayedUnfolds
        <5>2. Delayed(g)'
          BY <1>3, <5>1, DelayedIsDelayedBy
        <5> QED
          BY <5>2
      <4> QED
        BY <2>5, <3>1, <4>3, <4>4, <4>5
    <3> QED
      BY <3>3, <3>4, <3>5, <3>6
  <2> QED
    BY <2>6 DEF NewsOnTheWay
<1> QED
  BY <1>11, <1>12, <1>13, <1>15, <1>16, <1>17 DEF FiltersIInv

LEMMA FiltersNewCapability ==
    ASSUME FiltersIInv, NEW n \in Data, NewCapability(n)
    PROVE  FiltersIInv'
<1>1. ConfigOk /\ ObserversOk /\ QueueOk /\ ValidOk /\ FilesOk /\ PagesOk /\ NewsOnTheWay
  BY DEF FiltersIInv
<1>2. /\ NotifyUpdated(Inverter, queue, AddedCaps) /\ Started
      /\ owned' = [owned EXCEPT ![Inverter] = @ \cup {n}]
      /\ kind' = kind /\ cfg' = cfg /\ base' = base
      /\ dataState' = dataState /\ value' = value /\ observers' = observers
      /\ cyclic' = cyclic /\ csvVars' = csvVars
      /\ day' = day /\ datavalid' = datavalid /\ page' = page
  BY DEF NewCapability, AddCapability, configuration
<1>3. /\ Inverter \in Objects /\ \A f \in Filters : f \in Objects /\ f # Inverter
      /\ n \in Names /\ n # Logged
  BY CapabilitiesAssumption DEF Objects, Data
<1>4. capsupdated \in [Filters -> BOOLEAN]
  BY <1>1 DEF FilesOk
<1>5. /\ queue' \in Seq(FilterCommands) /\ IsInjective(queue')
      /\ AddedCaps' \in [Filters -> BOOLEAN]
      /\ \A g \in Filters : AddedCaps'[g] <=> NewsFor(g) \in Range(queue')
      /\ \A g \in Filters : AddedCaps'[g] <=>
            AddedCaps[g] \/ (g \in Hears(observers, kind, Inverter) /\ kind[g] = "dump")
      /\ \A g \in Filters : InitFor(g) \in Range(queue') => InitFor(g) \in Range(queue)
      /\ capsupdated' \in [Filters -> BOOLEAN]
      /\ \A g \in Filters : capsupdated'[g] <=>
            capsupdated[g] \/ (g \in Hears(observers, kind, Inverter) /\ Csv(g))
  <2>1. /\ queue \in Seq(FilterCommands) /\ IsInjective(queue) /\ AddedCaps \in [Filters -> BOOLEAN]
        /\ \A f \in Filters : AddedCaps[f] <=> NewsFor(f) \in Range(queue)
    BY <1>1 DEF QueueOk
  <2> QED
    BY ONLY <1>1, <1>2, <1>3, <1>4, <2>1, NotifyFacts
<1>6. /\ \A x \in Objects : x # Inverter => owned'[x] = owned[x]
      /\ owned'[Inverter] = owned[Inverter] \cup {n}
      /\ owned' \in [Objects -> SUBSET Names]
  <2>1. owned \in [Objects -> SUBSET Names]
    BY <1>1 DEF ConfigOk
  <2> QED
    BY <1>2, <1>3, <2>1
<1>7. ConfigOk'
  BY <1>1, <1>2, <1>3, <1>6 DEF ConfigOk, Published
<1>8. ObserversOk'
  BY <1>1, <1>2 DEF ObserversOk
<1>9. QueueOk'
  <2>1. \A g \in Filters : AddedCaps'[g] => kind'[g] = "dump"
    BY <1>1, <1>2, <1>5 DEF QueueOk
  <2>2. Started'
    BY <1>2 DEF Started
  <2>3. \A g \in cyclic' : InitFor(g) \notin Range(queue')
    BY <1>1, <1>2, <1>5 DEF QueueOk, ObserversOk
  <2> QED
    BY <1>5, <2>1, <2>2, <2>3 DEF QueueOk
<1>10. ValidOk'
  BY <1>1, <1>2 DEF ValidOk, Days
<1>11. /\ headerwritten' = headerwritten /\ columns' = columns /\ file' = file
       /\ last_line' = last_line /\ logged' = logged /\ rotation' = rotation /\ written' = written
  BY <1>2 DEF csvVars
<1>12. FilesOk'
  BY <1>1, <1>2, <1>5, <1>11 DEF FilesOk, FileOk, Csv, Days
<1>13. PagesOk'
  <2>1. \A x \in Objects : Logged \in owned'[x] <=> Logged \in owned[x]
    BY <1>3, <1>6
  <2> QED
    BY <1>1, <1>2, <1>11, <2>1, ColumnsKept, PagesKept
<1>14. NewsOnTheWay'
  <2>1. Chained(base) /\ Attached(observers, base) /\ AllAttached(observers, base)
    BY <1>1, <1>2, AttachedFacts DEF ConfigOk
  <2>2. \A g \in Hears(observers, kind, Inverter) : kind[g] = "dump" => AddedCaps'[g]
    BY <1>3, <1>5, <2>1, ToldMembers
  <2>3. \A g \in Filters : g \in Hears(observers, kind, Inverter) \/ DelayedBy(base, AddedCaps', base[g])
    BY <1>5, <2>1, <2>2, NewsOfInverter
  <2>4. ASSUME NEW g \in cyclic', Csv(g)'
        PROVE  capsupdated'[g] \/ Delayed(g)'
    <3>1. g \in Filters /\ Csv(g)
      BY <1>1, <1>2, <2>4 DEF Csv, ObserversOk
    <3>2. CASE g \in Hears(observers, kind, Inverter)
      BY <1>5, <3>1, <3>2
    <3>3. CASE DelayedBy(base, AddedCaps', base[g])
      <4>1. DelayedBy(base, AddedCaps', g)
        BY <1>3, <1>5, <2>1, <3>1, <3>3, DelayedUnfolds
      <4> QED
        BY <1>2, <4>1, DelayedIsDelayedBy
    <3> QED
      BY <2>3, <3>1, <3>2, <3>3
  <2> QED
    BY <2>4 DEF NewsOnTheWay
<1> QED
  BY <1>7, <1>8, <1>9, <1>10, <1>12, <1>13, <1>14 DEF FiltersIInv

(* Steps that touch neither queue, names nor files.                        *)
LEMMA FiltersOtherSteps ==
    ASSUME FiltersIInv,
           (\E n \in Data : NewValue(n)) \/ NewDataState \/ Midnight \/ UNCHANGED filterVars
    PROVE  FiltersIInv'
<1>1. ConfigOk /\ ObserversOk /\ QueueOk /\ ValidOk /\ FilesOk /\ PagesOk /\ NewsOnTheWay
  BY DEF FiltersIInv
<1>2. /\ kind' = kind /\ cfg' = cfg /\ base' = base /\ configuration' = configuration
      /\ owned' = owned /\ observers' = observers /\ cyclic' = cyclic /\ queue' = queue
      /\ capsupdated' = capsupdated /\ csvVars' = csvVars /\ page' = page /\ AddedCaps' = AddedCaps
  <2>1. CASE \E n \in Data : NewValue(n)
    BY <2>1 DEF NewValue, configuration
  <2>2. CASE NewDataState
    BY <2>2 DEF NewDataState, configuration
  <2>3. CASE Midnight
    BY <2>3 DEF Midnight, configuration, inverterVars
  <2>4. CASE UNCHANGED filterVars
    BY <2>4 DEF filterVars, configuration, inverterVars
  <2> QED
    BY <2>1, <2>2, <2>3, <2>4
<1>3. ConfigOk' /\ ObserversOk' /\ QueueOk'
  BY <1>1, <1>2 DEF ConfigOk, ObserversOk, QueueOk, Published, Started
<1>4. ValidOk' /\ day' \in Nat /\ day <= day'
  <2>1. day \in Nat /\ MaxDay \in Nat /\ day \in 1..MaxDay
    BY <1>1, FiltersAssumption DEF ValidOk, Days
  <2>2. ASSUME NEW n \in Data, NewValue(n) PROVE ValidOk' /\ day' = day
    <3>1. value' \in [Data -> 0 .. 1]
      <4>1. value \in [Data -> 0 .. 1] /\ value' = [value EXCEPT ![n] = 1 - @]
        BY <1>1, <2>2 DEF ValidOk, NewValue
      <4>2. 1 - value[n] \in 0 .. 1
        BY <4>1
      <4> QED
        BY <4>1, <4>2
    <3> QED
      BY <1>1, <1>2, <2>2, <3>1 DEF ValidOk, NewValue, Days
  <2>3. CASE NewDataState
    <3>1. /\ dataState' = ~dataState /\ value' = value /\ day' = day
          /\ datavalid' = [f \in Filters |-> IF Informed(f) THEN ~dataState ELSE datavalid[f]]
      BY <2>3 DEF NewDataState
    <3>2. ASSUME NEW f \in Filters, datavalid'[f]
          PROVE  dataState' /\ kind'[f] # "dump" /\ f \in cyclic'
      <4>1. Informed(f) <=> kind[f] # "dump" /\ f \in cyclic
        BY <1>1 DEF Informed, ConfigOk, ObserversOk
      <4>2. CASE Informed(f)
        BY <1>2, <3>1, <3>2, <4>1, <4>2
      <4>3. CASE ~Informed(f)
        BY <1>1, <3>1, <3>2, <4>1, <4>3 DEF ValidOk
      <4> QED
        BY <4>2, <4>3
    <3>3. datavalid' \in [Filters -> BOOLEAN]
      BY <1>1, <3>1 DEF ValidOk
    <3> QED
      BY <1>1, <2>1, <3>1, <3>2, <3>3 DEF ValidOk, Days
  <2>4. CASE Midnight
    BY <1>1, <1>2, <2>1, <2>4 DEF ValidOk, Midnight, inverterVars, Days
  <2>5. CASE UNCHANGED filterVars
    BY <1>1, <1>2, <2>1, <2>5 DEF ValidOk, filterVars, inverterVars, Days
  <2> QED
    BY <2>1, <2>2, <2>3, <2>4, <2>5
<1>5. /\ headerwritten' = headerwritten /\ columns' = columns /\ file' = file
      /\ last_line' = last_line /\ logged' = logged /\ rotation' = rotation /\ written' = written
  BY <1>2 DEF csvVars
<1>6. FilesOk'
  <2>1. day \in Nat /\ \A f \in Filters : file[f] \in Nat
    BY <1>1, FiltersAssumption DEF FilesOk, FileOk, ValidOk, Days, NotOpen
  <2>2. \A f \in Filters : file[f] <= day'
    BY <1>1, <1>4, <2>1 DEF FilesOk, FileOk
  <2> QED
    BY <1>1, <1>2, <1>5, <2>2 DEF FilesOk, FileOk, Csv, Days
<1>7. PagesOk'
  BY <1>1, <1>2, <1>5, ColumnsKept, PagesKept
<1>8. NewsOnTheWay'
  <2>1. ASSUME NEW g \in cyclic', Csv(g)', (cfg[g].all)'
        PROVE  \/ Visible(base[g])' \subseteq Range(columns'[g])
               \/ capsupdated'[g] \/ ~headerwritten'[g] \/ Delayed(g)'
    <3>1. g \in cyclic /\ g \in Filters /\ Csv(g) /\ cfg[g].all
      BY <1>1, <1>2, <2>1 DEF Csv, ObserversOk
    <3>2. /\ columns'[g] = columns[g] /\ capsupdated'[g] = capsupdated[g]
          /\ headerwritten'[g] = headerwritten[g]
      BY <1>2, <1>5
    <3> QED
      BY ONLY <1>1, <1>2, <3>1, <3>2, NewsKept
  <2> QED
    BY <2>1 DEF NewsOnTheWay
<1> QED
  BY <1>3, <1>4, <1>6, <1>7, <1>8 DEF FiltersIInv

LEMMA FiltersStep == FiltersIInv /\ [FiltersNext]_filterVars => FiltersIInv'
<1> SUFFICES ASSUME FiltersIInv, [FiltersNext]_filterVars PROVE FiltersIInv'
  OBVIOUS
<1>1. ASSUME NEW f \in Filters, Handlers(f) PROVE FiltersIInv'
  BY <1>1, FiltersCmdInit, FiltersCmdAddedCapas, FiltersCyclic, FiltersCmdRotate DEF Handlers
<1>2. ASSUME NEW n \in Data, NewCapability(n) PROVE FiltersIInv'
  BY <1>2, FiltersNewCapability
<1>3. CASE (\E n \in Data : NewValue(n)) \/ NewDataState \/ Midnight \/ UNCHANGED filterVars
  BY <1>3, FiltersOtherSteps
<1> QED
  BY <1>1, <1>2, <1>3 DEF FiltersNext

LEMMA FiltersIInvHolds == FiltersSpec => []FiltersIInv
<1>1. FiltersInit => FiltersIInv
  BY InitFiltersIInv
<1>2. FiltersIInv /\ [FiltersNext]_filterVars => FiltersIInv'
  BY FiltersStep
<1> QED
  BY <1>1, <1>2, PTL DEF FiltersSpec

-----------------------------------------------------------------------------
(* What the filters promise.                                               *)

(* In every configuration, with filters stacked to any depth: the          *)
(* iterators visit what the look-ups find, a new capability of the         *)
(* inverter is never forgotten on its way to a CSV filter that logs all,   *)
(* header and row of a file agree, and rotations are scheduled.            *)
THEOREM NewsReachTheFilters == FiltersSpec => []FilterInv
<1>1. FiltersIInv => FilterInv
  <2> SUFFICES ASSUME FiltersIInv PROVE FilterInv
    OBVIOUS
  <2>1. ConfigOk /\ ObserversOk /\ QueueOk /\ ValidOk /\ FilesOk /\ PagesOk /\ NewsOnTheWay
    BY DEF FiltersIInv
  <2>2. Chained(base)
    BY <2>1 DEF ConfigOk
  <2>3. IterationComplete
    BY <2>2, IterationFacts DEF IterationComplete
  <2>4. RowBelowHeader
    BY <2>1 DEF RowBelowHeader, FilesOk, FileOk
  <2>5. RotatesDaily
    <3> SUFFICES ASSUME NEW f \in cyclic, Csv(f)
                 PROVE  /\ Len(rotation[f]) = 1
                        /\ file[f] \notin {NotOpen, day} => Head(rotation[f]) <= day
      BY DEF RotatesDaily
    <3>1. f \in Filters
      BY <2>1 DEF ObserversOk
    <3>2. PICK d \in Nat : rotation[f] = <<d>> /\ (file[f] # NotOpen => d = file[f] + 1)
      BY <2>1, <3>1 DEF FilesOk, FileOk
    <3>3. /\ file[f] \in Days \cup {NotOpen} /\ file[f] <= day /\ day \in Days
      BY <2>1, <3>1 DEF FilesOk, FileOk, ValidOk
    <3>4. Len(rotation[f]) = 1 /\ Head(rotation[f]) = d
      BY <3>2
    <3> QED
      BY <3>2, <3>3, <3>4, FiltersAssumption DEF Days
  <2>6. FiltersTypeOK
    <3>1. owned \in [Objects -> SUBSET Names]
      BY <2>1 DEF ConfigOk
    <3>2. \A c \in AllCaps : IsInjective(observers[c]) /\ Range(observers[c]) \subseteq Filters
      BY <2>1 DEF ObserversOk, Range
    <3>3. dataState \in BOOLEAN /\ value \in [Data -> 0 .. 1] /\ day \in Days
      BY <2>1 DEF ValidOk
    <3>4. /\ IsInjective(queue) /\ cyclic \subseteq Filters
          /\ Range(queue) \subseteq [to : Filters, cmd : {"INIT", "ADDED_CAPAS"}]
      <4>1. queue \in Seq(FilterCommands)
        BY <2>1 DEF QueueOk
      <4>2. Range(queue) \subseteq FilterCommands
        BY <4>1 DEF Range
      <4> QED
        BY <2>1, <4>2 DEF QueueOk, ObserversOk, FilterCommands
    <3>5. ASSUME NEW f \in Filters
          PROVE  /\ file[f] \in Days \cup {NotOpen}
                 /\ IsInjective(columns[f]) /\ Range(columns[f]) \subseteq Names
                 /\ Len(rotation[f]) <= 1
                 /\ page[f] \in 0 .. Len(NameOrder)
                 /\ AddedCaps[f] <=> [to |-> f, cmd |-> "ADDED_CAPAS"] \in Range(queue)
      <4>1. FileOk(f) /\ PageOk(f)
        BY <2>1 DEF FilesOk, PagesOk
      <4>2. /\ file[f] \in Days \cup {NotOpen} /\ IsInjective(columns[f])
            /\ Range(columns[f]) \subseteq Names
        BY <4>1 DEF FileOk, Range
      <4>3. Len(rotation[f]) <= 1
        <5>1. rotation[f] = <<>> \/ \E d \in Nat : rotation[f] = <<d>>
          BY <4>1 DEF FileOk
        <5>2. CASE rotation[f] = <<>>
          BY <5>2
        <5>3. ASSUME NEW d \in Nat, rotation[f] = <<d>> PROVE Len(rotation[f]) <= 1
          BY <5>3
        <5> QED
          BY <5>1, <5>2, <5>3
      <4>4. page[f] \in 0 .. Len(NameOrder)
        <5>1. CASE page[f] = 0
          BY <5>1, CapabilitiesAssumption
        <5>2. CASE page[f] # 0
          <6>1. PICK g \in Filters : page[f] \in 1 .. Len(columns[g])
            BY <4>1, <5>2 DEF PageOk
          <6>2. columns[g] \in Seq(Names) /\ IsInjective(columns[g])
            BY <2>1 DEF FilesOk, FileOk
          <6>3. Len(columns[g]) <= Len(NameOrder) /\ Len(columns[g]) \in Nat /\ Len(NameOrder) \in Nat
            BY <6>2, NoLongerThanNames, CapabilitiesAssumption
          <6> QED
            BY <6>1, <6>3
        <5> QED
          BY <5>1, <5>2
      <4>5. AddedCaps[f] <=> [to |-> f, cmd |-> "ADDED_CAPAS"] \in Range(queue)
        BY <2>1 DEF QueueOk, NewsFor
      <4> QED
        BY <4>2, <4>3, <4>4, <4>5
    <3> QED
      BY <3>1, <3>2, <3>3, <3>4, <3>5 DEF FiltersTypeOK
  <2> QED
    BY <2>1, <2>3, <2>4, <2>5, <2>6 DEF FilterInv
<1> QED
  BY <1>1, FiltersIInvHolds, PTL

(* If no other capability has the searched text in its name, the column an *)
(* HTML page names is the one of the searched capability, also after the   *)
(* CSV file has grown or was rotated.                                      *)
THEOREM PagesNameTheColumn ==
    ASSUME Containing = {Searched}
    PROVE  FiltersSpec => []ColumnNumberRight
<1>1. FiltersIInv => ColumnNumberRight
  <2> SUFFICES ASSUME FiltersIInv, NEW f \in Filters, page[f] # 0
               PROVE  columns[Concrete(f, Logged)[1]][page[f]] = Searched
    BY DEF ColumnNumberRight
  <2>1. PICK g \in Filters : /\ Concrete(f, Logged) = <<g, Logged>>
                             /\ columns[g][page[f]] \in Containing
    BY DEF FiltersIInv, PagesOk, PageOk
  <2> QED
    BY <2>1
<1> QED
  BY <1>1, FiltersIInvHolds, PTL

(* A filter writes only while the inverter says that its data is valid.    *)
THEOREM WritesOnlyValidData == FiltersSpec => OnlyValidData
<1>1. FiltersIInv /\ [FiltersNext]_filterVars =>
         [dataState \/ \A f \in Filters :
            (page'[f] = page[f]) /\ (written'[f] \in {written[f], Empty})]_filterVars
  <2> SUFFICES ASSUME FiltersIInv, [FiltersNext]_filterVars, ~dataState, ~ UNCHANGED filterVars
               PROVE  \A f \in Filters :
                         (page'[f] = page[f]) /\ (written'[f] \in {written[f], Empty})
    OBVIOUS
  <2>1. \A f \in Filters : ~datavalid[f]
    BY DEF FiltersIInv, ValidOk
  <2>2. DOMAIN written = Filters
    BY DEF FiltersIInv, FilesOk
  <2>3. ASSUME NEW f \in Filters, Handlers(f)
        PROVE  page' = page /\ \/ written' = written
                               \/ written' = [written EXCEPT ![f] = Empty]
    <3>1. CASE CmdInit(f)
      BY <3>1 DEF CmdInit, DoINITCmd, csvVars
    <3>2. CASE CmdAddedCapas(f)
      BY <3>2 DEF CmdAddedCapas, csvVars
    <3>3. CASE Cyclic(f)
      BY <2>1, <3>3 DEF Cyclic, csvVars
    <3>4. CASE CmdRotate(f)
      BY <3>4 DEF CmdRotate, DoINITCmd
    <3> QED
      BY <2>3, <3>1, <3>2, <3>3, <3>4 DEF Handlers
  <2>4. CASE \E f \in Filters : Handlers(f)
    BY <2>2, <2>3, <2>4
  <2>5. CASE \/ \E n \in Data : NewCapability(n) \/ NewValue(n)
             \/ NewDataState \/ Midnight
    BY <2>5 DEF NewCapability, NewValue, NewDataState, Midnight, csvVars
  <2> QED
    BY <2>4, <2>5 DEF FiltersNext
<1> QED
  BY <1>1, FiltersIInvHolds, PTL DEF FiltersSpec, OnlyValidData
=============================================================================
