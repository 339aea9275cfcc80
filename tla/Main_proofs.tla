---------------------------- MODULE Main_proofs -----------------------------
(***************************************************************************)
(* Theorems about the process from its start to its end, for any number of *)
(* threads, commands, configured names and log texts.  First those about   *)
(* CWorkScheduler: types, mutual exclusion across signals, the count that  *)
(* lets getnextcmd() take front() without looking, and that it is a first- *)
(* come first-served queue.  Then those about main(), whose module extends *)
(* the scheduler's: everybody is told before anything is deleted, and      *)
(* nobody uses what has been.  Last, the logger and what comes before the  *)
(* main loop: the start from the configuration.                            *)
(***************************************************************************)
EXTENDS MainLoop, Startup, FiniteSetTheorems, TLAPS

-----------------------------------------------------------------------------
(* CWorkScheduler and the main loop.                                       *)

(* The initial state satisfies the inductive invariant. *)
LEMMA InitIInv == Init => IInv
<1> SUFFICES ASSUME Init PROVE IInv
  OBVIOUS
<1> USE CommandAssumption, ContextAssumption DEF Init
<1>1. TypeOK
  BY DEF TypeOK, Contexts
<1>2. Frames /\ Addressed /\ MutualExclusion
  BY DEF Frames, Addressed, MutualExclusion, InCriticalSection, Due, Contexts
<1>3. SemaphoreCountsQueue
  <2>1. Posting = {}
    BY DEF Posting
  <2> QED
    BY <2>1, FS_EmptySet DEF SemaphoreCountsQueue
<1> QED
  BY <1>1, <1>2, <1>3 DEF IInv

(* Every action keeps every variable in its range. *)
LEMMA TypeStep == IInv /\ [Next]_vars => TypeOK'
<1> SUFFICES ASSUME IInv, [Next]_vars PROVE TypeOK'
  OBVIOUS
<1> USE DEF IInv, TypeOK, queueVars, callVars, workVars, InMain, Lockable,
    GoesOn, Posted, SemDown, AfterCheck, Contexts
<1>1. ASSUME NEW x \in Contexts, NEW c \in Commands, CallScheduleWork(x, c)
      PROVE TypeOK'
  BY <1>1 DEF CallScheduleWork
<1>2. ASSUME NEW x \in Contexts, LockForPush(x) PROVE TypeOK'
  BY <1>2 DEF LockForPush
<1>3. ASSUME NEW x \in Contexts, TryLockFails(x) PROVE TypeOK'
  BY <1>3 DEF TryLockFails
<1>4. ASSUME NEW x \in Contexts, PushAndUnlock(x) PROVE TypeOK'
  BY <1>4 DEF PushAndUnlock, Frames
<1>5. ASSUME NEW x \in Contexts, Post(x) PROVE TypeOK'
  BY <1>5 DEF Post
<1>6. ASSUME NEW t \in Targets, NEW b \in BOOLEAN, RegisterBroadcasts(t, b)
      PROVE TypeOK'
  BY <1>6 DEF RegisterBroadcasts
<1>7. ASSUME NEW b \in BOOLEAN, CallDoWork(b) PROVE TypeOK'
  BY <1>7 DEF CallDoWork
<1>8. ASSUME LockForCheck PROVE TypeOK'
  BY <1>8 DEF LockForCheck
<1>9. ASSUME CheckEmpty PROVE TypeOK'
  BY <1>9 DEF CheckEmpty
<1>10. ASSUME SemWait PROVE TypeOK'
  BY <1>10 DEF SemWait
<1>11. ASSUME LockForGet PROVE TypeOK'
  BY <1>11 DEF LockForGet
<1>12. ASSUME GetNextCmd PROVE TypeOK'
  BY <1>12 DEF GetNextCmd
<1>13. ASSUME Dispatch PROVE TypeOK'
  <2>1. mcmd \in Commands /\ ~FireAndForget(mcmd)
    BY <1>13 DEF Dispatch, Frames, Addressed
  <2>2. Recipients(mcmd) \in SUBSET Targets
    BY <2>1, CommandAssumption DEF Recipients, FireAndForget, CMD_BROADCAST_MAX
  <2> QED
    BY <1>13, <2>2 DEF Dispatch
<1>14. ASSUME NEW t \in Targets, ExecuteCommand(t) PROVE TypeOK'
  BY <1>14 DEF ExecuteCommand, Frames
<1>15. ASSUME HandlerReturns PROVE TypeOK'
  BY <1>15 DEF HandlerReturns
<1>16. ASSUME DeleteCmd PROVE TypeOK'
  BY <1>16 DEF DeleteCmd, Frames
<1>17. CASE UNCHANGED vars
  BY <1>17 DEF vars
<1> QED
  BY <1>1, <1>2, <1>3, <1>4, <1>5, <1>6, <1>7, <1>8, <1>9, <1>10, <1>11, <1>12,
      <1>13, <1>14, <1>15, <1>16, <1>17 DEF Next, ScheduleWork, DoWork

(* The call frames stay consistent with where their context is. *)
LEMMA FramesStep == IInv /\ [Next]_vars => Frames'
<1> SUFFICES ASSUME IInv, [Next]_vars PROVE Frames'
  OBVIOUS
<1> USE DEF IInv, TypeOK, Frames, queueVars, callVars, workVars, InMain,
    Lockable, GoesOn, Posted, SemDown, AfterCheck, Contexts
<1>1. ASSUME NEW x \in Contexts, NEW c \in Commands, CallScheduleWork(x, c)
      PROVE Frames'
  BY <1>1, ContextAssumption, CommandAssumption DEF CallScheduleWork, MayCall,
      Runs
<1>2. ASSUME NEW x \in Contexts, LockForPush(x) PROVE Frames'
  BY <1>2 DEF LockForPush
<1>3. ASSUME NEW x \in Contexts, TryLockFails(x) PROVE Frames'
  BY <1>3 DEF TryLockFails
<1>4. ASSUME NEW x \in Contexts, PushAndUnlock(x) PROVE Frames'
  BY <1>4 DEF PushAndUnlock
<1>5. ASSUME NEW x \in Contexts, Post(x) PROVE Frames'
  BY <1>5 DEF Post
<1>6. ASSUME NEW t \in Targets, NEW b \in BOOLEAN, RegisterBroadcasts(t, b)
      PROVE Frames'
  BY <1>6 DEF RegisterBroadcasts
<1>7. ASSUME NEW b \in BOOLEAN, CallDoWork(b) PROVE Frames'
  BY <1>7 DEF CallDoWork
<1>8. ASSUME LockForCheck PROVE Frames'
  BY <1>8 DEF LockForCheck
<1>9. ASSUME CheckEmpty PROVE Frames'
  BY <1>9 DEF CheckEmpty
<1>10. ASSUME SemWait PROVE Frames'
  BY <1>10 DEF SemWait
<1>11. ASSUME LockForGet PROVE Frames'
  BY <1>11 DEF LockForGet
<1>12. ASSUME GetNextCmd PROVE Frames'
  BY <1>12, ContextAssumption, CommandAssumption DEF GetNextCmd, MayCall, Runs
<1>13. ASSUME Dispatch PROVE Frames'
  BY <1>13 DEF Dispatch
<1>14. ASSUME NEW t \in Targets, ExecuteCommand(t) PROVE Frames'
  BY <1>14 DEF ExecuteCommand
<1>15. ASSUME HandlerReturns PROVE Frames'
  BY <1>15 DEF HandlerReturns
<1>16. ASSUME DeleteCmd PROVE Frames'
  BY <1>16 DEF DeleteCmd
<1>17. CASE UNCHANGED vars
  BY <1>17 DEF vars
<1> QED
  BY <1>1, <1>2, <1>3, <1>4, <1>5, <1>6, <1>7, <1>8, <1>9, <1>10, <1>11, <1>12,
      <1>13, <1>14, <1>15, <1>16, <1>17 DEF Next, ScheduleWork, DoWork

(* Nothing without a target enters the list. *)
LEMMA AddressedStep == IInv /\ [Next]_vars => Addressed'
<1> SUFFICES ASSUME IInv, [Next]_vars PROVE Addressed'
  OBVIOUS
<1> USE DEF IInv, TypeOK, Frames, Addressed, Due, FireAndForget, queueVars,
    callVars, workVars, InMain, Lockable, GoesOn, Posted, SemDown, AfterCheck
<1>1. ASSUME NEW x \in Contexts, NEW c \in Commands, CallScheduleWork(x, c)
      PROVE Addressed'
  BY <1>1 DEF CallScheduleWork
<1>2. ASSUME NEW x \in Contexts, LockForPush(x) PROVE Addressed'
  BY <1>2 DEF LockForPush
<1>3. ASSUME NEW x \in Contexts, TryLockFails(x) PROVE Addressed'
  BY <1>3 DEF TryLockFails
<1>4. ASSUME NEW x \in Contexts, PushAndUnlock(x) PROVE Addressed'
  BY <1>4 DEF PushAndUnlock
<1>5. ASSUME NEW x \in Contexts, Post(x) PROVE Addressed'
  BY <1>5 DEF Post
<1>6. ASSUME NEW t \in Targets, NEW b \in BOOLEAN, RegisterBroadcasts(t, b)
      PROVE Addressed'
  BY <1>6 DEF RegisterBroadcasts
<1>7. ASSUME NEW b \in BOOLEAN, CallDoWork(b) PROVE Addressed'
  BY <1>7 DEF CallDoWork
<1>8. ASSUME LockForCheck PROVE Addressed'
  BY <1>8 DEF LockForCheck
<1>9. ASSUME CheckEmpty PROVE Addressed'
  BY <1>9 DEF CheckEmpty
<1>10. ASSUME SemWait PROVE Addressed'
  BY <1>10 DEF SemWait
<1>11. ASSUME LockForGet PROVE Addressed'
  BY <1>11 DEF LockForGet
<1>12. ASSUME GetNextCmd PROVE Addressed'
  BY <1>12 DEF GetNextCmd
<1>13. ASSUME Dispatch PROVE Addressed'
  BY <1>13 DEF Dispatch
<1>14. ASSUME NEW t \in Targets, ExecuteCommand(t) PROVE Addressed'
  BY <1>14 DEF ExecuteCommand
<1>15. ASSUME HandlerReturns PROVE Addressed'
  BY <1>15 DEF HandlerReturns
<1>16. ASSUME DeleteCmd PROVE Addressed'
  BY <1>16 DEF DeleteCmd
<1>17. CASE UNCHANGED vars
  BY <1>17 DEF vars
<1> QED
  BY <1>1, <1>2, <1>3, <1>4, <1>5, <1>6, <1>7, <1>8, <1>9, <1>10, <1>11, <1>12,
      <1>13, <1>14, <1>15, <1>16, <1>17 DEF Next, ScheduleWork, DoWork

(* The mutex is held by exactly the context that is in a critical section, *)
(* also while a signal keeps its holder from running.                      *)
LEMMA MutexStep == IInv /\ [Next]_vars => MutualExclusion'
<1> SUFFICES ASSUME IInv, [Next]_vars PROVE MutualExclusion'
  OBVIOUS
<1> USE DEF IInv, TypeOK, Frames, MutualExclusion, InCriticalSection,
    queueVars, callVars, workVars, InMain, Lockable, GoesOn, Posted, SemDown,
    AfterCheck, Contexts
<1>1. ASSUME NEW x \in Contexts, NEW c \in Commands, CallScheduleWork(x, c)
      PROVE MutualExclusion'
  BY <1>1 DEF CallScheduleWork
<1>2. ASSUME NEW x \in Contexts, LockForPush(x) PROVE MutualExclusion'
  BY <1>2, ContextAssumption DEF LockForPush
<1>3. ASSUME NEW x \in Contexts, TryLockFails(x) PROVE MutualExclusion'
  BY <1>3 DEF TryLockFails
<1>4. ASSUME NEW x \in Contexts, PushAndUnlock(x) PROVE MutualExclusion'
  BY <1>4, ContextAssumption DEF PushAndUnlock
<1>5. ASSUME NEW x \in Contexts, Post(x) PROVE MutualExclusion'
  BY <1>5 DEF Post
<1>6. ASSUME NEW t \in Targets, NEW b \in BOOLEAN, RegisterBroadcasts(t, b)
      PROVE MutualExclusion'
  BY <1>6 DEF RegisterBroadcasts
<1>7. ASSUME NEW b \in BOOLEAN, CallDoWork(b) PROVE MutualExclusion'
  BY <1>7 DEF CallDoWork
<1>8. ASSUME LockForCheck PROVE MutualExclusion'
  BY <1>8, ContextAssumption DEF LockForCheck
<1>9. ASSUME CheckEmpty PROVE MutualExclusion'
  BY <1>9, ContextAssumption DEF CheckEmpty
<1>10. ASSUME SemWait PROVE MutualExclusion'
  BY <1>10 DEF SemWait
<1>11. ASSUME LockForGet PROVE MutualExclusion'
  BY <1>11, ContextAssumption DEF LockForGet
<1>12. ASSUME GetNextCmd PROVE MutualExclusion'
  BY <1>12, ContextAssumption DEF GetNextCmd
<1>13. ASSUME Dispatch PROVE MutualExclusion'
  BY <1>13 DEF Dispatch
<1>14. ASSUME NEW t \in Targets, ExecuteCommand(t) PROVE MutualExclusion'
  BY <1>14 DEF ExecuteCommand
<1>15. ASSUME HandlerReturns PROVE MutualExclusion'
  BY <1>15 DEF HandlerReturns
<1>16. ASSUME DeleteCmd PROVE MutualExclusion'
  BY <1>16 DEF DeleteCmd
<1>17. CASE UNCHANGED vars
  BY <1>17 DEF vars
<1> QED
  BY <1>1, <1>2, <1>3, <1>4, <1>5, <1>6, <1>7, <1>8, <1>9, <1>10, <1>11, <1>12,
      <1>13, <1>14, <1>15, <1>16, <1>17 DEF Next, ScheduleWork, DoWork

(* The number of outstanding sem_posts is a natural number. *)
LEMMA PostingFinite ==
    ASSUME TypeOK PROVE IsFiniteSet(Posting) /\ Cardinality(Posting) \in Nat
<1>1. IsFiniteSet(Contexts)
  <2>1. IsFiniteSet(Workers \cup {Main})
    BY ContextAssumption, FS_AddElement
  <2>2. IsFiniteSet((Workers \cup {Main}) \cup {SigHandler})
    BY <2>1, FS_AddElement
  <2>3. Contexts = (Workers \cup {Main}) \cup {SigHandler}
    BY DEF Contexts
  <2> QED
    BY <2>2, <2>3
<1>2. Posting \in SUBSET Contexts
  BY DEF Posting
<1> QED
  BY <1>1, <1>2, FS_Subset, FS_CardinalityType

(* The list, the semaphore, the outstanding posts and the command DoWork   *)
(* has waited for keep adding up.                                          *)
LEMMA CountStep == IInv /\ [Next]_vars => SemaphoreCountsQueue'
<1> SUFFICES ASSUME IInv, [Next]_vars PROVE SemaphoreCountsQueue'
  OBVIOUS
<1> USE DEF IInv, TypeOK, SemaphoreCountsQueue, queueVars, callVars, workVars,
    InMain, Lockable, GoesOn, Posted, SemDown, AfterCheck
<1>1. ASSUME NEW x \in Contexts, NEW c \in Commands, CallScheduleWork(x, c)
      PROVE SemaphoreCountsQueue'
  <2>1. Posting' = Posting
    BY <1>1 DEF CallScheduleWork, Posting
  <2> QED
    BY <1>1, <2>1, PostingFinite DEF CallScheduleWork
<1>2. ASSUME NEW x \in Contexts, LockForPush(x) PROVE SemaphoreCountsQueue'
  <2>1. Posting' = Posting
    BY <1>2 DEF LockForPush, Posting
  <2> QED
    BY <1>2, <2>1, PostingFinite DEF LockForPush
<1>3. ASSUME NEW x \in Contexts, TryLockFails(x) PROVE SemaphoreCountsQueue'
  <2>1. Posting' = Posting
    BY <1>3 DEF TryLockFails, Posting
  <2> QED
    BY <1>3, <2>1, PostingFinite DEF TryLockFails
<1>4. ASSUME NEW x \in Contexts, PushAndUnlock(x) PROVE SemaphoreCountsQueue'
  <2>1. Posting' = Posting \cup {x} /\ x \notin Posting
    BY <1>4 DEF PushAndUnlock, Posting
  <2>2. Cardinality(Posting') = Cardinality(Posting) + 1
    BY <2>1, PostingFinite, FS_AddElement
  <2>3. Len(CommandsDue') = Len(CommandsDue) + 1
    BY <1>4 DEF PushAndUnlock, Frames
  <2> QED
    BY <1>4, <2>2, <2>3, PostingFinite DEF PushAndUnlock
<1>5. ASSUME NEW x \in Contexts, Post(x) PROVE SemaphoreCountsQueue'
  <2>1. Posting' = Posting \ {x} /\ x \in Posting
    BY <1>5 DEF Post, Posting
  <2>2. Cardinality(Posting') = Cardinality(Posting) - 1
    BY <2>1, PostingFinite, FS_RemoveElement
  <2> QED
    BY <1>5, <2>2, PostingFinite DEF Post
<1>6. ASSUME NEW t \in Targets, NEW b \in BOOLEAN, RegisterBroadcasts(t, b)
      PROVE SemaphoreCountsQueue'
  <2>1. Posting' = Posting
    BY <1>6 DEF RegisterBroadcasts, Posting
  <2> QED
    BY <1>6, <2>1, PostingFinite DEF RegisterBroadcasts
<1>7. ASSUME NEW b \in BOOLEAN, CallDoWork(b) PROVE SemaphoreCountsQueue'
  <2>1. Posting' = Posting
    BY <1>7 DEF CallDoWork, Posting
  <2> QED
    BY <1>7, <2>1, PostingFinite DEF CallDoWork
<1>8. ASSUME LockForCheck PROVE SemaphoreCountsQueue'
  <2>1. Posting' = Posting
    BY <1>8 DEF LockForCheck, Posting
  <2> QED
    BY <1>8, <2>1, PostingFinite DEF LockForCheck
<1>9. ASSUME CheckEmpty PROVE SemaphoreCountsQueue'
  <2>1. Posting' = Posting
    BY <1>9 DEF CheckEmpty, Posting
  <2> QED
    BY <1>9, <2>1, PostingFinite DEF CheckEmpty
<1>10. ASSUME SemWait PROVE SemaphoreCountsQueue'
  <2>1. Posting' = Posting
    BY <1>10 DEF SemWait, Posting
  <2> QED
    BY <1>10, <2>1, PostingFinite DEF SemWait
<1>11. ASSUME LockForGet PROVE SemaphoreCountsQueue'
  <2>1. Posting' = Posting
    BY <1>11 DEF LockForGet, Posting
  <2> QED
    BY <1>11, <2>1, PostingFinite DEF LockForGet
<1>12. ASSUME GetNextCmd PROVE SemaphoreCountsQueue'
  <2>1. Posting' = Posting
    BY <1>12 DEF GetNextCmd, Posting
  <2>2. Len(CommandsDue') = Len(CommandsDue) - 1
    BY <1>12 DEF GetNextCmd
  <2> QED
    BY <1>12, <2>1, <2>2, PostingFinite DEF GetNextCmd
<1>13. ASSUME Dispatch PROVE SemaphoreCountsQueue'
  <2>1. Posting' = Posting
    BY <1>13 DEF Dispatch, Posting
  <2> QED
    BY <1>13, <2>1, PostingFinite DEF Dispatch
<1>14. ASSUME NEW t \in Targets, ExecuteCommand(t) PROVE SemaphoreCountsQueue'
  <2>1. Posting' = Posting
    BY <1>14 DEF ExecuteCommand, Posting
  <2> QED
    BY <1>14, <2>1, PostingFinite DEF ExecuteCommand
<1>15. ASSUME HandlerReturns PROVE SemaphoreCountsQueue'
  <2>1. Posting' = Posting
    BY <1>15 DEF HandlerReturns, Posting
  <2> QED
    BY <1>15, <2>1, PostingFinite DEF HandlerReturns
<1>16. ASSUME DeleteCmd PROVE SemaphoreCountsQueue'
  <2>1. Posting' = Posting
    BY <1>16 DEF DeleteCmd, Posting
  <2> QED
    BY <1>16, <2>1, PostingFinite DEF DeleteCmd
<1>17. CASE UNCHANGED vars
  BY <1>17 DEF vars, Posting
<1> QED
  BY <1>1, <1>2, <1>3, <1>4, <1>5, <1>6, <1>7, <1>8, <1>9, <1>10, <1>11, <1>12,
      <1>13, <1>14, <1>15, <1>16, <1>17 DEF Next, ScheduleWork, DoWork

(* What a pop does to the set of the commands in a list. *)
LEMMA HeadTailRange ==
    ASSUME NEW S, NEW q \in Seq(S), q # <<>>
    PROVE  { q[i] : i \in DOMAIN q } =
               { Tail(q)[i] : i \in DOMAIN Tail(q) } \cup { Head(q) }
<1>1. \A i \in DOMAIN Tail(q) : i + 1 \in DOMAIN q /\ Tail(q)[i] = q[i + 1]
  OBVIOUS
<1>2. \A i \in DOMAIN q : i = 1 \/ (i - 1 \in DOMAIN Tail(q) /\ q[i] = Tail(q)[i - 1])
  OBVIOUS
<1>3. 1 \in DOMAIN q /\ Head(q) = q[1]
  OBVIOUS
<1>4. ASSUME NEW i \in DOMAIN q
      PROVE  q[i] \in { Tail(q)[j] : j \in DOMAIN Tail(q) } \cup { Head(q) }
  BY <1>2, <1>3
<1>5. ASSUME NEW i \in DOMAIN Tail(q)
      PROVE  Tail(q)[i] \in { q[j] : j \in DOMAIN q }
  BY <1>1
<1>6. Head(q) \in { q[j] : j \in DOMAIN q }
  BY <1>3
<1> QED
  BY <1>4, <1>5, <1>6

(* ... and what a push does to it. *)
LEMMA AppendRange ==
    ASSUME NEW S, NEW q \in Seq(S), NEW e \in S
    PROVE  { Append(q, e)[i] : i \in DOMAIN Append(q, e) } =
               { q[i] : i \in DOMAIN q } \cup { e }
<1>1. \A i \in DOMAIN q : i \in DOMAIN Append(q, e) /\ Append(q, e)[i] = q[i]
  OBVIOUS
<1>2. \A i \in DOMAIN Append(q, e) : Append(q, e)[i] = e \/ i \in DOMAIN q
  OBVIOUS
<1>3. Len(q) + 1 \in DOMAIN Append(q, e) /\ Append(q, e)[Len(q) + 1] = e
  OBVIOUS
<1>4. ASSUME NEW i \in DOMAIN Append(q, e)
      PROVE  Append(q, e)[i] \in { q[j] : j \in DOMAIN q } \cup { e }
  BY <1>1, <1>2
<1>5. ASSUME NEW i \in DOMAIN q
      PROVE  q[i] \in { Append(q, e)[j] : j \in DOMAIN Append(q, e) }
  BY <1>1
<1>6. e \in { Append(q, e)[j] : j \in DOMAIN Append(q, e) }
  BY <1>3
<1> QED
  BY <1>4, <1>5, <1>6

(* A command that is handed over was not in the scheduler's hands; from    *)
(* there it moves from one place to the next and is in no two at once.     *)
LEMMA OwnerStep == IInv /\ OneOwner /\ [Next]_vars => OneOwner'
<1> SUFFICES ASSUME IInv, OneOwner, [Next]_vars PROVE OneOwner'
  OBVIOUS
<1> USE DEF IInv, TypeOK, Frames, OneOwner, Due, Unscheduled, queueVars,
    callVars, workVars, InMain, Lockable, GoesOn, Posted, SemDown, AfterCheck
<1>1. ASSUME NEW x \in Contexts, NEW c \in Commands, CallScheduleWork(x, c)
      PROVE OneOwner'
  <2>1. CASE FireAndForget(c)
    BY <1>1, <2>1, CommandAssumption DEF CallScheduleWork
  <2>2. CASE ~FireAndForget(c)
    <3>1. /\ c # NULL /\ c \notin Due \cup deleted \cup {mcmd}
          /\ \A y \in Contexts : scmd[y] # c
      BY <1>1, CommandAssumption DEF CallScheduleWork
    <3>2. /\ scmd' = [scmd EXCEPT ![x] = c]
          /\ UNCHANGED <<CommandsDue, mcmd, deleted>>
      BY <1>1, <2>2 DEF CallScheduleWork
    <3> QED
      BY <3>1, <3>2
  <2> QED
    BY <2>1, <2>2
<1>2. ASSUME NEW x \in Contexts, LockForPush(x) PROVE OneOwner'
  BY <1>2 DEF LockForPush
<1>3. ASSUME NEW x \in Contexts, TryLockFails(x) PROVE OneOwner'
  BY <1>3 DEF TryLockFails
<1>4. ASSUME NEW x \in Contexts, PushAndUnlock(x) PROVE OneOwner'
  BY <1>4 DEF PushAndUnlock
<1>5. ASSUME NEW x \in Contexts, Post(x) PROVE OneOwner'
  BY <1>5 DEF Post
<1>6. ASSUME NEW t \in Targets, NEW b \in BOOLEAN, RegisterBroadcasts(t, b)
      PROVE OneOwner'
  BY <1>6 DEF RegisterBroadcasts
<1>7. ASSUME NEW b \in BOOLEAN, CallDoWork(b) PROVE OneOwner'
  BY <1>7 DEF CallDoWork
<1>8. ASSUME LockForCheck PROVE OneOwner'
  BY <1>8 DEF LockForCheck
<1>9. ASSUME CheckEmpty PROVE OneOwner'
  BY <1>9 DEF CheckEmpty
<1>10. ASSUME SemWait PROVE OneOwner'
  BY <1>10 DEF SemWait
<1>11. ASSUME LockForGet PROVE OneOwner'
  BY <1>11 DEF LockForGet
<1>12. ASSUME GetNextCmd PROVE OneOwner'
  <2>1. /\ CommandsDue # <<>> /\ CommandsDue \in Seq(Commands)
        /\ mcmd' = Head(CommandsDue) /\ CommandsDue' = Tail(CommandsDue)
        /\ UNCHANGED <<scmd, deleted>>
    BY <1>12 DEF GetNextCmd
  <2>2. \A i \in DOMAIN CommandsDue' :
          /\ i + 1 \in DOMAIN CommandsDue /\ i + 1 # 1
          /\ CommandsDue'[i] = CommandsDue[i + 1]
    BY <2>1
  <2>3. 1 \in DOMAIN CommandsDue /\ mcmd' = CommandsDue[1]
    BY <2>1
  <2>4. mcmd' \in Due /\ Due' \subseteq Due
    BY <2>2, <2>3
  <2>5. mcmd' \notin Due'
    BY <2>2, <2>3
  <2>6. \A i, j \in DOMAIN CommandsDue' : CommandsDue'[i] = CommandsDue'[j] => i = j
    BY <2>1, <2>2
  <2>7. \A x \in Contexts : scmd[x] # NULL =>
            scmd[x] # mcmd' /\ scmd[x] \notin Due' /\ scmd[x] \notin deleted
    BY <2>4
  <2> HIDE DEF IInv, TypeOK, Frames, Due
  <2> QED
    BY <2>1, <2>4, <2>5, <2>6, <2>7
<1>13. ASSUME Dispatch PROVE OneOwner'
  BY <1>13 DEF Dispatch
<1>14. ASSUME NEW t \in Targets, ExecuteCommand(t) PROVE OneOwner'
  BY <1>14 DEF ExecuteCommand
<1>15. ASSUME HandlerReturns PROVE OneOwner'
  BY <1>15 DEF HandlerReturns
<1>16. ASSUME DeleteCmd PROVE OneOwner'
  BY <1>16, CommandAssumption DEF DeleteCmd
<1>17. CASE UNCHANGED vars
  BY <1>17 DEF vars
<1> QED
  BY <1>1, <1>2, <1>3, <1>4, <1>5, <1>6, <1>7, <1>8, <1>9, <1>10, <1>11, <1>12,
      <1>13, <1>14, <1>15, <1>16, <1>17 DEF Next, ScheduleWork, DoWork

(* The invariant holds of the initial states and survives every step. *)
THEOREM Invariance == Spec => []IInv
<1>1. IInv /\ [Next]_vars => IInv'
  BY TypeStep, FramesStep, AddressedStep, MutexStep, CountStep DEF IInv
<1> QED
  BY InitIInv, <1>1, PTL DEF Spec

(* Every variable of CWorkScheduler stays in its range. *)
THEOREM TypeCorrect == Spec => []TypeOK
<1>1. IInv => TypeOK
  BY DEF IInv
<1> QED
  BY <1>1, Invariance, PTL

(* Two contexts are never both between lock and unlock, the signal handler *)
(* and the thread it interrupted included.                                 *)
THEOREM MutexHolds == Spec => []MutualExclusion
<1>1. IInv => MutualExclusion
  BY DEF IInv
<1> QED
  BY <1>1, Invariance, PTL

(* The semaphore counts the list up to the calls that are under way. *)
THEOREM SemaphoreExact == Spec => []SemaphoreCountsQueue
<1>1. IInv => SemaphoreCountsQueue
  BY DEF IInv
<1> QED
  BY <1>1, Invariance, PTL

(* getnextcmd() takes front() only when there is one: the unchecked access *)
(* is safe however many threads schedule work.                             *)
THEOREM FrontAlwaysExists == Spec => []FrontExists
<1>1. IInv => FrontExists
  <2> SUFFICES ASSUME IInv, mpc = "pop" PROVE CommandsDue # <<>>
    BY DEF FrontExists
  <2>1. Len(CommandsDue) = semaphore + Cardinality(Posting) + 1
    BY DEF IInv, SemaphoreCountsQueue
  <2>2. semaphore \in Nat /\ Cardinality(Posting) \in Nat
    BY PostingFinite DEF IInv, TypeOK
  <2> QED
    BY <2>1, <2>2
<1> QED
  BY <1>1, Invariance, PTL

(* No command is ever queued twice, executed after it was deleted, or      *)
(* deleted while a caller or the list still has it.                        *)
THEOREM Ownership == Spec => []OneOwner
<1>1. Init => OneOwner
  BY CommandAssumption DEF Init, OneOwner, Due
<1>2. IInv /\ OneOwner /\ [Next]_vars => OneOwner'
  BY OwnerStep
<1> QED
  BY <1>1, <1>2, Invariance, PTL DEF Spec

(* What holds of the scheduler's data whatever the interleaving, for any   *)
(* number of threads, commands and objects.                                *)
THEOREM SchedulerSound == Spec => []SchedulerInv
<1>1. TypeOK /\ MutualExclusion /\ FrontExists => SchedulerInv
  BY DEF SchedulerInv
<1> QED
  BY <1>1, TypeCorrect, MutexHolds, FrontAlwaysExists, PTL

-----------------------------------------------------------------------------
(* The scheduler implements the queue of WorkQueue, step by step.          *)

(* Who a command in the scheduler's hands is for is the same in both       *)
(* specifications: Code < CMD_BROADCAST_MAX and Code <= CMD_BROADCAST_MAX  *)
(* differ only for commands that are deleted on entry.                     *)
LEMMA SameRecipients ==
    ASSUME NEW c \in Commands, ~FireAndForget(c)
    PROVE  Recipients(c) = Abstract!Recipients(c)
BY CommandAssumption DEF Recipients, Abstract!Recipients, FireAndForget,
    CMD_BROADCAST_MAX, Broadcasts

(* Every step of the scheduler is the one step of the queue that its       *)
(* caller sees, or none: entering is discarding when nobody is to be       *)
(* called back, the push is the acceptance, the pop is the start.          *)
LEMMA QueueStep ==
    IInv /\ OneOwner /\ [Next]_vars => [Abstract!Next]_(Abstract!vars)
<1> SUFFICES ASSUME IInv, OneOwner, [Next]_vars
             PROVE  [Abstract!Next]_(Abstract!vars)
  OBVIOUS
<1> DEFINE Same == UNCHANGED Abstract!vars
<1> USE DEF queueVars, callVars, workVars, InMain, Abstract!vars
<1>1. ASSUME NEW x \in Contexts, NEW c \in Commands, CallScheduleWork(x, c)
      PROVE Abstract!Next \/ Same
  <2>1. UNCHANGED <<CommandsDue, mcmd, todo, mpc, broadcast_subscribers,
                    delivered>>
    BY <1>1 DEF CallScheduleWork
  <2>2. CASE FireAndForget(c)
    <3>1. deleted' = deleted \cup {c} /\ c \notin Due \cup deleted \cup {mcmd}
      BY <1>1, <2>2 DEF CallScheduleWork, Unscheduled
    <3>2. Trgt[c] = NULL /\ ~(Code[c] < CMD_BROADCAST_MAX)
      BY <2>2, CommandAssumption DEF FireAndForget, CMD_BROADCAST_MAX
    <3>3. UNCHANGED Recipients(mcmd)
      BY <2>1 DEF Recipients
    <3>4. Abstract!Discard(c)
      BY <2>1, <3>1, <3>2, <3>3 DEF Abstract!Discard, Abstract!Pending, Due
    <3> QED
      BY <3>4 DEF Abstract!Next
  <2>3. CASE ~FireAndForget(c)
    BY <1>1, <2>1, <2>3 DEF CallScheduleWork, Recipients
  <2> QED
    BY <2>2, <2>3
<1>2. ASSUME NEW x \in Contexts, LockForPush(x) PROVE Same
  BY <1>2 DEF LockForPush, Recipients
<1>3. ASSUME NEW x \in Contexts, TryLockFails(x) PROVE Same
  BY <1>3 DEF TryLockFails, Recipients
<1>4. ASSUME NEW x \in Contexts, PushAndUnlock(x) PROVE Abstract!Next
  <2>1. /\ scmd[x] \in Commands /\ scmd[x] # NULL
        /\ ~FireAndForget(scmd[x])
    BY <1>4 DEF PushAndUnlock, IInv, TypeOK, Frames, Addressed
  <2>2. scmd[x] \notin Due \cup deleted \cup {mcmd}
    BY <2>1 DEF OneOwner
  <2>3. Trgt[scmd[x]] # NULL \/ Code[scmd[x]] < CMD_BROADCAST_MAX
    BY <2>1, CommandAssumption DEF FireAndForget, CMD_BROADCAST_MAX
  <2>4. /\ CommandsDue' = Append(CommandsDue, scmd[x])
        /\ UNCHANGED <<mcmd, mpc, todo, broadcast_subscribers, delivered, deleted>>
    BY <1>4 DEF PushAndUnlock
  <2>5. Abstract!Accept(scmd[x])
    BY <2>1, <2>2, <2>3, <2>4 DEF Abstract!Accept, Abstract!Pending, Due, Recipients
  <2> QED
    BY <2>1, <2>5 DEF Abstract!Next
<1>5. ASSUME NEW x \in Contexts, Post(x) PROVE Same
  BY <1>5 DEF Post, Recipients
<1>6. ASSUME NEW t \in Targets, NEW b \in BOOLEAN, RegisterBroadcasts(t, b)
      PROVE Abstract!Next
  <2>1. /\ mcmd = NULL /\ mpc = "idle"
        /\ UNCHANGED <<CommandsDue, mcmd, mpc, todo, delivered, deleted>>
    BY <1>6 DEF RegisterBroadcasts, IInv, Frames
  <2>2. Abstract!Subscribe(t) \/ Abstract!Unsubscribe(t)
    BY <1>6, <2>1 DEF RegisterBroadcasts, Abstract!Subscribe, Abstract!Unsubscribe
  <2> QED
    BY <2>2 DEF Abstract!Next
<1>7. ASSUME NEW b \in BOOLEAN, CallDoWork(b) PROVE Same
  BY <1>7 DEF CallDoWork
<1>8. ASSUME LockForCheck PROVE Same
  BY <1>8 DEF LockForCheck
<1>9. ASSUME CheckEmpty PROVE Same
  BY <1>9 DEF CheckEmpty, AfterCheck
<1>10. ASSUME SemWait PROVE Same
  BY <1>10 DEF SemWait
<1>11. ASSUME LockForGet PROVE Same
  BY <1>11 DEF LockForGet
<1>12. ASSUME GetNextCmd PROVE Abstract!Next
  <2>1. /\ CommandsDue # <<>> /\ CommandsDue \in Seq(Commands) /\ mcmd = NULL
        /\ mcmd' = Head(CommandsDue) /\ CommandsDue' = Tail(CommandsDue)
        /\ mpc = "pop" /\ mpc' = "dispatch"
        /\ UNCHANGED <<todo, broadcast_subscribers, delivered, deleted>>
    BY <1>12 DEF GetNextCmd, IInv, TypeOK, Frames
  <2>2. Head(CommandsDue) \in Due /\ Head(CommandsDue) \in Commands
    BY <2>1 DEF Due
  <2>3. ~FireAndForget(Head(CommandsDue))
    BY <2>2, CommandAssumption DEF IInv, Addressed
  <2>4. Recipients(mcmd)' = Abstract!Recipients(Head(CommandsDue))
    <3>1. Recipients(mcmd)' = Recipients(Head(CommandsDue))
      BY <2>1 DEF Recipients
    <3> QED
      BY <3>1, <2>2, <2>3, SameRecipients
  <2>5. Abstract!Start
    BY <2>1, <2>4 DEF Abstract!Start
  <2> QED
    BY <2>5 DEF Abstract!Next, Abstract!Consume
<1>13. ASSUME Dispatch PROVE Same
  BY <1>13 DEF Dispatch
<1>14. ASSUME NEW t \in Targets, ExecuteCommand(t) PROVE Abstract!Next
  <2>1. Abstract!Deliver(t)
    BY <1>14 DEF ExecuteCommand, Abstract!Deliver
  <2> QED
    BY <2>1 DEF Abstract!Next, Abstract!Consume
<1>15. ASSUME HandlerReturns PROVE Same
  BY <1>15 DEF HandlerReturns
<1>16. ASSUME DeleteCmd PROVE Abstract!Next
  <2>1. Abstract!Finish
    BY <1>16 DEF DeleteCmd, Abstract!Finish, IInv, Frames
  <2> QED
    BY <2>1 DEF Abstract!Next, Abstract!Consume
<1>17. CASE UNCHANGED vars
  BY <1>17 DEF vars, Recipients
<1> QED
  BY <1>1, <1>2, <1>3, <1>4, <1>5, <1>6, <1>7, <1>8, <1>9, <1>10, <1>11, <1>12,
      <1>13, <1>14, <1>15, <1>16, <1>17 DEF Next, ScheduleWork, DoWork

(* CWorkScheduler is a first-come first-served queue: with any number of   *)
(* threads, every behaviour of it is one of WorkQueue (its safety part),   *)
(* so commands are executed in the order they were accepted, handed to     *)
(* each addressee once, and destroyed after that.                          *)
THEOREM QueueImplemented ==
    Spec => Abstract!Init /\ [][Abstract!Next]_(Abstract!vars)
<1>1. Init => Abstract!Init
  BY DEF Init, Abstract!Init
<1> QED
  BY <1>1, QueueStep, Invariance, Ownership, PTL DEF Spec

-----------------------------------------------------------------------------
(* main() on top of the scheduler.                                         *)

(* Whatever the process does to the scheduler is an operation of it, so    *)
(* everything proved above holds of the running program, too.              *)
LEMMA SchedulerStep == [MNext]_allVars => [Next]_vars
<1> SUFFICES ASSUME [MNext]_allVars PROVE [Next]_vars
  OBVIOUS
<1> USE DEF Next, ScheduleWork, DoWork
<1>1. /\ {Timer, Connection, Terminator, Main, SigHandler} \subseteq Contexts
      /\ Shutdown \in Commands
  BY ProcessAssumption DEF Contexts, Broadcasts
<1>2. CASE \E c \in Commands : ScheduleNow(c) \/ TimerHandsOver(c) \/ OperationCompletes(c)
  BY <1>1, <1>2 DEF ScheduleNow, TimerHandsOver, OperationCompletes
<1>3. CASE \E c \in Commands : ScheduleLater(c) \/ StartOperation(c)
  BY <1>1, <1>3 DEF ScheduleLater, StartOperation, vars
<1>4. CASE \E t \in Targets : Subscribe(t)
  BY <1>1, <1>4 DEF Subscribe
<1>5. CASE Sigterm \/ TerminatorStarts
  BY <1>1, <1>5 DEF Sigterm, TerminatorStarts
<1>6. CASE TerminatorCrashes
  BY <1>1, <1>6 DEF TerminatorCrashes
<1>7. CASE \E x \in Contexts : InScheduleWork(x)
  BY <1>1, <1>7 DEF InScheduleWork, HandlerTryLockFails
<1>8. CASE InDoWork
  BY <1>1, <1>8 DEF InDoWork
<1>9. CASE Work \/ Drain
  BY <1>1, <1>9 DEF Work, Drain
<1>10. CASE DrainReturnsFalse
  BY <1>1, <1>10 DEF DrainReturnsFalse
<1>11. CASE EndSetup \/ TestKillsignal \/ JoinTerminator \/ DeleteObjects \/ DeleteScheduler
  BY <1>1, <1>11 DEF EndSetup, TestKillsignal, JoinTerminator, DeleteObjects,
      DeleteScheduler
<1>12. CASE UNCHANGED allVars
  BY <1>1, <1>12 DEF allVars
<1> QED
  BY <1>2, <1>3, <1>4, <1>5, <1>6, <1>7, <1>8, <1>9, <1>10, <1>11, <1>12
    DEF MNext, MainSteps

(* The process uses the scheduler as it is meant to be used. *)
THEOREM UsesScheduler == MSpec => Spec
<1>1. MInit => Init
  BY DEF MInit
<1> QED
  BY <1>1, SchedulerStep, PTL DEF MSpec, Spec

(* The variables of main() stay in their ranges. *)
LEMMA MTypeStep ==
    IInv /\ MTypeOK /\ [MNext]_allVars => MTypeOK'
<1> SUFFICES ASSUME IInv, MTypeOK, [MNext]_allVars PROVE MTypeOK'
  OBVIOUS
<1>0. TypeOK'
  BY TypeStep, SchedulerStep
<1> USE <1>0 DEF MTypeOK, mainVars
<1>1. ASSUME NEW c \in Commands, ScheduleNow(c) PROVE MTypeOK'
  BY <1>1 DEF ScheduleNow, CallScheduleWork
<1>2. ASSUME NEW c \in Commands, ScheduleLater(c) PROVE MTypeOK'
  BY <1>2 DEF ScheduleLater
<1>3. ASSUME NEW c \in Commands, StartOperation(c) PROVE MTypeOK'
  BY <1>3 DEF StartOperation
<1>4. ASSUME NEW c \in Commands, TimerHandsOver(c) PROVE MTypeOK'
  BY <1>4 DEF TimerHandsOver, CallScheduleWork
<1>5. ASSUME NEW c \in Commands, OperationCompletes(c) PROVE MTypeOK'
  BY <1>5 DEF OperationCompletes, CallScheduleWork
<1>6. ASSUME NEW t \in Targets, Subscribe(t) PROVE MTypeOK'
  BY <1>6 DEF Subscribe, RegisterBroadcasts
<1>7. ASSUME Sigterm PROVE MTypeOK'
  BY <1>7 DEF Sigterm, CallScheduleWork
<1>8. ASSUME TerminatorStarts PROVE MTypeOK'
  BY <1>8 DEF TerminatorStarts, CallScheduleWork
<1>9. ASSUME TerminatorCrashes PROVE MTypeOK'
  BY <1>9 DEF TerminatorCrashes
<1>10. ASSUME NEW x \in Contexts, LockForPush(x), UNCHANGED mainVars
      PROVE MTypeOK'
  BY <1>10 DEF LockForPush
<1>11. ASSUME NEW x \in Contexts, PushAndUnlock(x), UNCHANGED mainVars
      PROVE MTypeOK'
  BY <1>11 DEF PushAndUnlock
<1>12. ASSUME NEW x \in Contexts, Post(x), UNCHANGED mainVars PROVE MTypeOK'
  BY <1>12 DEF Post
<1>13. ASSUME HandlerTryLockFails PROVE MTypeOK'
  BY <1>13 DEF HandlerTryLockFails, TryLockFails
<1>14. ASSUME LockForCheck, UNCHANGED mainVars PROVE MTypeOK'
  BY <1>14 DEF LockForCheck
<1>15. ASSUME SemWait, UNCHANGED mainVars PROVE MTypeOK'
  BY <1>15 DEF SemWait
<1>16. ASSUME LockForGet, UNCHANGED mainVars PROVE MTypeOK'
  BY <1>16 DEF LockForGet
<1>17. ASSUME GetNextCmd, UNCHANGED mainVars PROVE MTypeOK'
  BY <1>17 DEF GetNextCmd
<1>18. ASSUME Dispatch, UNCHANGED mainVars PROVE MTypeOK'
  BY <1>18 DEF Dispatch
<1>19. ASSUME NEW t \in Targets, ExecuteCommand(t), UNCHANGED mainVars
      PROVE MTypeOK'
  BY <1>19 DEF ExecuteCommand
<1>20. ASSUME HandlerReturns, UNCHANGED mainVars PROVE MTypeOK'
  BY <1>20 DEF HandlerReturns
<1>21. ASSUME DeleteCmd, UNCHANGED mainVars PROVE MTypeOK'
  BY <1>21 DEF DeleteCmd
<1>22. ASSUME EndSetup PROVE MTypeOK'
  BY <1>22 DEF EndSetup
<1>23. ASSUME TestKillsignal PROVE MTypeOK'
  BY <1>23 DEF TestKillsignal
<1>24. ASSUME Work PROVE MTypeOK'
  BY <1>24 DEF Work, CallDoWork
<1>25. ASSUME JoinTerminator PROVE MTypeOK'
  BY <1>25 DEF JoinTerminator, TerminatorEnded
<1>26. ASSUME Drain PROVE MTypeOK'
  BY <1>26 DEF Drain, CallDoWork
<1>27. ASSUME DrainReturnsFalse PROVE MTypeOK'
  BY <1>27 DEF DrainReturnsFalse, CheckEmpty
<1>28. ASSUME DeleteObjects PROVE MTypeOK'
  BY <1>28 DEF DeleteObjects, ConnectionEnded
<1>29. ASSUME DeleteScheduler PROVE MTypeOK'
  BY <1>29 DEF DeleteScheduler
<1>30. CASE UNCHANGED allVars
  BY <1>30 DEF allVars, vars
<1> QED
  BY <1>1, <1>2, <1>3, <1>4, <1>5, <1>6, <1>7, <1>8, <1>9, <1>10, <1>11,
      <1>12, <1>13, <1>14, <1>15, <1>16, <1>17, <1>18, <1>19, <1>20, <1>21,
      <1>22, <1>23, <1>24, <1>25, <1>26, <1>27, <1>28, <1>29, <1>30
    DEF MNext, InScheduleWork, MainSteps, InDoWork

(* The phases of main() leave behind what they say. *)
LEMMA PhasesStep ==
    IInv /\ MTypeOK /\ Phases /\ [MNext]_allVars => Phases'
<1> SUFFICES ASSUME IInv, MTypeOK, Phases, [MNext]_allVars PROVE Phases'
  OBVIOUS
<1> USE ProcessAssumption, ContextAssumption
    DEF vars, mainVars, queueVars, callVars, workVars, InMain, Phases, Deleting,
        Contexts, Frames, Runs, InObject, AfterCheck, IInv, TypeOK, MTypeOK
<1>1. ASSUME NEW c \in Commands, ScheduleNow(c) PROVE Phases'
  BY <1>1 DEF ScheduleNow, CallScheduleWork
<1>2. ASSUME NEW c \in Commands, ScheduleLater(c) PROVE Phases'
  BY <1>2 DEF ScheduleLater
<1>3. ASSUME NEW c \in Commands, StartOperation(c) PROVE Phases'
  BY <1>3 DEF StartOperation
<1>4. ASSUME NEW c \in Commands, TimerHandsOver(c) PROVE Phases'
  BY <1>4 DEF TimerHandsOver, CallScheduleWork
<1>5. ASSUME NEW c \in Commands, OperationCompletes(c) PROVE Phases'
  BY <1>5 DEF OperationCompletes, CallScheduleWork
<1>6. ASSUME NEW t \in Targets, Subscribe(t) PROVE Phases'
  BY <1>6 DEF Subscribe, RegisterBroadcasts
<1>7. ASSUME Sigterm PROVE Phases'
  BY <1>7 DEF Sigterm, CallScheduleWork
<1>8. ASSUME TerminatorStarts PROVE Phases'
  BY <1>8 DEF TerminatorStarts, CallScheduleWork
<1>9. ASSUME TerminatorCrashes PROVE Phases'
  BY <1>9 DEF TerminatorCrashes
<1>10. ASSUME NEW x \in Contexts, LockForPush(x), UNCHANGED mainVars
      PROVE Phases'
  BY <1>10 DEF LockForPush
<1>11. ASSUME NEW x \in Contexts, PushAndUnlock(x), UNCHANGED mainVars
      PROVE Phases'
  BY <1>11 DEF PushAndUnlock
<1>12. ASSUME NEW x \in Contexts, Post(x), UNCHANGED mainVars PROVE Phases'
  BY <1>12 DEF Post
<1>13. ASSUME HandlerTryLockFails PROVE Phases'
  BY <1>13 DEF HandlerTryLockFails, TryLockFails
<1>14. ASSUME LockForCheck, UNCHANGED mainVars PROVE Phases'
  BY <1>14 DEF LockForCheck
<1>15. ASSUME SemWait, UNCHANGED mainVars PROVE Phases'
  BY <1>15 DEF SemWait
<1>16. ASSUME LockForGet, UNCHANGED mainVars PROVE Phases'
  BY <1>16 DEF LockForGet
<1>17. ASSUME GetNextCmd, UNCHANGED mainVars PROVE Phases'
  BY <1>17 DEF GetNextCmd
<1>18. ASSUME Dispatch, UNCHANGED mainVars PROVE Phases'
  BY <1>18 DEF Dispatch
<1>19. ASSUME NEW t \in Targets, ExecuteCommand(t), UNCHANGED mainVars
      PROVE Phases'
  BY <1>19 DEF ExecuteCommand
<1>20. ASSUME HandlerReturns, UNCHANGED mainVars PROVE Phases'
  BY <1>20 DEF HandlerReturns
<1>21. ASSUME DeleteCmd, UNCHANGED mainVars PROVE Phases'
  BY <1>21 DEF DeleteCmd
<1>22. ASSUME EndSetup PROVE Phases'
  BY <1>22 DEF EndSetup
<1>23. ASSUME TestKillsignal PROVE Phases'
  BY <1>23 DEF TestKillsignal
<1>24. ASSUME Work PROVE Phases'
  BY <1>24 DEF Work, CallDoWork
<1>25. ASSUME JoinTerminator PROVE Phases'
  BY <1>25 DEF JoinTerminator, TerminatorEnded
<1>26. ASSUME Drain PROVE Phases'
  BY <1>26 DEF Drain, CallDoWork
<1>27. ASSUME DrainReturnsFalse PROVE Phases'
  BY <1>27 DEF DrainReturnsFalse, CheckEmpty
<1>28. ASSUME DeleteObjects PROVE Phases'
  BY <1>28 DEF DeleteObjects, ConnectionEnded
<1>29. ASSUME DeleteScheduler PROVE Phases'
  <2>1. threads' = {}
    BY <1>29 DEF DeleteScheduler
  <2> QED
    BY <1>29, <2>1 DEF DeleteScheduler
<1>30. CASE UNCHANGED allVars
  BY <1>30 DEF allVars, vars
<1> QED
  BY <1>1, <1>2, <1>3, <1>4, <1>5, <1>6, <1>7, <1>8, <1>9, <1>10, <1>11,
      <1>12, <1>13, <1>14, <1>15, <1>16, <1>17, <1>18, <1>19, <1>20, <1>21,
      <1>22, <1>23, <1>24, <1>25, <1>26, <1>27, <1>28, <1>29, <1>30
    DEF MNext, InScheduleWork, MainSteps, InDoWork

(* The shutdown command is created once and handed on from one holder to  *)
(* the next until it is deleted.                                           *)
LEMMA OnItsWayStep ==
    IInv /\ OneOwner /\ MTypeOK /\ Phases /\ ShutdownOnItsWay /\ [MNext]_allVars
        => ShutdownOnItsWay'
<1> SUFFICES ASSUME IInv, OneOwner, MTypeOK, Phases, ShutdownOnItsWay, [MNext]_allVars
             PROVE  ShutdownOnItsWay'
  OBVIOUS
<1>a. /\ Shutdown \in Commands /\ Shutdown # NULL
      /\ Recipients(Shutdown) = broadcast_subscribers
      /\ ~FireAndForget(Shutdown)
      /\ {Timer, Connection, Terminator, Main, SigHandler} \subseteq Contexts
      /\ {SigHandler, Terminator} \cap {Main, Timer, Connection} = {}
      /\ SigHandler # Terminator
  BY ProcessAssumption, ContextAssumption, CommandAssumption
    DEF Broadcasts, FireAndForget, CMD_BROADCAST_MAX, Contexts, Recipients
<1>b. /\ spc \in [Contexts -> {"idle", "lock", "push", "post"}]
      /\ scmd \in [Contexts -> Commands \cup {NULL}]
      /\ mcmd \in Commands \cup {NULL} /\ deleted \in SUBSET Commands
      /\ delivered \in [Commands -> SUBSET Targets] /\ todo \in SUBSET Targets
      /\ \A x \in Contexts : spc[x] \in {"lock", "push"} <=> scmd[x] # NULL
      /\ mpc \in {"dispatch", "execute", "handler"} <=> mcmd # NULL
  BY DEF IInv, TypeOK, Frames
<1>c. CommandsDue' = CommandsDue => Due' = Due
  BY DEF Due
<1>d. CommandsDue \in Seq(Commands)
  BY DEF IInv, TypeOK
<1> USE <1>a, <1>b, <1>c
    DEF vars, mainVars, queueVars, callVars, workVars, InMain, Deleting, Phases,
        ShutdownOnItsWay, Unscheduled, New, GoesOn
<1>1. ASSUME NEW c \in Commands, ScheduleNow(c) PROVE ShutdownOnItsWay'
  BY <1>1 DEF ScheduleNow, CallScheduleWork
<1>2. ASSUME NEW c \in Commands, ScheduleLater(c) PROVE ShutdownOnItsWay'
  BY <1>2 DEF ScheduleLater
<1>3. ASSUME NEW c \in Commands, StartOperation(c) PROVE ShutdownOnItsWay'
  BY <1>3 DEF StartOperation
<1>4. ASSUME NEW c \in Commands, TimerHandsOver(c) PROVE ShutdownOnItsWay'
  BY <1>4 DEF TimerHandsOver, CallScheduleWork
<1>5. ASSUME NEW c \in Commands, OperationCompletes(c) PROVE ShutdownOnItsWay'
  BY <1>5 DEF OperationCompletes, CallScheduleWork
<1>6. ASSUME NEW t \in Targets, Subscribe(t) PROVE ShutdownOnItsWay'
  BY <1>6 DEF Subscribe, RegisterBroadcasts
<1>7. ASSUME Sigterm PROVE ShutdownOnItsWay'
  BY <1>7 DEF Sigterm, CallScheduleWork
<1>8. ASSUME TerminatorStarts PROVE ShutdownOnItsWay'
  BY <1>8 DEF TerminatorStarts, CallScheduleWork
<1>9. ASSUME TerminatorCrashes PROVE ShutdownOnItsWay'
  BY <1>9 DEF TerminatorCrashes
<1>10. ASSUME NEW x \in Contexts, LockForPush(x), UNCHANGED mainVars
      PROVE ShutdownOnItsWay'
  BY <1>10 DEF LockForPush
<1>11. ASSUME NEW x \in Contexts, PushAndUnlock(x), UNCHANGED mainVars
      PROVE ShutdownOnItsWay'
  <2>1. scmd[x] \in Commands /\ CommandsDue' = Append(CommandsDue, scmd[x])
    BY <1>11 DEF PushAndUnlock
  <2>2. Due' = Due \cup {scmd[x]}
    BY ONLY <2>1, <1>d, AppendRange DEF Due
  <2> QED
    BY <1>11, <2>2 DEF PushAndUnlock
<1>12. ASSUME NEW x \in Contexts, Post(x), UNCHANGED mainVars
      PROVE ShutdownOnItsWay'
  BY <1>12 DEF Post
<1>13. ASSUME HandlerTryLockFails PROVE ShutdownOnItsWay'
  BY <1>13 DEF HandlerTryLockFails, TryLockFails
<1>14. ASSUME LockForCheck, UNCHANGED mainVars PROVE ShutdownOnItsWay'
  BY <1>14 DEF LockForCheck
<1>15. ASSUME SemWait, UNCHANGED mainVars PROVE ShutdownOnItsWay'
  BY <1>15 DEF SemWait
<1>16. ASSUME LockForGet, UNCHANGED mainVars PROVE ShutdownOnItsWay'
  BY <1>16 DEF LockForGet
<1>17. ASSUME GetNextCmd, UNCHANGED mainVars PROVE ShutdownOnItsWay'
  <2>1. /\ mcmd' = Head(CommandsDue) /\ CommandsDue' = Tail(CommandsDue)
        /\ CommandsDue # <<>>
    BY <1>17 DEF GetNextCmd
  <2>2. Due = Due' \cup {mcmd'}
    BY ONLY <2>1, <1>d, HeadTailRange DEF Due
  <2> QED
    BY <1>17, <2>2 DEF GetNextCmd
<1>18. ASSUME Dispatch, UNCHANGED mainVars PROVE ShutdownOnItsWay'
  BY <1>18 DEF Dispatch
<1>19. ASSUME NEW t \in Targets, ExecuteCommand(t), UNCHANGED mainVars
      PROVE ShutdownOnItsWay'
  BY <1>19 DEF ExecuteCommand
<1>20. ASSUME HandlerReturns, UNCHANGED mainVars PROVE ShutdownOnItsWay'
  BY <1>20 DEF HandlerReturns
<1>21. ASSUME DeleteCmd, UNCHANGED mainVars PROVE ShutdownOnItsWay'
  BY <1>21 DEF DeleteCmd
<1>22. ASSUME EndSetup PROVE ShutdownOnItsWay'
  BY <1>22 DEF EndSetup
<1>23. ASSUME TestKillsignal PROVE ShutdownOnItsWay'
  BY <1>23 DEF TestKillsignal
<1>24. ASSUME Work PROVE ShutdownOnItsWay'
  BY <1>24 DEF Work, CallDoWork
<1>25. ASSUME JoinTerminator PROVE ShutdownOnItsWay'
  BY <1>25 DEF JoinTerminator, TerminatorEnded
<1>26. ASSUME Drain PROVE ShutdownOnItsWay'
  BY <1>26 DEF Drain, CallDoWork
<1>27. ASSUME DrainReturnsFalse PROVE ShutdownOnItsWay'
  <2>1. CommandsDue = <<>> => Due = {}
    BY ONLY DEF Due
  <2> QED
    BY <1>27, <2>1 DEF DrainReturnsFalse, CheckEmpty, AfterCheck
<1>28. ASSUME DeleteObjects PROVE ShutdownOnItsWay'
  BY <1>28 DEF DeleteObjects, ConnectionEnded
<1>29. ASSUME DeleteScheduler PROVE ShutdownOnItsWay'
  BY <1>29 DEF DeleteScheduler
<1>30. CASE UNCHANGED allVars
  BY <1>30 DEF allVars, vars
<1> QED
  BY <1>1, <1>2, <1>3, <1>4, <1>5, <1>6, <1>7, <1>8, <1>9, <1>10, <1>11,
      <1>12, <1>13, <1>14, <1>15, <1>16, <1>17, <1>18, <1>19, <1>20, <1>21,
      <1>22, <1>23, <1>24, <1>25, <1>26, <1>27, <1>28, <1>29, <1>30
    DEF MNext, InScheduleWork, MainSteps, InDoWork

(* Nobody is left out while the shutdown command is executed. *)
LEMMA ToldStep ==
    IInv /\ OneOwner /\ MTypeOK /\ Phases /\ ShutdownOnItsWay /\ ShutdownTold /\ [MNext]_allVars
        => ShutdownTold'
<1> SUFFICES ASSUME IInv, OneOwner, MTypeOK, Phases, ShutdownOnItsWay, ShutdownTold,
                    [MNext]_allVars
             PROVE  ShutdownTold'
  OBVIOUS
<1>a. /\ Shutdown \in Commands /\ Shutdown # NULL
      /\ Recipients(Shutdown) = broadcast_subscribers
      /\ ~FireAndForget(Shutdown)
      /\ {Timer, Connection, Terminator, Main, SigHandler} \subseteq Contexts
      /\ {SigHandler, Terminator} \cap {Main, Timer, Connection} = {}
      /\ SigHandler # Terminator
  BY ProcessAssumption, ContextAssumption, CommandAssumption
    DEF Broadcasts, FireAndForget, CMD_BROADCAST_MAX, Contexts, Recipients
<1>b. /\ spc \in [Contexts -> {"idle", "lock", "push", "post"}]
      /\ scmd \in [Contexts -> Commands \cup {NULL}]
      /\ mcmd \in Commands \cup {NULL} /\ deleted \in SUBSET Commands
      /\ delivered \in [Commands -> SUBSET Targets] /\ todo \in SUBSET Targets
      /\ \A x \in Contexts : spc[x] \in {"lock", "push"} <=> scmd[x] # NULL
      /\ mpc \in {"dispatch", "execute", "handler"} <=> mcmd # NULL
  BY DEF IInv, TypeOK, Frames
<1>c. CommandsDue' = CommandsDue => Due' = Due
  BY DEF Due
<1>d. mcmd = Shutdown => Shutdown \notin deleted
  BY DEF OneOwner
<1> USE <1>a, <1>b, <1>c, <1>d
    DEF vars, mainVars, queueVars, callVars, workVars, InMain, Phases,
        ShutdownOnItsWay, ShutdownTold, Telling, ShutdownDelivered, Unscheduled,
        New, GoesOn
<1>1. ASSUME NEW c \in Commands, ScheduleNow(c) PROVE ShutdownTold'
  BY <1>1 DEF ScheduleNow, CallScheduleWork
<1>2. ASSUME NEW c \in Commands, ScheduleLater(c) PROVE ShutdownTold'
  BY <1>2 DEF ScheduleLater
<1>3. ASSUME NEW c \in Commands, StartOperation(c) PROVE ShutdownTold'
  BY <1>3 DEF StartOperation
<1>4. ASSUME NEW c \in Commands, TimerHandsOver(c) PROVE ShutdownTold'
  BY <1>4 DEF TimerHandsOver, CallScheduleWork
<1>5. ASSUME NEW c \in Commands, OperationCompletes(c) PROVE ShutdownTold'
  BY <1>5 DEF OperationCompletes, CallScheduleWork
<1>6. ASSUME NEW t \in Targets, Subscribe(t) PROVE ShutdownTold'
  BY <1>6 DEF Subscribe, RegisterBroadcasts
<1>7. ASSUME Sigterm PROVE ShutdownTold'
  BY <1>7 DEF Sigterm, CallScheduleWork
<1>8. ASSUME TerminatorStarts PROVE ShutdownTold'
  BY <1>8 DEF TerminatorStarts, CallScheduleWork
<1>9. ASSUME TerminatorCrashes PROVE ShutdownTold'
  BY <1>9 DEF TerminatorCrashes
<1>10. ASSUME NEW x \in Contexts, LockForPush(x), UNCHANGED mainVars
      PROVE ShutdownTold'
  BY <1>10 DEF LockForPush
<1>11. ASSUME NEW x \in Contexts, PushAndUnlock(x), UNCHANGED mainVars
      PROVE ShutdownTold'
  BY <1>11 DEF PushAndUnlock
<1>12. ASSUME NEW x \in Contexts, Post(x), UNCHANGED mainVars
      PROVE ShutdownTold'
  BY <1>12 DEF Post
<1>13. ASSUME HandlerTryLockFails PROVE ShutdownTold'
  BY <1>13 DEF HandlerTryLockFails, TryLockFails
<1>14. ASSUME LockForCheck, UNCHANGED mainVars PROVE ShutdownTold'
  BY <1>14 DEF LockForCheck
<1>15. ASSUME SemWait, UNCHANGED mainVars PROVE ShutdownTold'
  BY <1>15 DEF SemWait
<1>16. ASSUME LockForGet, UNCHANGED mainVars PROVE ShutdownTold'
  BY <1>16 DEF LockForGet
<1>17. ASSUME GetNextCmd, UNCHANGED mainVars PROVE ShutdownTold'
  BY <1>17 DEF GetNextCmd
<1>18. ASSUME Dispatch, UNCHANGED mainVars PROVE ShutdownTold'
  BY <1>18 DEF Dispatch
<1>19. ASSUME NEW t \in Targets, ExecuteCommand(t), UNCHANGED mainVars
      PROVE ShutdownTold'
  BY <1>19 DEF ExecuteCommand
<1>20. ASSUME HandlerReturns, UNCHANGED mainVars PROVE ShutdownTold'
  BY <1>20 DEF HandlerReturns
<1>21. ASSUME DeleteCmd, UNCHANGED mainVars PROVE ShutdownTold'
  BY <1>21 DEF DeleteCmd
<1>22. ASSUME EndSetup PROVE ShutdownTold'
  BY <1>22 DEF EndSetup
<1>23. ASSUME TestKillsignal PROVE ShutdownTold'
  BY <1>23 DEF TestKillsignal
<1>24. ASSUME Work PROVE ShutdownTold'
  BY <1>24 DEF Work, CallDoWork
<1>25. ASSUME JoinTerminator PROVE ShutdownTold'
  BY <1>25 DEF JoinTerminator, TerminatorEnded
<1>26. ASSUME Drain PROVE ShutdownTold'
  BY <1>26 DEF Drain, CallDoWork
<1>27. ASSUME DrainReturnsFalse PROVE ShutdownTold'
  BY <1>27 DEF DrainReturnsFalse, CheckEmpty
<1>28. ASSUME DeleteObjects PROVE ShutdownTold'
  BY <1>28 DEF DeleteObjects, ConnectionEnded
<1>29. ASSUME DeleteScheduler PROVE ShutdownTold'
  BY <1>29 DEF DeleteScheduler
<1>30. CASE UNCHANGED allVars
  BY <1>30 DEF allVars, vars
<1> QED
  BY <1>1, <1>2, <1>3, <1>4, <1>5, <1>6, <1>7, <1>8, <1>9, <1>10, <1>11,
      <1>12, <1>13, <1>14, <1>15, <1>16, <1>17, <1>18, <1>19, <1>20, <1>21,
      <1>22, <1>23, <1>24, <1>25, <1>26, <1>27, <1>28, <1>29, <1>30
    DEF MNext, InScheduleWork, MainSteps, InDoWork

(* The process starts within the invariant. *)
LEMMA InitMIInv == MInit => MIInv
<1> SUFFICES ASSUME MInit PROVE MIInv
  OBVIOUS
<1> USE ProcessAssumption, ContextAssumption, CommandAssumption
    DEF MInit, Init, Contexts, Broadcasts
<1>1. MTypeOK
  BY InitIInv DEF IInv, MTypeOK
<1>2. Phases
  BY DEF Phases, Deleting
<1>3. ShutdownOnItsWay /\ ShutdownTold
  BY DEF ShutdownOnItsWay, ShutdownTold, Telling, Unscheduled, Due, Deleting
<1> QED
  BY <1>1, <1>2, <1>3 DEF MIInv

(* The inductive invariant of the process. *)
THEOREM MainInvariance == MSpec => []MIInv
<1>1. IInv /\ OneOwner /\ MIInv /\ [MNext]_allVars => MIInv'
  BY MTypeStep, PhasesStep, OnItsWayStep, ToldStep DEF MIInv
<1>2. MSpec => []IInv /\ []OneOwner
  BY UsesScheduler, Invariance, Ownership, PTL
<1>3. MSpec => MInit /\ [][MNext]_allVars
  BY PTL DEF MSpec
<1> QED
  BY InitMIInv, <1>1, <1>2, <1>3, PTL

(* The program goes down in order, wherever the signal hits it: before an  *)
(* object is deleted everybody who subscribed has been told to shut down,  *)
(* and nobody is inside the scheduler any more when it is deleted.         *)
THEOREM MainSound == MSpec => []MainInv
<1>1. IInv /\ MIInv => MainInv
  <2> SUFFICES ASSUME IInv, MIInv PROVE MainInv
    OBVIOUS
  <2>1. ShutdownNotLost
    BY DEF MIInv, ShutdownOnItsWay, ShutdownTold, ShutdownNotLost, Deleting
  <2>2. ASSUME lpc = "exit"
        PROVE  (\A x \in Contexts : spc[x] = "idle") /\ mut = NULL
    <3>1. \A x \in Contexts : spc[x] = "idle"
      BY <2>2, ProcessAssumption DEF MIInv, Phases, Deleting, Contexts
    <3>2. \A x \in Contexts : mut # x
      BY <2>2, <3>1 DEF MIInv, Phases, Deleting, IInv, MutualExclusion,
          InCriticalSection
    <3> QED
      BY <3>1, <3>2 DEF IInv, TypeOK
  <2>3. NoUseAfterDelete
    BY <2>2 DEF MIInv, Phases, Deleting, NoUseAfterDelete
  <2> QED
    BY <2>1, <2>3 DEF MIInv, MainInv
<1>2. MSpec => []IInv
  BY UsesScheduler, Invariance, PTL
<1> QED
  BY <1>1, <1>2, MainInvariance, PTL

-----------------------------------------------------------------------------
(* The logger and the start.                                               *)

(* The logger: what lies behind LogInv, thread by thread.                  *)

Saying == { Idle } \cup [at : {"Log_sa"}, text : Texts, place : {TRUE}]
                   \cup [at : {"<<"}, text : Texts, place : BOOLEAN]

Levels ==
    /\ currentloggerlevel \in LL_ALL .. LL_OFF /\ currentlevel \in LL_ALL .. LL_OFF

LogTypes ==
    /\ clock \in 0 .. MaxClock
    /\ thread \in [Threads -> Saying]
    /\ said \in [Threads -> Texts \cup {NoText}]
    /\ printed \in [Threads -> [text : Texts \cup {NoText}, when : Nat]]
    /\ sa_info \in [Threads -> [text : Texts \cup {NoText}, suppressed_cnt : Nat, last_seen : Nat]]

\* A place is between Log_sa and the writing of its message.
Writing(t) == thread[t].at = "<<" /\ thread[t].place

\* What a place has said is printed, or is what its thread is about to print.
SaidOrSaying(t) ==
    said[t] = IF thread[t].at = "Log_sa" \/ Writing(t) THEN thread[t].text ELSE printed[t].text

\* The table knows what was printed last, and not before that was printed.
\* When everything is enabled nothing is put into the table.
TableIsPrinted(t) ==
    /\ currentloggerlevel = LL_ALL => sa_info[t] = Nothing
    /\ currentloggerlevel # LL_ALL /\ Writing(t) => sa_info[t].text = thread[t].text
    /\ sa_info[t].text # NoText /\ ~Writing(t) =>
           printed[t].text = sa_info[t].text /\ printed[t].when >= sa_info[t].last_seen
    /\ sa_info[t].last_seen <= clock
    /\ sa_max_suppress_repetitions > 0 => sa_info[t].suppressed_cnt <= sa_max_suppress_repetitions

LoggerOf(t) ==
    /\ thread[t] # Idle => Enabled(currentlevel)
    /\ SaidOrSaying(t) /\ TableIsPrinted(t)

LoggerIInv == Levels /\ LogTypes /\ \A t \in Threads : LoggerOf(t)

LEMMA SayingParts ==
    ASSUME NEW th \in Saying
    PROVE  /\ th.at \in {"idle", "Log_sa", "<<"}
           /\ th.at = "idle" <=> th = Idle
           /\ th.at = "Log_sa" => th.text \in Texts /\ th = [at |-> "Log_sa", text |-> th.text, place |-> TRUE]
           /\ th.at = "<<" => th.text \in Texts
<1>1. CASE th = Idle
  BY <1>1 DEF Idle
<1>2. CASE th \in [at : {"Log_sa"}, text : Texts, place : {TRUE}]
  <2>1. th = [at |-> th.at, text |-> th.text, place |-> th.place] /\ th.at = "Log_sa" /\ th.place = TRUE
    BY <1>2
  <2>2. th.text \in Texts /\ th # Idle
    BY <1>2 DEF Idle
  <2> QED
    BY <2>1, <2>2
<1>3. CASE th \in [at : {"<<"}, text : Texts, place : BOOLEAN]
  BY <1>3 DEF Idle
<1> QED
  BY <1>1, <1>2, <1>3 DEF Saying

LEMMA LoggerImplies == LoggerIInv => LoggerTypeOK /\ LogInv
<1> SUFFICES ASSUME LoggerIInv PROVE LoggerTypeOK /\ LogInv
  OBVIOUS
<1>1. ASSUME NEW t \in Threads
      PROVE  /\ thread[t].at \in {"idle", "Log_sa", "<<"}
             /\ thread[t].at # "<<" => ~Writing(t)
             /\ thread[t].at # "idle" => thread[t] # Idle
             /\ {sa_info[t].text, said[t]} \subseteq Texts \cup {NoText}
             /\ sa_info[t].suppressed_cnt \in Nat
  <2>1. /\ thread[t] \in Saying /\ said[t] \in Texts \cup {NoText}
        /\ sa_info[t] \in [text : Texts \cup {NoText}, suppressed_cnt : Nat, last_seen : Nat]
    BY DEF LoggerIInv, LogTypes
  <2>2. /\ thread[t].at \in {"idle", "Log_sa", "<<"}
        /\ thread[t].at # "idle" => thread[t] # Idle
    BY <2>1, SayingParts
  <2> QED
    BY <2>1, <2>2 DEF Writing
<1>2. LoggerTypeOK
  BY <1>1 DEF LoggerIInv, Levels, LogTypes, LoggerTypeOK
<1>3. NothingEnabledIsDropped
  BY <1>1 DEF LoggerIInv, LoggerOf, NothingEnabledIsDropped
<1>4. LastSaidIsLogged
  BY DEF LoggerIInv, LoggerOf, SaidOrSaying, Writing, Idle, LastSaidIsLogged
<1>5. RepeatedInTime
  BY <1>1 DEF LoggerIInv, LoggerOf, TableIsPrinted, RepeatedInTime
<1> QED
  BY <1>2, <1>3, <1>4, <1>5 DEF LogInv

LEMMA SayStep ==
    ASSUME LoggerIInv, NEW t \in Threads, NEW level \in {LL_DEBUG, LL_ERROR}, NEW text \in Texts,
           NEW place \in BOOLEAN, Say(t, level, text, place)
    PROVE  LoggerIInv'
<1> USE DEF LoggerIInv
<1>1. /\ thread[t] = Idle
      /\ UNCHANGED <<currentloggerlevel, sa_info, clock, printed>>
      /\ currentlevel' = IF Enabled(level) THEN level ELSE currentlevel
  BY DEF Say, IsEnabled
<1>2. Levels'
  BY <1>1 DEF Levels, LL_DEBUG, LL_ERROR, LL_ALL, LL_OFF
<1>3. CASE ~Enabled(level)
  BY <1>1, <1>2, <1>3 DEF Say, LogTypes, LoggerOf, SaidOrSaying, TableIsPrinted, Writing, Enabled
<1>4. CASE Enabled(level)
  <2> DEFINE th == [at |-> IF place THEN "Log_sa" ELSE "<<", text |-> text, place |-> place]
  <2>1. /\ thread' = [thread EXCEPT ![t] = th] /\ th \in Saying
        /\ said' = IF place THEN [said EXCEPT ![t] = text] ELSE said
        /\ Enabled(currentlevel)'
    BY <1>1, <1>4 DEF Say, Saying, Enabled
  <2>2. LogTypes'
    BY <1>1, <2>1 DEF LogTypes
  <2>3. ASSUME NEW u \in Threads
        PROVE  LoggerOf(u)'
    <3>1. CASE u # t
      <4>1. thread'[u] = thread[u] /\ said'[u] = said[u]
        BY <2>1, <3>1 DEF LogTypes
      <4> QED
        BY <1>1, <2>1, <4>1 DEF LoggerOf, SaidOrSaying, TableIsPrinted, Writing
    <3>2. CASE u = t
      <4>1. thread'[t] = th /\ ~Writing(t) /\ ~Writing(t)'
        BY <1>1, <2>1 DEF LogTypes, Writing, Idle
      <4>2. said'[t] = IF place THEN text ELSE said[t]
        BY <2>1 DEF LogTypes
      <4>3. SaidOrSaying(t)'
        BY <1>1, <4>1, <4>2 DEF LoggerOf, SaidOrSaying, Idle
      <4>4. TableIsPrinted(t)'
        BY <1>1, <4>1 DEF LoggerOf, TableIsPrinted
      <4> QED
        BY <2>1, <3>2, <4>3, <4>4 DEF LoggerOf
    <3> QED
      BY <3>1, <3>2
  <2> QED
    BY <1>2, <2>2, <2>3
<1> QED
  BY <1>3, <1>4

LEMMA Log_saStep ==
    ASSUME LoggerIInv, NEW t \in Threads, Log_sa(t)
    PROVE  LoggerIInv'
<1> USE DEF LoggerIInv
<1> DEFINE text == thread[t].text
           written == [thread[t] EXCEPT !.at = "<<"]
<1>1. /\ thread[t].at = "Log_sa" /\ text \in Texts /\ thread[t] # Idle
      /\ ~Writing(t) /\ said[t] = text
      /\ thread[t] = [at |-> "Log_sa", text |-> text, place |-> TRUE]
  <2>1. thread[t].at = "Log_sa" /\ thread[t] \in Saying
    BY DEF Log_sa, LogTypes
  <2>2. text \in Texts /\ thread[t] = [at |-> "Log_sa", text |-> text, place |-> TRUE]
    BY <2>1, SayingParts
  <2>3. ~Writing(t) /\ thread[t] # Idle
    BY <2>1 DEF Writing, Idle
  <2>4. said[t] = text
    BY <2>1 DEF LoggerOf, SaidOrSaying
  <2> QED
    BY <2>1, <2>2, <2>3, <2>4
<1>2. /\ UNCHANGED <<currentloggerlevel, clock, said, printed>>
      /\ currentlevel' = IF Enabled(LL_ALL) THEN LL_ALL ELSE currentlevel
  BY DEF Log_sa, IsEnabled
<1>3. Levels' /\ (Enabled(currentlevel) => Enabled(currentlevel)')
      /\ Enabled(currentlevel) /\ (Enabled(LL_ALL) <=> currentloggerlevel = LL_ALL)
  BY <1>1, <1>2 DEF Levels, Enabled, LL_ALL, LL_OFF, LoggerOf
<1>4. \/ /\ Enabled(LL_ALL) /\ thread' = [thread EXCEPT ![t] = written] /\ sa_info' = sa_info
      \/ /\ ~Enabled(LL_ALL) /\ thread' = [thread EXCEPT ![t] = written]
         /\ sa_info' = [sa_info EXCEPT
                ![t] = [text |-> text, suppressed_cnt |-> 0, last_seen |-> clock]]
      \/ /\ ~Enabled(LL_ALL) /\ ~NeedLog(sa_info[t], text)
         /\ thread' = [thread EXCEPT ![t] = Idle]
         /\ sa_info' = [sa_info EXCEPT ![t].suppressed_cnt = @ + 1]
  BY DEF Log_sa
<1>5. /\ written \in Saying /\ Idle \in Saying /\ written # Idle
      /\ written.at = "<<" /\ written.text = text /\ written.place
  <2>1. thread[t] \in [at : {"Log_sa"}, text : Texts, place : {TRUE}]
    <3>1. \A x \in Texts : [at |-> "Log_sa", text |-> x, place |-> TRUE]
                                \in [at : {"Log_sa"}, text : Texts, place : {TRUE}]
      OBVIOUS
    <3> QED
      BY <1>1, <3>1, Zenon
  <2>2. written \in [at : {"<<"}, text : Texts, place : BOOLEAN]
    BY <2>1
  <2>3. written.at = "<<" /\ written.text = text /\ written.place
    BY <2>1
  <2> QED
    BY <2>2, <2>3 DEF Saying, Idle
<1> HIDE DEF written
<1>6. clock \in Nat
  BY LoggerAssumption DEF LogTypes
<1>7. LogTypes'
  <2>1. thread' \in [Threads -> Saying]
    BY <1>4, <1>5 DEF LogTypes
  <2>2. sa_info' \in [Threads -> [text : Texts \cup {NoText}, suppressed_cnt : Nat, last_seen : Nat]]
    <3> DEFINE Info == [text : Texts \cup {NoText}, suppressed_cnt : Nat, last_seen : Nat]
    <3>1. [text |-> text, suppressed_cnt |-> 0, last_seen |-> clock] \in Info
      BY <1>1, <1>6
    <3>2. sa_info \in [Threads -> Info]
      BY DEF LogTypes
    <3>3. [sa_info[t] EXCEPT !.suppressed_cnt = @ + 1] \in Info
      BY <3>2
    <3> HIDE DEF Info
    <3>4. \A i \in Info : [sa_info EXCEPT ![t] = i] \in [Threads -> Info]
      BY <3>2
    <3>5. sa_info' \in [Threads -> Info]
      BY <1>4, <3>1, <3>2, <3>3, <3>4
    <3> QED
      BY <3>5 DEF Info
  <2> QED
    BY <1>2, <2>1, <2>2 DEF LogTypes
<1>8. \A u \in Threads : u # t => thread'[u] = thread[u] /\ sa_info'[u] = sa_info[u]
  BY <1>4 DEF LogTypes
<1>9. ASSUME NEW u \in Threads, u # t
      PROVE  LoggerOf(u)'
  BY <1>2, <1>3, <1>8, <1>9 DEF LoggerOf, SaidOrSaying, TableIsPrinted, Writing
<1>10. LoggerOf(t)'
  <2>1. CASE Enabled(LL_ALL)
    <3>1. thread'[t] = written /\ sa_info'[t] = sa_info[t]
      BY <1>4, <2>1 DEF LogTypes
    <3>2. Writing(t)' /\ sa_info[t] = Nothing
      BY <1>3, <1>5, <2>1, <3>1 DEF Writing, LoggerOf, TableIsPrinted
    <3>3. SaidOrSaying(t)'
      BY <1>1, <1>2, <1>5, <3>1, <3>2 DEF SaidOrSaying
    <3>4. TableIsPrinted(t)'
      BY <1>2, <1>3, <2>1, <3>1, <3>2 DEF LoggerOf, TableIsPrinted
    <3> QED
      BY <1>3, <3>3, <3>4 DEF LoggerOf
  <2>2. CASE thread' = [thread EXCEPT ![t] = written]
             /\ sa_info' = [sa_info EXCEPT
                    ![t] = [text |-> text, suppressed_cnt |-> 0, last_seen |-> clock]]
             /\ ~Enabled(LL_ALL)
    <3>1. /\ thread'[t] = written
          /\ sa_info'[t] = [text |-> text, suppressed_cnt |-> 0, last_seen |-> clock]
      BY <2>2 DEF LogTypes
    <3>2. Writing(t)'
      BY <1>5, <3>1 DEF Writing
    <3>3. SaidOrSaying(t)'
      BY <1>1, <1>2, <1>5, <3>1, <3>2 DEF SaidOrSaying
    <3>4. TableIsPrinted(t)'
      BY <1>2, <1>3, <1>5, <1>6, <2>2, <3>1, <3>2, LoggerAssumption DEF TableIsPrinted
    <3> QED
      BY <1>3, <3>3, <3>4 DEF LoggerOf
  <2>3. CASE thread' = [thread EXCEPT ![t] = Idle] /\ ~NeedLog(sa_info[t], text)
             /\ sa_info' = [sa_info EXCEPT ![t].suppressed_cnt = @ + 1] /\ ~Enabled(LL_ALL)
    <3>1. /\ thread'[t] = Idle /\ sa_info'[t].text = sa_info[t].text
          /\ sa_info'[t].last_seen = sa_info[t].last_seen
          /\ sa_info'[t].suppressed_cnt = sa_info[t].suppressed_cnt + 1
          /\ sa_info[t].suppressed_cnt \in Nat
      BY <2>3 DEF LogTypes
    <3>2. ~Writing(t)' /\ thread'[t].at # "Log_sa"
      BY <3>1 DEF Writing, Idle
    <3>3. sa_info[t].text = text /\ sa_info[t].text # NoText /\ ~Often(sa_info[t])
      BY <2>3 DEF NeedLog, Changed
    <3>4. printed[t].text = text
      BY <1>1, <3>3 DEF LoggerOf, TableIsPrinted
    <3>5. SaidOrSaying(t)'
      BY <1>1, <1>2, <3>2, <3>4 DEF SaidOrSaying
    <3>6. sa_max_suppress_repetitions > 0 =>
              sa_info[t].suppressed_cnt + 1 <= sa_max_suppress_repetitions
      BY <3>1, <3>3, LoggerAssumption DEF Often
    <3>7. TableIsPrinted(t)'
      BY <1>1, <1>2, <1>3, <2>3, <3>1, <3>2, <3>6 DEF LoggerOf, TableIsPrinted
    <3> QED
      BY <3>1, <3>5, <3>7 DEF LoggerOf
  <2> QED
    BY <1>4, <2>1, <2>2, <2>3
<1> QED
  BY <1>3, <1>7, <1>9, <1>10

LEMMA WriteStep ==
    ASSUME LoggerIInv, NEW t \in Threads, Write(t)
    PROVE  LoggerIInv'
<1> USE DEF LoggerIInv
<1>1. /\ thread[t].at = "<<" /\ thread' = [thread EXCEPT ![t] = Idle] /\ thread[t] # Idle
      /\ UNCHANGED <<currentloggerlevel, currentlevel, sa_info, clock, said>>
      /\ clock \in Nat /\ thread[t].text \in Texts
  <2>1. thread[t] \in Saying /\ thread[t].at = "<<"
    BY DEF Write, LogTypes
  <2> QED
    BY <2>1, SayingParts, LoggerAssumption DEF Write, LogTypes
<1>2. printed' = IF Writing(t)
                 THEN [printed EXCEPT ![t] = [text |-> thread[t].text, when |-> clock]]
                 ELSE printed
  BY <1>1 DEF Write, LoggerOf, Writing
<1>3. Levels'
  BY <1>1 DEF Levels
<1>4. LogTypes'
  BY <1>1, <1>2 DEF LogTypes, Saying
<1>5. ASSUME NEW u \in Threads, u # t
      PROVE  LoggerOf(u)'
  <2>1. thread'[u] = thread[u] /\ printed'[u] = printed[u]
    BY <1>1, <1>2, <1>5 DEF LogTypes
  <2> QED
    BY <1>1, <2>1 DEF LoggerOf, SaidOrSaying, TableIsPrinted, Writing, Enabled
<1>6. LoggerOf(t)'
  <2>1. thread'[t] = Idle /\ ~Writing(t)' /\ thread'[t].at # "Log_sa"
    BY <1>1 DEF LogTypes, Writing, Idle
  <2>2. printed'[t] = IF Writing(t) THEN [text |-> thread[t].text, when |-> clock] ELSE printed[t]
    BY <1>2 DEF LogTypes
  <2>3. SaidOrSaying(t)'
    BY <1>1, <2>1, <2>2 DEF LoggerOf, SaidOrSaying
  <2>4. TableIsPrinted(t)'
    <3>1. sa_info[t].last_seen \in Nat /\ sa_info[t].last_seen <= clock
      BY DEF LoggerOf, TableIsPrinted, LogTypes
    <3>2. CASE Writing(t)
      <4>1. printed'[t].text = thread[t].text /\ printed'[t].when = clock
        BY <2>2, <3>2
      <4>2. currentloggerlevel = LL_ALL \/ sa_info[t].text = thread[t].text
        BY <3>2 DEF LoggerOf, TableIsPrinted
      <4> QED
        BY <1>1, <2>1, <3>1, <4>1, <4>2 DEF LoggerOf, TableIsPrinted, Nothing
    <3>3. CASE ~Writing(t)
      BY <1>1, <2>1, <2>2, <3>3 DEF LoggerOf, TableIsPrinted
    <3> QED
      BY <3>2, <3>3
  <2> QED
    BY <2>1, <2>3, <2>4 DEF LoggerOf
<1> QED
  BY <1>3, <1>4, <1>5, <1>6

LEMMA sa_forgethistoryStep ==
    ASSUME LoggerIInv, NEW t \in Threads, sa_forgethistory(t)
    PROVE  LoggerIInv'
<1> USE DEF LoggerIInv
<1>1. /\ thread[t] = Idle /\ sa_info' = [sa_info EXCEPT ![t] = Nothing]
      /\ UNCHANGED <<currentloggerlevel, currentlevel, clock, thread, said, printed>>
      /\ clock \in Nat
  BY LoggerAssumption DEF sa_forgethistory, LogTypes
<1>2. LogTypes' /\ Levels'
  BY <1>1 DEF LogTypes, Levels, Nothing
<1>3. ASSUME NEW u \in Threads
      PROVE  LoggerOf(u)'
  <2>1. sa_info'[u] = IF u = t THEN Nothing ELSE sa_info[u]
    BY <1>1 DEF LogTypes
  <2>2. ~Writing(t) /\ sa_max_suppress_repetitions \in Nat
    BY <1>1, LoggerAssumption DEF Writing, Idle
  <2>3. SaidOrSaying(u)'
    BY <1>1 DEF LoggerOf, SaidOrSaying, Writing
  <2>4. TableIsPrinted(u)'
    BY <1>1, <2>1, <2>2 DEF LoggerOf, TableIsPrinted, Nothing, Writing
  <2> QED
    BY <1>1, <2>3, <2>4 DEF LoggerOf, Enabled
<1> QED
  BY <1>2, <1>3

LEMMA LoggerStep ==
    ASSUME LoggerIInv, LoggerNext
    PROVE  LoggerIInv'
<1>1. CASE Tick
  <2> USE DEF LoggerIInv
  <2>1. /\ clock' = clock + 1 /\ clock \in Nat /\ clock' \in 0 .. MaxClock
        /\ UNCHANGED <<currentloggerlevel, currentlevel, sa_info, thread, said, printed>>
    BY <1>1, LoggerAssumption DEF Tick, LogTypes
  <2>2. ASSUME NEW t \in Threads
        PROVE  sa_info[t].last_seen \in Nat
    BY DEF LogTypes
  <2>3. ASSUME NEW t \in Threads
        PROVE  LoggerOf(t)'
    BY <2>1, <2>2 DEF LoggerOf, SaidOrSaying, TableIsPrinted, Writing, Enabled
  <2> QED
    BY <2>1, <2>3 DEF LogTypes, Levels
<1> QED
  BY <1>1, SayStep, Log_saStep, WriteStep, sa_forgethistoryStep DEF LoggerNext

\* Before the main loop nobody has said anything; only the levels are set.
Silent ==
    /\ sa_info = [t \in Threads |-> Nothing] /\ clock = 0 /\ thread = [t \in Threads |-> Idle]
    /\ said = [t \in Threads |-> NoText]
    /\ printed = [t \in Threads |-> [text |-> NoText, when |-> 0]]

LEMMA SilentLogger == Levels /\ Silent => LoggerIInv
<1> SUFFICES ASSUME Levels, Silent PROVE LoggerIInv
  OBVIOUS
<1>1. LogTypes
  BY LoggerAssumption DEF Silent, LogTypes, Nothing, Saying
<1>2. ASSUME NEW t \in Threads
      PROVE  LoggerOf(t)
  <2>1. /\ thread[t] = Idle /\ sa_info[t] = Nothing /\ said[t] = NoText
        /\ printed[t] = [text |-> NoText, when |-> 0] /\ clock = 0
    BY DEF Silent
  <2>2. sa_max_suppress_repetitions \in Nat
    BY LoggerAssumption
  <2> QED
    BY <2>1, <2>2 DEF LoggerOf, SaidOrSaying, TableIsPrinted, Writing, Idle, Nothing
<1> QED
  BY <1>1, <1>2 DEF LoggerIInv

-----------------------------------------------------------------------------
(* What the checks of the configuration establish.                         *)

LEMMA SputnikSettings ==
    ASSUME NEW g, CheckCentral(SputnikTable, g), NEW s, s = Stored(SputnikTable, g)
    PROVE  /\ s["commadr"] \in 0 .. 255 /\ s["ownadr"] \in 0 .. 255
           /\ \A t \in {"queryinterval", "response_timeout", "connection_timeout", "send_timeout",
                        "reconnect_delay"} : s[t] >= 0
<1> DEFINE T == SputnikTable
           Lower == {"queryinterval", "response_timeout", "connection_timeout", "send_timeout",
                     "reconnect_delay"}
           Chosen(t) == CHOOSE i \in DOMAIN T : T[i].setting = t
<1>1. DOMAIN T = 1 .. 9
  BY DEF SputnikTable
<1>2. /\ T[3].setting = "commadr" /\ T[4].setting = "ownadr" /\ T[2].setting = "queryinterval"
      /\ T[5].setting = "response_timeout" /\ T[6].setting = "connection_timeout"
      /\ T[7].setting = "send_timeout" /\ T[8].setting = "reconnect_delay"
      /\ T[1].setting = "comms" /\ T[9].setting = "disable_3phase_commands"
  BY DEF SputnikTable, Mandatory, Ranged, Optional
<1>3. /\ T[3].range = <<0, 255>> /\ T[4].range = <<0, 255>>
      /\ \A i \in {2, 5, 6, 7, 8} : T[i].range = <<0, FLT_MAX>>
  BY DEF SputnikTable, Ranged
<1> HIDE DEF T
<1>4. ASSUME NEW i \in DOMAIN T
      PROVE  /\ T[i].setting \in {"commadr", "ownadr"} => T[i].range = <<0, 255>>
             /\ T[i].setting \in Lower => T[i].range = <<0, FLT_MAX>>
  BY <1>1, <1>2, <1>3
<1>5. ASSUME NEW t \in {"commadr", "ownadr"} \cup Lower
      PROVE  /\ Chosen(t) \in DOMAIN T /\ T[Chosen(t)].setting = t
             /\ s[t] = Found(T[Chosen(t)], g).is
  <2>1. \E i \in DOMAIN T : T[i].setting = t
    BY <1>1, <1>2
  <2>2. t \in {T[i].setting : i \in DOMAIN T}
    BY <2>1
  <2> QED
    BY <2>1, <2>2 DEF Stored, T
<1>6. ASSUME NEW i \in DOMAIN T, T[i].range # <<>>
      PROVE  Found(T[i], g).is \in T[i].range[1] .. T[i].range[2]
  BY <1>6 DEF CheckCentral, Accepts, T
<1> HIDE DEF Chosen
<1>7. ASSUME NEW t \in {"commadr", "ownadr"}
      PROVE  s[t] \in 0 .. 255
  <2>1. Chosen(t) \in DOMAIN T /\ T[Chosen(t)].range = <<0, 255>>
    BY <1>4, <1>5
  <2>2. <<0, 255>> # <<>> /\ <<0, 255>>[1] = 0 /\ <<0, 255>>[2] = 255
    OBVIOUS
  <2>3. T[Chosen(t)].range # <<>>
    BY <2>1, <2>2, Zenon
  <2>4. Found(T[Chosen(t)], g).is \in T[Chosen(t)].range[1] .. T[Chosen(t)].range[2]
    BY <1>6, <2>1, <2>3
  <2>5. Found(T[Chosen(t)], g).is \in 0 .. 255
    BY <2>1, <2>2, <2>4, Zenon
  <2> QED
    BY <1>5, <2>5
<1>8. ASSUME NEW t \in Lower
      PROVE  s[t] >= 0
  <2>1. Chosen(t) \in DOMAIN T /\ T[Chosen(t)].range = <<0, FLT_MAX>>
    BY <1>4, <1>5
  <2>2. <<0, FLT_MAX>> # <<>> /\ <<0, FLT_MAX>>[1] = 0 /\ <<0, FLT_MAX>>[2] = FLT_MAX
    OBVIOUS
  <2>3. T[Chosen(t)].range # <<>>
    BY <2>1, <2>2, Zenon
  <2>4. Found(T[Chosen(t)], g).is \in T[Chosen(t)].range[1] .. T[Chosen(t)].range[2]
    BY <1>6, <2>1, <2>3
  <2>5. Found(T[Chosen(t)], g).is \in 0 .. FLT_MAX
    BY <2>1, <2>2, <2>4, Zenon
  <2>6. s[t] \in 0 .. FLT_MAX
    BY <1>5, <2>5
  <2> QED
    BY <2>6
<1> QED
  BY <1>7, <1>8

LEMMA InverterCheckOk ==
    ASSUME NEW g, NEW known, InverterCheck(g, known) = "ok"
    PROVE  /\ ConnectionOk(g, known)
           /\ InverterClass(g) = "S-Series" => CheckCentral(SputnikTable, g)
           /\ InverterClass(g) = "Simulator" => CanAccept(RealOf(g, known))
<1>1. CASE InverterClass(g) = "S-Series"
  BY <1>1 DEF InverterCheck, SputnikCheck, Verdict
<1>2. CASE InverterClass(g) = "Simulator"
  BY <1>2 DEF InverterCheck, SimulatorCheck, Verdict
<1>3. CASE InverterClass(g) \notin {"S-Series", "Simulator"}
  BY <1>3 DEF InverterCheck, Verdict
<1> QED
  BY <1>1, <1>2, <1>3

LEMMA NoInverterIsAFilter ==
    ASSUME NEW g
    PROVE  InverterClass(g) \notin FilterClasses
BY DEF InverterClass, FilterClasses

LEMMA FilterCheckOk ==
    ASSUME NEW g, NEW hasbase \in BOOLEAN, FilterCheck(g, hasbase) = "ok"
    PROVE  hasbase
<1> SUFFICES ASSUME ~hasbase PROVE FALSE
  OBVIOUS
<1>1. DumpCheck(g, hasbase) = "fail" /\ CsvCheck(g, hasbase) = "fail" /\ HtmlCheck(g, hasbase) = "fail"
  BY DEF DumpCheck, CsvCheck, HtmlCheck, Verdict
<1>2. DbCheck(g, hasbase) = "fail"
  BY DEF DbCheck
<1> QED
  BY <1>1, <1>2 DEF FilterCheck

-----------------------------------------------------------------------------
(* The end of a line.                                                      *)

LEMMA RealIsNotShared ==
    ASSUME NEW g, RealOk(g)
    PROVE  ~IsMaster(g) /\ ~IsSlave(g)
BY DEF RealOk, IsMaster, IsSlave

\* An inverter that is checked has a line, if the masters before it have theirs.
LEMMA CheckedLine ==
    ASSUME NEW g, NEW known, ConnectionOk(g, known),
           \A i \in DOMAIN known : IsMaster(known[i].group) => RealOk(known[i].line)
    PROVE  RealOk(RealOf(g, known))
<1> DEFINE d == CHOOSE k \in Made(g) : EndsWell(RealComms(g)[k], known)
           r == RealComms(g)[d]
           m == CHOOSE i \in MastersOf(r, known) : TRUE
<1>1. EndsWell(r, known)
  BY DEF ConnectionOk
<1>2. RealOf(g, known) = IF ~IsSlave(r) THEN r ELSE IF IsMaster(known[m].group) THEN known[m].line ELSE <<>>
  BY DEF RealOf
<1> HIDE DEF d
<1>3. CASE RealOk(r)
  BY <1>2, <1>3, RealIsNotShared
<1>4. CASE IsSlave(r) /\ MastersOf(r, known) # {}
  <2>1. m \in MastersOf(r, known)
    BY <1>4
  <2>2. m \in DOMAIN known /\ IsMaster(known[m].group)
    BY <2>1 DEF MastersOf
  <2> QED
    BY <1>2, <1>4, <2>2
<1> QED
  BY <1>1, <1>3, <1>4 DEF EndsWell

-----------------------------------------------------------------------------
(* The inductive invariant of the start.                                   *)

\* The objects that are built and wanted, and the commands in the queue.
Built == Len(registry)
Waiting == Len(queue)
InvertersWanted == Len(file.inverters)
FiltersWanted == Len(file.loggers)

ListTypes == IsList(registry) /\ IsList(queue) /\ IsList(file.inverters) /\ IsList(file.loggers)

\* How many objects there are in each phase.
PhaseOk ==
    /\ phase \in {"load", "inverters", "loggers", "running", "exited", "aborted"}
    /\ Built <= InvertersWanted + FiltersWanted
    /\ phase = "load" => Built = 0
    /\ phase = "inverters" => Built <= InvertersWanted
    /\ phase = "loggers" => InvertersWanted <= Built

\* Objects bear the name of their group, the inverters come before the
\* filters, and each is what its check has let through.
RegisteredOk ==
    \A i \in DOMAIN registry :
        LET o == registry[i] IN
        /\ o.name = o.group["name"].is
        /\ o.class \in FilterClasses <=> i > InvertersWanted
        /\ o.class = "S-Series" =>
               CheckCentral(SputnikTable, o.group) /\ o.settings = Stored(SputnikTable, o.group)
        /\ o.class \in FilterClasses =>
               /\ o.base = o.group["datasource"].is /\ o.base # ""
               /\ \E j \in 1 .. i - 1 : registry[j].name = o.base

\* The commands in the queue are those of the objects that are not yet
\* initialised, in the order of the registry.
InOrder ==
    /\ phase \in {"load", "inverters", "loggers"} => Waiting = Built
    /\ phase # "running" => initialised = {}
    /\ phase \notin {"exited", "aborted"} =>
        /\ Waiting <= Built
        /\ \A k \in DOMAIN queue : queue[k] = registry[Built - Waiting + k].name
        /\ initialised = {registry[i].name : i \in 1 .. Built - Waiting}

LogReady == LoggerIInv /\ (phase # "running" \/ queue # <<>> => Silent)

ObjectsIInv == ListTypes /\ PhaseOk /\ NamesUnique /\ RegisteredOk /\ LinesExist /\ InOrder

LEMMA ListParts ==
    ASSUME NEW q, IsList(q)
    PROVE  Len(q) \in Nat /\ DOMAIN q = 1 .. Len(q)
BY DEF IsList

LEMMA ListAppend ==
    ASSUME NEW q, IsList(q), NEW e
    PROVE  /\ IsList(Append(q, e)) /\ Len(Append(q, e)) = Len(q) + 1
           /\ Append(q, e)[Len(q) + 1] = e
           /\ \A i \in DOMAIN q : Append(q, e)[i] = q[i]
<1> DEFINE E == {q[i] : i \in DOMAIN q} \cup {e}
           r == Append(q, e)
<1>1. q \in Seq(E)
  <2>1. Len(q) \in Nat /\ DOMAIN q = 1 .. Len(q) /\ q \in Seq({q[i] : i \in DOMAIN q})
    BY DEF IsList
  <2>2. q = [i \in 1 .. Len(q) |-> q[i]] /\ \A i \in 1 .. Len(q) : q[i] \in E
    BY <2>1
  <2> HIDE DEF E
  <2> QED
    BY <2>1, <2>2
<1>2. e \in E
  OBVIOUS
<1> HIDE DEF E
<1>3. /\ r \in Seq(E) /\ Len(r) = Len(q) + 1 /\ r[Len(q) + 1] = e
      /\ \A i \in DOMAIN q : r[i] = q[i]
  BY <1>1, <1>2
<1> HIDE DEF r
<1>4. r \in Seq({r[i] : i \in DOMAIN r})
  <2>1. Len(r) \in Nat /\ r = [i \in 1 .. Len(r) |-> r[i]] /\ DOMAIN r = 1 .. Len(r)
    BY <1>3
  <2>2. \A i \in 1 .. Len(r) : r[i] \in {r[j] : j \in DOMAIN r}
    BY <2>1
  <2> QED
    BY <2>1, <2>2
<1> QED
  BY <1>3, <1>4 DEF IsList, r

LEMMA ListTail ==
    ASSUME NEW q, IsList(q), q # <<>>
    PROVE  /\ IsList(Tail(q)) /\ Len(Tail(q)) = Len(q) - 1 /\ Len(q) > 0 /\ Head(q) = q[1]
           /\ \A i \in 1 .. Len(q) - 1 : Tail(q)[i] = q[i + 1]
<1> DEFINE E == {q[i] : i \in DOMAIN q}
           r == Tail(q)
<1>1. q \in Seq(E)
  BY DEF IsList
<1> HIDE DEF E
<1>2. /\ r \in Seq(E) /\ Len(r) = Len(q) - 1 /\ Len(q) > 0 /\ Head(q) = q[1]
      /\ \A i \in 1 .. Len(q) - 1 : r[i] = q[i + 1]
  BY <1>1
<1> HIDE DEF r
<1>3. r \in Seq({r[i] : i \in DOMAIN r})
  <2>1. Len(r) \in Nat /\ r = [i \in 1 .. Len(r) |-> r[i]] /\ DOMAIN r = 1 .. Len(r)
    BY <1>2
  <2>2. \A i \in 1 .. Len(r) : r[i] \in {r[j] : j \in DOMAIN r}
    BY <2>1
  <2> QED
    BY <2>1, <2>2
<1> QED
  BY <1>2, <1>3 DEF IsList, r

LEMMA Numbers ==
    ASSUME ListTypes
    PROVE  /\ Built \in Nat /\ DOMAIN registry = 1 .. Built
           /\ Waiting \in Nat /\ DOMAIN queue = 1 .. Waiting
           /\ InvertersWanted \in Nat /\ FiltersWanted \in Nat
BY ListParts DEF ListTypes, Built, Waiting, InvertersWanted, FiltersWanted

LEMMA StartupInits == StartupInit => ObjectsIInv /\ LogReady
<1> SUFFICES ASSUME StartupInit PROVE ObjectsIInv /\ LogReady
  OBVIOUS
<1>1. IsList(file.inverters) /\ IsList(file.loggers)
  BY FilesAssumption DEF StartupInit
<1>2. registry = <<>> /\ queue = <<>> /\ initialised = {} /\ phase = "load"
  BY DEF StartupInit
<1>3. \A q : q = <<>> => IsList(q) /\ Len(q) = 0 /\ DOMAIN q = {}
  BY DEF IsList
<1>4. ListTypes /\ Built = 0 /\ Waiting = 0
  BY <1>1, <1>2, <1>3 DEF ListTypes, Built, Waiting
<1>5. PhaseOk /\ NamesUnique /\ RegisteredOk /\ LinesExist /\ InOrder
  BY <1>2, <1>3, <1>4, Numbers DEF PhaseOk, NamesUnique, RegisteredOk, LinesExist, InOrder
<1>6. Silent /\ Levels
  BY DEF StartupInit, LoggerInit, Silent, Levels, LL_ALL, LL_ERROR, LL_OFF
<1> QED
  BY <1>4, <1>5, <1>6, SilentLogger DEF ObjectsIInv, LogReady

LEMMA IInvImplies ==
    ASSUME ObjectsIInv, LogReady
    PROVE  StartupInv /\ LogInv
<1> USE DEF ObjectsIInv, LogReady
<1>1. LoggerTypeOK /\ LogInv
  BY LoggerImplies
<1>2. /\ DOMAIN registry = 1 .. Built /\ Built \in Nat
      /\ DOMAIN queue = 1 .. Waiting /\ Waiting \in Nat
  BY Numbers
<1>3. initialised \subseteq Names
  <2>1. CASE initialised = {}
    BY <2>1
  <2>2. CASE initialised = {registry[i].name : i \in 1 .. Built - Waiting}
    <3>1. 1 .. Built - Waiting \subseteq DOMAIN registry
      BY <1>2
    <3> QED
      BY <2>2, <3>1 DEF Names
  <2> QED
    BY <2>1, <2>2 DEF InOrder
<1>4. StartupTypeOK
  BY <1>1, <1>3 DEF StartupTypeOK, PhaseOk, Built, InvertersWanted, FiltersWanted
<1>5. SourcesFirst
  <2> SUFFICES ASSUME NEW i \in DOMAIN registry, registry[i].class \in FilterClasses
               PROVE  /\ registry[i].base = registry[i].group["datasource"].is
                      /\ \E j \in 1 .. i - 1 :
                            /\ registry[j].name = registry[i].base
                            /\ registry[i].name \in initialised => registry[j].name \in initialised
    BY DEF SourcesFirst
  <2>1. registry[i].base = registry[i].group["datasource"].is
    BY DEF RegisteredOk
  <2>2. PICK j \in 1 .. i - 1 : registry[j].name = registry[i].base
    BY DEF RegisteredOk
  <2>3. ASSUME registry[i].name \in initialised
        PROVE  registry[j].name \in initialised
    <3>1. initialised = {registry[k].name : k \in 1 .. Built - Waiting}
      BY <2>3 DEF InOrder
    <3>2. PICK k \in 1 .. Built - Waiting : registry[i].name = registry[k].name
      BY <2>3, <3>1
    <3>3. k = i
      BY <1>2, <3>2 DEF NamesUnique
    <3> QED
      BY <1>2, <3>1, <3>3
  <2> QED
    BY <2>1, <2>2, <2>3
<1>6. SettingsInRange
  <2> SUFFICES ASSUME NEW i \in DOMAIN registry, registry[i].class = "S-Series"
               PROVE  LET s == registry[i].settings IN
                      /\ s["commadr"] \in 0 .. 255 /\ s["ownadr"] \in 0 .. 255
                      /\ \A t \in {"queryinterval", "response_timeout", "connection_timeout",
                                   "send_timeout", "reconnect_delay"} : s[t] >= 0
    BY DEF SettingsInRange
  <2>1. /\ CheckCentral(SputnikTable, registry[i].group)
        /\ registry[i].settings = Stored(SputnikTable, registry[i].group)
    BY DEF RegisteredOk
  <2> QED
    BY <2>1, SputnikSettings
<1> QED
  BY <1>1, <1>4, <1>5, <1>6 DEF StartupInv

-----------------------------------------------------------------------------
(* The steps of the start.                                                 *)

\* The parts of the invariant when a step constructs no object.
LEMMA NothingRegistered ==
    ASSUME ObjectsIInv, UNCHANGED <<file, registry>>
    PROVE  /\ IsList(registry)' /\ IsList(file.inverters)' /\ IsList(file.loggers)'
           /\ NamesUnique' /\ RegisteredOk' /\ LinesExist'
BY DEF ObjectsIInv, ListTypes, NamesUnique, RegisteredOk, LinesExist, InvertersWanted

LEMMA LoadConfigStep ==
    ASSUME ObjectsIInv, LoadConfig
    PROVE  ObjectsIInv'
<1> USE DEF ObjectsIInv
<1>1. /\ phase = "load" /\ phase' \in {"inverters", "exited"}
      /\ UNCHANGED <<file, registry, queue, initialised>>
  BY DEF LoadConfig, Outcome, Verdict
<1>2. UNCHANGED <<Built, Waiting, InvertersWanted, FiltersWanted>>
  BY <1>1 DEF Built, Waiting, InvertersWanted, FiltersWanted
<1>3. ListTypes' /\ PhaseOk'
  BY <1>1, <1>2, Numbers DEF ListTypes, PhaseOk
<1>4. InOrder'
  BY <1>1, <1>2 DEF InOrder
<1> QED
  BY <1>1, <1>3, <1>4, NothingRegistered

\* A refused object ends the program; it may have left its command behind.
LEMMA RefusedStep ==
    ASSUME ObjectsIInv, phase \in {"inverters", "loggers"}, phase' \in {"exited", "aborted"},
           UNCHANGED <<file, registry, initialised>>, IsList(queue')
    PROVE  ObjectsIInv'
<1> USE DEF ObjectsIInv
<1>1. UNCHANGED <<Built, InvertersWanted, FiltersWanted>>
  BY DEF Built, InvertersWanted, FiltersWanted
<1>2. ListTypes' /\ PhaseOk' /\ InOrder'
  BY <1>1 DEF ListTypes, PhaseOk, InOrder
<1> QED
  BY <1>2, NothingRegistered

\* An object that has passed its check is added at the end.
Adds(o) ==
    /\ registry' = Append(registry, o) /\ queue' = Append(queue, o.name)
    /\ UNCHANGED <<file, phase, initialised>>

Passes(o) ==
    /\ o.name \notin Names /\ o.name = o.group["name"].is
    /\ o.class \notin FilterClasses =>
           /\ ConnectionOk(o.group, registry) /\ o.line = RealOf(o.group, registry)
           /\ o.class = "Simulator" => CanAccept(o.line)
    /\ o.class = "S-Series" =>
           CheckCentral(SputnikTable, o.group) /\ o.settings = Stored(SputnikTable, o.group)
    /\ o.class \in FilterClasses =>
           o.base = o.group["datasource"].is /\ o.base # "" /\ o.base \in Names

\* There is room for it, and it is of the kind that is built now.
Expected(o) ==
    \/ phase = "inverters" /\ Built < InvertersWanted /\ o.class \notin FilterClasses
    \/ phase = "loggers" /\ Built < InvertersWanted + FiltersWanted /\ o.class \in FilterClasses

LEMMA RegisteredStep ==
    ASSUME ObjectsIInv, NEW o, Adds(o), Passes(o), Expected(o)
    PROVE  ObjectsIInv'
<1> USE DEF ObjectsIInv
<1>1. /\ Built \in Nat /\ DOMAIN registry = 1 .. Built /\ InvertersWanted \in Nat /\ FiltersWanted \in Nat
      /\ UNCHANGED <<InvertersWanted, FiltersWanted, file, phase, initialised>>
  BY Numbers DEF Adds, InvertersWanted, FiltersWanted
<1>2. /\ IsList(registry') /\ Built' = Built + 1 /\ registry'[Built + 1] = o
      /\ \A i \in 1 .. Built : registry'[i] = registry[i]
      /\ DOMAIN registry' = 1 .. Built + 1
  <2>1. /\ IsList(registry') /\ Built' = Built + 1 /\ registry'[Built + 1] = o
        /\ \A i \in 1 .. Built : registry'[i] = registry[i]
    BY <1>1, ListAppend DEF Adds, ListTypes, Built
  <2> QED
    BY <2>1, ListParts DEF Built
<1>3. /\ IsList(queue') /\ Waiting' = Built + 1 /\ queue'[Built + 1] = o.name
      /\ \A k \in 1 .. Built : queue'[k] = registry[k].name
      /\ DOMAIN queue' = 1 .. Built + 1 /\ initialised = {} /\ phase \in {"inverters", "loggers"}
  <2>1. phase \in {"inverters", "loggers"} /\ IsList(queue)
    BY DEF Expected, ListTypes
  <2>2. Waiting = Built /\ initialised = {} /\ DOMAIN queue = 1 .. Waiting
    BY <2>1, Numbers DEF InOrder
  <2>3. \A k \in 1 .. Built : queue[k] = registry[k].name
    <3>1. \A k \in 1 .. Built : queue[k] = registry[Built - Built + k].name
      BY <2>1, <2>2 DEF InOrder
    <3> QED
      BY <1>1, <3>1
  <2>4. /\ IsList(queue') /\ Waiting' = Waiting + 1 /\ queue'[Waiting + 1] = o.name
        /\ \A k \in DOMAIN queue : queue'[k] = queue[k]
    BY <2>1, ListAppend DEF Adds, Waiting
  <2>5. DOMAIN queue' = 1 .. Waiting'
    BY <2>4, ListParts DEF Waiting
  <2> QED
    BY <2>1, <2>2, <2>3, <2>4, <2>5
<1>4. ListTypes' /\ PhaseOk'
  <2>1. ListTypes'
    BY <1>1, <1>2, <1>3 DEF ListTypes
  <2>2. PhaseOk'
    BY <1>1, <1>2, <1>3 DEF PhaseOk, Expected
  <2> QED
    BY <2>1, <2>2
<1>5. NamesUnique'
  <2>1. \A i \in 1 .. Built : registry[i].name # o.name
    BY <1>1 DEF Passes, Names
  <2>2. \A i \in 1 .. Built + 1 : i \in 1 .. Built \/ i = Built + 1
    BY <1>1
  <2> QED
    BY <1>1, <1>2, <2>1, <2>2 DEF NamesUnique
<1>6. RegisteredOk'
  <2> SUFFICES ASSUME NEW i \in 1 .. Built + 1
               PROVE  LET u == registry'[i] IN
                      /\ u.name = u.group["name"].is
                      /\ u.class \in FilterClasses <=> i > InvertersWanted
                      /\ u.class = "S-Series" => /\ CheckCentral(SputnikTable, u.group)
                                                 /\ u.settings = Stored(SputnikTable, u.group)
                      /\ u.class \in FilterClasses =>
                            /\ u.base = u.group["datasource"].is /\ u.base # ""
                            /\ \E j \in 1 .. i - 1 : registry'[j].name = u.base
    BY <1>1, <1>2 DEF RegisteredOk
  <2>1. CASE i = Built + 1
    <3>1. o.class \in FilterClasses <=> Built + 1 > InvertersWanted
      BY <1>1 DEF PhaseOk, Expected
    <3>2. o.class \in FilterClasses => \E j \in 1 .. Built : registry'[j].name = o.base
      <4>1. o.class \in FilterClasses => \E j \in 1 .. Built : registry[j].name = o.base
        BY <1>1 DEF Names, Passes
      <4> QED
        BY <1>2, <4>1
    <3>3. i - 1 = Built
      BY <1>1, <2>1
    <3> QED
      BY <1>2, <2>1, <3>1, <3>2, <3>3 DEF Passes
  <2>2. CASE i \in 1 .. Built
    <3>1. registry'[i] = registry[i] /\ i \in DOMAIN registry
      BY <1>1, <1>2, <2>2
    <3>2. \A j \in 1 .. i - 1 : registry'[j] = registry[j]
      BY <1>1, <1>2, <2>2
    <3> QED
      BY <3>1, <3>2 DEF RegisteredOk
  <2>3. i = Built + 1 \/ i \in 1 .. Built
    BY <1>1
  <2> QED
    BY <2>1, <2>2, <2>3
<1>7. LinesExist'
  <2> SUFFICES ASSUME NEW i \in 1 .. Built + 1, registry'[i].class \notin FilterClasses
               PROVE  /\ RealOk(registry'[i].line)
                      /\ registry'[i].class = "Simulator" => CanAccept(registry'[i].line)
    BY <1>2 DEF LinesExist
  <2>1. CASE i \in 1 .. Built
    BY <1>1, <1>2, <2>1 DEF LinesExist
  <2>2. CASE i = Built + 1
    <3>1. /\ registry'[i] = o /\ o.class \notin FilterClasses
          /\ ConnectionOk(o.group, registry) /\ o.line = RealOf(o.group, registry)
          /\ o.class = "Simulator" => CanAccept(o.line)
      BY <1>2, <2>2 DEF Passes
    <3>2. ASSUME NEW k \in DOMAIN registry
          PROVE  RealOk(registry[k].line)
      <4>1. ~(k > InvertersWanted)
        BY <1>1, <3>1 DEF Expected
      <4>2. registry[k].class \notin FilterClasses
        BY <4>1 DEF RegisteredOk
      <4> QED
        BY <4>2 DEF LinesExist
    <3> QED
      BY <3>1, <3>2, CheckedLine
  <2> QED
    BY <1>1, <2>1, <2>2
<1>8. InOrder'
  <2>1. \A k \in 1 .. Built + 1 : queue'[k] = registry'[k].name
    BY <1>1, <1>2, <1>3
  <2>2. Built' - Waiting' = 0 /\ \A k \in 1 .. Built + 1 : 0 + k = k
    BY <1>1, <1>2, <1>3
  <2>3. \A k \in DOMAIN queue' : queue'[k] = registry'[Built' - Waiting' + k].name
    BY <1>1, <1>3, <2>1, <2>2
  <2>4. {registry'[i].name : i \in 1 .. 0} = {}
    OBVIOUS
  <2>5. Waiting' <= Built' /\ Waiting' = Built'
    BY <1>1, <1>2, <1>3
  <2> QED
    BY <1>1, <1>3, <2>2, <2>3, <2>4, <2>5 DEF InOrder
<1> QED
  BY <1>4, <1>5, <1>6, <1>7, <1>8

LEMMA CreateInverterStep ==
    ASSUME ObjectsIInv, CreateInverter
    PROVE  ObjectsIInv'
<1> DEFINE g == file.inverters[Built + 1]
           o == [name |-> g["name"].is, class |-> InverterClass(g), group |-> g, base |-> "",
                 line |-> RealOf(g, registry), settings |-> InverterSettings(g)]
<1>1. /\ phase = "inverters" /\ Built + 1 \in DOMAIN file.inverters
      /\ UNCHANGED <<file, initialised>>
  BY DEF CreateInverter, Built
<1>2. Built < InvertersWanted /\ IsList(queue)
  <2>1. DOMAIN file.inverters = 1 .. InvertersWanted
    BY ListParts DEF ObjectsIInv, ListTypes, InvertersWanted
  <2> QED
    BY <1>1, <2>1, Numbers DEF ObjectsIInv, ListTypes
<1>3. CASE /\ phase' \in {"exited", "aborted"} /\ registry' = registry
           /\ queue' = queue \/ queue' = Append(queue, g["name"].is)
  <2>1. IsList(queue')
    <3>1. IsList(Append(queue, g["name"].is))
      BY <1>2, ListAppend
    <3> QED
      BY <1>2, <1>3, <3>1
  <2> QED
    BY <1>1, <1>3, <2>1, RefusedStep
<1>4. CASE /\ InverterCheck(g, registry) = "ok" /\ g["name"].is \notin Names
           /\ phase' = phase /\ queue' = Append(queue, g["name"].is)
           /\ registry' = Append(registry, o)
  <2>1. Passes(o)
    BY <1>4, InverterCheckOk, NoInverterIsAFilter DEF Passes, InverterSettings
  <2>2. Expected(o)
    BY <1>1, <1>2, NoInverterIsAFilter DEF Expected
  <2>3. Adds(o)
    BY <1>1, <1>4 DEF Adds
  <2> QED
    BY <2>1, <2>2, <2>3, RegisteredStep
<1>5. \/ Refuse(InverterReads(g)) /\ InverterReads(g) # "ok"
      \/ Refuse("fail")
      \/ /\ g["name"].is \notin Names
         /\ Construct(g, InverterClass(g), InverterCheck(g, registry), "", RealOf(g, registry),
                      InverterSettings(g), phase)
  BY DEF CreateInverter, Built
<1> HIDE DEF g
<1> QED
  BY <1>1, <1>3, <1>4, <1>5 DEF Refuse, Construct, Outcome

LEMMA CreateFilterStep ==
    ASSUME ObjectsIInv, CreateFilter
    PROVE  ObjectsIInv'
<1> DEFINE g == file.loggers[Built - InvertersWanted + 1]
           base == IF g["datasource"].is \in Names THEN g["datasource"].is ELSE ""
           o == [name |-> g["name"].is, class |-> g["type"].is, group |-> g, base |-> base,
                 line |-> <<>>, settings |-> <<>>]
<1>1. /\ phase = "loggers" /\ Built - InvertersWanted + 1 \in DOMAIN file.loggers
      /\ UNCHANGED <<file, initialised>>
  BY DEF CreateFilter, Built, InvertersWanted
<1>2. Built < InvertersWanted + FiltersWanted /\ IsList(queue)
  <2>1. DOMAIN file.loggers = 1 .. FiltersWanted
    BY ListParts DEF ObjectsIInv, ListTypes, FiltersWanted
  <2> QED
    BY <1>1, <2>1, Numbers DEF ObjectsIInv, ListTypes
<1>3. CASE /\ phase' \in {"exited", "aborted"} /\ registry' = registry
           /\ queue' = queue \/ queue' = Append(queue, g["name"].is)
  <2>1. IsList(queue')
    <3>1. IsList(Append(queue, g["name"].is))
      BY <1>2, ListAppend
    <3> QED
      BY <1>2, <1>3, <3>1
  <2> QED
    BY <1>1, <1>3, <2>1, RefusedStep
<1>4. CASE /\ FilterCheck(g, base # "") = "ok" /\ g["name"].is \notin Names
           /\ g["type"].is \in FilterClasses
           /\ phase' = phase /\ queue' = Append(queue, g["name"].is)
           /\ registry' = Append(registry, o)
  <2>1. base # ""
    BY <1>4, FilterCheckOk
  <2>2. base \in Names /\ base = g["datasource"].is
    BY <2>1
  <2>3. "S-Series" \notin FilterClasses
    BY DEF FilterClasses
  <2>4. Passes(o)
    BY <1>4, <2>1, <2>2, <2>3 DEF Passes
  <2>5. Expected(o)
    BY <1>1, <1>2, <1>4 DEF Expected
  <2>6. Adds(o)
    BY <1>1, <1>4 DEF Adds
  <2> QED
    BY <2>4, <2>5, <2>6, RegisteredStep
<1> DEFINE reads == Reads(g, <<"name", "datasource", "type">>)
<1>5. \/ Refuse(reads) /\ reads # "ok"
      \/ Refuse("fail")
      \/ /\ g["name"].is \notin Names /\ g["type"].is \in FilterClasses
         /\ Construct(g, g["type"].is, FilterCheck(g, base # ""), base, <<>>, <<>>, phase)
  BY DEF CreateFilter, Built, InvertersWanted
<1> HIDE DEF g, base, reads
<1> QED
  BY <1>1, <1>3, <1>4, <1>5 DEF Refuse, Construct, Outcome

LEMMA InvertersDoneStep ==
    ASSUME ObjectsIInv, InvertersDone
    PROVE  ObjectsIInv'
<1> USE DEF ObjectsIInv
<1>1. /\ phase = "inverters" /\ phase' = "loggers" /\ Built = InvertersWanted
      /\ UNCHANGED <<file, registry, queue, initialised>>
  BY DEF InvertersDone, Built, InvertersWanted
<1>2. UNCHANGED <<Built, Waiting, InvertersWanted, FiltersWanted>>
  BY <1>1 DEF Built, Waiting, InvertersWanted, FiltersWanted
<1>3. ListTypes' /\ PhaseOk' /\ InOrder'
  BY <1>1, <1>2, Numbers DEF ListTypes, PhaseOk, InOrder
<1> QED
  BY <1>1, <1>3, NothingRegistered

LEMMA LoggersDoneStep ==
    ASSUME ObjectsIInv, LogReady, LoggersDone
    PROVE  ObjectsIInv' /\ LogReady'
<1> USE DEF ObjectsIInv
<1>1. /\ phase = "loggers" /\ phase' = "running"
      /\ UNCHANGED <<file, registry, queue, initialised>>
  BY DEF LoggersDone
<1>2. UNCHANGED <<Built, Waiting, InvertersWanted, FiltersWanted>>
  BY <1>1 DEF Built, Waiting, InvertersWanted, FiltersWanted
<1>3. ListTypes' /\ PhaseOk' /\ InOrder'
  BY <1>1, <1>2, Numbers DEF ListTypes, PhaseOk, InOrder
<1>4. Silent'
  BY <1>1 DEF LogReady, LoggersDone, Silent
<1>5. Levels'
  <2>1. \A l : Level(l) \in LL_ALL .. LL_OFF
    BY DEF Level, LL_ALL, LL_DEBUG, LL_ERROR, LL_OFF
  <2>2. Root \in LL_ALL .. LL_OFF /\ \A g : Setup(g) \in LL_ALL .. LL_OFF
    BY <2>1 DEF Root, Setup
  <2> QED
    BY <2>2 DEF LoggersDone, Levels
<1>6. (Levels /\ Silent)' => LoggerIInv'
  BY SilentLogger, PTL
<1> QED
  BY <1>1, <1>3, <1>4, <1>5, <1>6, NothingRegistered DEF LogReady

\* The first command in the queue is that of the first object that is not
\* initialised; a filter has its data source then.
LEMMA ExecuteInitStep ==
    ASSUME ObjectsIInv, ExecuteInit
    PROVE  ObjectsIInv' /\ phase' = "running"
<1> USE DEF ObjectsIInv
<1> DEFINE n == Built - Waiting + 1
           found == GetInverter(Head(queue))
<1>1. /\ phase = "running" /\ queue # <<>> /\ queue' = Tail(queue)
      /\ UNCHANGED <<file, registry>>
      /\ phase' = IF registry[found].class \in FilterClasses /\ registry[found].base = ""
                  THEN "aborted" ELSE phase
      /\ initialised' = initialised \cup {registry[found].name}
  BY DEF ExecuteInit
<1>2. /\ IsList(queue') /\ Waiting' = Waiting - 1 /\ Waiting > 0 /\ Head(queue) = queue[1]
      /\ \A k \in 1 .. Waiting - 1 : queue'[k] = queue[k + 1]
  BY <1>1, ListTail DEF ListTypes, Waiting
<1>3. /\ Built \in Nat /\ DOMAIN registry = 1 .. Built /\ Waiting \in Nat /\ DOMAIN queue = 1 .. Waiting
      /\ Waiting <= Built
  BY <1>1, Numbers DEF InOrder
<1>4. found = n /\ n \in 1 .. Built
  <2>1. n \in 1 .. Built /\ 1 \in DOMAIN queue /\ Built - Waiting + 1 = n
    BY <1>2, <1>3
  <2>2. Head(queue) = registry[n].name
    BY <1>1, <1>2, <2>1 DEF InOrder
  <2>3. \A i \in DOMAIN registry : registry[i].name = Head(queue) => i = n
    BY <1>3, <2>1, <2>2 DEF NamesUnique
  <2>4. found = n
    BY <1>3, <2>1, <2>2, <2>3 DEF GetInverter
  <2> QED
    BY <2>1, <2>4
<1> HIDE DEF n, found
<1>5. phase' = "running"
  BY <1>1, <1>3, <1>4 DEF RegisteredOk
<1>6. UNCHANGED <<Built, InvertersWanted, FiltersWanted>>
  BY <1>1 DEF Built, InvertersWanted, FiltersWanted
<1>7. ListTypes' /\ PhaseOk'
  BY <1>1, <1>2, <1>5, <1>6 DEF ListTypes, PhaseOk
<1>8. InOrder'
  <2>1. DOMAIN queue' = 1 .. Waiting - 1
    BY <1>2, ListParts DEF Waiting
  <2>2. ASSUME NEW k \in 1 .. Waiting - 1
        PROVE  queue'[k] = registry[Built - (Waiting - 1) + k].name
    <3>1. k + 1 \in DOMAIN queue /\ Built - Waiting + (k + 1) = Built - (Waiting - 1) + k
      BY <1>3
    <3>2. queue[k + 1] = registry[Built - Waiting + (k + 1)].name
      BY <1>1, <3>1 DEF InOrder
    <3> QED
      BY <1>2, <3>1, <3>2
  <2>3. initialised' = {registry[i].name : i \in 1 .. Built - (Waiting - 1)}
    <3>1. initialised = {registry[i].name : i \in 1 .. Built - Waiting}
      BY <1>1 DEF InOrder
    <3>2. Built - (Waiting - 1) = n /\ 1 .. n = (1 .. Built - Waiting) \cup {n}
      BY <1>3 DEF n
    <3> QED
      BY <1>1, <1>4, <3>1, <3>2
  <2>4. \A k \in DOMAIN queue' : queue'[k] = registry'[Built' - Waiting' + k].name
    BY <1>1, <1>2, <1>6, <2>1, <2>2
  <2>5. initialised' = {registry'[i].name : i \in 1 .. Built' - Waiting'}
    BY <1>1, <1>2, <1>6, <2>3
  <2>6. Waiting' <= Built'
    BY <1>2, <1>3, <1>6
  <2> QED
    BY <1>5, <2>4, <2>5, <2>6 DEF InOrder
<1> QED
  BY <1>1, <1>5, <1>7, <1>8, NothingRegistered

LEMMA ObjectsKept ==
    ASSUME ObjectsIInv, UNCHANGED startupVars
    PROVE  ObjectsIInv'
<1> USE DEF ObjectsIInv
<1>1. UNCHANGED <<file, phase, registry, queue, initialised>>
  BY DEF startupVars
<1>2. UNCHANGED <<Built, Waiting, InvertersWanted, FiltersWanted>>
  BY <1>1 DEF Built, Waiting, InvertersWanted, FiltersWanted
<1>3. ListTypes' /\ PhaseOk'
  BY <1>1, <1>2 DEF ListTypes, PhaseOk
<1>4. InOrder'
  BY <1>1, <1>2 DEF InOrder
<1> QED
  BY <1>1, <1>3, <1>4, NothingRegistered

\* The logger stays silent until the objects are initialised.
LEMMA SilenceKept ==
    ASSUME LogReady, UNCHANGED loggerVars,
           \/ phase # "running" \/ queue # <<>>
           \/ UNCHANGED <<phase, queue>>
    PROVE  LogReady'
<1>1. LoggerIInv'
  BY DEF LogReady, loggerVars, LoggerIInv, Levels, LogTypes, LoggerOf, Enabled, SaidOrSaying,
         TableIsPrinted, Writing
<1>2. Silent => Silent'
  BY DEF loggerVars, Silent
<1> QED
  BY <1>1, <1>2 DEF LogReady

LEMMA StartupStep ==
    ASSUME ObjectsIInv, LogReady, [StartupNext]_programVars
    PROVE  /\ ObjectsIInv' /\ LogReady'
           /\ phase = "running" => phase' # "aborted"
<1>1. CASE LoadConfig
  <2>1. phase' # "running" /\ phase # "running"
    BY <1>1 DEF LoadConfig, Outcome, Verdict
  <2> QED
    BY <1>1, <2>1, LoadConfigStep, SilenceKept DEF LoadConfig
<1>2. CASE CreateInverter
  <2>1. phase' # "running" /\ phase # "running"
    BY <1>2 DEF CreateInverter, Refuse, Construct, Outcome
  <2> QED
    BY <1>2, <2>1, CreateInverterStep, SilenceKept DEF CreateInverter
<1>3. CASE InvertersDone
  BY <1>3, InvertersDoneStep, SilenceKept DEF InvertersDone
<1>4. CASE CreateFilter
  <2>1. phase' # "running" /\ phase # "running"
    BY <1>4 DEF CreateFilter, Refuse, Construct, Outcome
  <2> QED
    BY <1>4, <2>1, CreateFilterStep, SilenceKept DEF CreateFilter
<1>5. CASE LoggersDone
  BY <1>5, LoggersDoneStep DEF LoggersDone
<1>6. CASE ExecuteInit
  BY <1>6, ExecuteInitStep, SilenceKept DEF ExecuteInit
<1>7. CASE Log
  <2>1. phase = "running" /\ queue = <<>> /\ LoggerIInv' /\ UNCHANGED startupVars
    BY <1>7, LoggerStep DEF Log, LogReady
  <2> QED
    BY <2>1, ObjectsKept DEF LogReady, startupVars
<1>8. CASE UNCHANGED programVars
  <2>1. UNCHANGED <<startupVars, loggerVars>>
    BY <1>8 DEF programVars
  <2>2. ObjectsIInv' /\ UNCHANGED <<phase, queue>>
    BY <2>1, ObjectsKept DEF startupVars
  <2> QED
    BY <2>1, <2>2, SilenceKept
<1> QED
  BY <1>1, <1>2, <1>3, <1>4, <1>5, <1>6, <1>7, <1>8 DEF StartupNext

LEMMA Invariant == StartupSpec => [](ObjectsIInv /\ LogReady)
<1>1. (ObjectsIInv /\ LogReady) /\ [StartupNext]_programVars => (ObjectsIInv /\ LogReady)'
  BY StartupStep
<1> QED
  BY <1>1, StartupInits, PTL DEF StartupSpec

(* For any configuration files: names are unique, the source of a filter   *)
(* is what its configuration names and is initialised before it, every     *)
(* inverter has a checked line that the later objects do not change, and   *)
(* an S-Series inverter works within the ranges of its settings.           *)
THEOREM StartsSoundly == StartupSpec => []StartupInv
<1>1. ObjectsIInv /\ LogReady => StartupInv
  BY IInvImplies
<1> QED
  BY <1>1, Invariant, PTL

(* For any number of threads and any texts, in any logger: nothing enabled *)
(* is lost, a change is never suppressed, and repetitions come back.       *)
THEOREM LogsWhatIsSaid == StartupSpec => []LogInv
<1>1. ObjectsIInv /\ LogReady => LogInv
  BY IInvImplies
<1> QED
  BY <1>1, Invariant, PTL

(* For any configuration files: a filter that passes the checks of its     *)
(* configuration does not hit the assertion of its first command.          *)
THEOREM AssertionHolds == StartupSpec => InitFindsItsSource
<1>1. (ObjectsIInv /\ LogReady) /\ [StartupNext]_programVars
          => [phase = "running" => phase' # "aborted"]_programVars
  BY StartupStep
<1> QED
  BY <1>1, Invariant, PTL DEF StartupSpec, InitFindsItsSource
=============================================================================
