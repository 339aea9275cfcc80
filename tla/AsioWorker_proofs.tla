-------------------------- MODULE AsioWorker_proofs --------------------------
(* The queue and the worker thread of an asynchronous connection, and the  *)
(* io_service its operations run on: proofs for every transport and any    *)
(* number of calls.                                                        *)
EXTENDS IoService, TLAPS

(* The worker holds a command exactly while it is in a Handle...(), so     *)
(* none is in progress when Pop resets the service.                        *)
HoldsCommand ==
    donow \in IF wpc \in HandlerPcs \cup {"answered", "thrown"} THEN Cmds ELSE {NULL}

Inv == /\ BaseTypeOK
       /\ HoldsCommand
       /\ EveryCommandCounted
       /\ AbortNotLost

LEMMA InitInv == BaseInit => Inv
<1> SUFFICES ASSUME BaseInit PROVE Inv
  OBVIOUS
<1>1. BaseTypeOK
  <2>1. cmds \in Seq(Cmds)
    BY DEF BaseInit
  <2>2. /\ answers \in [Cmds -> Nat]
        /\ aborts \in 0..MaxAborts
    BY BoundAssumption DEF BaseInit
  <2> QED
    BY <2>1, <2>2 DEF BaseInit, BaseTypeOK, Errno
<1>2. HoldsCommand
  BY DEF BaseInit, HoldsCommand, HandlerPcs
<1>3. EveryCommandCounted
  BY DEF BaseInit, EveryCommandCounted, PendingWakeups
<1>4. AbortNotLost
  BY DEF BaseInit, AbortNotLost
<1> QED
  BY <1>1, <1>2, <1>3, <1>4 DEF Inv

LEMMA NextInv == Inv /\ [BaseNext]_baseVars => Inv'
<1> SUFFICES ASSUME Inv, [BaseNext]_baseVars PROVE Inv'
  OBVIOUS
<1> USE NullAssumption, BoundAssumption
    DEF Inv, BaseTypeOK, HoldsCommand, EveryCommandCounted, PendingWakeups,
        AbortNotLost, historyVars
<1>1. ASSUME NEW c \in Cmds, PushWork(c)
      PROVE  Inv'
  BY <1>1 DEF PushWork
<1>2. ASSUME PostWork
      PROVE  Inv'
  BY <1>2 DEF PostWork, Posted
<1>3. ASSUME AbortAll
      PROVE  Inv'
  BY <1>3 DEF AbortAll
<1>4. ASSUME RequestTerm
      PROVE  Inv'
  BY <1>4 DEF RequestTerm
<1>5. ASSUME ClearWork
      PROVE  Inv'
  BY <1>5 DEF ClearWork
<1>6. ASSUME WakeWorker
      PROVE  Inv'
  BY <1>6 DEF WakeWorker, WakeUp
<1>7. ASSUME Join
      PROVE  Inv'
  BY <1>7 DEF Join
<1>8. ASSUME CheckTerm
      PROVE  Inv'
  BY <1>8 DEF CheckTerm, HandlerPcs
<1>9. ASSUME SemWait
      PROVE  Inv'
  BY <1>9 DEF SemWait, HandlerPcs
<1>10. ASSUME NothingToPop
      PROVE  Inv'
  BY <1>10 DEF NothingToPop, HandlerPcs
<1>11. ASSUME Pop
       PROVE  Inv'
  <2>1. /\ Head(cmds) \in Cmds /\ Tail(cmds) \in Seq(Cmds)
        /\ Len(Tail(cmds)) = Len(cmds) - 1
    BY <1>11 DEF Pop
  <2>2. aborted = NULL
    BY <1>11 DEF Pop, HandlerPcs
  <2>3. (BaseTypeOK /\ HoldsCommand)'
    BY <1>11, <2>1 DEF Pop, HandlerPcs
  <2>4. EveryCommandCounted'
    BY <1>11, <2>1 DEF Pop
  <2>5. AbortNotLost'
    BY <1>11, <2>2 DEF Pop
  <2> QED
    BY <2>3, <2>4, <2>5
<1>12. ASSUME NEW from \in HandlerPcs, NEW to \in HandlerPcs, Handle(from, to)
      PROVE  Inv'
  BY <1>12 DEF Handle, ResetAtEntry, HandlerPcs
<1>13. ASSUME NEW from \in HandlerPcs, NEW errno \in Errno, Answer(from, errno)
      PROVE  Inv'
  BY <1>13 DEF Answer, HandlerPcs
<1>14. ASSUME Delete
      PROVE  Inv'
  BY <1>14 DEF Delete, HandlerPcs, Errno
<1>15. ASSUME NEW from \in HandlerPcs, Throw(from)
      PROVE  Inv'
  BY <1>15 DEF Throw, HandlerPcs
<1>16. ASSUME UNCHANGED baseVars
      PROVE  Inv'
  BY <1>16 DEF baseVars, HandlerPcs
<1> QED
  BY <1>1, <1>2, <1>3, <1>4, <1>5, <1>6, <1>7, <1>8, <1>9, <1>10, <1>11, <1>12,
     <1>13, <1>14, <1>15, <1>16 DEF BaseNext

(* Nothing but the steps of BaseNext moves the queue and the worker, so    *)
(* the four parts of Inv hold for ever.                                    *)
THEOREM BaseInvariance == BaseSpec => []Inv
<1>1. BaseInit => Inv
  BY InitInv
<1>2. Inv /\ [BaseNext]_baseVars => Inv'
  BY NextInv
<1> QED
  BY <1>1, <1>2, PTL DEF BaseSpec

-----------------------------------------------------------------------------
(* The io_service: what its handlers and the variables they write may be.  *)
HandlerSet == [of : Cmds, kind : {"timer", "io"}, no : Nat, cancelled : BOOLEAN]
Results == {"ok", "error", "eof"}
Outcome == Results \cup {"more"}
LocalSet == [num : {0, 1}, timeout : BOOLEAN, res : {"none"} \cup Results,
             left : Nat, sleeps : 0..MaxSleep,
             after : {"return", "poll", "cancel socket", "cancel"}]

LEMMA IoTypes ==
    IoTypeOK <=> /\ established \in BOOLEAN /\ in_parts \in BOOLEAN
                 /\ handlers \subseteq HandlerSet /\ local \in LocalSet
  BY DEF IoTypeOK, HandlerSet, LocalSet, Results

LEMMA IoTypesNext ==
    /\ established' \in BOOLEAN /\ in_parts' \in BOOLEAN
    /\ handlers' \subseteq HandlerSet /\ local' \in LocalSet
    => IoTypeOK'
  BY DEF IoTypeOK, HandlerSet, LocalSet, Results

LEMMA Local0Types == Local0 \in LocalSet
  BY OpAssumption DEF Local0, LocalSet

LEMMA StartedTypes ==
    ASSUME NEW c \in Cmds, NEW n \in Nat
    PROVE  Timer(c) \in HandlerSet /\ Io(c, n) \in HandlerSet
  BY DEF Timer, Io, HandlerSet

LEMMA CancelledTypes ==
    ASSUME NEW hs, hs \subseteq HandlerSet, NEW which
    PROVE  Cancelled(hs, which) \subseteq HandlerSet
  BY DEF Cancelled, HandlerSet

(* The writes that go on are handlers again.                               *)
LEMMA RemainingTypes ==
    ASSUME NEW hs, hs \subseteq HandlerSet, NEW f, DOMAIN f \subseteq hs
    PROVE  /\ (hs \ DOMAIN f) \cup GoingOn(f) \subseteq HandlerSet
           /\ (in_parts \/ GoingOn(f) # {}) \in BOOLEAN
<1>1. \A h \in HandlerSet : Io(h.of, h.no) \in HandlerSet
  BY DEF Io, HandlerSet
<1>2. GoingOn(f) \subseteq HandlerSet
  BY <1>1 DEF GoingOn
<1> QED
  BY <1>2

(* The handlers write the two variables they point to and no other.        *)
LEMMA Ran ==
    ASSUME NEW f, \A h \in DOMAIN f : f[h] \in Outcome,
           NEW l \in LocalSet, NEW ran \in AfterRunning(f, l)
    PROVE  /\ ran \in LocalSet
           /\ ran.num = l.num /\ ran.left = l.left
           /\ ran.sleeps = l.sleeps /\ ran.after = l.after
<1> DEFINE hs == DOMAIN f
           timers == { h \in hs : h.kind = "timer" }
           ios == { h \in hs \ timers : f[h] # "more" }
           own(s) == { h \in s : h.of = donow }
           timeouts == IF own(timers) # {} THEN {TRUE}
                       ELSE {l.timeout} \cup { TRUE : h \in timers }
           results == IF own(ios) # {} THEN { f[h] : h \in own(ios) }
                      ELSE {l.res} \cup { f[h] : h \in ios }
<1>d. PICK w \in timeouts \X results : ran = [l EXCEPT !.timeout = w[1], !.res = w[2]]
  BY DEF AfterRunning
<1>a. PICK t \in timeouts, r \in results : ran = [l EXCEPT !.timeout = t, !.res = r]
  <2> HIDE DEF timeouts, results
  <2> QED
    BY <1>d
<1>b. timeouts \subseteq {TRUE, l.timeout}
  OBVIOUS
<1>c. results \subseteq {l.res} \cup Results
  BY DEF Outcome
<1> HIDE DEF timeouts, results
<1>1. t \in {TRUE, l.timeout} /\ r \in {l.res} \cup Results
  BY <1>b, <1>c
<1>2. l.timeout \in BOOLEAN /\ l.res \in {"none"} \cup Results
  BY DEF LocalSet
<1>3. t \in BOOLEAN /\ r \in {"none"} \cup Results
  BY <1>1, <1>2
<1> QED
  BY <1>a, <1>3 DEF LocalSet

(* The operation's own timer tells it of the timeout, its own I/O handler  *)
(* does not.                                                               *)
Tells(h, l, ran) ==
    /\ h.kind = "timer" => ran.timeout = TRUE
    /\ h.kind # "timer" => ran.timeout = l.timeout

LEMMA RanOne ==
    ASSUME NEW h, h.of = donow, NEW f, DOMAIN f = {h}, NEW l \in LocalSet,
           NEW ran \in AfterRunning(f, l)
    PROVE  Tells(h, l, ran)
<1> DEFINE timers == { x \in {h} : x.kind = "timer" }
           mine(s) == { x \in s : x.of = donow }
           timeouts == IF mine(timers) # {} THEN {TRUE}
                       ELSE {l.timeout} \cup { TRUE : x \in timers }
<1>2. PICK t \in timeouts : \E r : ran = [l EXCEPT !.timeout = t, !.res = r]
  <2>1. \E w : ran = [l EXCEPT !.timeout = w[1], !.res = w[2]] /\ w[1] \in timeouts
    BY DEF AfterRunning
  <2> HIDE DEF timeouts
  <2> QED
    BY <2>1
<1>3. h.kind = "timer" => timeouts = {TRUE}
  OBVIOUS
<1>4. h.kind # "timer" => timeouts = {l.timeout}
  <2> SUFFICES ASSUME h.kind # "timer" PROVE timeouts = {l.timeout}
    OBVIOUS
  <2>1. timers = {} /\ mine({}) = {} /\ { TRUE : x \in {} } = {}
    OBVIOUS
  <2> HIDE DEF timers
  <2> QED
    BY <2>1
<1> HIDE DEF timeouts
<1>5. PICK r : ran = [l EXCEPT !.timeout = t, !.res = r]
  BY <1>2
<1>6. ran.timeout = t
  BY <1>5 DEF LocalSet
<1>7. t \in timeouts
  BY <1>2
<1> QED
  BY <1>3, <1>4, <1>6, <1>7 DEF Tells

(* ioservice->run_one() *)
LEMMA RunOneTypes ==
    ASSUME IoTypeOK, NEW h \in handlers, RunOneHandler(h)
    PROVE  IoTypeOK' /\ local'.left = local.left /\ local'.sleeps = local.sleeps
<1>1. PICK st \in Outcomes(h) : Run([x \in {h} |-> st], handlers, [local EXCEPT !.num = 1])
  BY DEF RunOneHandler
<1>2. st \in Outcome
  BY DEF Outcomes, Parts, Results, Outcome
<1>3. PICK f : f = [x \in {h} |-> st]
  OBVIOUS
<1>4. \A x \in DOMAIN f : f[x] \in Outcome
  BY <1>2, <1>3
<1>5. PICK l : l = [local EXCEPT !.num = 1]
  OBVIOUS
<1>6. l \in LocalSet /\ l.left = local.left /\ l.sleeps = local.sleeps
  BY <1>5, IoTypes DEF LocalSet
<1>7. local' \in AfterRunning(f, l)
  BY <1>1, <1>3, <1>5 DEF Run
<1>8. /\ local' \in LocalSet
      /\ local'.left = l.left /\ local'.sleeps = l.sleeps
  BY ONLY <1>4, <1>6, <1>7, Ran
<1>9. handlers' \subseteq HandlerSet /\ in_parts' \in BOOLEAN
  <2>1. handlers \subseteq HandlerSet /\ DOMAIN f \subseteq handlers
    BY <1>3, IoTypes
  <2>2. /\ handlers' = (handlers \ DOMAIN f) \cup GoingOn(f)
        /\ in_parts' = (in_parts \/ GoingOn(f) # {})
    BY <1>1, <1>3 DEF Run, Remaining
  <2> QED
    BY ONLY <2>1, <2>2, RemainingTypes
<1>10. established' \in BOOLEAN
  BY <1>1, IoTypes DEF Run
<1> QED
  BY <1>6, <1>8, <1>9, <1>10, IoTypesNext

LEMMA RunOneFrame ==
    ASSUME IoTypeOK, FrameHandlers, NEW h \in handlers, RunOneHandler(h)
    PROVE  FrameHandlers'
<1>1. /\ wpc = "run" /\ wpc' = "ran"
      /\ UNCHANGED <<stopped, aborts, term_request, donow>>
  BY DEF RunOneHandler, Handle, historyVars
<1> SUFFICES ASSUME Undisturbed'
             PROVE  ~stopped' /\ IF local'.timeout THEN IoOnly' ELSE TimerOnly'
  BY <1>1 DEF FrameHandlers, HandlersAt
<1>0. Undisturbed /\ ~in_parts'
  BY <1>1 DEF Undisturbed, RunOneHandler, Run, Remaining
<1>2. ~stopped /\ Mine /\ AtMostOneIo /\ ~local.timeout
  BY <1>0, <1>1 DEF FrameHandlers, TimerAndIo, HandlersAt
<1>3. PICK st \in Outcomes(h) : Run([x \in {h} |-> st], handlers, [local EXCEPT !.num = 1])
  BY DEF RunOneHandler
<1>4. handlers' = handlers \ {h}
  <2>1. PICK f : f = [x \in {h} |-> st]
    OBVIOUS
  <2>2. DOMAIN f = {h} /\ Remaining(f, handlers)
    BY <1>3, <2>1 DEF Run
  <2>3. GoingOn(f) = {} /\ handlers' = (handlers \ DOMAIN f) \cup GoingOn(f)
    BY <1>0, <2>2 DEF Remaining
  <2> QED
    BY <2>2, <2>3
<1>5. h.of = donow
  BY <1>2 DEF Mine, Timer, Io
<1>6. [local EXCEPT !.num = 1] \in LocalSet /\ [local EXCEPT !.num = 1].timeout = FALSE
  BY <1>2, IoTypes DEF LocalSet
<1>7. local' \in AfterRunning([x \in {h} |-> st], [local EXCEPT !.num = 1])
  BY <1>3 DEF Run
<1>8. /\ h.kind = "timer" => local'.timeout = TRUE
      /\ h.kind # "timer" => local'.timeout = FALSE
  <2>1. PICK l : l = [local EXCEPT !.num = 1]
    OBVIOUS
  <2>2. PICK f : f = [x \in {h} |-> st]
    OBVIOUS
  <2>3. l \in LocalSet /\ l.timeout = FALSE /\ DOMAIN f = {h} /\ local' \in AfterRunning(f, l)
    BY <1>6, <1>7, <2>1, <2>2
  <2>4. Tells(h, l, local')
    BY ONLY <1>5, <2>3, RanOne
  <2> QED
    BY <2>3, <2>4 DEF Tells
<1>9. \A x \in handlers : x = Timer(donow) \/ (x = Io(donow, x.no) /\ x \in Ios)
  BY <1>2 DEF Mine, Ios, Io
<1>10. CASE h.kind = "timer"
  <2>1. h = Timer(donow)
    BY <1>2, <1>10 DEF Mine, Io
  <2>2. IoOnly'
    BY <1>1, <1>2, <1>4, <1>9, <2>1 DEF IoOnly, Mine, AtMostOneIo, Ios
  <2> QED
    BY <1>1, <1>2, <1>8, <1>10, <2>2
<1>11. CASE h.kind # "timer"
  <2>1. h \in Ios
    BY <1>9, <1>11 DEF Timer
  <2>2. TimerOnly'
    BY <1>1, <1>2, <1>4, <1>9, <2>1 DEF TimerOnly, AtMostOneIo
  <2> QED
    BY <1>1, <1>2, <1>8, <1>11, <2>2
<1> QED
  BY <1>10, <1>11

LEMMA RunOneStep ==
    ASSUME IoTypeOK, FrameHandlers, RunOne \/ IoCompletes
    PROVE  /\ IoTypeOK' /\ FrameHandlers'
           /\ local'.left = local.left /\ local'.sleeps = local.sleeps
<1>1. CASE RunOneStopped
  <2>1. wpc = "run" /\ stopped /\ UNCHANGED <<aborts, term_request, in_parts>>
    BY <1>1 DEF RunOneStopped, Handle, historyVars
  <2>2. FrameHandlers'
    BY <2>1 DEF FrameHandlers, Undisturbed
  <2>3. /\ UNCHANGED <<established, handlers, in_parts>> /\ local' = [local EXCEPT !.num = 0]
    BY <1>1 DEF RunOneStopped
  <2>4. /\ local' \in LocalSet
        /\ local'.left = local.left /\ local'.sleeps = local.sleeps
    BY <2>3, IoTypes DEF LocalSet
  <2> QED
    BY <2>2, <2>3, <2>4, IoTypes, IoTypesNext
<1>2. CASE \E h \in handlers : RunOneHandler(h)
  BY <1>2, RunOneTypes, RunOneFrame
<1> QED
  BY <1>1, <1>2 DEF RunOne, IoCompletes, Ios

(* timer.cancel() and ioservice->poll(): what is cancelled is run.         *)
LEMMA PollsRun ==
    ASSUME NEW hs, NEW f \in Polls(hs)
    PROVE  /\ \A h \in DOMAIN f : f[h] \in Outcome
           /\ DOMAIN f \subseteq hs
           /\ ~stopped => { h \in hs : h.cancelled } \subseteq DOMAIN f
<1>1. CASE stopped
  BY <1>1 DEF Polls
<1>2. CASE ~stopped
  <2>1. PICK ready \in SUBSET (hs \cap Ios) :
           f \in [{ h \in hs : h.cancelled } \cup ready -> Outcome]
    BY <1>2 DEF Polls, Results, Outcome
  <2> QED
    BY <2>1
<1> QED
  BY <1>1, <1>2

LEMMA CancelAll ==
    ASSUME NEW hs, hs \subseteq HandlerSet, NEW which, hs \subseteq which
    PROVE  \A h \in Cancelled(hs, which) : h.cancelled
  BY DEF Cancelled, HandlerSet

LEMMA PollStep ==
    ASSUME IoTypeOK, FrameHandlers, CancelTimerAndPoll
    PROVE  /\ IoTypeOK' /\ FrameHandlers'
           /\ local'.left = local.left /\ local'.sleeps = local.sleeps
<1>1. /\ wpc = "poll" /\ wpc' = "eval"
      /\ UNCHANGED <<stopped, aborts, term_request, donow>>
  BY DEF CancelTimerAndPoll, Handle, historyVars
<1>2. PICK hs : hs = Cancelled(handlers, OwnTimers)
  OBVIOUS
<1>3. PICK f \in Polls(hs) : Run(f, hs, local)
  BY <1>2 DEF CancelTimerAndPoll
<1>4. handlers \subseteq HandlerSet /\ local \in LocalSet /\ established \in BOOLEAN
  BY IoTypes
<1>5. hs \subseteq HandlerSet
  BY <1>2, <1>4, CancelledTypes
<1>6. DOMAIN f \subseteq hs /\ \A h \in DOMAIN f : f[h] \in Outcome
  BY <1>3, PollsRun
<1>7. local' \in LocalSet /\ local'.left = local.left /\ local'.sleeps = local.sleeps
  BY <1>3, <1>4, <1>6, Ran DEF Run
<1>8. /\ handlers' = (hs \ DOMAIN f) \cup GoingOn(f) /\ established' \in BOOLEAN
      /\ in_parts' = (in_parts \/ GoingOn(f) # {})
  BY <1>3, <1>4 DEF Run, Remaining
<1>9. IoTypeOK'
  BY <1>5, <1>6, <1>7, <1>8, RemainingTypes, IoTypesNext
<1>10. FrameHandlers'
  <2> SUFFICES ASSUME Undisturbed' PROVE ~stopped' /\ handlers' = {}
    BY <1>1 DEF FrameHandlers, HandlersAt
  <2>0. Undisturbed /\ GoingOn(f) = {}
    BY <1>1, <1>8 DEF Undisturbed
  <2>1. ~stopped /\ TimerOnly
    BY <1>1, <2>0 DEF FrameHandlers, HandlersAt
  <2>2. handlers \subseteq OwnTimers
    BY <2>1 DEF TimerOnly, OwnTimers, Timer
  <2>3. \A h \in hs : h.cancelled
    BY <1>2, <1>4, <2>2, CancelAll
  <2>4. hs \subseteq DOMAIN f
    BY <1>3, <2>1, <2>3, PollsRun
  <2> QED
    BY <1>1, <1>8, <2>0, <2>1, <2>4
<1> QED
  BY <1>7, <1>9, <1>10

(* The ways out of Handle...(): nothing of the operation is left.          *)
LEMMA CleanUpStep ==
    ASSUME IoTypeOK, FrameHandlers, CleanUp
    PROVE  IoTypeOK' /\ FrameHandlers' /\ local' = Local0
<1>1. /\ wpc = "answered" /\ wpc' = "check"
      /\ UNCHANGED <<stopped, aborts, term_request>>
  BY DEF CleanUp, Delete
<1>2. local' = Local0
  BY DEF CleanUp
<1>3. PICK hs : hs = CASE local.after = "cancel" -> Cancelled(handlers, Ios \cup OwnTimers)
                       [] local.after = "cancel socket" -> Cancelled(handlers, Ios)
                       [] OTHER -> handlers
  OBVIOUS
<1>4. PICK f \in IF PollAfter(local.after) THEN Polls(hs) ELSE {<<>>} :
         /\ handlers' = Cancelled((hs \ DOMAIN f) \cup GoingOn(f), OwnTimers)
         /\ in_parts' = (in_parts \/ GoingOn(f) # {})
         /\ established' = (established \/ Establishes(f))
  BY <1>3 DEF CleanUp
<1>5. handlers \subseteq HandlerSet /\ established \in BOOLEAN
  BY IoTypes
<1>6. hs \subseteq HandlerSet
  BY <1>3, <1>5, CancelledTypes
<1>7. IoTypeOK'
  <2>0. DOMAIN f \subseteq hs
    BY <1>4, PollsRun
  <2>1. /\ (hs \ DOMAIN f) \cup GoingOn(f) \subseteq HandlerSet
        /\ in_parts' \in BOOLEAN
    BY <1>4, <1>6, <2>0, RemainingTypes
  <2>2. handlers' \subseteq HandlerSet
    BY <1>4, <2>1, CancelledTypes
  <2> QED
    BY <1>2, <1>4, <1>5, <2>1, <2>2, Local0Types, IoTypesNext
<1>8. FrameHandlers'
  <2> SUFFICES ASSUME Undisturbed' PROVE ~stopped' /\ handlers' = {}
    BY <1>1 DEF FrameHandlers, HandlersAt
  <2>0. Undisturbed /\ GoingOn(f) = {}
    BY <1>1, <1>4 DEF Undisturbed
  <2>1. ~stopped
    BY <2>0 DEF FrameHandlers
  <2>2. CASE local.after = "return"
    <3>1. handlers = {} /\ hs = {}
      BY <1>1, <1>3, <2>0, <2>2 DEF FrameHandlers, HandlersAt
    <3>2. handlers' = {}
      BY <1>4, <2>0, <3>1 DEF Cancelled
    <3> QED
      BY <1>1, <2>1, <3>2
  <2>3. CASE local.after \in {"cancel", "cancel socket"}
    <3>1. \A h \in hs : h.cancelled
      <4>1. CASE local.after = "cancel"
        <5>1. Mine
          BY <1>1, <2>0, <4>1 DEF FrameHandlers, HandlersAt, TimerAndIo
        <5>2. handlers \subseteq Ios \cup OwnTimers
          BY <5>1 DEF Mine, Ios, OwnTimers, Timer, Io
        <5>3. hs = Cancelled(handlers, Ios \cup OwnTimers)
          BY <1>3, <4>1
        <5> QED
          BY <1>5, <5>2, <5>3, CancelAll
      <4>2. CASE local.after = "cancel socket"
        <5>1. handlers \subseteq Ios
          BY <1>1, <2>0, <4>2 DEF FrameHandlers, HandlersAt, IoOnly
        <5>2. hs = Cancelled(handlers, Ios)
          BY <1>3, <4>2
        <5> QED
          BY <1>5, <5>1, <5>2, CancelAll
      <4> QED
        BY <2>3, <4>1, <4>2
    <3>2. f \in Polls(hs)
      BY <1>4, <2>3 DEF PollAfter
    <3>3. hs \subseteq DOMAIN f
      BY <2>1, <3>1, <3>2, PollsRun
    <3>4. handlers' = {}
      BY <1>4, <2>0, <3>3 DEF Cancelled
    <3> QED
      BY <1>1, <2>1, <3>4
  <2>4. local.after \in {"return", "cancel", "cancel socket"}
    BY <1>1, <2>0 DEF FrameHandlers, HandlersAt
  <2> QED
    BY <2>2, <2>3, <2>4
<1> QED
  BY <1>2, <1>7, <1>8

-----------------------------------------------------------------------------
(* The steps that leave the io_service alone.                              *)
OtherSteps ==
    \/ \E c \in Cmds : PushWork(c)
    \/ PostWork \/ AbortAll \/ RequestTerm \/ WakeWorker \/ Join
    \/ CheckTerm \/ SemWait \/ NothingToPop \/ Pop

(* What HandlersAt says of a place depends on three variables.             *)
LEMMA SameHandlers ==
    ASSUME UNCHANGED <<handlers, local, donow>>, NEW place, HandlersAt(place)
    PROVE  HandlersAt(place)'
  BY DEF HandlersAt, Mine, AtMostOneIo, TimerOnly, IoOnly, TimerAndIo, Ios

LEMMA OthersStep ==
    ASSUME BaseTypeOK, IoTypeOK, Frames, FrameHandlers, OtherSteps, UNCHANGED ioVars
    PROVE  /\ IoTypeOK' /\ Frames' /\ FrameHandlers'
           /\ wpc' = "start" => wpc = "start" /\ UNCHANGED donow
           /\ Undisturbed' => Undisturbed
<1>0. UNCHANGED <<established, handlers, local, in_parts>>
  BY DEF ioVars
<1>1. IoTypeOK'
  BY <1>0 DEF IoTypeOK
<1>2. CASE PostWork \/ WakeWorker \/ Join \/ RequestTerm \/ \E c \in Cmds : PushWork(c)
  <2>1. /\ UNCHANGED <<wpc, donow, stopped, aborts>>
        /\ term_request => term_request'
    BY <1>2 DEF PostWork, WakeWorker, Join, RequestTerm, PushWork, historyVars
  <2>2. Undisturbed' => Undisturbed
    BY <1>0, <2>1 DEF Undisturbed
  <2>3. HandlersAt(wpc) => HandlersAt(wpc)'
    BY <1>0, <2>1, SameHandlers
  <2>4. FrameHandlers'
    BY <2>1, <2>2, <2>3 DEF FrameHandlers
  <2>5. Frames'
    BY <1>0, <1>2 DEF PostWork, WakeWorker, Join, RequestTerm, PushWork, Frames
  <2> QED
    BY <1>1, <2>1, <2>2, <2>4, <2>5
<1>3. CASE AbortAll
  <2>1. aborts \in Nat
    BY BoundAssumption DEF BaseTypeOK
  <2>2. ~Undisturbed'
    BY <1>3, <2>1 DEF AbortAll, Undisturbed
  <2>3. Frames' /\ UNCHANGED <<wpc, donow>>
    BY <1>0, <1>3 DEF AbortAll, Frames
  <2> QED
    BY <1>1, <2>2, <2>3 DEF FrameHandlers
<1>4. CASE CheckTerm \/ SemWait \/ NothingToPop \/ Pop
  <2>1. /\ wpc \in {"check", "wait", "lock"}
        /\ wpc' \in {"check", "wait", "lock", "handle"} \/ (wpc' = "ended" /\ term_request)
        /\ UNCHANGED <<aborts, term_request, cpc>>
        /\ stopped' = stopped \/ stopped' = FALSE
    BY <1>4 DEF CheckTerm, SemWait, NothingToPop, Pop, historyVars
  <2>2. Undisturbed' => Undisturbed /\ ~stopped' /\ handlers' = {} /\ wpc' # "ended"
    BY <1>0, <2>1 DEF Undisturbed, FrameHandlers, HandlersAt
  <2>3. FrameHandlers'
    BY <2>1, <2>2 DEF FrameHandlers, HandlersAt
  <2>4. Frames'
    BY <1>0, <2>1 DEF Frames
  <2> QED
    BY <1>1, <2>1, <2>2, <2>3, <2>4
<1> QED
  BY <1>2, <1>3, <1>4 DEF OtherSteps

(* A step of Handle...() that does not answer, and one that does.          *)
LEMMA HandleStep ==
    ASSUME NEW from, NEW to, Handle(from, to)
    PROVE  /\ wpc = from /\ wpc' = to
           /\ UNCHANGED <<stopped, aborts, term_request, donow, cpc>>
  BY DEF Handle, ResetAtEntry, historyVars

LEMMA ReplyStep ==
    ASSUME IoTypeOK, NEW from, NEW errno, NEW after, Reply(from, errno, after),
           after \in {"return", "poll", "cancel socket", "cancel"}
    PROVE  /\ wpc = from /\ wpc' = "answered"
           /\ UNCHANGED <<stopped, aborts, term_request, donow, cpc>>
           /\ local' \in LocalSet /\ local'.after = after
<1>1. local \in LocalSet /\ local' = [local EXCEPT !.after = after]
  BY IoTypes DEF Reply
<1>2. local' \in LocalSet /\ local'.after = after
  BY <1>1 DEF LocalSet
<1> QED
  BY <1>2 DEF Reply, Answer

(* The answer on a path that has nothing left to cancel.                   *)
LEMMA ReturnStep ==
    ASSUME IoTypeOK, Frames, FrameHandlers, NEW from, NEW errno, Reply(from, errno, "return"),
           established' \in BOOLEAN, handlers' \subseteq HandlerSet,
           in_parts' \in BOOLEAN, in_parts => in_parts', Undisturbed' => handlers' = {}
    PROVE  IoTypeOK' /\ Frames' /\ FrameHandlers' /\ wpc' = "answered"
<1>1. /\ wpc = from /\ wpc' = "answered"
      /\ UNCHANGED <<stopped, aborts, term_request, donow, cpc>>
      /\ local' \in LocalSet /\ local'.after = "return"
  BY ReplyStep
<1>2. IoTypeOK'
  BY <1>1, IoTypes, IoTypesNext
<1>3. Frames' /\ FrameHandlers'
  BY <1>1 DEF Frames, FrameHandlers, Undisturbed, HandlersAt
<1> QED
  BY <1>1, <1>2, <1>3

(* The timer and the I/O operation an operation begins with.               *)
LEMMA StartsFrame ==
    ASSUME NEW n \in Nat, handlers' \subseteq {Timer(donow), Io(donow, n)}, UNCHANGED donow
    PROVE  TimerAndIo'
<1>1. \A h \in handlers' : h = Timer(donow) \/ h = Io(donow, n)
  OBVIOUS
<1>2. Timer(donow).kind = "timer" /\ Io(donow, n).no = n
  BY DEF Timer, Io
<1>3. Mine'
  BY <1>1, <1>2 DEF Mine, Timer, Io
<1>4. AtMostOneIo'
  BY <1>1, <1>2 DEF AtMostOneIo, Ios
<1> QED
  BY <1>3, <1>4 DEF TimerAndIo

-----------------------------------------------------------------------------
(* What a step of an operation has to keep of the service.                 *)
FrameParts == IoTypeOK /\ Frames /\ FrameHandlers

(* An answer from "ran", where an error or a timeout is found.             *)
LEMMA GivesUpStep ==
    ASSUME FrameParts, NEW errno, NEW after, Reply("ran", errno, after),
           \/ after = "cancel"
           \/ after = "poll" /\ stopped
           \/ after = "cancel socket" /\ local.timeout,
           UNCHANGED <<handlers, established, in_parts>>
    PROVE  FrameParts' /\ wpc' = "answered"
<1>1. /\ wpc = "ran" /\ wpc' = "answered"
      /\ UNCHANGED <<stopped, aborts, term_request, donow, cpc>>
      /\ local' \in LocalSet /\ local'.after = after
  BY ReplyStep DEF FrameParts
<1>2. IoTypeOK'
  BY <1>1, IoTypes, IoTypesNext DEF FrameParts
<1>3. Frames'
  BY <1>1 DEF FrameParts, Frames
<1>4. FrameHandlers'
  <2> SUFFICES ASSUME Undisturbed PROVE ~stopped' /\ HandlersAt("answered")'
    BY <1>1 DEF FrameHandlers, Undisturbed
  <2>1. ~stopped /\ IF local.timeout THEN IoOnly ELSE TimerOnly
    BY <1>1 DEF FrameParts, FrameHandlers, HandlersAt
  <2>2. TimerOnly => TimerAndIo
    BY DEF TimerOnly, TimerAndIo, Mine, AtMostOneIo, Ios, Timer
  <2>3. IoOnly => TimerAndIo
    BY DEF IoOnly, TimerAndIo
  <2>4. (TimerAndIo => TimerAndIo') /\ (IoOnly => IoOnly')
    BY <1>1 DEF TimerAndIo, IoOnly, Mine, AtMostOneIo, Ios
  <2>5. IF after = "cancel" THEN TimerAndIo' ELSE after = "cancel socket" /\ IoOnly'
    BY <2>1, <2>2, <2>3, <2>4
  <2> QED
    BY <1>1, <2>1, <2>5 DEF HandlersAt
<1> QED
  BY <1>1, <1>2, <1>3, <1>4 DEF FrameParts

(* A step to the next place that leaves the handlers and variables alone.  *)
LEMMA GoesOnStep ==
    ASSUME FrameParts, NEW from, NEW to, Handle(from, to), UNCHANGED <<handlers, local, in_parts>>,
           to \in HandlerPcs \ {"handle"}, established' \in BOOLEAN,
           Undisturbed /\ HandlersAt(from) => HandlersAt(to)
    PROVE  FrameParts' /\ wpc' = to
<1>1. /\ wpc = from /\ wpc' = to
      /\ UNCHANGED <<stopped, aborts, term_request, donow, cpc, handlers, local>>
  BY HandleStep
<1>2. IoTypeOK' /\ Frames'
  BY <1>1 DEF FrameParts, IoTypeOK, Frames, HandlerPcs
<1>3. HandlersAt(to) => HandlersAt(to)'
  BY <1>1, SameHandlers
<1>4. FrameHandlers'
  BY <1>1, <1>3 DEF FrameParts, FrameHandlers, Undisturbed
<1> QED
  BY <1>1, <1>2, <1>4 DEF FrameParts

(* A step that starts what the operation awaits.                           *)
LEMMA StartsStep ==
    ASSUME FrameParts,
           NEW from \in {"handle", "start", "rest"}, NEW to \in {"start", "run", "poll"},
           Handle(from, to), UNCHANGED <<established, in_parts>>,
           handlers' \subseteq HandlerSet, local' \in LocalSet,
           ~local'.timeout \/ (from # "rest" /\ local'.timeout = local.timeout),
           Undisturbed => IF to = "run" THEN TimerAndIo' ELSE TimerOnly'
    PROVE  FrameParts' /\ wpc' = to
<1>1. /\ wpc = from /\ wpc' = to
      /\ UNCHANGED <<stopped, aborts, term_request, donow, cpc>>
  BY HandleStep
<1>2. IoTypeOK'
  BY IoTypes, IoTypesNext DEF FrameParts
<1>3. Frames'
  BY <1>1 DEF FrameParts, Frames
<1>4. Undisturbed => ~local'.timeout /\ ~stopped
  <2>1. from = "handle" => local = Local0
    BY <1>1 DEF FrameParts, Frames
  <2>2. Local0.timeout = FALSE
    BY DEF Local0
  <2>3. from = "start" /\ Undisturbed => ~local.timeout
    BY <1>1 DEF FrameParts, FrameHandlers, HandlersAt
  <2>4. Undisturbed => ~stopped
    BY DEF FrameParts, FrameHandlers
  <2> QED
    BY <2>1, <2>2, <2>3, <2>4
<1>5. FrameHandlers'
  BY <1>1, <1>4 DEF FrameHandlers, Undisturbed, HandlersAt
<1> QED
  BY <1>1, <1>2, <1>3, <1>5 DEF FrameParts

(* What the worker, the service's own steps and the callers do.            *)
LEMMA ServiceStep ==
    ASSUME FrameParts, RunOne \/ IoCompletes \/ CancelTimerAndPoll \/ CleanUp
    PROVE  FrameParts' /\ wpc' # "start"
<1>1. CASE RunOne \/ IoCompletes
  <2>1. IoTypeOK' /\ FrameHandlers'
    BY <1>1, RunOneStep DEF FrameParts
  <2>2. wpc' = "ran" /\ UNCHANGED <<cpc, term_request>>
    BY <1>1, HandleStep DEF RunOne, IoCompletes, RunOneStopped, RunOneHandler
  <2> QED
    BY <2>1, <2>2 DEF Frames, FrameParts
<1>2. CASE CancelTimerAndPoll
  <2>1. /\ IoTypeOK' /\ FrameHandlers'
        /\ wpc' = "eval" /\ UNCHANGED <<cpc, term_request>>
    BY <1>2, PollStep, HandleStep DEF CancelTimerAndPoll, FrameParts
  <2> QED
    BY <2>1 DEF Frames, FrameParts
<1>3. CASE CleanUp
  <2>1. /\ IoTypeOK' /\ FrameHandlers' /\ local' = Local0
        /\ wpc' = "check" /\ UNCHANGED <<cpc, term_request>>
    BY <1>3, CleanUpStep DEF CleanUp, Delete, FrameParts
  <2> QED
    BY <2>1 DEF Frames, FrameParts
<1> QED
  BY <1>1, <1>2, <1>3

(* The destructor, which closes an open connection, has set term_request.  *)
LEMMA DestroyStep ==
    ASSUME FrameParts, ClearWork, UNCHANGED <<local, in_parts>>, established' \in BOOLEAN,
           handlers' \in {handlers, Cancelled(handlers, Ios)}
    PROVE  FrameParts' /\ ~Undisturbed' /\ UNCHANGED <<wpc, donow>>
<1>1. /\ cpc = "clear" /\ cpc' = "wake"
      /\ UNCHANGED <<wpc, donow, aborts, term_request>>
  BY DEF ClearWork, historyVars
<1>2. term_request /\ ~Undisturbed'
  BY <1>1 DEF FrameParts, Frames, Undisturbed
<1>3. handlers \subseteq HandlerSet /\ local \in LocalSet /\ in_parts \in BOOLEAN
  BY IoTypes DEF FrameParts
<1>4. handlers' \subseteq HandlerSet
  BY <1>3, CancelledTypes
<1>5. IoTypeOK'
  BY <1>3, <1>4, IoTypesNext
<1> QED
  BY <1>1, <1>2, <1>5 DEF FrameParts, Frames, FrameHandlers

LEMMA IdleStep ==
    ASSUME FrameParts, UNCHANGED <<baseVars, ioVars>>
    PROVE  FrameParts' /\ (Undisturbed' <=> Undisturbed) /\ UNCHANGED <<wpc, donow>>
<1>1. /\ UNCHANGED <<wpc, cpc, donow, stopped, aborts, term_request>>
      /\ UNCHANGED <<established, handlers, local, in_parts>>
  BY DEF baseVars, ioVars, historyVars
<1>2. HandlersAt(wpc) => HandlersAt(wpc)'
  BY <1>1, SameHandlers
<1>3. IoTypeOK'
  BY <1>1 DEF FrameParts, IoTypeOK
<1>4. Frames'
  BY <1>1 DEF FrameParts, Frames
<1>5. Undisturbed' <=> Undisturbed
  BY <1>1 DEF Undisturbed
<1>6. FrameHandlers'
  BY <1>1, <1>2, <1>5 DEF FrameParts, FrameHandlers
<1> QED
  BY <1>1, <1>3, <1>4, <1>5, <1>6 DEF FrameParts

(* The start: nothing is open, no handler, fresh variables.                *)
LEMMA InitFrame == BaseInit /\ IoInit => FrameParts
<1> SUFFICES ASSUME BaseInit, IoInit PROVE FrameParts
  OBVIOUS
<1>1. IoTypeOK
  BY Local0Types, IoTypes DEF IoInit
<1>2. Frames
  BY DEF BaseInit, IoInit, Frames
<1>3. FrameHandlers
  BY DEF BaseInit, IoInit, FrameHandlers, HandlersAt
<1> QED
  BY <1>1, <1>2, <1>3 DEF FrameParts
=============================================================================
