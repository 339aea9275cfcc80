----------------------- MODULE ConnectSerialAsio_proofs -----------------------
(* The serial port moves the queue and the worker as AsioWorker says, and  *)
(* the answer to a Connect tells the state of the port.                    *)
EXTENDS ConnectSerialAsio, AsioWorker_proofs

LEMMA StepIsBaseStep == [Next]_vars => [BaseNext]_baseVars
<1> SUFFICES ASSUME [Next]_vars PROVE [BaseNext]_baseVars
  OBVIOUS
<1> USE DEF BaseNext, HandlerPcs, Errno
<1>1. ASSUME PushOrPost \/ AbortAll \/ Destructor \/ Clear PROVE BaseNext
  BY <1>1 DEF PushOrPost, Destructor, Clear
<1>2. ASSUME Worker PROVE BaseNext
  <2>1. CASE Main
    BY <2>1 DEF Main
  <2>2. CASE RunOne \/ CancelTimerAndPoll \/ Finish
    BY <2>2 DEF RunOne, RunOneStopped, RunOneHandler, CancelTimerAndPoll,
                Finish, CleanUp
  <2>3. CASE ConnectOpen \/ ConnectOptions \/ HandleDisconnect
    BY <2>3 DEF ConnectOpen, ConnectOptions, HandleDisconnect, Reply
  <2>4. CASE ReceiveStart \/ ReceiveRound \/ ReceiveRan \/ ReceiveEval
    BY <2>4 DEF ReceiveStart, ReceiveRound, ReceiveRan, ReceiveEval, Reply
  <2>5. CASE RestStart \/ RestRan \/ RestEnds \/ RestEval
    BY <2>5 DEF RestStart, RestRan, RestEnds, RestEval, Reply
  <2>6. CASE SendStart \/ SendRan \/ SendEval
    BY <2>6 DEF SendStart, SendRan, SendEval, SendErrnos, Reply
  <2> QED
    BY <1>2, <2>1, <2>2, <2>3, <2>4, <2>5, <2>6 DEF Worker
<1>3. ASSUME IoCompletes PROVE BaseNext
  BY <1>3 DEF IoCompletes, RunOneHandler
<1>4. CASE UNCHANGED vars
  BY <1>4 DEF vars
<1> QED
  BY <1>1, <1>2, <1>3, <1>4 DEF Next

(* Whatever open, send, receive and close do, the worker and the queue     *)
(* keep to the steps that AsioWorker allows any transport; what is proved  *)
(* there (BaseInvariance) holds of the serial port, too.                   *)
THEOREM ImplementsAsioWorker == Spec => BaseSpec
<1>1. Init => BaseInit
  BY DEF Init
<1>2. [Next]_vars => [BaseNext]_baseVars
  BY StepIsBaseStep
<1> QED
  BY <1>1, <1>2, PTL DEF Spec, BaseSpec

-----------------------------------------------------------------------------
(* A byte has been received only within a Receive, and the destructor      *)
(* closes the port only after it has asked the thread to end.              *)
Told ==
    /\ received => wpc \notin {"check", "wait", "lock"} /\ Op[donow] = "RECEIVE"
    /\ cpc \in {"clear", "wake", "join", "gone"} => term_request

TruthInv == Told /\ ConnectTellsTheTruth

LEMMA TruthStep == TruthInv /\ [Next]_vars => TruthInv'
<1> SUFFICES ASSUME TruthInv, [Next]_vars PROVE TruthInv'
  OBVIOUS
<1> USE DEF TruthInv, Told, ConnectTellsTheTruth, ioVars, historyVars
<1>1. CASE PushOrPost /\ UNCHANGED <<ioVars, received>>
  BY <1>1 DEF PushOrPost, PushWork, PostWork
<1>2. CASE AbortAll /\ UNCHANGED <<ioVars, received>>
  BY <1>2 DEF AbortAll
<1>3. CASE Destructor /\ UNCHANGED <<ioVars, received>>
  BY <1>3 DEF Destructor, RequestTerm, WakeWorker, Join
<1>4. CASE Clear
  BY <1>4 DEF Clear, ClearWork
<1>5. CASE Main /\ UNCHANGED <<ioVars, received>>
  BY <1>5 DEF Main, CheckTerm, SemWait, NothingToPop, Pop
<1>6. CASE (RunOne \/ CancelTimerAndPoll \/ IoCompletes) /\ UNCHANGED received
  BY <1>6 DEF RunOne, RunOneStopped, RunOneHandler, CancelTimerAndPoll,
              IoCompletes, Handle
<1>7. CASE Finish
  BY <1>7 DEF Finish, CleanUp, Delete
<1>8. CASE ConnectOpen
  BY <1>8 DEF ConnectOpen, Doing, Reply, Answer, Handle
<1>9. CASE ConnectOptions
  BY <1>9 DEF ConnectOptions, Doing, Reply, Answer, Handle, OpenAfterFailure
<1>10. CASE HandleDisconnect
  BY <1>10 DEF HandleDisconnect, Doing, Reply, Answer
<1>11. CASE ReceiveStart \/ ReceiveRound \/ ReceiveRan \/ ReceiveEval
  BY <1>11 DEF ReceiveStart, ReceiveRound, ReceiveRan, ReceiveEval, Doing, Reply,
               Answer, Handle
<1>12. CASE RestStart \/ RestRan \/ RestEnds \/ RestEval
  BY <1>12 DEF RestStart, RestRan, RestEnds, RestEval, Doing, Reply,
               Answer, Handle
<1>13. CASE SendStart \/ SendRan
  BY <1>13 DEF SendStart, SendRan, Doing, Reply, Answer, Handle
<1>14. CASE SendEval
  <2>1. PICK errno \in SendErrnos(local.res) : Reply("eval", errno, "return")
    BY <1>14 DEF SendEval
  <2> QED
    BY <1>14, <2>1 DEF SendEval, Reply, Answer
<1>15. CASE UNCHANGED vars
  BY <1>15 DEF vars, baseVars
<1> QED
  BY <1>1, <1>2, <1>3, <1>4, <1>5, <1>6, <1>7, <1>8, <1>9, <1>10, <1>11,
     <1>12, <1>13, <1>14, <1>15 DEF Next, Worker

(* Whatever is aborted and whenever: a Connect answered with success has   *)
(* left the port open with its settings, one answered with an error has    *)
(* left it closed (until the destructor takes over).                       *)
THEOREM TruthfulConnect == Spec => []ConnectTellsTheTruth
<1>1. Init => TruthInv
  BY DEF Init, BaseInit, TruthInv, Told, ConnectTellsTheTruth
<1>2. TruthInv => ConnectTellsTheTruth
  BY DEF TruthInv
<1> QED
  BY <1>1, <1>2, TruthStep, PTL DEF Spec

-----------------------------------------------------------------------------
(* The handlers of the operations.  StepParts are the parts of SerialIInv  *)
(* that a step of the operations has to keep.                              *)
StepParts == FrameParts /\ received \in BOOLEAN /\ RoundsLeft

LEMMA PartTypes ==
    StepParts => /\ established \in BOOLEAN /\ received \in BOOLEAN
                 /\ handlers \subseteq HandlerSet /\ local \in LocalSet
  BY IoTypes DEF StepParts, FrameParts

(* An answer on a path that leaves nothing in the service; the setting up  *)
(* of the port is one.                                                     *)
LEMMA Returns ==
    ASSUME StepParts, NEW from \in {"handle", "start", "eval"}, NEW errno,
           Reply(from, errno, "return"), from = "start" => Op[donow] = "CONNECT",
           UNCHANGED <<handlers, received, in_parts>>, established' \in BOOLEAN
    PROVE  StepParts'
<1>1. wpc = from /\ UNCHANGED <<aborts, term_request>>
  BY DEF Reply, Answer
<1>2. Undisturbed' => handlers' = {}
  BY <1>1 DEF StepParts, FrameParts, FrameHandlers, HandlersAt, RoundsLeft, Undisturbed
<1>3. handlers' \subseteq HandlerSet /\ in_parts' \in BOOLEAN
  BY PartTypes, IoTypes DEF StepParts, FrameParts
<1>4. FrameParts' /\ wpc' = "answered"
  BY <1>2, <1>3, ReturnStep DEF StepParts, FrameParts
<1> QED
  BY <1>4 DEF StepParts, RoundsLeft

(* An answer from "ran", where an error or a timeout is found.             *)
LEMMA GivesUp ==
    ASSUME StepParts, NEW errno, Reply("ran", errno, "cancel"),
           UNCHANGED <<handlers, established, received, in_parts>>
    PROVE  StepParts'
<1>1. FrameParts' /\ wpc' = "answered"
  BY GivesUpStep DEF StepParts
<1> QED
  BY <1>1 DEF StepParts, RoundsLeft

(* A step to the next place that leaves the handlers and variables alone.  *)
LEMMA GoesOn ==
    ASSUME StepParts, NEW from, NEW to, Handle(from, to), UNCHANGED <<handlers, local, in_parts>>,
           to \in HandlerPcs \ {"handle"}, established' \in BOOLEAN, received' \in BOOLEAN,
           Undisturbed /\ HandlersAt(from) => HandlersAt(to),
           to = "start" => \/ Op[donow] = "RECEIVE" /\ local.sleeps > 0
                           \/ Op[donow] = "CONNECT" /\ from = "handle"
    PROVE  StepParts'
<1>1. wpc = from /\ UNCHANGED <<donow, aborts, term_request>>
  BY HandleStep
<1>2. FrameParts' /\ wpc' = to
  BY GoesOnStep DEF StepParts
<1>3. from = "handle" /\ Undisturbed' => handlers' = {}
  BY <1>1 DEF StepParts, FrameParts, FrameHandlers, HandlersAt, Undisturbed
<1> QED
  BY <1>1, <1>2, <1>3 DEF StepParts, RoundsLeft

(* A step that starts what the operation awaits.                           *)
LEMMA Starts ==
    ASSUME StepParts, NEW from \in {"handle", "start", "rest"}, NEW to \in {"start", "run"},
           Handle(from, to), UNCHANGED <<established, received, in_parts>>,
           handlers' \subseteq HandlerSet, local' \in LocalSet,
           ~local'.timeout \/ (from # "rest" /\ local'.timeout = local.timeout),
           Undisturbed => IF to = "run" THEN TimerAndIo' ELSE TimerOnly',
           to = "start" => Op[donow] = "RECEIVE" /\ local'.sleeps > 0
    PROVE  StepParts'
<1>1. FrameParts' /\ wpc' = to /\ UNCHANGED donow
  BY StartsStep, HandleStep DEF StepParts
<1> QED
  BY <1>1 DEF StepParts, RoundsLeft

LEMMA ConnectStep ==
    ASSUME StepParts, ConnectOpen \/ ConnectOptions \/ HandleDisconnect
    PROVE  StepParts'
<1>0. established \in BOOLEAN /\ received \in BOOLEAN /\ handlers \subseteq HandlerSet
  BY PartTypes
<1>1. CASE ConnectOpen
  <2>1. UNCHANGED <<handlers, received, in_parts>> /\ Op[donow] = "CONNECT"
    BY <1>1 DEF ConnectOpen, Doing
  <2>2. CASE \E errno : Reply("handle", errno, "return") /\ UNCHANGED established
    BY <1>0, <2>1, <2>2, Returns
  <2>3. CASE established' = TRUE /\ Handle("handle", "start") /\ UNCHANGED local
    <3>1. HandlersAt("handle") /\ local = Local0 => HandlersAt("start")
      BY DEF HandlersAt, TimerOnly, Local0
    <3>2. local = Local0
      BY <2>3, HandleStep DEF StepParts, FrameParts, Frames
    <3> QED
      BY <1>0, <2>1, <2>3, <3>1, <3>2, GoesOn DEF HandlerPcs
  <2> QED
    BY <1>1, <2>2, <2>3 DEF ConnectOpen
<1>2. CASE ConnectOptions
  <2>1. /\ \E errno : Reply("start", errno, "return")
        /\ established' \in BOOLEAN /\ UNCHANGED <<handlers, received, in_parts>>
        /\ Op[donow] = "CONNECT"
    BY <1>0, <1>2 DEF ConnectOptions, OpenAfterFailure, Doing
  <2> QED
    BY <2>1, Returns
<1>3. CASE HandleDisconnect /\ established
  <2>1. PICK errno \in {"0", "EIO"} : Reply("handle", errno, "return")
    BY <1>3 DEF HandleDisconnect
  <2>2. /\ established' = FALSE /\ handlers' = Cancelled(handlers, Ios)
        /\ UNCHANGED <<received, in_parts>>
    BY <1>3 DEF HandleDisconnect
  <2>3. handlers' \subseteq HandlerSet
    BY <1>0, <2>2, CancelledTypes
  <2>4. Undisturbed => handlers = {}
    BY <2>1 DEF StepParts, FrameParts, FrameHandlers, HandlersAt, Reply, Answer
  <2>5. Undisturbed' => handlers' = {}
    BY <2>1, <2>2, <2>4 DEF Cancelled, Undisturbed, Reply, Answer
  <2>6. FrameParts' /\ wpc' = "answered"
    <3>1. in_parts' \in BOOLEAN
      BY <2>2, IoTypes DEF StepParts, FrameParts
    <3> QED
      BY <2>1, <2>2, <2>3, <2>5, <3>1, ReturnStep DEF StepParts, FrameParts
  <2> QED
    BY <1>0, <2>2, <2>6 DEF StepParts, RoundsLeft
<1>4. CASE HandleDisconnect /\ ~established
  BY <1>0, <1>4, Returns DEF HandleDisconnect
<1> QED
  BY <1>0, <1>1, <1>2, <1>3, <1>4

LEMMA ReceiveStep ==
    ASSUME StepParts, donow \in Cmds, ReceiveStart \/ ReceiveRound \/ ReceiveRan \/ ReceiveEval
    PROVE  StepParts'
<1>0. /\ established \in BOOLEAN /\ handlers \subseteq HandlerSet /\ local \in LocalSet
      /\ received \in BOOLEAN /\ MaxSleep \in Nat /\ MaxSleep > 0
  BY PartTypes, OpAssumption
<1>1. CASE ReceiveStart
  <2>1. /\ Handle("handle", "start") /\ Op[donow] = "RECEIVE"
        /\ handlers' = handlers \cup {Timer(donow)}
        /\ UNCHANGED <<established, local, received, in_parts>>
    BY <1>1 DEF ReceiveStart, Armed, Doing
  <2>2. wpc = "handle" /\ UNCHANGED donow
    BY <2>1, HandleStep
  <2>3. local.sleeps > 0
    BY <1>0, <2>2 DEF StepParts, FrameParts, Frames, Local0
  <2>4. handlers' \subseteq HandlerSet
    BY <1>0, <2>1, StartedTypes
  <2>5. Undisturbed => TimerOnly'
    BY <2>1, <2>2 DEF StepParts, FrameParts, FrameHandlers, HandlersAt, TimerOnly
  <2> QED
    BY <1>0, <2>1, <2>3, <2>4, <2>5, Starts
<1>2. CASE ReceiveRound
  <2>1. /\ Op[donow] = "RECEIVE" /\ Handle("start", "run")
        /\ handlers' = handlers \cup {Io(donow, local.sleeps)}
        /\ local' = [local EXCEPT !.sleeps = @ - 1]
        /\ UNCHANGED <<established, received, in_parts>>
    BY <1>2 DEF ReceiveRound, Doing
  <2>2. wpc = "start" /\ UNCHANGED donow
    BY <2>1, HandleStep
  <2>3. local.sleeps > 0 /\ local.sleeps \in 0..MaxSleep /\ local.sleeps \in Nat
    <3>1. local.sleeps > 0
      BY <2>1, <2>2 DEF StepParts, RoundsLeft
    <3>2. local.sleeps \in 0..MaxSleep
      BY <1>0 DEF LocalSet
    <3> QED
      BY <1>0, <3>1, <3>2
  <2>4. local' \in LocalSet /\ local'.timeout = local.timeout
    <3>1. local.sleeps - 1 \in 0..MaxSleep
      BY <1>0, <2>3
    <3> QED
      BY <1>0, <2>1, <3>1 DEF LocalSet
  <2>5. handlers' \subseteq HandlerSet
    BY <1>0, <2>1, <2>3, StartedTypes
  <2>6. Undisturbed => TimerAndIo'
    <3>1. Undisturbed => handlers' \subseteq {Timer(donow), Io(donow, local.sleeps)}
      BY <2>1, <2>2 DEF StepParts, FrameParts, FrameHandlers, HandlersAt, TimerOnly
    <3> QED
      BY <2>2, <2>3, <3>1, StartsFrame
  <2> QED
    BY <2>1, <2>4, <2>5, <2>6, Starts
<1>3. CASE ReceiveRan
  <2>0. Op[donow] = "RECEIVE" /\ UNCHANGED <<established, handlers, received, in_parts>>
    BY <1>3 DEF ReceiveRan
  <2>1. CASE AnotherRound
    <3>1. Handle("ran", "start") /\ UNCHANGED local
      BY <1>3, <2>1 DEF ReceiveRan
    <3>2. HandlersAt("ran") => HandlersAt("start")
      BY <2>1 DEF HandlersAt, AnotherRound
    <3>3. local.sleeps > 0
      <4>1. local.sleeps \in 0..MaxSleep
        BY <1>0 DEF LocalSet
      <4>2. local.sleeps # 0
        BY <2>1 DEF AnotherRound
      <4> QED
        BY <1>0, <4>1, <4>2
    <3> QED
      BY <1>0, <2>0, <3>1, <3>2, <3>3, GoesOn DEF HandlerPcs
  <2>2. ASSUME NEW errno, Reply("ran", errno, "cancel") PROVE StepParts'
    BY <2>0, <2>2, GivesUp
  <2>3. CASE ~local.timeout /\ Handle("ran", "poll") /\ UNCHANGED local
    <3>1. HandlersAt("ran") => HandlersAt("poll")
      BY <2>3 DEF HandlersAt
    <3> QED
      BY <1>0, <2>0, <2>3, <3>1, GoesOn DEF HandlerPcs
  <2>4. \/ AnotherRound
        \/ \E errno : Reply("ran", errno, "cancel")
        \/ ~local.timeout /\ Handle("ran", "poll") /\ UNCHANGED local
    BY <1>3 DEF ReceiveRan
  <2> QED
    BY <2>1, <2>2, <2>3, <2>4
<1>4. CASE ReceiveEval
  <2>0. UNCHANGED <<established, handlers, in_parts>>
    BY <1>4 DEF ReceiveEval
  <2>1. ASSUME NEW errno, Reply("eval", errno, "return"), UNCHANGED received PROVE StepParts'
    BY <1>0, <2>0, <2>1, Returns
  <2>2. CASE Handle("eval", "rest") /\ received' = TRUE /\ UNCHANGED local
    <3>1. HandlersAt("eval") => HandlersAt("rest")
      BY DEF HandlersAt
    <3> QED
      BY <1>0, <2>0, <2>2, <3>1, GoesOn DEF HandlerPcs
  <2>3. \/ \E errno : Reply("eval", errno, "return") /\ UNCHANGED received
        \/ Handle("eval", "rest") /\ received' = TRUE /\ UNCHANGED local
    BY <1>4 DEF ReceiveEval
  <2> QED
    BY <2>1, <2>2, <2>3
<1> QED
  BY <1>1, <1>2, <1>3, <1>4

(* The rest of a message.  RestEnds cancels what is left and polls before  *)
(* it returns.                                                             *)
LEMMA RestStep ==
    ASSUME StepParts, donow \in Cmds, RestStart \/ RestRan \/ RestEnds \/ RestEval
    PROVE  StepParts'
<1>0. /\ established \in BOOLEAN /\ handlers \subseteq HandlerSet /\ local \in LocalSet
      /\ received \in BOOLEAN
  BY PartTypes
<1>1. CASE RestStart
  <2>1. /\ Handle("rest", "run")
        /\ handlers' = Cancelled(handlers, OwnTimers) \cup {Timer(donow)} \cup {Io(donow, 0)}
        /\ local' = [local EXCEPT !.timeout = FALSE, !.res = "none"]
        /\ UNCHANGED <<established, received, in_parts>>
    BY <1>1 DEF RestStart, Armed
  <2>2. wpc = "rest" /\ UNCHANGED donow
    BY <2>1, HandleStep
  <2>3. local' \in LocalSet /\ ~local'.timeout
    BY <1>0, <2>1 DEF LocalSet
  <2>4. handlers' \subseteq HandlerSet
    <3>1. Cancelled(handlers, OwnTimers) \subseteq HandlerSet
      BY <1>0, CancelledTypes
    <3> QED
      BY <2>1, <3>1, StartedTypes
  <2>5. Undisturbed => TimerAndIo'
    <3>1. Undisturbed => handlers = {}
      BY <2>2 DEF StepParts, FrameParts, FrameHandlers, HandlersAt
    <3>2. Undisturbed => Cancelled(handlers, OwnTimers) = {}
      BY <3>1 DEF Cancelled
    <3>3. Undisturbed => handlers' \subseteq {Timer(donow), Io(donow, 0)}
      BY <2>1, <3>2
    <3> QED
      BY <2>2, <3>3, StartsFrame
  <2> QED
    BY <2>1, <2>3, <2>4, <2>5, Starts
<1>2. CASE RestRan
  <2>1. /\ Handle("ran", "poll") /\ ~local.timeout
        /\ UNCHANGED <<established, handlers, local, received, in_parts>>
    BY <1>2 DEF RestRan, ioVars
  <2>2. HandlersAt("ran") => HandlersAt("poll")
    BY <2>1 DEF HandlersAt
  <2> QED
    BY <1>0, <2>1, <2>2, GoesOn DEF HandlerPcs
<1>3. CASE RestEnds
  <2>1. Reply("ran", "0", "return") /\ UNCHANGED <<established, received>>
    BY <1>3 DEF RestEnds
  <2>2. PICK hs : hs = Cancelled(handlers, Ios \cup OwnTimers)
    OBVIOUS
  <2>3. PICK f \in Polls(hs) : /\ handlers' = (hs \ DOMAIN f) \cup GoingOn(f)
                               /\ in_parts' = (in_parts \/ GoingOn(f) # {})
    BY <1>3, <2>2 DEF RestEnds, Remaining
  <2>4. hs \subseteq HandlerSet
    BY <1>0, <2>2, CancelledTypes
  <2>5. handlers' \subseteq HandlerSet /\ in_parts' \in BOOLEAN
    BY <2>3, <2>4, PollsRun, RemainingTypes
  <2>6. Undisturbed' => handlers' = {}
    <3>1. wpc = "ran" /\ UNCHANGED <<aborts, term_request>>
      BY <2>1, ReplyStep DEF StepParts, FrameParts
    <3>0. Undisturbed' => Undisturbed /\ GoingOn(f) = {}
      BY <2>3, <3>1 DEF Undisturbed
    <3> SUFFICES ASSUME Undisturbed PROVE hs \subseteq DOMAIN f
      BY <2>3, <3>0
    <3>2. ~stopped /\ IF local.timeout THEN IoOnly ELSE TimerOnly
      BY <3>1 DEF StepParts, FrameParts, FrameHandlers, HandlersAt
    <3>3. handlers \subseteq Ios \cup OwnTimers
      BY <3>2 DEF IoOnly, TimerOnly, OwnTimers, Timer
    <3>4. \A h \in hs : h.cancelled
      BY <1>0, <2>2, <3>3, CancelAll
    <3> QED
      BY <2>3, <3>2, <3>4, PollsRun
  <2>7. FrameParts' /\ wpc' = "answered"
    BY <1>0, <2>1, <2>3, <2>5, <2>6, ReturnStep DEF StepParts, FrameParts
  <2> QED
    BY <1>0, <2>1, <2>7 DEF StepParts, RoundsLeft
<1>4. CASE RestEval
  <2>0. UNCHANGED <<established, handlers, received, in_parts>>
    BY <1>4 DEF RestEval
  <2>1. ASSUME NEW errno, Reply("eval", errno, "return") PROVE StepParts'
    BY <1>0, <2>0, <2>1, Returns
  <2>2. CASE Handle("eval", "rest") /\ UNCHANGED local
    <3>1. HandlersAt("eval") => HandlersAt("rest")
      BY DEF HandlersAt
    <3> QED
      BY <1>0, <2>0, <2>2, <3>1, GoesOn DEF HandlerPcs
  <2>3. \/ \E errno : Reply("eval", errno, "return")
        \/ Handle("eval", "rest") /\ UNCHANGED local
    BY <1>4 DEF RestEval
  <2> QED
    BY <2>1, <2>2, <2>3
<1> QED
  BY <1>1, <1>2, <1>3, <1>4

LEMMA SendStep ==
    ASSUME StepParts, donow \in Cmds, SendStart \/ SendRan \/ SendEval
    PROVE  StepParts'
<1>0. /\ established \in BOOLEAN /\ handlers \subseteq HandlerSet /\ local \in LocalSet
      /\ received \in BOOLEAN
  BY PartTypes
<1>1. CASE SendStart
  <2>1. /\ Handle("handle", "run")
        /\ handlers' = handlers \cup {Timer(donow)} \cup {Io(donow, 0)}
        /\ UNCHANGED <<established, local, received, in_parts>>
    BY <1>1 DEF SendStart, Armed
  <2>2. wpc = "handle" /\ UNCHANGED donow
    BY <2>1, HandleStep
  <2>3. handlers' \subseteq HandlerSet
    BY <1>0, <2>1, StartedTypes
  <2>4. Undisturbed => TimerAndIo'
    <3>1. Undisturbed => handlers' \subseteq {Timer(donow), Io(donow, 0)}
      BY <2>1, <2>2 DEF StepParts, FrameParts, FrameHandlers, HandlersAt
    <3> QED
      BY <2>2, <3>1, StartsFrame
  <2> QED
    BY <1>0, <2>1, <2>3, <2>4, Starts
<1>2. CASE SendRan
  <2>0. UNCHANGED <<established, handlers, received, in_parts>>
    BY <1>2 DEF SendRan
  <2>1. CASE Reply("ran", "ETIMEDOUT", "cancel")
    BY <2>0, <2>1, GivesUp
  <2>2. CASE ~local.timeout /\ Handle("ran", "poll") /\ UNCHANGED local
    <3>1. HandlersAt("ran") => HandlersAt("poll")
      BY <2>2 DEF HandlersAt
    <3> QED
      BY <1>0, <2>0, <2>2, <3>1, GoesOn DEF HandlerPcs
  <2> QED
    BY <1>2, <2>1, <2>2 DEF SendRan
<1>3. CASE SendEval
  <2>1. /\ \E errno : Reply("eval", errno, "return")
        /\ UNCHANGED <<established, handlers, received, in_parts>>
    BY <1>3 DEF SendEval
  <2> QED
    BY <1>0, <2>1, Returns
<1> QED
  BY <1>1, <1>2, <1>3

LEMMA ClearStep == ASSUME StepParts, Clear PROVE StepParts'
<1>1. /\ ClearWork /\ UNCHANGED <<local, received, in_parts>>
      /\ handlers' \in {handlers, Cancelled(handlers, Ios)} /\ established' \in BOOLEAN
  BY DEF Clear
<1>2. FrameParts' /\ ~Undisturbed' /\ UNCHANGED <<wpc, donow>>
  BY <1>1, DestroyStep DEF StepParts
<1> QED
  BY <1>1, <1>2 DEF StepParts, RoundsLeft

LEMMA StepKeepsParts ==
    ASSUME BaseTypeOK, HoldsCommand, StepParts, [Next]_vars
    PROVE  StepParts'
<1>1. CASE OtherSteps /\ UNCHANGED <<ioVars, received>>
  <2>1. FrameParts' /\ UNCHANGED <<local, handlers, received>>
    BY <1>1, OthersStep DEF StepParts, FrameParts, ioVars
  <2>2. RoundsLeft'
    BY <1>1, <2>1, OthersStep DEF StepParts, FrameParts, RoundsLeft
  <2> QED
    BY <2>1, <2>2 DEF StepParts
<1>2. CASE /\ RunOne \/ IoCompletes \/ CancelTimerAndPoll \/ CleanUp
           /\ received' \in {received, FALSE}
  BY <1>2, ServiceStep DEF StepParts, RoundsLeft
<1>3. ASSUME NEW from \in HandlerPcs, wpc = from PROVE donow \in Cmds
  BY <1>3 DEF HoldsCommand
<1>4. CASE ConnectOpen \/ ConnectOptions \/ HandleDisconnect
  BY <1>4, ConnectStep
<1>5. CASE ReceiveStart \/ ReceiveRound \/ ReceiveRan \/ ReceiveEval
  <2>1. \E from \in HandlerPcs : wpc = from
    BY <1>5 DEF ReceiveStart, ReceiveRound, ReceiveRan, ReceiveEval, Reply, Answer, Handle,
                HandlerPcs
  <2> QED
    BY <1>3, <1>5, <2>1, ReceiveStep
<1>6. CASE RestStart \/ RestRan \/ RestEnds \/ RestEval
  <2>1. \E from \in HandlerPcs : wpc = from
    BY <1>6 DEF RestStart, RestRan, RestEnds, RestEval, Reply, Answer, Handle, HandlerPcs
  <2> QED
    BY <1>3, <1>6, <2>1, RestStep
<1>7. CASE SendStart \/ SendRan \/ SendEval
  <2>1. \E from \in HandlerPcs : wpc = from
    BY <1>7 DEF SendStart, SendRan, SendEval, Reply, Answer, Handle, HandlerPcs
  <2> QED
    BY <1>3, <1>7, <2>1, SendStep
<1>8. CASE Clear
  BY <1>8, ClearStep
<1>9. CASE UNCHANGED vars
  <2>1. UNCHANGED <<baseVars, ioVars, handlers, received, local>>
    BY <1>9 DEF vars, ioVars
  <2>2. FrameParts' /\ (Undisturbed' <=> Undisturbed) /\ UNCHANGED <<wpc, donow>>
    BY <2>1, IdleStep DEF StepParts
  <2> QED
    BY <2>1, <2>2 DEF StepParts, RoundsLeft
<1> QED
  BY <1>1, <1>2, <1>4, <1>5, <1>6, <1>7, <1>8, <1>9
  DEF Next, Worker, Main, Finish, PushOrPost, Destructor, OtherSteps

LEMMA InitParts == Init => StepParts
  BY InitFrame DEF Init, BaseInit, StepParts, RoundsLeft

(* The inductive invariant of the serial port.                             *)
THEOREM SerialInvariance == Spec => []SerialIInv
<1>1. Spec => []Inv
  BY ImplementsAsioWorker, BaseInvariance, PTL
<1>2. Inv /\ StepParts /\ [Next]_vars => StepParts'
  BY StepKeepsParts DEF Inv
<1>3. Inv /\ StepParts => SerialIInv
  BY DEF Inv, StepParts, FrameParts, SerialIInv, TypeOK
<1> QED
  BY <1>1, <1>2, <1>3, InitParts, PTL DEF Spec

(* Between two operations no handler is left in the io_service that points *)
(* into the frame of one that has returned, also when a message ends by    *)
(* the inter-byte timeout, unless something was aborted or some message    *)
(* was written in parts.                                                   *)
THEOREM SerialSound == Spec => []SerialInv
<1>1. SerialIInv => SerialInv
  BY DEF SerialIInv, SerialInv, FrameHandlers, HandlersAt, ServiceEmptyBetweenOperations
<1> QED
  BY <1>1, SerialInvariance, PTL
=============================================================================
