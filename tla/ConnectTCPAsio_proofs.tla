------------------------ MODULE ConnectTCPAsio_proofs ------------------------
(* The TCP connection moves the queue and the worker as AsioWorker says,   *)
(* and so inherits what is proved there.                                   *)
EXTENDS ConnectTCPAsio, AsioWorker_proofs

LEMMA StepIsBaseStep == [Next]_vars => [BaseNext]_baseVars
<1> SUFFICES ASSUME [Next]_vars PROVE [BaseNext]_baseVars
  OBVIOUS
<1> USE DEF BaseNext, HandlerPcs, Errno
<1>1. ASSUME Caller PROVE BaseNext
  BY <1>1 DEF Caller, Clear
<1>2. ASSUME Worker PROVE BaseNext
  <2>1. CASE CheckTerm \/ SemWait \/ NothingToPop \/ Pop
    BY <2>1
  <2>2. CASE RunOne \/ CancelTimerAndPoll \/ CleanUp
    BY <2>2 DEF RunOne,  RunOneStopped, RunOneHandler, CancelTimerAndPoll,
                CleanUp
  <2>3. CASE \/ ConnectNotNeeded \/ ConnectAsServer \/ ConnectStart
             \/ ConnectNext \/ ConnectRan \/ ConnectEval
    BY <2>3 DEF ConnectNotNeeded, ConnectAsServer, ConnectStart, ConnectNext,
                ConnectRan, ConnectEval, Reply
  <2>4. CASE HandleDisconnect
    BY <2>4 DEF HandleDisconnect, Reply
  <2>5. CASE ReceiveStart \/ ReceiveRound \/ ReceiveRan
    BY <2>5 DEF ReceiveStart, ReceiveRound, ReceiveRan, Reply
  <2>6. CASE ReceiveEval \/ ReceiveRest
    BY <2>6 DEF ReceiveEval, ReceiveRest, Reply
  <2>7. CASE SendStart \/ SendRan \/ SendEval
    BY <2>7 DEF SendStart, SendRan, SendEval, SendErrno, Reply
  <2>8. CASE AcceptAtOnce \/ AcceptStart
    BY <2>8 DEF AcceptAtOnce, AcceptStart, Reply
  <2> QED
    BY <1>2, <2>1, <2>2, <2>3, <2>4, <2>5, <2>6, <2>7, <2>8 DEF Worker
<1>3. ASSUME AcceptEnds PROVE BaseNext
  BY <1>3 DEF AcceptEnds, Reply
<1>4. ASSUME IoCompletes PROVE BaseNext
  BY <1>4 DEF IoCompletes, RunOneHandler
<1>5. CASE UNCHANGED vars
  BY <1>5 DEF vars
<1> QED
  BY <1>1, <1>2, <1>3, <1>4, <1>5 DEF Next

(* Whatever connect, send, receive, accept and disconnect do, the worker   *)
(* and the queue keep to the steps that AsioWorker allows any transport.   *)
THEOREM ImplementsAsioWorker == Spec => BaseSpec
<1>1. Init => BaseInit
  BY DEF Init
<1>2. [Next]_vars => [BaseNext]_baseVars
  BY StepIsBaseStep
<1> QED
  BY <1>1, <1>2, PTL DEF Spec, BaseSpec

(* PushWork, the worker, AbortAll and the destructor in any order: the     *)
(* worker never sleeps on the semaphore while the list holds a command.    *)
THEOREM WorkerWoken == Spec => []EveryCommandCounted
<1>1. Inv => EveryCommandCounted
  BY DEF Inv
<1> QED
  BY <1>1, ImplementsAsioWorker, BaseInvariance, PTL

(* An AbortAll that finds an operation in progress is seen by it: the      *)
(* reset of the service cannot come after the stop.                        *)
THEOREM AbortSeen == Spec => []AbortNotLost
<1>1. Inv => AbortNotLost
  BY DEF Inv
<1> QED
  BY <1>1, ImplementsAsioWorker, BaseInvariance, PTL

-----------------------------------------------------------------------------
(* The handlers of the operations.  StepParts are the parts of TcpIInv     *)
(* that a step of the operations has to keep.                              *)
StepParts == FrameParts /\ connected \in BOOLEAN /\ RoundsLeft

LEMMA PartTypes ==
    StepParts => /\ established \in BOOLEAN /\ connected \in BOOLEAN
                 /\ handlers \subseteq HandlerSet /\ local \in LocalSet
  BY IoTypes DEF StepParts, FrameParts

(* An answer on a path that leaves the handlers alone.                     *)
LEMMA Returns ==
    ASSUME StepParts, NEW from \in {"handle", "eval", "rest", "accept"}, NEW errno,
           Reply(from, errno, "return"), UNCHANGED <<handlers, in_parts>>,
           established' \in BOOLEAN, connected' \in BOOLEAN
    PROVE  StepParts'
<1>1. wpc = from /\ UNCHANGED <<aborts, term_request>>
  BY DEF Reply, Answer
<1>2. Undisturbed' => handlers' = {}
  BY <1>1 DEF StepParts, FrameParts, FrameHandlers, HandlersAt, Undisturbed
<1>3. handlers' \subseteq HandlerSet /\ in_parts' \in BOOLEAN
  BY PartTypes, IoTypes DEF StepParts, FrameParts
<1>4. FrameParts' /\ wpc' = "answered"
  BY <1>2, <1>3, ReturnStep DEF StepParts, FrameParts
<1> QED
  BY <1>4 DEF StepParts, RoundsLeft

(* An answer from "ran", where an error or a timeout is found.             *)
LEMMA GivesUp ==
    ASSUME StepParts, NEW errno, NEW after, Reply("ran", errno, after),
           \/ after = "cancel"
           \/ after = "poll" /\ stopped
           \/ after = "cancel socket" /\ local.timeout,
           UNCHANGED <<handlers, established, connected, in_parts>>
    PROVE  StepParts'
<1>1. FrameParts' /\ wpc' = "answered"
  BY GivesUpStep DEF StepParts
<1> QED
  BY <1>1 DEF StepParts, RoundsLeft

(* A step to the next place that leaves the handlers and variables alone.  *)
LEMMA GoesOn ==
    ASSUME StepParts, NEW from, NEW to, Handle(from, to), UNCHANGED <<ioVars, connected>>,
           to \in HandlerPcs \ {"handle"},
           Undisturbed /\ HandlersAt(from) => HandlersAt(to),
           to = "start" => /\ Op[donow] = "CONNECT" => local.left > 0
                           /\ Op[donow] = "RECEIVE" => local.sleeps > 0
    PROVE  StepParts'
<1>1. UNCHANGED <<established, handlers, local, in_parts, donow>> /\ established' \in BOOLEAN
  BY PartTypes, HandleStep DEF ioVars
<1>2. FrameParts' /\ wpc' = to
  BY <1>1, GoesOnStep DEF StepParts
<1> QED
  BY <1>1, <1>2 DEF StepParts, RoundsLeft

(* A step that starts what the operation awaits.                           *)
LEMMA Starts ==
    ASSUME StepParts, NEW from \in {"handle", "start"}, NEW to \in {"start", "run", "poll"},
           Handle(from, to), UNCHANGED <<established, connected, in_parts>>,
           handlers' \subseteq HandlerSet, local' \in LocalSet, local'.timeout = local.timeout,
           Undisturbed => IF to = "run" THEN TimerAndIo' ELSE TimerOnly',
           to = "start" => /\ Op[donow] = "CONNECT" => local'.left > 0
                           /\ Op[donow] = "RECEIVE" => local'.sleeps > 0
    PROVE  StepParts'
<1>1. FrameParts' /\ wpc' = to /\ UNCHANGED donow
  BY StartsStep, HandleStep DEF StepParts
<1> QED
  BY <1>1 DEF StepParts, RoundsLeft

(* An exception ends the process: no operation follows.                    *)
LEMMA Throws ==
    ASSUME StepParts, NEW from, Throw(from), UNCHANGED <<ioVars, connected>>
    PROVE  StepParts'
<1>1. /\ wpc' = "thrown" /\ cpc' = "thrown"
      /\ UNCHANGED <<stopped, aborts, term_request, donow>>
      /\ UNCHANGED <<established, handlers, local, in_parts, connected>>
  BY DEF Throw, historyVars, ioVars
<1>2. IoTypeOK'
  BY <1>1, IoTypes, IoTypesNext DEF StepParts, FrameParts
<1>3. Frames' /\ FrameHandlers'
  BY <1>1 DEF StepParts, FrameParts, Frames, FrameHandlers, Undisturbed, HandlersAt
<1> QED
  BY <1>1, <1>2, <1>3 DEF StepParts, FrameParts, RoundsLeft

LEMMA ConnectStep ==
    ASSUME StepParts, donow \in Cmds,
           \/ ConnectNotNeeded \/ ConnectAsServer \/ ConnectStart \/ ConnectNext
           \/ ConnectRan \/ ConnectEval
    PROVE  StepParts'
<1>0. /\ established \in BOOLEAN /\ handlers \subseteq HandlerSet /\ local \in LocalSet
      /\ connected \in BOOLEAN
  BY PartTypes
<1>1. CASE ConnectNotNeeded \/ ConnectAsServer
  BY <1>0, <1>1, Returns DEF ConnectNotNeeded, ConnectAsServer, tcpVars
<1>2. CASE ConnectStart
  <2>1. PICK n \in Resolutions : /\ local' = [local EXCEPT !.left = n]
                                 /\ Handle("handle", IF n = 0 THEN "poll" ELSE "start")
    BY <1>2 DEF ConnectStart, tcpVars
  <2>2. /\ n \in Nat /\ local' \in LocalSet /\ local'.timeout = local.timeout
        /\ local'.left = n
    BY <1>0, <2>1, ResolutionAssumption DEF LocalSet
  <2>3. handlers' = handlers \cup {Timer(donow)}
    BY <1>2 DEF ConnectStart, Armed, tcpVars
  <2>4. handlers' \subseteq HandlerSet
    BY <1>0, <2>3, StartedTypes
  <2>5. Undisturbed => TimerOnly'
    <3>1. wpc = "handle" /\ UNCHANGED donow
      BY <2>1, HandleStep
    <3> QED
      BY <2>3, <3>1 DEF StepParts, FrameParts, FrameHandlers, HandlersAt, TimerOnly
  <2>6. UNCHANGED <<established, connected, in_parts>> /\ Op[donow] = "CONNECT"
    BY <1>2 DEF ConnectStart, tcpVars
  <2>7. CASE n = 0
    <3>1. Handle("handle", "poll")
      BY <2>1, <2>7
    <3> QED
      BY <2>2, <2>4, <2>5, <2>6, <3>1, Starts
  <2>8. CASE n # 0
    <3>1. Handle("handle", "start") /\ local'.left > 0
      BY <2>1, <2>2, <2>8
    <3> QED
      BY <2>2, <2>4, <2>5, <2>6, <3>1, Starts
  <2> QED
    BY <2>7, <2>8
<1>3. CASE ConnectNext
  <2>1. /\ Op[donow] = "CONNECT" /\ Handle("start", "run")
        /\ handlers' = handlers \cup {Io(donow, local.left)}
        /\ local' = [local EXCEPT !.left = @ - 1, !.res = "none"]
        /\ UNCHANGED <<established, connected, in_parts>>
    BY <1>3 DEF ConnectNext, tcpVars
  <2>2. wpc = "start" /\ UNCHANGED donow
    BY <2>1, HandleStep
  <2>3. local.left > 0 /\ local.left \in Nat
    BY <1>0, <2>1, <2>2 DEF StepParts, RoundsLeft, LocalSet
  <2>4. local' \in LocalSet /\ local'.timeout = local.timeout
    <3>1. local.left - 1 \in Nat
      BY <2>3
    <3> QED
      BY <1>0, <2>1, <3>1 DEF LocalSet
  <2>5. handlers' \subseteq HandlerSet
    BY <1>0, <2>1, <2>3, StartedTypes
  <2>6. Undisturbed => TimerAndIo'
    <3>1. Undisturbed => handlers' \subseteq {Timer(donow), Io(donow, local.left)}
      BY <2>1, <2>2 DEF StepParts, FrameParts, FrameHandlers, HandlersAt, TimerOnly
    <3> QED
      BY <2>2, <2>3, <3>1, StartsFrame
  <2> QED
    BY <2>1, <2>4, <2>5, <2>6, Starts
<1>4. CASE ConnectRan
  <2>0. UNCHANGED <<handlers, established, connected, in_parts>>
    BY <1>4 DEF ConnectRan, tcpVars
  <2>1. CASE Reply("ran", "ETIMEDOUT", "cancel socket") /\ local.timeout
    BY <2>0, <2>1, GivesUp
  <2>2. CASE Reply("ran", "ECANCELED", "poll") /\ stopped
    BY <1>4, <2>2, GivesUp DEF ConnectRan, tcpVars
  <2>3. CASE /\ ~local.timeout /\ UNCHANGED local
             /\ Handle("ran", IF Failed(local.res) /\ local.left > 0 THEN "start" ELSE "poll")
    <3>1. UNCHANGED <<ioVars, connected>> /\ Op[donow] = "CONNECT"
      BY <1>4, <2>3 DEF ConnectRan, ioVars, tcpVars
    <3>2. /\ HandlersAt("ran") => HandlersAt("start")
          /\ HandlersAt("ran") => HandlersAt("poll")
      BY <2>3 DEF HandlersAt
    <3>3. CASE Handle("ran", "start") /\ local.left > 0
      BY <3>1, <3>2, <3>3, GoesOn DEF HandlerPcs
    <3>4. CASE Handle("ran", "poll")
      BY <3>1, <3>2, <3>4, GoesOn DEF HandlerPcs
    <3> QED
      BY <2>3, <3>3, <3>4
  <2> QED
    BY <1>4, <2>1, <2>2, <2>3 DEF ConnectRan, tcpVars
<1>5. CASE ConnectEval
  BY <1>0, <1>5, Returns DEF ConnectEval, tcpVars
<1> QED
  BY <1>1, <1>2, <1>3, <1>4, <1>5

LEMMA DisconnectStep == ASSUME StepParts, HandleDisconnect PROVE StepParts'
<1>0. /\ established \in BOOLEAN /\ handlers \subseteq HandlerSet /\ connected \in BOOLEAN
  BY PartTypes
<1>1. CASE connected
  <2>1. PICK errno \in {"0", "EIO"} : Reply("handle", errno, "return")
    BY <1>1 DEF HandleDisconnect
  <2>2. /\ connected' = FALSE /\ established' = FALSE
        /\ handlers' = Cancelled(handlers, Ios) /\ UNCHANGED in_parts
    BY <1>1 DEF HandleDisconnect
  <2>3. handlers' \subseteq HandlerSet
    BY <1>0, <2>2, CancelledTypes
  <2>4. Undisturbed => handlers = {}
    BY <2>1 DEF StepParts, FrameParts, FrameHandlers, HandlersAt, Reply, Answer
  <2>5. Undisturbed' => handlers' = {}
    BY <2>1, <2>2, <2>4 DEF Cancelled, Undisturbed, Reply, Answer
  <2>6. FrameParts' /\ wpc' = "answered"
    <3>1. in_parts' \in BOOLEAN
      BY <2>2, IoTypes DEF StepParts, FrameParts
    <3> QED
      BY <2>1, <2>2, <2>3, <2>5, <3>1, ReturnStep DEF StepParts, FrameParts
  <2> QED
    BY <2>2, <2>6 DEF StepParts, RoundsLeft
<1>2. CASE ~connected
  BY <1>0, <1>2, Returns DEF HandleDisconnect, tcpVars
<1> QED
  BY <1>0, <1>1, <1>2

LEMMA ReceiveStep ==
    ASSUME StepParts, donow \in Cmds,
           ReceiveStart \/ ReceiveRound \/ ReceiveRan \/ ReceiveEval \/ ReceiveRest
    PROVE  StepParts'
<1>0. /\ established \in BOOLEAN /\ handlers \subseteq HandlerSet /\ local \in LocalSet
      /\ connected \in BOOLEAN
  BY PartTypes
<1>1. CASE ReceiveStart
  <2>1. /\ Handle("handle", "start") /\ Op[donow] = "RECEIVE"
        /\ handlers' = handlers \cup {Timer(donow)}
        /\ UNCHANGED <<connected, established, local, in_parts>>
    BY <1>1 DEF ReceiveStart, Armed, tcpVars
  <2>2. wpc = "handle" /\ UNCHANGED donow
    BY <2>1, HandleStep
  <2>3. local.sleeps > 0
    BY <2>2, OpAssumption DEF StepParts, FrameParts, Frames, Local0
  <2>4. handlers' \subseteq HandlerSet
    BY <1>0, <2>1, StartedTypes
  <2>5. Undisturbed => TimerOnly'
    BY <2>1, <2>2 DEF StepParts, FrameParts, FrameHandlers, HandlersAt, TimerOnly
  <2> QED
    BY <1>0, <2>1, <2>3, <2>4, <2>5, Starts
<1>2. CASE ReceiveRound
  <2>1. /\ Op[donow] = "RECEIVE" /\ Handle("start", "run")
        /\ handlers' = handlers \cup {Io(donow, local.sleeps)}
        /\ local' = [local EXCEPT !.sleeps = @ - 1]
        /\ UNCHANGED <<established, connected, in_parts>>
    BY <1>2 DEF ReceiveRound, tcpVars
  <2>2. wpc = "start" /\ UNCHANGED donow
    BY <2>1, HandleStep
  <2>3. local.sleeps > 0 /\ local.sleeps \in 0..MaxSleep /\ MaxSleep \in Nat
    BY <1>0, <2>1, <2>2, OpAssumption DEF StepParts, RoundsLeft, LocalSet
  <2>4. local' \in LocalSet /\ local'.timeout = local.timeout
    <3>1. local.sleeps - 1 \in 0..MaxSleep
      BY <2>3
    <3> QED
      BY <1>0, <2>1, <3>1 DEF LocalSet
  <2>5. handlers' \subseteq HandlerSet
    <3>1. local.sleeps \in Nat
      BY <2>3
    <3> QED
      BY <1>0, <2>1, <3>1, StartedTypes
  <2>6. Undisturbed => TimerAndIo'
    <3>1. Undisturbed => handlers' \subseteq {Timer(donow), Io(donow, local.sleeps)}
      BY <2>1, <2>2 DEF StepParts, FrameParts, FrameHandlers, HandlersAt, TimerOnly
    <3>2. local.sleeps \in Nat
      BY <2>3
    <3> QED
      BY <2>2, <3>1, <3>2, StartsFrame
  <2> QED
    BY <2>1, <2>4, <2>5, <2>6, Starts
<1>3. CASE ReceiveRan
  <2>0. Op[donow] = "RECEIVE" /\ UNCHANGED <<connected, established, handlers, in_parts>>
    BY <1>3 DEF ReceiveRan, tcpVars
  <2>1. CASE AnotherRound
    <3>1. Handle("ran", "start") /\ UNCHANGED local
      BY <1>3, <2>1 DEF ReceiveRan, tcpVars
    <3>2. HandlersAt("ran") => HandlersAt("start")
      BY <2>1 DEF HandlersAt, AnotherRound
    <3>3. local.sleeps > 0
      <4>1. local.sleeps \in 0..MaxSleep /\ MaxSleep \in Nat
        BY <1>0, OpAssumption DEF LocalSet
      <4>2. local.sleeps # 0
        BY <2>1 DEF AnotherRound
      <4> QED
        BY <4>1, <4>2
    <3>4. UNCHANGED <<ioVars, connected>>
      BY <2>0, <3>1 DEF ioVars
    <3> QED
      BY <2>0, <3>1, <3>2, <3>3, <3>4, GoesOn DEF HandlerPcs
  <2>2. ASSUME NEW errno, Reply("ran", errno, "cancel") PROVE StepParts'
    BY <2>0, <2>2, GivesUp
  <2>3. CASE ~local.timeout /\ Handle("ran", "poll") /\ UNCHANGED local
    <3>1. UNCHANGED <<ioVars, connected>>
      BY <2>0, <2>3 DEF ioVars
    <3>2. HandlersAt("ran") => HandlersAt("poll")
      BY <2>3 DEF HandlersAt
    <3> QED
      BY <2>3, <3>1, <3>2, GoesOn DEF HandlerPcs
  <2>4. \/ AnotherRound
        \/ \E errno : Reply("ran", errno, "cancel")
        \/ ~local.timeout /\ Handle("ran", "poll") /\ UNCHANGED local
    BY <1>3 DEF ReceiveRan, tcpVars
  <2> QED
    BY <2>1, <2>2, <2>3, <2>4
<1>4. CASE ReceiveEval
  <2>0. UNCHANGED <<connected, established, handlers, in_parts>>
    BY <1>4 DEF ReceiveEval, tcpVars
  <2>1. ASSUME NEW errno, Reply("eval", errno, "return") PROVE StepParts'
    BY <1>0, <2>0, <2>1, Returns
  <2>2. CASE Handle("eval", "rest") /\ UNCHANGED local
    <3>1. UNCHANGED <<ioVars, connected>>
      BY <2>0, <2>2 DEF ioVars
    <3>2. HandlersAt("eval") => HandlersAt("rest")
      BY DEF HandlersAt
    <3> QED
      BY <2>2, <3>1, <3>2, GoesOn DEF HandlerPcs
  <2>3. \/ \E errno : Reply("eval", errno, "return")
        \/ Handle("eval", "rest") /\ UNCHANGED local
    BY <1>4 DEF ReceiveEval, tcpVars
  <2> QED
    BY <2>1, <2>2, <2>3
<1>5. CASE ReceiveRest
  <2>1. /\ \/ \E errno : Reply("rest", errno, "return")
           \/ Throw("rest") /\ UNCHANGED local
        /\ UNCHANGED <<connected, established, handlers, in_parts>>
    BY <1>5 DEF ReceiveRest, tcpVars
  <2>2. ASSUME NEW errno, Reply("rest", errno, "return") PROVE StepParts'
    BY <1>0, <2>1, <2>2, Returns
  <2>3. CASE Throw("rest") /\ UNCHANGED local
    BY <2>1, <2>3, Throws DEF ioVars
  <2> QED
    BY <2>1, <2>2, <2>3
<1> QED
  BY <1>1, <1>2, <1>3, <1>4, <1>5

LEMMA SendStep ==
    ASSUME StepParts, donow \in Cmds, SendStart \/ SendRan \/ SendEval
    PROVE  StepParts'
<1>0. /\ established \in BOOLEAN /\ handlers \subseteq HandlerSet /\ local \in LocalSet
      /\ connected \in BOOLEAN
  BY PartTypes
<1>1. CASE SendStart
  <2>1. /\ Handle("handle", "run")
        /\ handlers' = handlers \cup {Timer(donow)} \cup {Io(donow, 0)}
        /\ UNCHANGED <<connected, established, local, in_parts>>
    BY <1>1 DEF SendStart, Armed, tcpVars
  <2>2. wpc = "handle" /\ UNCHANGED donow
    BY <2>1, HandleStep
  <2>3. handlers' \subseteq HandlerSet
    BY <1>0, <2>1, StartedTypes
  <2>4. Undisturbed => TimerAndIo'
    <3>1. Undisturbed => handlers' \subseteq {Timer(donow), Io(donow, 0)}
      BY <2>1, <2>2 DEF StepParts, FrameParts, FrameHandlers, HandlersAt
    <3> QED
      BY <2>2, <3>1, StartsFrame
  <2> QED
    BY <1>0, <2>1, <2>3, <2>4, Starts
<1>2. CASE SendRan
  <2>0. UNCHANGED <<connected, established, handlers, in_parts>>
    BY <1>2 DEF SendRan, tcpVars
  <2>1. CASE Reply("ran", "ETIMEDOUT", "cancel")
    BY <2>0, <2>1, GivesUp
  <2>2. CASE ~local.timeout /\ Handle("ran", "poll") /\ UNCHANGED local
    <3>1. UNCHANGED <<ioVars, connected>>
      BY <2>0, <2>2 DEF ioVars
    <3>2. HandlersAt("ran") => HandlersAt("poll")
      BY <2>2 DEF HandlersAt
    <3> QED
      BY <2>2, <3>1, <3>2, GoesOn DEF HandlerPcs
  <2> QED
    BY <1>2, <2>1, <2>2 DEF SendRan, tcpVars
<1>3. CASE SendEval
  <2>1. /\ Reply("eval", SendErrno(local.res), "return")
        /\ UNCHANGED <<connected, established, handlers, in_parts>>
    BY <1>3 DEF SendEval, tcpVars
  <2> QED
    BY <1>0, <2>1, Returns
<1> QED
  BY <1>1, <1>2, <1>3

LEMMA AcceptStep ==
    ASSUME StepParts, AcceptAtOnce \/ AcceptStart \/ AcceptEnds
    PROVE  StepParts'
<1>0. established \in BOOLEAN /\ connected \in BOOLEAN
  BY PartTypes
<1>1. CASE AcceptAtOnce
  <2>1. /\ \E errno : Reply("handle", errno, "return")
        /\ UNCHANGED <<connected, established, handlers, in_parts>>
    BY <1>1 DEF AcceptAtOnce, tcpVars
  <2> QED
    BY <1>0, <2>1, Returns
<1>2. CASE AcceptStart
  <2>1. /\ Handle("handle", "accept") \/ Throw("handle")
        /\ UNCHANGED <<ioVars, connected>>
    BY <1>2 DEF AcceptStart, tcpVars
  <2>2. HandlersAt("handle") => HandlersAt("accept")
    BY DEF HandlersAt
  <2> QED
    BY <2>1, <2>2, GoesOn, Throws DEF HandlerPcs
<1>3. CASE AcceptEnds
  <2>1. /\ \E errno : Reply("accept", errno, "return")
        /\ connected' \in BOOLEAN /\ established' \in BOOLEAN
        /\ UNCHANGED <<handlers, in_parts>>
    BY <1>0, <1>3 DEF AcceptEnds, tcpVars
  <2> QED
    BY <2>1, Returns
<1> QED
  BY <1>1, <1>2, <1>3

LEMMA ClearStep == ASSUME StepParts, Clear PROVE StepParts'
<1>1. /\ ClearWork /\ UNCHANGED <<local, connected, in_parts>>
      /\ handlers' \in {handlers, Cancelled(handlers, Ios)} /\ established' \in BOOLEAN
  BY PartTypes DEF Clear, tcpVars
<1>2. FrameParts' /\ UNCHANGED <<wpc, donow>>
  BY <1>1, DestroyStep DEF StepParts
<1> QED
  BY <1>1, <1>2 DEF StepParts, RoundsLeft

LEMMA StepKeepsParts ==
    ASSUME BaseTypeOK, HoldsCommand, StepParts, [Next]_vars
    PROVE  StepParts'
<1>1. CASE OtherSteps /\ UNCHANGED <<ioVars, tcpVars>>
  <2>1. FrameParts' /\ UNCHANGED <<local, connected>>
    BY <1>1, OthersStep DEF StepParts, FrameParts, ioVars, tcpVars
  <2>2. RoundsLeft'
    BY <1>1, <2>1, OthersStep DEF StepParts, FrameParts, RoundsLeft
  <2> QED
    BY <2>1, <2>2 DEF StepParts
<1>2. CASE (RunOne \/ IoCompletes \/ CancelTimerAndPoll \/ CleanUp) /\ UNCHANGED tcpVars
  BY <1>2, ServiceStep DEF StepParts, RoundsLeft, tcpVars
<1>5. ASSUME NEW from \in HandlerPcs, wpc = from PROVE donow \in Cmds
  BY <1>5 DEF HoldsCommand
<1>6. CASE \/ ConnectNotNeeded \/ ConnectAsServer \/ ConnectStart \/ ConnectNext
           \/ ConnectRan \/ ConnectEval
  <2>1. donow \in Cmds
    <3>1. \E from \in HandlerPcs : wpc = from
      BY <1>6 DEF ConnectNotNeeded, ConnectAsServer, ConnectStart, ConnectNext, ConnectRan,
                  ConnectEval, Reply, Answer, Throw, Handle, HandlerPcs
    <3> QED
      BY <1>5, <3>1
  <2> QED
    BY <1>6, <2>1, ConnectStep
<1>7. CASE ReceiveStart \/ ReceiveRound \/ ReceiveRan \/ ReceiveEval \/ ReceiveRest
  <2>1. donow \in Cmds
    <3>1. \E from \in HandlerPcs : wpc = from
      BY <1>7 DEF ReceiveStart, ReceiveRound, ReceiveRan, ReceiveEval, ReceiveRest, Reply,
                  Answer, Throw, Handle, HandlerPcs
    <3> QED
      BY <1>5, <3>1
  <2> QED
    BY <1>7, <2>1, ReceiveStep
<1>8. CASE SendStart \/ SendRan \/ SendEval
  <2>1. donow \in Cmds
    <3>1. \E from \in HandlerPcs : wpc = from
      BY <1>8 DEF SendStart, SendRan, SendEval, Reply, Answer, Handle, HandlerPcs
    <3> QED
      BY <1>5, <3>1
  <2> QED
    BY <1>8, <2>1, SendStep
<1>9. CASE HandleDisconnect
  BY <1>9, DisconnectStep
<1>10. CASE AcceptAtOnce \/ AcceptStart \/ AcceptEnds
  BY <1>10, AcceptStep
<1>11. CASE Clear
  BY <1>11, ClearStep
<1>12. CASE UNCHANGED vars
  <2>1. UNCHANGED <<baseVars, ioVars, connected, local, in_parts>>
    BY <1>12 DEF vars, tcpVars, ioVars
  <2>2. FrameParts' /\ UNCHANGED <<wpc, donow>>
    BY <2>1, IdleStep DEF StepParts
  <2> QED
    BY <2>1, <2>2 DEF StepParts, RoundsLeft
<1> QED
  BY <1>1, <1>2, <1>6, <1>7, <1>8, <1>9, <1>10, <1>11, <1>12
  DEF Next, Caller, Worker, OtherSteps

LEMMA InitParts == Init => StepParts
  BY InitFrame DEF Init, BaseInit, StepParts, RoundsLeft

(* The inductive invariant of the TCP connection.                          *)
THEOREM TcpInvariance == Spec => []TcpIInv
<1>1. Spec => []Inv
  BY ImplementsAsioWorker, BaseInvariance, PTL
<1>2. Inv /\ StepParts /\ [Next]_vars => StepParts'
  BY StepKeepsParts DEF Inv
<1>3. Spec => []StepParts
  BY <1>1, <1>2, InitParts, PTL DEF Spec
<1> DEFINE Configured == configured_as_server \in BOOLEAN /\ tcpadr \in {"address", "malformed"}
<1>4. Configured /\ [Next]_vars => Configured'
  <2> SUFFICES ASSUME [Next]_vars PROVE UNCHANGED <<configured_as_server, tcpadr>>
    OBVIOUS
  <2> QED
    BY DEF Next, Caller, Worker, Clear, ConnectNotNeeded, ConnectAsServer, ConnectStart,
           ConnectNext, ConnectRan, ConnectEval, HandleDisconnect, ReceiveStart, ReceiveRound,
           ReceiveRan, ReceiveEval, ReceiveRest, SendStart, SendRan, SendEval, AcceptAtOnce,
           AcceptStart, AcceptEnds, tcpVars, vars
<1>5. Init => Configured
  BY DEF Init
<1>6. Spec => []Configured
  BY <1>4, <1>5, PTL DEF Spec
<1>7. Inv /\ StepParts /\ Configured => TcpIInv
  BY DEF Inv, StepParts, FrameParts, TcpIInv, TypeOK
<1> QED
  BY <1>1, <1>3, <1>6, <1>7, PTL

(* Between two operations no handler is left in the io_service that points *)
(* into the frame of one that has returned, however the timers, the peer   *)
(* and the calls interleave, unless something was aborted or some message  *)
(* was written in parts.                                                   *)
THEOREM TcpSound == Spec => []TcpInv
<1>1. TcpIInv => TcpInv
  BY DEF TcpIInv, TcpInv, FrameHandlers, HandlersAt, ServiceEmptyBetweenOperations
<1> QED
  BY <1>1, TcpInvariance, PTL
=============================================================================
