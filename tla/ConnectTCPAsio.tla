--------------------------- MODULE ConnectTCPAsio ---------------------------
(***************************************************************************)
(* CConnectTCPAsio: the operations of a TCP connection, on the worker of   *)
(* AsioWorker and the handlers of IoService.                               *)
(***************************************************************************)
EXTENDS IoService

CONSTANT Resolutions    \* how many endpoints the resolver may return

ASSUME ResolutionAssumption == Resolutions \subseteq Nat

VARIABLES
    configured_as_server,
    tcpadr,             \* the address to listen on, which may be no address
    connected           \* _connected

tcpVars == <<configured_as_server, tcpadr, connected>>
vars == <<baseVars, ioVars, tcpVars>>

Init ==
    /\ BaseInit /\ IoInit
    /\ configured_as_server \in BOOLEAN
    /\ tcpadr \in {"address"} \cup {"malformed" : s \in {configured_as_server} \ {FALSE}}
    /\ connected = FALSE

-----------------------------------------------------------------------------
(* HandleConnect                                                           *)

ConnectNotNeeded ==
    /\ donow # NULL /\ Op[donow] = "CONNECT"
    /\ connected
    /\ Reply("handle", "0", "return")
    /\ UNCHANGED <<tcpVars, established, handlers, in_parts>>

ConnectAsServer ==
    /\ donow # NULL /\ Op[donow] = "CONNECT"
    /\ ~connected /\ configured_as_server
    /\ Reply("handle", "EPERM", "return")
    /\ UNCHANGED <<tcpVars, established, handlers, in_parts>>

(* Resolve and start the timer; an empty list of endpoints goes straight   *)
(* to the evaluation, with the error code nobody has set.                  *)
ConnectStart ==
    /\ donow # NULL /\ Op[donow] = "CONNECT"
    /\ ~connected /\ ~configured_as_server
    /\ \E n \in Resolutions :
          /\ local' = [local EXCEPT !.left = n]
          /\ Handle("handle", IF n = 0 THEN "poll" ELSE "start")
    /\ handlers' = handlers \cup Armed(donow)
    /\ UNCHANGED <<tcpVars, established, in_parts>>

ConnectNext ==
    /\ donow # NULL /\ Op[donow] = "CONNECT"
    /\ Handle("start", "run")
    /\ handlers' = handlers \cup {Io(donow, local.left)}
    /\ local' = [local EXCEPT !.left = @ - 1, !.res = "none"]
    /\ UNCHANGED <<tcpVars, established, in_parts>>

Failed(res) == res \in {"error", "eof"}      \* handler_ec is set

ConnectRan ==
    /\ wpc = "ran" /\ Op[donow] = "CONNECT"
    /\ \/ local.timeout /\ Reply("ran", "ETIMEDOUT", "cancel socket")
       \/ ~local.timeout /\ stopped /\ Reply("ran", "ECANCELED", "poll")
       \/ /\ ~local.timeout /\ ~stopped
          /\ Handle("ran", IF Failed(local.res) /\ local.left > 0
                           THEN "start" ELSE "poll")
          /\ UNCHANGED local
    /\ UNCHANGED <<tcpVars, established, handlers, in_parts>>

ConnectEval ==
    /\ wpc = "eval" /\ Op[donow] = "CONNECT"
    /\ IF Failed(local.res)
       THEN Reply("eval", "ECONNREFUSED", "return") /\ UNCHANGED connected
       ELSE Reply("eval", "0", "return") /\ connected' = TRUE
    /\ UNCHANGED <<configured_as_server, tcpadr, established, handlers, in_parts>>

-----------------------------------------------------------------------------
(* HandleDisconnect: shutdown and close fail or not, the socket is closed. *)

HandleDisconnect ==
    /\ donow # NULL /\ Op[donow] = "DISCONNECT"
    /\ IF connected
       THEN /\ \E errno \in {"0", "EIO"} : Reply("handle", errno, "return")
            /\ connected' = FALSE /\ established' = FALSE
            /\ handlers' = Cancelled(handlers, Ios)
       ELSE /\ Reply("handle", "0", "return")
            /\ UNCHANGED <<connected, established, handlers>>
    /\ UNCHANGED <<configured_as_server, tcpadr, in_parts>>

-----------------------------------------------------------------------------
(* HandleReceive                                                           *)

ReceiveStart ==
    /\ donow # NULL /\ Op[donow] = "RECEIVE"
    /\ Handle("handle", "start")
    /\ handlers' = handlers \cup Armed(donow)
    /\ UNCHANGED <<tcpVars, established, local, in_parts>>

(* One round of the loop: 25 ms of sleep, and a read of one byte. *)
ReceiveRound ==
    /\ donow # NULL /\ Op[donow] = "RECEIVE"
    /\ Handle("start", "run")
    /\ handlers' = handlers \cup {Io(donow, local.sleeps)}
    /\ local' = [local EXCEPT !.sleeps = @ - 1]
    /\ UNCHANGED <<tcpVars, established, in_parts>>

AnotherRound == local.sleeps # 0 /\ ~local.timeout /\ local.res # "ok"

ReceiveRan ==
    /\ wpc = "ran" /\ Op[donow] = "RECEIVE"
    /\ IF AnotherRound
       THEN Handle("ran", "start") /\ UNCHANGED local
       ELSE \/ local.timeout /\ Reply("ran", "ETIMEDOUT", "cancel")
            \/ /\ ~local.timeout /\ local.num = 0
               /\ Reply("ran", IF stopped THEN "ECANCELED" ELSE "EIO",
                        "cancel")
            \/ /\ ~local.timeout /\ local.num # 0
               /\ Handle("ran", "poll") /\ UNCHANGED local
    /\ UNCHANGED <<tcpVars, established, handlers, in_parts>>

ReceiveEval ==
    /\ wpc = "eval" /\ Op[donow] = "RECEIVE"
    /\ \/ /\ local.res = "error" \/ (stopped /\ local.res # "eof")
          /\ Reply("eval", "EIO", "return")
       \/ /\ local.res = "eof"
          /\ Reply("eval", IF stopped THEN "ECANCELED" ELSE "ENOTCONN",
                   "return")
       \/ /\ local.res = "none" /\ ~stopped
          /\ Reply("eval", "EIO", "return")
       \/ /\ local.res = "ok" /\ ~stopped
          /\ Handle("eval", "rest") /\ UNCHANGED local
    /\ UNCHANGED <<tcpVars, established, handlers, in_parts>>

(* The bytes already there are read without waiting, if there are any;     *)
(* available() throws on a socket the destructor has closed.               *)
ReceiveRest ==
    /\ wpc = "rest" /\ Op[donow] = "RECEIVE"
    /\ \/ established /\ Reply("rest", "0", "return")
       \/ ~established /\ Throw("rest") /\ UNCHANGED local
       \/ stopped /\ Reply("rest", "ECANCELED", "return")
       \/ /\ ~stopped
          /\ \E errno \in {"ENOTCONN", "EIO"} : Reply("rest", errno, "return")
    /\ UNCHANGED <<tcpVars, established, handlers, in_parts>>

-----------------------------------------------------------------------------
(* HandleSend                                                              *)

SendStart ==
    /\ donow # NULL /\ Op[donow] = "SEND"
    /\ Handle("handle", "run")
    /\ handlers' = handlers \cup Armed(donow) \cup {Io(donow, 0)}
    /\ UNCHANGED <<tcpVars, established, local, in_parts>>

SendRan ==
    /\ wpc = "ran" /\ Op[donow] = "SEND"
    /\ IF local.num = 0 \/ local.timeout
       THEN Reply("ran", "ETIMEDOUT", "cancel")
       ELSE Handle("ran", "poll") /\ UNCHANGED local
    /\ UNCHANGED <<tcpVars, established, handlers, in_parts>>

SendErrno(res) == CASE res = "ok" -> "0"
                    [] res = "eof" -> "ENOTCONN"
                    [] OTHER -> "EIO"      \* an error, or too few bytes

SendEval ==
    /\ wpc = "eval" /\ Op[donow] = "SEND"
    /\ Reply("eval", SendErrno(local.res), "return")
    /\ UNCHANGED <<tcpVars, established, handlers, in_parts>>

-----------------------------------------------------------------------------
(* HandleAccept: a synchronous accept, which AbortAll does not interrupt.  *)
(* from_string() throws, outside of the try, on what is no address.        *)

AcceptAtOnce ==
    /\ donow # NULL /\ Op[donow] = "ACCEPT"
    /\ connected \/ ~configured_as_server
    /\ Reply("handle", IF connected THEN "0" ELSE "EPERM", "return")
    /\ UNCHANGED <<tcpVars, established, handlers, in_parts>>

AcceptStart ==
    /\ donow # NULL /\ Op[donow] = "ACCEPT"
    /\ ~connected /\ configured_as_server
    /\ IF tcpadr = "address" THEN Handle("handle", "accept") ELSE Throw("handle")
    /\ UNCHANGED <<ioVars, tcpVars>>

(* A peer connects, or listening or accepting fails. *)
AcceptEnds ==
    /\ \/ /\ Reply("accept", "0", "return")
          /\ connected' = TRUE /\ established' = TRUE
       \/ /\ Reply("accept", "EIO", "return")
          /\ UNCHANGED <<connected, established>>
    /\ UNCHANGED <<configured_as_server, tcpadr, handlers, in_parts>>

(* The destructor closes a connected socket under the mutex. *)
Clear ==
    /\ ClearWork
    /\ handlers' = IF connected THEN Cancelled(handlers, Ios) ELSE handlers
    /\ established' = (established /\ ~connected)
    /\ UNCHANGED <<tcpVars, local, in_parts>>

Caller ==
    \/ /\ \/ \E c \in Cmds : PushWork(c)
          \/ PostWork \/ AbortAll \/ RequestTerm \/ WakeWorker \/ Join
       /\ UNCHANGED <<ioVars, tcpVars>>
    \/ Clear

(* The worker waits for the peer only in accept(). *)
Worker ==
    \/ (CheckTerm \/ SemWait \/ NothingToPop \/ Pop) /\ UNCHANGED <<ioVars, tcpVars>>
    \/ (RunOne \/ CancelTimerAndPoll \/ CleanUp) /\ UNCHANGED tcpVars
    \/ ConnectNotNeeded \/ ConnectAsServer \/ ConnectStart \/ ConnectNext
    \/ ConnectRan \/ ConnectEval
    \/ HandleDisconnect
    \/ ReceiveStart \/ ReceiveRound \/ ReceiveRan \/ ReceiveEval \/ ReceiveRest
    \/ SendStart \/ SendRan \/ SendEval
    \/ AcceptAtOnce \/ AcceptStart

Next ==
    Caller \/ Worker \/ AcceptEnds \/ (IoCompletes /\ UNCHANGED tcpVars)

Spec == Init /\ [][Next]_vars

CallerGoesOn ==
    \/ (PostWork \/ WakeWorker \/ Join) /\ UNCHANGED <<ioVars, tcpVars>>
    \/ Clear

(* The main thread finishes the call it is in; the worker runs; timers     *)
(* expire.  Nothing is assumed of the peer.                                *)
Fairness ==
    /\ WF_vars(CallerGoesOn)
    /\ WF_vars(Worker)

FairSpec == Spec /\ Fairness

-----------------------------------------------------------------------------
TypeOK ==
    /\ BaseTypeOK /\ IoTypeOK
    /\ configured_as_server \in BOOLEAN /\ connected \in BOOLEAN
    /\ tcpadr \in {"address", "malformed"}

(* Between two operations no handler is left that points into the frame of *)
(* one that has returned, unless an abort or a write in parts left one.    *)
TcpInv == TypeOK /\ ServiceEmptyBetweenOperations

(* A round is begun only as long as there is an endpoint, or time, left.   *)
RoundsLeft ==
    wpc = "start" => /\ Op[donow] = "CONNECT" => local.left > 0
                     /\ Op[donow] = "RECEIVE" => local.sleeps > 0

(* The inductive invariant. *)
TcpIInv == TypeOK /\ Frames /\ FrameHandlers /\ RoundsLeft

(* Nobody waits for ever for the worker, whatever the peer does: every     *)
(* operation accepted is answered without its help, and once the           *)
(* destructor has begun its join returns.  Only Accept may wait for a      *)
(* peer, and only the exceptions of Accept and of available() end the      *)
(* process.  (The calls are bounded: they are all answered in the end.)    *)
NothingHangs ==
    []<>(\/ wpc \in {"accept", "thrown"}
         \/ IF term_request THEN cpc = "gone" ELSE \A c \in pushed : answers[c] > 0)
=============================================================================
