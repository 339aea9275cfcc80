------------------------- MODULE ConnectSerialAsio -------------------------
(***************************************************************************)
(* CConnectSerialAsio: the operations of a serial port, on the worker of   *)
(* AsioWorker and the handlers of IoService.  `established` is             *)
(* port->is_open().  Opening is synchronous; a message ends when no byte   *)
(* follows within the inter-byte timeout.  Accept is Connect.              *)
(***************************************************************************)
EXTENDS IoService

VARIABLE received       \* HandleReceive has got the first byte

vars == <<baseVars, ioVars, received>>

Init == BaseInit /\ IoInit /\ received = FALSE

Doing(op) == donow # NULL /\ Op[donow] = op

-----------------------------------------------------------------------------
(* HandleConnect: open the port, ...                                       *)

ConnectOpen ==
    /\ Doing("CONNECT")
    /\ \/ established /\ Reply("handle", "0", "return") /\ UNCHANGED established
       \/ ~established /\ Reply("handle", "EIO", "return") /\ UNCHANGED established
       \/ /\ ~established /\ established' = TRUE
          /\ Handle("handle", "start") /\ UNCHANGED local
    /\ UNCHANGED <<handlers, in_parts, received>>

OpenAfterFailure_Kept == established      \* mutant: the port is not closed

OpenAfterFailure == FALSE

(* ... then set its options, which fails on a port the destructor has      *)
(* closed in the meantime, and may fail on an open one.                    *)
ConnectOptions ==
    /\ Doing("CONNECT")
    /\ \/ established /\ Reply("start", "0", "return") /\ UNCHANGED established
       \/ Reply("start", "EIO", "return") /\ established' = OpenAfterFailure
    /\ UNCHANGED <<handlers, in_parts, received>>

(* HandleDisconnect: cancel and close fail or not, the port is closed. *)
HandleDisconnect ==
    /\ Doing("DISCONNECT")
    /\ IF established
       THEN /\ \E errno \in {"0", "EIO"} : Reply("handle", errno, "return")
            /\ established' = FALSE
            /\ handlers' = Cancelled(handlers, Ios)
       ELSE Reply("handle", "0", "return") /\ UNCHANGED <<established, handlers>>
    /\ UNCHANGED <<in_parts, received>>

-----------------------------------------------------------------------------
(* HandleReceive: the first byte                                           *)

ReceiveStart ==
    /\ Doing("RECEIVE") /\ Handle("handle", "start")
    /\ handlers' = handlers \cup Armed(donow)
    /\ UNCHANGED <<established, local, in_parts, received>>

ReceiveRound ==
    /\ Doing("RECEIVE") /\ ~received /\ Handle("start", "run")
    /\ handlers' = handlers \cup {Io(donow, local.sleeps)}
    /\ local' = [local EXCEPT !.sleeps = @ - 1]
    /\ UNCHANGED <<established, in_parts, received>>

AnotherRound == local.sleeps # 0 /\ ~local.timeout /\ local.res # "ok"

ReceiveRan ==
    /\ wpc = "ran" /\ Op[donow] = "RECEIVE" /\ ~received
    /\ IF AnotherRound THEN Handle("ran", "start") /\ UNCHANGED local
       ELSE \/ local.timeout /\ Reply("ran", "ETIMEDOUT", "cancel")
            \/ /\ ~local.timeout /\ local.num = 0
               /\ Reply("ran", "EIO", "cancel")
            \/ /\ ~local.timeout /\ local.num # 0
               /\ Handle("ran", "poll") /\ UNCHANGED local
    /\ UNCHANGED <<established, handlers, in_parts, received>>

Failed == local.res \in {"error", "eof"}       \* *read_handler.ec

(* Without an error the first byte is taken as read. *)
ReceiveEval ==
    /\ wpc = "eval" /\ Op[donow] = "RECEIVE" /\ ~received
    /\ IF Failed
       THEN /\ Reply("eval", IF local.res = "eof" THEN "ENOTCONN" ELSE "EIO",
                     "return")
            /\ UNCHANGED received
       ELSE Handle("eval", "rest") /\ received' = TRUE /\ UNCHANGED local
    /\ UNCHANGED <<established, handlers, in_parts>>

-----------------------------------------------------------------------------
(* HandleReceive: the rest of the message, a byte at a time                *)

RestStart ==
    /\ Doing("RECEIVE") /\ Handle("rest", "run")
    /\ handlers' = Cancelled(handlers, OwnTimers) \cup Armed(donow)
                   \cup {Io(donow, 0)}
    /\ local' = [local EXCEPT !.timeout = FALSE, !.res = "none"]
    /\ UNCHANGED <<established, in_parts, received>>

(* The inter-byte timeout, and an abort, complete the message. *)
RestEnds ==
    /\ received /\ (local.num = 0 \/ local.timeout)
    /\ Reply("ran", "0", "return")
    /\ LET hs == Cancelled(handlers, Ios \cup OwnTimers)
       IN \E f \in Polls(hs) : Remaining(f, hs)
    /\ UNCHANGED <<established, received>>

RestRan ==
    /\ received /\ local.num # 0 /\ ~local.timeout
    /\ Handle("ran", "poll")
    /\ UNCHANGED <<ioVars, received>>

(* An error is reported, eof ends the message, another byte may follow. *)
RestEval ==
    /\ received
    /\ IF Failed
       THEN Reply("eval", IF local.res = "eof" THEN "0" ELSE "EIO", "return")
       ELSE Handle("eval", "rest") /\ UNCHANGED local
    /\ UNCHANGED <<established, handlers, in_parts, received>>

-----------------------------------------------------------------------------
(* HandleSend                                                              *)

SendStart ==
    /\ Doing("SEND") /\ Handle("handle", "run")
    /\ handlers' = handlers \cup Armed(donow) \cup {Io(donow, 0)}
    /\ UNCHANGED <<established, local, in_parts, received>>

SendRan ==
    /\ wpc = "ran" /\ Op[donow] = "SEND"
    /\ IF local.num = 0 \/ local.timeout
       THEN Reply("ran", "ETIMEDOUT", "cancel")
       ELSE Handle("ran", "poll") /\ UNCHANGED local
    /\ UNCHANGED <<established, handlers, in_parts, received>>

(* Without a result the number of bytes that is compared is uninitialised. *)
SendErrnos(res) == CASE res = "ok" -> {"0"}
                     [] res = "eof" -> {"ENOTCONN"}
                     [] res = "error" -> {"EIO"}
                     [] OTHER -> {"0", "EIO"}

SendEval ==
    /\ wpc = "eval" /\ Op[donow] = "SEND"
    /\ \E errno \in SendErrnos(local.res) : Reply("eval", errno, "return")
    /\ UNCHANGED <<established, handlers, in_parts, received>>

-----------------------------------------------------------------------------
Finish == CleanUp /\ received' = FALSE

(* The destructor closes the port under the mutex. *)
Clear ==
    /\ ClearWork
    /\ handlers' = IF established THEN Cancelled(handlers, Ios) ELSE handlers
    /\ established' = FALSE
    /\ UNCHANGED <<local, in_parts, received>>

PushOrPost == (\E c \in Cmds : PushWork(c)) \/ PostWork

Destructor == RequestTerm \/ WakeWorker \/ Join

Main == CheckTerm \/ SemWait \/ NothingToPop \/ Pop

Worker ==
    \/ Main /\ UNCHANGED <<ioVars, received>>
    \/ (RunOne \/ CancelTimerAndPoll) /\ UNCHANGED received
    \/ ConnectOpen \/ ConnectOptions \/ HandleDisconnect
    \/ ReceiveStart \/ ReceiveRound \/ ReceiveRan \/ ReceiveEval
    \/ RestStart \/ RestRan \/ RestEnds \/ RestEval
    \/ SendStart \/ SendRan \/ SendEval
    \/ Finish

Next ==
    \/ (PushOrPost \/ AbortAll \/ Destructor) /\ UNCHANGED <<ioVars, received>>
    \/ Clear \/ Worker
    \/ IoCompletes /\ UNCHANGED received

Spec == Init /\ [][Next]_vars

CallerGoesOn ==
    \/ (PostWork \/ WakeWorker \/ Join) /\ UNCHANGED <<ioVars, received>>
    \/ Clear

(* As for TCP: nothing is assumed of the other end of the line. *)
Fairness ==
    /\ WF_vars(CallerGoesOn)
    /\ WF_vars(Worker)

FairSpec == Spec /\ Fairness

-----------------------------------------------------------------------------
TypeOK == BaseTypeOK /\ IoTypeOK /\ received \in BOOLEAN

(* Between two operations no handler is left that points into the frame of *)
(* one that has returned, unless an abort or a write in parts left one.    *)
SerialInv == TypeOK /\ ServiceEmptyBetweenOperations

(* A round is begun only as long as there is time left, and nothing waits  *)
(* in the service while the port is set up.                                *)
RoundsLeft ==
    wpc = "start" => /\ Op[donow] = "RECEIVE" => local.sleeps > 0
                     /\ Op[donow] = "CONNECT" /\ Undisturbed => handlers = {}

(* The inductive invariant. *)
SerialIInv == TypeOK /\ Frames /\ FrameHandlers /\ RoundsLeft

(* The answer to a Connect tells the truth about the port: after an error  *)
(* it is closed, so that the next Connect opens it anew instead of         *)
(* pretending success on a port without its settings.                      *)
ConnectTellsTheTruth ==
    wpc = "answered" /\ Op[donow] = "CONNECT" /\ ~term_request =>
        (result = "0" <=> established)

(* Nobody waits for ever for the worker: every operation is answered,      *)
(* unless the other end goes on sending byte after byte within the         *)
(* inter-byte timeout (nothing else bounds a message), and the destructor  *)
(* returns even then: it stops the service.                                *)
NothingHangs ==
    []<>(IF term_request THEN cpc = "gone"
         ELSE wpc = "rest" \/ \A c \in pushed : answers[c] > 0)
=============================================================================
