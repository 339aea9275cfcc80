----------------------------- MODULE IoService -----------------------------
(***************************************************************************)
(* The io_service of an asio connection.  An operation starts a timer and  *)
(* an I/O operation and awaits one of them with ioservice->run_one().  The *)
(* completion handlers point to variables on the worker's stack;           *)
(* `handlers` holds what the io_service still knows, of this operation and *)
(* of earlier ones.  A handler of an earlier operation writes through a    *)
(* dangling pointer: whether it hits the present operation's variables is  *)
(* left open.  boost::asio and the peer are the environment.               *)
(***************************************************************************)
EXTENDS AsioWorker

CONSTANTS
    Op,             \* CAsyncCommand::c of each command
    MaxSleep        \* the 5 of HandleReceive

ASSUME OpAssumption ==
    /\ Op \in [Cmds -> {"CONNECT", "DISCONNECT", "SEND", "RECEIVE", "ACCEPT"}]
    /\ MaxSleep \in Nat \ {0}

VARIABLES
    established,        \* the socket is connected, the port open
    handlers,           \* the io_service's handlers
    local,              \* the variables of the running Handle...()
    in_parts            \* history: some message was not written in one piece

ioVars == <<established, handlers, local, in_parts>>

(* res: what the I/O handler stored ("none": error code 0, no bytes);      *)
(* left: endpoints not tried yet; after: what follows the answer.          *)
Local0 == [num |-> 0, timeout |-> FALSE, res |-> "none", left |-> 0,
           sleeps |-> MaxSleep, after |-> "return"]

IoInit ==
    /\ established = FALSE /\ handlers = {}
    /\ local = Local0 /\ in_parts = FALSE

Reply(from, errno, after) ==
    /\ Answer(from, errno)
    /\ local' = [local EXCEPT !.after = after]

-----------------------------------------------------------------------------
(* boost::asio                                                             *)

(* no tells the reads and connects one operation starts apart. *)
Timer(c) == [of |-> c, kind |-> "timer", no |-> 0, cancelled |-> FALSE]
Io(c, n) == [of |-> c, kind |-> "io", no |-> n, cancelled |-> FALSE]

Armed_Never(c) == {}      \* mutant: the timeout is never started

Armed(c) == {Timer(c)}

Ios == { h \in handlers : h.kind = "io" }
OwnTimers == { h \in handlers : h.kind = "timer" /\ h.of = donow }

(* cancel(): the handlers `which` will be run with operation_aborted. *)
Cancelled(hs, which) ==
    { IF h \in which THEN [h EXCEPT !.cancelled = TRUE] ELSE h : h \in hs }

(* async_write() is composed: "more" is its intermediate handler, which    *)
(* follows the write of some of the bytes and starts the next write.       *)
Parts(h) == IF Op[h.of] = "SEND" THEN {"more"} ELSE {}

(* What a handler may be run with: a timer expires, the peer answers; a    *)
(* read or a write may have ended before it was cancelled.                 *)
Outcomes(h) ==
    IF h.kind = "timer" THEN {IF h.cancelled THEN "error" ELSE "ok"}
    ELSE IF Op[h.of] = "CONNECT"
         THEN IF h.cancelled THEN {"error"} ELSE {"ok", "error"}
    ELSE IF established \/ h.cancelled
         THEN {"ok", "error", "eof"} \cup Parts(h)
    ELSE {"error"}

(* Running the handlers of the domain of f with the outcomes f gives: the  *)
(* operation's own write its variables, the stale ones may hit them.       *)
AfterRunning(f, l) ==
    LET hs == DOMAIN f
        timers == { h \in hs : h.kind = "timer" }
        ios == { h \in hs \ timers : f[h] # "more" }
        own(s) == { h \in s : h.of = donow }
        timeouts == IF own(timers) # {} THEN {TRUE}
                    ELSE {l.timeout} \cup { TRUE : h \in timers }
        results == IF own(ios) # {} THEN { f[h] : h \in own(ios) }
                   ELSE {l.res} \cup { f[h] : h \in ios }
    IN { [l EXCEPT !.timeout = w[1], !.res = w[2]] : w \in timeouts \X results }

(* A connect that succeeds establishes the connection. *)
Establishes(f) == \E h \in DOMAIN f : Op[h.of] = "CONNECT" /\ h.kind = "io"
                                      /\ f[h] = "ok"

(* The writes that go on: the new one has the handler of the whole.        *)
GoingOn(f) == { Io(h.of, h.no) : h \in { g \in DOMAIN f : f[g] = "more" } }

(* The handlers left when those of f, out of hs, have run. *)
Remaining(f, hs) ==
    /\ handlers' = (hs \ DOMAIN f) \cup GoingOn(f)
    /\ in_parts' = (in_parts \/ GoingOn(f) # {})

Run(f, hs, l) ==
    /\ local' \in AfterRunning(f, l)
    /\ Remaining(f, hs)
    /\ established' = (established \/ Establishes(f))

(* poll() runs what is ready, unless the service is stopped: all that was  *)
(* cancelled and any of the operations the peer has answered.              *)
Polls(hs) ==
    LET due == { h \in hs : h.cancelled }
        results == {"ok", "error", "eof", "more"}
    IN IF stopped THEN {<<>>}
       ELSE UNION { { f \in [due \cup ready -> results] :
                        \A h \in DOMAIN f : f[h] \in Outcomes(h) } :
                    ready \in SUBSET (hs \cap Ios) }

(* run_one() returns 0 on a stopped service, else it waits for a handler:  *)
(* for one that is cancelled, for a timer, ...                             *)
RunOneStopped ==
    /\ Handle("run", "ran")
    /\ stopped
    /\ local' = [local EXCEPT !.num = 0]
    /\ UNCHANGED <<established, handlers, in_parts>>

RunOneHandler(h) ==
    /\ Handle("run", "ran")
    /\ ~stopped
    /\ \E st \in Outcomes(h) :
          Run([x \in {h} |-> st], handlers, [local EXCEPT !.num = 1])

RunOne == \/ RunOneStopped
          \/ \E h \in handlers : /\ h.cancelled \/ h.kind = "timer"
                                 /\ RunOneHandler(h)

(* ... or for an operation that the peer answers. *)
IoCompletes == \E h \in Ios : ~h.cancelled /\ RunOneHandler(h)

(* timer.cancel(); ioservice->poll() once the awaited handler has run. *)
CancelTimerAndPoll ==
    /\ Handle("poll", "eval")
    /\ LET hs == Cancelled(handlers, OwnTimers)
       IN \E f \in Polls(hs) : Run(f, hs, local)

PollAfter_Never(after) == FALSE      \* mutant: no poll() on the error paths

PollAfter(after) == after # "return"

(* After the answer: on the error paths the socket is cancelled and the    *)
(* service polled; the timer's destructor cancels it in any case.          *)
CleanUp ==
    /\ Delete
    /\ LET hs == CASE local.after = "cancel" ->
                         Cancelled(handlers, Ios \cup OwnTimers)
                   [] local.after = "cancel socket" -> Cancelled(handlers, Ios)
                   [] OTHER -> handlers
       IN \E f \in IF PollAfter(local.after) THEN Polls(hs) ELSE {<<>>} :
             /\ handlers' = Cancelled((hs \ DOMAIN f) \cup GoingOn(f), OwnTimers)
             /\ in_parts' = (in_parts \/ GoingOn(f) # {})
             /\ established' = (established \/ Establishes(f))
    /\ local' = Local0

-----------------------------------------------------------------------------
IoTypeOK ==
    /\ established \in BOOLEAN
    /\ handlers \subseteq [of : Cmds, kind : {"timer", "io"}, no : Nat,
                           cancelled : BOOLEAN]
    /\ in_parts \in BOOLEAN
    /\ local \in [num : {0, 1}, timeout : BOOLEAN,
                  res : {"none", "ok", "error", "eof"}, left : Nat,
                  sleeps : 0..MaxSleep,
                  after : {"return", "poll", "cancel socket", "cancel"}]

(* No abort so far, the destructor has not begun, and each message went    *)
(* out in one piece.  (HandleSend awaits one handler.  If that is an       *)
(* intermediate one, it answers EIO and leaves the rest of the write in    *)
(* the service.)                                                           *)
Undisturbed == aborts = 0 /\ ~term_request /\ ~in_parts

(* Between two operations the service holds no handler that points into    *)
(* the finished one's stack frame, unless an abort or a write in parts has *)
(* left one: each other way out of Handle...() cancels and polls what it   *)
(* has started.                                                            *)
ServiceEmptyBetweenOperations ==
    Undisturbed /\ wpc \in {"check", "wait", "lock", "handle"} => handlers = {}

(* What the running operation has started and not cancelled: its timer and *)
(* one I/O operation at most.                                              *)
Mine == \A h \in handlers : h \in {Timer(donow), Io(donow, h.no)}
AtMostOneIo == \A g, h \in Ios : g = h
TimerOnly == handlers \subseteq {Timer(donow)}
IoOnly == Mine /\ AtMostOneIo /\ handlers = Ios
TimerAndIo == Mine /\ AtMostOneIo

(* What the service holds at each place of Handle...(), and what the paths *)
(* that answer still have to cancel, ...                                   *)
HandlersAt(place) ==
    /\ place \in {"check", "wait", "lock", "handle", "accept", "eval", "rest"} =>
            handlers = {}
    /\ place \in {"start", "poll"} => TimerOnly
    /\ place = "run" => TimerAndIo
    /\ place \in {"start", "run"} => ~local.timeout
    /\ place = "ran" => IF local.timeout THEN IoOnly ELSE TimerOnly
    /\ place = "answered" => CASE local.after = "return" -> handlers = {}
                               [] local.after = "cancel" -> TimerAndIo
                               [] local.after = "cancel socket" -> IoOnly
                               [] OTHER -> FALSE

(* ... as long as nothing was aborted or written in parts.                 *)
FrameHandlers == Undisturbed => ~stopped /\ HandlersAt(wpc)

(* Each operation starts with fresh variables, and only the destructor     *)
(* goes through the phases of the destructor.                              *)
Frames ==
    /\ wpc \in {"check", "wait", "lock", "handle"} => local = Local0
    /\ cpc \in {"clear", "wake", "join", "gone"} => term_request
=============================================================================
