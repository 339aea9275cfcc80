--------------------------- MODULE SputnikInverter ---------------------------
(***************************************************************************)
(* CInverterSputnikSSeries: connect, ask for all values that are due in as *)
(* many telegrams as it takes, declare the data valid, wait, ask again; on *)
(* any error disconnect, declare the data invalid and connect again later. *)
(* The object has no thread.  Each step is an ICommand that reaches        *)
(* ExecuteCommand over the main queue, over timed work, or as the answer   *)
(* of the connection; the answer may be an error at any time, so AbortAll  *)
(* needs no step of its own.  A telegram is abstracted to the tokens it    *)
(* answers; the other objects' commands in the main queue are left out.    *)
(***************************************************************************)
EXTENDS SputnikBackoff, Sequences

CONSTANTS
    Order,      \* the queries as the vector `commands` has them
    AnswerLen,  \* GetMaxAnswerLen() of each
    MaxAnswer   \* 255-31, what one answer may hold

ASSUME TelegramAssumption ==
    /\ Order \in Seq(Queries)
    /\ MaxAnswer \in Nat /\ AnswerLen \in [Queries -> Nat]

VARIABLES
    queue,      \* this object's commands in the main queue
    timed,      \* and those given to timed work
    ops,        \* operations the connection has not answered
    connected,  \* connection->IsConnected()
    block,      \* an atomic block was requested and has not ceased
    pendingcommands,
    notansweredcommands,
    datastate,              \* CAPA_INVERTER_DATASTATE
    shutdown                \* _shutdown_requested

chainVars == <<queue, timed, ops>>
lineVars == <<connected, block>>
queryVars == <<pendingcommands, notansweredcommands, datastate>>
vars == <<chainVars, lineVars, queryVars, shutdown, now, backoffVars>>

Codes == {"DISCONNECTED", "DISCONNECTED_WAIT", "INIT", "WAIT4CONNECTION",
          "QUERY_POLL", "SEND_QUERIES", "WAIT_SENT", "EVALUATE_RECEIVE"}
Ops == {"Connect", "Disconnect", "Send", "Receive"}

Command(code, ok) == [code |-> code, ok |-> ok]

Init ==
    /\ BackoffInit
    /\ queue = <<Command("INIT", TRUE)>> /\ timed = <<>> /\ ops = <<>>
    /\ connected = FALSE /\ block = FALSE
    /\ pendingcommands = <<>> /\ notansweredcommands = {}
    /\ datastate = FALSE /\ shutdown = FALSE

TypeOK ==
    /\ BackoffTypeOK
    /\ queue \in Seq([code : Codes, ok : BOOLEAN])
    /\ timed \in Seq(Codes)
    /\ ops \in Seq([op : Ops, code : Codes])
    /\ connected \in BOOLEAN /\ block \in BOOLEAN
    /\ pendingcommands \in Seq(Queries) /\ notansweredcommands \subseteq Queries
    /\ datastate \in BOOLEAN /\ shutdown \in BOOLEAN

-----------------------------------------------------------------------------
(* ExecuteCommand: the command taken from the queue and what follows it.   *)

Executes(code) == queue # <<>> /\ Head(queue).code = code

Goto(code) ==
    /\ queue' = Append(Tail(queue), Command(code, TRUE))
    /\ UNCHANGED <<timed, ops>>

GotoLater(code) ==
    /\ queue' = Tail(queue)
    /\ timed' = Append(timed, code)
    /\ UNCHANGED ops

Start(op, code) ==
    /\ queue' = Tail(queue)
    /\ ops' = Append(ops, [op |-> op, code |-> code])
    /\ UNCHANGED timed

Disconnected ==
    /\ Executes("DISCONNECTED")
    /\ datastate' = FALSE
    /\ pendingcommands' = <<>>
    /\ notansweredcommands' = {}
    /\ InverterDisconnected
    /\ IF connected THEN Start("Disconnect", "DISCONNECTED_WAIT")
                    ELSE Goto("DISCONNECTED_WAIT")
    /\ UNCHANGED <<lineVars, shutdown, now>>

DisconnectedWait ==
    /\ Executes("DISCONNECTED_WAIT")
    /\ GotoLater("INIT")
    /\ UNCHANGED <<lineVars, queryVars, shutdown, now, backoffVars>>

(* A shutdown ends the chain here. *)
Initialize ==
    /\ Executes("INIT")
    /\ IF shutdown THEN queue' = Tail(queue) /\ UNCHANGED <<timed, ops>>
                   ELSE Start("Connect", "WAIT4CONNECTION")
    /\ UNCHANGED <<lineVars, queryVars, shutdown, now, backoffVars>>

Wait4Connection ==
    /\ Executes("WAIT4CONNECTION")
    /\ Goto(IF Head(queue).ok THEN "QUERY_POLL" ELSE "DISCONNECTED")
    /\ UNCHANGED <<lineVars, queryVars, shutdown, now, backoffVars>>

Fits_TooMuchReserve(pending) ==     \* mutant: less room than the longest answer
    LET room[i \in 0..Len(pending)] ==
            IF i = 0 THEN MaxAnswer - 2
            ELSE IF AnswerLen[pending[i]] < room[i - 1]
                 THEN room[i - 1] - AnswerLen[pending[i]]
                 ELSE room[i - 1]
    IN { pending[i] : i \in { j \in DOMAIN pending : AnswerLen[pending[j]] < room[j - 1] } }

(* Walks over `pending` as assemblequerystring does: room[i] is what is    *)
(* left of the answer behind the i-th query.  The other limit, the length  *)
(* of the telegram, is never reached first: each query is shorter than its *)
(* answer.                                                                 *)
Fits(pending) ==
    LET room[i \in 0..Len(pending)] ==
            IF i = 0 THEN MaxAnswer
            ELSE IF AnswerLen[pending[i]] < room[i - 1]
                 THEN room[i - 1] - AnswerLen[pending[i]]
                 ELSE room[i - 1]
    IN { pending[i] : i \in { j \in DOMAIN pending : AnswerLen[pending[j]] < room[j - 1] } }

(* The queries of s that are in qs, in the order of s.  (A recursive       *)
(* function: what SelectSeq returns cannot be expanded in a proof.)        *)
Only(s, qs) ==
    LET only[i \in 0..Len(s)] ==
            IF i = 0 THEN <<>>
            ELSE IF s[i] \in qs THEN Append(only[i - 1], s[i]) ELSE only[i - 1]
    IN only[Len(s)]

SendQueries_DropsTheRest(pending) ==    \* mutant: what does not fit is dropped
    /\ pendingcommands' = <<>>
    /\ notansweredcommands' = notansweredcommands \cup Fits(pending)
    /\ block' = TRUE
    /\ Start("Send", "WAIT_SENT")
    /\ UNCHANGED <<connected, datastate, shutdown, now, backoffVars>>

SendQueries(pending) ==
    /\ pendingcommands' = Only(pending, Queries \ Fits(pending))
    /\ notansweredcommands' = notansweredcommands \cup Fits(pending)
    /\ block' = TRUE
    /\ Start("Send", "WAIT_SENT")
    /\ UNCHANGED <<connected, datastate, shutdown, now, backoffVars>>

Considered == Only(Order, { q \in Queries : ConsiderCommand(q) })

QueryPoll ==
    /\ Executes("QUERY_POLL")
    /\ SendQueries(pendingcommands \o Considered)

SendRemaining ==
    /\ Executes("SEND_QUERIES")
    /\ SendQueries(pendingcommands)

WaitSent_ForgetsToCease ==      \* mutant: a plain ScheduleWork for the Noop
    /\ Executes("WAIT_SENT")
    /\ IF Head(queue).ok THEN Start("Receive", "EVALUATE_RECEIVE")
                         ELSE Goto("DISCONNECTED")
    /\ UNCHANGED <<lineVars, queryVars, shutdown, now, backoffVars>>

WaitSent_NoBreak ==             \* mutant: goes on to Receive after the error
    /\ Executes("WAIT_SENT")
    /\ ops' = Append(ops, [op |-> "Receive", code |-> "EVALUATE_RECEIVE"])
    /\ queue' = IF Head(queue).ok THEN Tail(queue)
                ELSE Append(Tail(queue), Command("DISCONNECTED", TRUE))
    /\ block' = (block /\ Head(queue).ok)
    /\ UNCHANGED <<timed, connected, queryVars, shutdown, now, backoffVars>>

(* The Noop that ceases the block posts its command at once.               *)
WaitSent ==
    /\ Executes("WAIT_SENT")
    /\ IF Head(queue).ok THEN Start("Receive", "EVALUATE_RECEIVE") /\ UNCHANGED block
                         ELSE Goto("DISCONNECTED") /\ block' = FALSE
    /\ UNCHANGED <<connected, queryVars, shutdown, now, backoffVars>>

ReceiveFailed ==
    /\ Executes("EVALUATE_RECEIVE")
    /\ ~Head(queue).ok
    /\ Goto("DISCONNECTED")
    /\ UNCHANGED <<lineVars, queryVars, shutdown, now, backoffVars>>

(* No complete telegram, a wrong checksum or length, or not for us.        *)
NotATelegram ==
    /\ Executes("EVALUATE_RECEIVE")
    /\ Head(queue).ok
    /\ Goto("DISCONNECTED")
    /\ UNCHANGED <<lineVars, queryVars, shutdown, now, backoffVars>>

(* handle_token() refuses one of the tokens; the others have had effect.   *)
TelegramWithError(tokens, zero) ==
    /\ Executes("EVALUATE_RECEIVE")
    /\ Head(queue).ok
    /\ HandleTokens(tokens, zero)
    /\ notansweredcommands' = notansweredcommands \ Handled(tokens)
    /\ Goto("DISCONNECTED")
    /\ UNCHANGED <<lineVars, pendingcommands, datastate, shutdown, now, triesleft>>

Telegram(tokens, zero) ==
    /\ Executes("EVALUATE_RECEIVE")
    /\ Head(queue).ok
    /\ HandleTokens(tokens, zero)
    /\ CommandNotAnswered(notansweredcommands \ Handled(tokens))
    /\ notansweredcommands' = {}
    /\ IF pendingcommands # <<>>
       THEN Goto("SEND_QUERIES") /\ UNCHANGED datastate
       ELSE GotoLater("QUERY_POLL") /\ datastate' = TRUE
    /\ UNCHANGED <<lineVars, pendingcommands, shutdown, now>>

(* CMD_BRC_SHUTDOWN *)
Shutdown ==
    /\ ~shutdown
    /\ shutdown' = TRUE
    /\ UNCHANGED <<chainVars, lineVars, queryVars, now, backoffVars>>

-----------------------------------------------------------------------------
(* The environment: timed work, the connection, time.                      *)

Due ==
    /\ timed # <<>>
    /\ queue' = Append(queue, Command(Head(timed), TRUE))
    /\ timed' = Tail(timed)
    /\ UNCHANGED <<ops, lineVars, queryVars, shutdown, now, backoffVars>>

(* Disconnect closes in any case, another operation that fails may or may  *)
(* not have closed the connection.  The answer of the receive, which       *)
(* carries the token that ceases the block, ends it.                       *)
ConnectionAnswers(ok) ==
    /\ ops # <<>>
    /\ LET o == Head(ops)
       IN /\ queue' = Append(queue, Command(o.code, ok))
          /\ connected' \in
                CASE o.op = "Disconnect" -> {FALSE}
                  [] ok -> {TRUE}
                  [] OTHER -> {FALSE, connected}
          /\ block' = (block /\ o.op # "Receive")
    /\ ops' = Tail(ops)
    /\ UNCHANGED <<timed, queryVars, shutdown, now, backoffVars>>

Tick ==
    /\ now < MaxTime
    /\ now' = now + 1
    /\ UNCHANGED <<chainVars, lineVars, queryVars, shutdown, backoffVars>>

ExecuteCommand ==
    \/ Disconnected \/ DisconnectedWait \/ Initialize \/ Wait4Connection
    \/ QueryPoll \/ SendRemaining \/ WaitSent
    \/ ReceiveFailed \/ NotATelegram
    \/ \E tokens \in SUBSET Tokens : \E zero \in SUBSET (tokens \cap PartTokens) :
          Telegram(tokens, zero) \/ TelegramWithError(tokens, zero)

Answered == \E ok \in BOOLEAN : ConnectionAnswers(ok)

Next == ExecuteCommand \/ Shutdown \/ Due \/ Answered \/ Tick

Spec == Init /\ [][Next]_vars

(* The main loop executes, timed work hands over, the connection answers   *)
(* (NothingHangs of the connections).                                      *)
FairSpec ==
    Spec /\ WF_vars(ExecuteCommand) /\ WF_vars(Due) /\ WF_vars(Answered)

-----------------------------------------------------------------------------
Awaits(codes) ==
    \/ \E i \in DOMAIN queue : queue[i].code \in codes
    \/ \E i \in DOMAIN timed : timed[i] \in codes
    \/ \E i \in DOMAIN ops : ops[i].code \in codes

(* The object always has exactly one thing to wait for: one command in the *)
(* queue, one in timed work or one operation, never two (it would talk     *)
(* over itself) and none only after a shutdown (it would stall).           *)
OneContinuation ==
    LET n == Len(queue) + Len(timed) + Len(ops)
    IN n = 1 \/ (n = 0 /\ shutdown)

(* While it reconnects nothing of the lost connection is left: the data is *)
(* declared invalid, every value is invalid, no query is pending or        *)
(* unanswered and every strategy starts afresh.                            *)
FreshStart ==
    Awaits({"DISCONNECTED_WAIT", "INIT", "WAIT4CONNECTION"}) =>
        /\ ~datastate
        /\ pendingcommands = <<>> /\ notansweredcommands = {}
        /\ Reset

(* A poll starts with an empty slate: every query of the last one has been *)
(* sent, and answered or counted as not answered.                          *)
QueriesSettled ==
    Awaits({"QUERY_POLL"}) => pendingcommands = <<>> /\ notansweredcommands = {}

(* Neither a lost connection nor the last poll leaves anything behind.     *)
SputnikInv == TypeOK /\ FreshStart /\ QueriesSettled

Pending == { pendingcommands[i] : i \in DOMAIN pendingcommands }

(* A poll asks for everything that is due, in as many telegrams as it      *)
(* takes: only a disconnect lets go of a query that has not been sent.     *)
NoQueryDropped ==
    [][ /\ ~Executes("DISCONNECTED") => Pending \subseteq Pending' \cup notansweredcommands'
        /\ QueryPoll => \A i \in DOMAIN Order : ConsiderCommand(Order[i]) =>
                            Order[i] \in Pending' \cup notansweredcommands' ]_vars

(* An atomic block, which keeps the other users of a shared line waiting,  *)
(* has ceased on every path that leads away from the exchange.             *)
BlockCeased ==
    block => Awaits({"WAIT_SENT", "EVALUATE_RECEIVE"})

(* As long as nobody shuts it down the inverter comes back to a poll or to *)
(* a new connection, whatever the other end answers.                       *)
AlwaysComesBack ==
    []<>(shutdown \/ Awaits({"QUERY_POLL", "INIT"}))
=============================================================================
