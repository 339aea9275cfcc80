----------------------------- MODULE Simulator -----------------------------
(***************************************************************************)
(* CInverterSputnikSSeriesSimulator: an inverter that waits for a client,  *)
(* answers its requests and, if it is configured to, listens to a control  *)
(* server that takes it offline or disconnects it (what spoils a checksum  *)
(* changes only the text of an answer).                                    *)
(* Each of the two connections has a worker that serves its operations one *)
(* after the other; the answers come back through the main queue.          *)
(* Values of the simulated registers are left out, what is asked is not.   *)
(***************************************************************************)
EXTENDS Naturals, Sequences, FiniteSets

CONSTANTS
    Known,          \* the tokens of simcommands
    Requests,       \* the token sets a client asks for
    MaxSessions,    \* bound: clients that are accepted
    MaxDisconnects  \* bound: times that `disconnect` is said

ASSUME SimulatorAssumption ==
    /\ IsFiniteSet(Known) /\ \A r \in Requests : IsFiniteSet(r)
    /\ MaxSessions \in Nat \ {0} /\ MaxDisconnects \in Nat

VARIABLES
    ctrlserver,     \* is a control server configured
    offline, disconnect, killbit,   \* what it has been told
    isconnected,    \* _isconnected
    shutdown_requested,
    commands,       \* in the queue of the main scheduler: those of the simulator
    later,          \* is a CMD_CTRL_INIT scheduled for later
    up, pending,    \* of each connection: is it connected, its operations
    session,        \* the number of clients so far: who is connected now
    crashed,        \* a null pointer has been followed
    disconnects,    \* history: how often `disconnect` was said
    forks,          \* history: how often one conversation became two, up to 2
    misdirected     \* history: has an answer gone to another client

toldVars == <<offline, disconnect, killbit, disconnects, forks>>
connVars == <<up, pending, session, misdirected>>
simulatorVars ==
    <<ctrlserver, toldVars, isconnected, shutdown_requested, commands, later, connVars, crashed>>

Connections == {"connection", "ctrlserver"}
SimCommands == {"SIM_INIT", "SIM_DISCONNECTED", "SIM_WAITDISCONNECT", "SIM_CONNECTED",
                "SIM_EVALUATE_RECEIVE", "SIM_WAIT_SENT"}
CtrlCommands == {"CTRL_INIT", "CTRL_WAITDISCONNECT", "CTRL_CONNECTED", "CTRL_PARSERECEIVE",
                 "CTRL_WAIT_SENT"}
Lines == {"offline", "online", "disconnect", "connect", "quit", "off", "on", "other"}
NoData == [bad |-> TRUE, asks |-> {}, from |-> 0]
Reply(c, ok, data, line) == [cmd |-> c, ok |-> ok, data |-> data, line |-> line]
Cmd(c) == Reply(c, TRUE, NoData, "other")
Failed(c) == Reply(c, FALSE, NoData, "other")

SimulatorInit ==
    /\ ctrlserver \in BOOLEAN
    /\ offline = FALSE /\ disconnect = FALSE /\ killbit = {}
    /\ isconnected = FALSE /\ shutdown_requested = FALSE
    /\ commands = <<Cmd("INIT")>> /\ later = FALSE
    /\ up = [c \in Connections |-> FALSE] /\ pending = [c \in Connections |-> <<>>]
    /\ session = 0 /\ crashed = FALSE
    /\ disconnects = 0 /\ forks = 0 /\ misdirected = FALSE

\* The commands and operations that keep a part of the simulator going.
Queued(cmds) == Cardinality({ i \in DOMAIN commands : commands[i].cmd \in cmds })
ChainOf(cmds, c) == Queued(cmds) + Len(pending[c])

SimChain == ChainOf(SimCommands, "connection")
CtrlChain == ChainOf(CtrlCommands, "ctrlserver") + IF later THEN 1 ELSE 0

CommandTypes ==
    [cmd : SimCommands \cup CtrlCommands \cup {"INIT"}, ok : BOOLEAN, line : Lines,
     data : [bad : BOOLEAN, asks : Requests \cup {{}}, from : 0 .. MaxSessions]]
OperationTypes ==
    [op : {"Accept", "Receive", "Send", "Disconnect"}, cmd : SimCommands \cup CtrlCommands \cup {"INIT"},
     to : 0 .. MaxSessions]

SimulatorTypeOK ==
    /\ {ctrlserver, offline, disconnect, isconnected, shutdown_requested, later,
        crashed, misdirected} \subseteq BOOLEAN
    /\ killbit \subseteq Known /\ up \in [Connections -> BOOLEAN]
    /\ commands \in Seq(CommandTypes) /\ pending \in [Connections -> Seq(OperationTypes)]
    /\ session \in 0 .. MaxSessions /\ (up["connection"] => session > 0)
    /\ ~ctrlserver => CtrlChain = 0 /\ killbit = {} /\ ~(offline \/ disconnect)
    /\ disconnects \in 0 .. MaxDisconnects /\ (disconnect => disconnects > 0)
    /\ forks \in 0 .. 2

-----------------------------------------------------------------------------
(* What a handler does: commands it schedules, operations it starts.       *)

Op(name, cmd) == [op |-> name, cmd |-> cmd, to |-> 0]
Answer(s) == [op |-> "Send", cmd |-> "SIM_WAIT_SENT", to |-> s]

Do(cmds, c, started) ==
    /\ commands' = Tail(commands) \o cmds
    /\ pending' = [pending EXCEPT ![c] = @ \o started]
    /\ UNCHANGED <<ctrlserver, shutdown_requested, up, session, misdirected, crashed>>

Take(cmd) == ~crashed /\ commands # <<>> /\ Head(commands).cmd = cmd
Schedule(cmds) == Do(cmds, "connection", <<>>)
Sim(started) == Do(<<>>, "connection", started)
Ctrl(started) == Do(<<>>, "ctrlserver", started)

CmdInit ==
    /\ Take("INIT")
    /\ Schedule(<<Cmd("SIM_INIT")>> \o IF ctrlserver THEN <<Cmd("CTRL_INIT")>> ELSE <<>>)
    /\ UNCHANGED <<toldVars, isconnected, later>>

-----------------------------------------------------------------------------
(* The simulator's connection.                                             *)

Accept == Op("Accept", "SIM_CONNECTED")
Receive == Op("Receive", "SIM_EVALUATE_RECEIVE")

\* Where CMD_SIM_INIT falls through to.
AwaitClient ==
    Sim(IF disconnect \/ isconnected THEN <<>> ELSE <<Accept>>) /\ UNCHANGED isconnected

SimInit ==
    /\ Take("SIM_INIT")
    /\ CASE shutdown_requested -> Sim(<<>>) /\ UNCHANGED isconnected
         [] ~shutdown_requested /\ up["connection"] ->
                Sim(<<Op("Disconnect", "SIM_WAITDISCONNECT")>>) /\ isconnected' = FALSE
         [] OTHER -> AwaitClient
    /\ UNCHANGED <<toldVars, later>>

SimDisconnected ==
    /\ Take("SIM_DISCONNECTED")
    /\ AwaitClient
    /\ UNCHANGED <<toldVars, later>>

SimWaitDisconnect ==
    /\ Take("SIM_WAITDISCONNECT")
    /\ Sim(IF disconnect THEN <<>> ELSE <<Accept>>)
    /\ UNCHANGED <<toldVars, isconnected, later>>

SimConnected ==
    /\ Take("SIM_CONNECTED")
    /\ CASE ~Head(commands).ok -> Schedule(<<Cmd("SIM_INIT")>>) /\ UNCHANGED isconnected
         [] Head(commands).ok /\ ~disconnect -> Sim(<<Receive>>) /\ isconnected' = TRUE
         [] OTHER -> Sim(<<Op("Disconnect", "SIM_DISCONNECTED")>>) /\ UNCHANGED isconnected
    /\ UNCHANGED <<toldVars, later>>

\* parsereceivedstring: a telegram with an error, or for somebody else, is not
\* answered.  Tokens that are unknown or disabled are left out of the answer.
Parsed(telegram) ==
    IF telegram.bad THEN {} ELSE { (telegram.asks \cap Known) \ killbit }

Answerable(telegram) == ~offline /\ Parsed(telegram) # {}

Reaction_AcceptsAtOnce(telegram) ==
    (IF disconnect THEN <<Op("Disconnect", "SIM_DISCONNECTED"), Accept>> ELSE <<>>)
        \o IF Answerable(telegram) THEN <<Answer(telegram.from)>> ELSE <<Receive>>

\* The answer is queued behind the Disconnect that `disconnect` asks for.
Reaction(telegram) ==
    (IF disconnect THEN <<Op("Disconnect", "SIM_DISCONNECTED")>> ELSE <<>>)
        \o IF Answerable(telegram) THEN <<Answer(telegram.from)>> ELSE <<Receive>>

\* Not counted beyond two.
Forks(more) == forks' = IF more /\ forks < 2 THEN forks + 1 ELSE forks

\* An error is an error, and once more if something was received before it.
Restarts(telegram) ==
    IF telegram = NoData THEN <<Cmd("SIM_INIT")>> ELSE <<Cmd("SIM_INIT"), Cmd("SIM_INIT")>>

SimEvaluateReceive ==
    /\ Take("SIM_EVALUATE_RECEIVE")
    /\ LET telegram == Head(commands).data
       IN  IF ~Head(commands).ok
           THEN /\ Schedule(Restarts(telegram))
                /\ Forks(telegram # NoData) /\ UNCHANGED isconnected
           ELSE /\ Sim(Reaction(telegram))
                /\ isconnected' = (isconnected /\ ~disconnect)
                /\ Forks(disconnect)
    /\ UNCHANGED <<offline, disconnect, killbit, disconnects, later>>

SimWaitSent_OnlySuccess ==
    /\ Take("SIM_WAIT_SENT")
    /\ Sim(IF Head(commands).ok THEN <<Receive>> ELSE <<>>)
    /\ UNCHANGED <<toldVars, isconnected, later>>

SimWaitSent ==
    /\ Take("SIM_WAIT_SENT")
    /\ IF Head(commands).ok THEN Sim(<<Receive>>) ELSE Schedule(<<Cmd("SIM_INIT")>>)
    /\ UNCHANGED <<toldVars, isconnected, later>>

-----------------------------------------------------------------------------
(* The control server.                                                     *)

CtrlInit ==
    /\ Take("CTRL_INIT")
    /\ Ctrl(CASE shutdown_requested -> <<>>
              [] ~shutdown_requested /\ up["ctrlserver"] ->
                    <<Op("Disconnect", "CTRL_WAITDISCONNECT")>>
              [] OTHER -> <<Op("Accept", "CTRL_CONNECTED")>>)
    /\ UNCHANGED <<toldVars, isconnected, later>>

CtrlWaitDisconnect ==
    /\ Take("CTRL_WAITDISCONNECT")
    /\ Ctrl(<<Op("Accept", "CTRL_CONNECTED")>>)
    /\ UNCHANGED <<toldVars, isconnected, later>>

\* After a failure the control server tries again 15 seconds later.
CtrlConnected ==
    /\ Take("CTRL_CONNECTED")
    /\ IF Head(commands).ok
       THEN Ctrl(<<Op("Receive", "CTRL_PARSERECEIVE")>>) /\ UNCHANGED later
       ELSE Ctrl(<<>>) /\ later' = TRUE
    /\ UNCHANGED <<toldVars, isconnected>>

CtrlTimer ==
    /\ later /\ ~crashed
    /\ later' = FALSE /\ commands' = Append(commands, Cmd("CTRL_INIT"))
    /\ UNCHANGED <<ctrlserver, toldVars, isconnected, shutdown_requested, connVars, crashed>>

\* parsereceivedstring_ctrlserver.
Obey(line) ==
    /\ offline' = ((offline \/ line = "offline") /\ line # "online")
    /\ disconnect' = ((disconnect \/ line = "disconnect") /\ line # "connect")
    /\ killbit' \in CASE line = "off" -> { killbit \cup {t} : t \in Known }
                      [] line = "on" -> { killbit \ {t} : t \in Known }
                      [] OTHER -> {killbit}
    /\ disconnects' = disconnects + IF line = "disconnect" THEN 1 ELSE 0

\* The simulator is woken up when it may connect again.
WakeUp(line) == disconnect /\ line = "connect"

CtrlParseReceive ==
    /\ Take("CTRL_PARSERECEIVE")
    /\ LET line == Head(commands).line
           next == IF line = "quit" THEN "CTRL_INIT" ELSE "CTRL_WAIT_SENT"
       IN  IF ~Head(commands).ok
           THEN Schedule(<<Cmd("CTRL_INIT")>>) /\ UNCHANGED toldVars
           ELSE /\ Obey(line) /\ Forks(WakeUp(line))
                /\ Do(IF WakeUp(line) THEN <<Cmd("SIM_DISCONNECTED")>> ELSE <<>>,
                      "ctrlserver", <<Op("Send", next)>>)
    /\ UNCHANGED <<isconnected, later>>

CtrlWaitSent ==
    /\ Take("CTRL_WAIT_SENT")
    /\ IF Head(commands).ok THEN Ctrl(<<Op("Receive", "CTRL_PARSERECEIVE")>>)
                         ELSE Schedule(<<Cmd("CTRL_INIT")>>)
    /\ UNCHANGED <<toldVars, isconnected, later>>

-----------------------------------------------------------------------------
(* CMD_BRC_SHUTDOWN and the connections.                                   *)

\* Everything but an Accept that is being executed is answered with an error.
Remaining(c) == IF pending[c] # <<>> /\ pending[c][1].op = "Accept" THEN <<pending[c][1]>> ELSE <<>>
Aborted(c) ==
    LET gone == SubSeq(pending[c], Len(Remaining(c)) + 1, Len(pending[c]))
    IN  [i \in DOMAIN gone |-> Failed(gone[i].cmd)]

BrcShutdown ==
    /\ ~shutdown_requested /\ ~crashed
    /\ commands' = commands \o Aborted("connection") \o Aborted("ctrlserver")
    /\ pending' = [c \in Connections |-> Remaining(c)]
    /\ crashed' = ~ctrlserver /\ shutdown_requested' = ctrlserver
    /\ UNCHANGED <<ctrlserver, toldVars, isconnected, later, up, session, misdirected>>

\* What was received before an error is answered with it.  Bound: while there
\* is one conversation.
CutOff(cmd) == Reply(cmd, FALSE, [bad |-> TRUE, asks |-> {}, from |-> session], "other")

\* An Accept of a connection that is connected succeeds at once, a client that
\* closes its end leaves the connection as it is, until it is disconnected.
Results(c, o) ==
    LET ok == Cmd(o.cmd)
        failed == Failed(o.cmd)
        telegrams == [bad : BOOLEAN, asks : Requests, from : {session}]
    IN  CASE o.op = "Accept" -> {ok, failed}
          [] o.op = "Disconnect" -> {ok}
          [] o.op = "Send" -> IF up[c] THEN {ok, failed} ELSE {failed}
          [] o.op = "Receive" /\ ~up[c] -> {failed}
          [] o.op = "Receive" /\ up[c] /\ c = "connection" ->
                {failed} \cup { r \in {CutOff(o.cmd)} : forks = 0 }
                         \cup { Reply(o.cmd, TRUE, t, "other") : t \in telegrams }
          [] OTHER -> {failed} \cup
                { Reply(o.cmd, TRUE, NoData, l) : l \in
                    { x \in Lines : x = "disconnect" => disconnects < MaxDisconnects } }

Completes(c) ==
    /\ pending[c] # <<>> /\ ~crashed
    /\ LET o == pending[c][1]
       IN  /\ pending' = [pending EXCEPT ![c] = Tail(@)]
           /\ \E r \in Results(c, o) :
                /\ commands' = Append(commands, r)
                /\ up' = [up EXCEPT ![c] = IF o.op = "Accept" THEN @ \/ r.ok ELSE @ /\ o.op # "Disconnect"]
                /\ IF o.op = "Accept" /\ r.ok /\ ~up[c] /\ c = "connection"
                   THEN session < MaxSessions /\ session' = session + 1
                   ELSE UNCHANGED session
                /\ misdirected' = (misdirected \/ (o.to \notin {0, session} /\ r.ok))
    /\ UNCHANGED <<ctrlserver, toldVars, isconnected, shutdown_requested, later, crashed>>

MainLoop ==
    \/ CmdInit
    \/ SimInit \/ SimDisconnected \/ SimWaitDisconnect \/ SimConnected
    \/ SimEvaluateReceive \/ SimWaitSent
    \/ CtrlInit \/ CtrlWaitDisconnect \/ CtrlConnected \/ CtrlParseReceive \/ CtrlWaitSent

SimulatorNext == MainLoop \/ CtrlTimer \/ BrcShutdown \/ \E c \in Connections : Completes(c)

SimulatorSpec == SimulatorInit /\ [][SimulatorNext]_simulatorVars

\* The main loop works, timers expire and workers end what does not wait for
\* a peer: everything but an Accept or a Receive.
Prompt(c) == pending[c] # <<>> /\ pending[c][1].op \in {"Disconnect", "Send"} /\ Completes(c)

FairSimulator ==
    /\ SimulatorSpec /\ WF_simulatorVars(MainLoop) /\ WF_simulatorVars(CtrlTimer)
    /\ \A c \in Connections : WF_simulatorVars(Prompt(c))

-----------------------------------------------------------------------------
(* What the simulator promises.                                            *)

Working == ~crashed /\ ~shutdown_requested
Starting == Take("INIT")

\* The simulator and its control server are each at exactly one place of their
\* conversation: no failure stops them, none makes them accept twice.  That ends
\* with an error that comes with data, which leads to two new Accepts, and with
\* a `disconnect`: the next telegram leads to a Disconnect and to a Receive or
\* an answer, and both of them to a new Accept.
SimulatorGoesOn ==
    Working /\ disconnects = 0 /\ forks = 0 => SimChain = 1 \/ Starting

CtrlServerGoesOn == Working /\ ctrlserver => CtrlChain = 1 \/ Starting

\* An answer is never sent to another client than the one that asked, also
\* when an error or a `disconnect` has made two conversations of one: they
\* share the connection, but what each of them does next stays in order.  With
\* a third one an answer can go to a client that has connected meanwhile.
AnswersItsClient == forks <= 1 => ~misdirected

\* Both conversations of the simulator stay alive and apart.
SimulatorInv == SimulatorTypeOK /\ SimulatorGoesOn /\ CtrlServerGoesOn /\ AnswersItsClient

\* Again and again the simulator waits for a client or a telegram, whatever
\* its peers do and however often its operations fail.  (Two conversations can
\* end each other: one sets _isconnected while the Disconnect of the other is on
\* its way, and from then on CMD_SIM_INIT does not accept.)
Waiting(c) == pending[c] # <<>> /\ pending[c][1].op \in {"Accept", "Receive"}

ListensAgain == []<>(~Working \/ disconnects > 0 \/ forks > 0 \/ Waiting("connection"))
=============================================================================
