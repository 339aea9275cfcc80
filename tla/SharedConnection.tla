-------------------------- MODULE SharedConnection --------------------------
(***************************************************************************)
(* CSharedConnectionMaster and its slaves: several inverters on one line.  *)
(* Operations marked as an atomic block get a ticket and have the line to  *)
(* themselves until the one that ceases the block is answered; the others' *)
(* operations wait in the master.  Everything runs on the main thread, so  *)
(* a step is a whole function.  The real connection answers its operations *)
(* in turn.  Reads outside of a block are shared among the slaves; they    *)
(* are not supported at the same time as blocks (CSharedConnection.h) and  *)
(* not part of this module.                                                *)
(***************************************************************************)
EXTENDS Integers, Sequences, FiniteSets, SequencesExt

CONSTANTS
    Slaves,
    Owner,      \* the master's own slave (`ownslave`)
    Commands,   \* the ICommand objects, numbered
    Apis,       \* the operations used, of "CONNECT" ... "NOOP" (enum api_id)
    MaxTickets  \* bound: atomic blocks begun

ASSUME SharingAssumption ==
    /\ Owner \in Slaves /\ IsFiniteSet(Slaves)
    /\ Commands \subseteq Nat \ {0} /\ IsFiniteSet(Commands)
    /\ Apis \subseteq {"CONNECT", "DISCONNECT", "SEND", "RECEIVE", "ACCEPT", "NOOP"}
    /\ MaxTickets \in Nat

VARIABLES
    commands,       \* what each ICommand in use carries
    current_ticket, \* per slave: the block it is in, or 0
    ticket_cnt, active_ticket,
    last_atomic_cmd,    \* the command the end of the block answers, or 0
    non_atomic,     \* non_atomic_icommands_pending
    atomic,         \* atomic_icommands_pending, <<>> for absent keys
    connection,     \* operations the real connection has
    scheduler,      \* commands in the main queue
    line,           \* history: the tickets on the line, 0 for none
    doubled         \* history: an abort has left commands to be answered twice

slaveVars == <<current_ticket, ticket_cnt>>
masterVars == <<active_ticket, last_atomic_cmd, non_atomic, atomic>>
lowerVars == <<connection, scheduler, line>>
vars == <<commands, slaveVars, masterVars, lowerVars, doubled>>

Tickets == 1 .. MaxTickets
Free == [api |-> "none", ticket |-> 0, cease |-> FALSE]
InUse == { c \in Commands : commands[c] # Free }
InBlock == { s \in Slaves : current_ticket[s] # 0 }

ToCaller(c) == [to |-> "caller", cmd |-> c]
ToEndOfBlock(c) == [to |-> "endofblock", cmd |-> c]

Init ==
    /\ commands = [c \in Commands |-> Free]
    /\ current_ticket = [s \in Slaves |-> 0]
    /\ ticket_cnt = 0 /\ active_ticket = 0 /\ last_atomic_cmd = 0
    /\ non_atomic = <<>> /\ atomic = [t \in Tickets |-> <<>>]
    /\ connection = <<>> /\ scheduler = <<>> /\ line = <<>> /\ doubled = FALSE

Answers == [to : {"caller", "endofblock"}, cmd : Commands]

TypeOK ==
    /\ commands \in [Commands ->
         {Free} \cup [api : Apis \cup {"NOOP"}, ticket : 0 .. MaxTickets, cease : BOOLEAN]]
    /\ current_ticket \in [Slaves -> 0 .. ticket_cnt]
    /\ ticket_cnt \in 0 .. MaxTickets /\ active_ticket \in 0 .. ticket_cnt
    /\ last_atomic_cmd \in Commands \cup {0}
    /\ non_atomic \in Seq(Commands) /\ atomic \in [Tickets -> Seq(Commands)]
    /\ connection \in Seq(Answers) /\ scheduler \in Seq(Answers)
    /\ line \in Seq(0 .. ticket_cnt) /\ doubled \in BOOLEAN

-----------------------------------------------------------------------------
(* Issuing operations at the real connection, in the order of entries.     *)
(* A Noop goes right to the main queue (IConnect::Noop).                   *)

Noop(cs, e) == cs[e.cmd].api = "NOOP"

Seen(l, t) == IF l # <<>> /\ Last(l) = t THEN l ELSE Append(l, t)

Issued(cs, lower, e) ==
    IF Noop(cs, e) THEN [lower EXCEPT !.scheduler = Append(@, e)]
    ELSE [lower EXCEPT !.connection = Append(@, e), !.line = Seen(@, cs[e.cmd].ticket)]

(* One after the other; the main queue holds `queue` before.               *)
Issue(cs, entries, queue) ==
    LET issued[i \in 0 .. Len(entries)] ==
            IF i = 0 THEN [connection |-> connection, scheduler |-> queue, line |-> line]
            ELSE Issued(cs, issued[i - 1], entries[i])
        lower == issued[Len(entries)]
    IN  /\ connection' = lower.connection
        /\ scheduler' = lower.scheduler
        /\ line' = lower.line

Diverted_Forgotten(cs, c) == ToCaller(c)

(* The answer to the command that ceases a block is diverted.              *)
Diverted(cs, c) == IF cs[c].cease THEN ToEndOfBlock(c) ELSE ToCaller(c)

HandleAtomicBlock(cs, c) ==
    LET t == cs[c].ticket
    IN  IF active_ticket \in {0, t}
        THEN /\ active_ticket' = t
             /\ last_atomic_cmd' = IF cs[c].cease THEN c ELSE last_atomic_cmd
             /\ Issue(cs, <<Diverted(cs, c)>>, scheduler)
             /\ UNCHANGED <<non_atomic, atomic>>
        ELSE /\ IF t = 0 THEN non_atomic' = Append(non_atomic, c) /\ UNCHANGED atomic
                         ELSE atomic' = [atomic EXCEPT ![t] = Append(@, c)] /\ UNCHANGED non_atomic
             /\ UNCHANGED <<active_ticket, last_atomic_cmd, lowerVars>>

-----------------------------------------------------------------------------
(* An inverter calls its slave.  token is ICONN_ATOMIC_COMMS: "none",      *)
(* "request" or "cease".                                                   *)

Ticket(s) == IF current_ticket[s] = 0 THEN ticket_cnt + 1 ELSE current_ticket[s]

HandleTickets(s, token) ==
    IF token = "none" THEN UNCHANGED slaveVars
    ELSE /\ ticket_cnt' = IF current_ticket[s] = 0 THEN ticket_cnt + 1 ELSE ticket_cnt
         /\ current_ticket' = [current_ticket EXCEPT ![s] =
                IF token = "request" THEN Ticket(s) ELSE 0]

(* Only the owner disconnects; for the others it is a Noop.                *)
Effective(s, api) == IF api = "DISCONNECT" /\ s # Owner THEN "NOOP" ELSE api

NewCommand == CHOOSE c \in Commands \ InUse : \A d \in Commands \ InUse : c <= d

(* Bounds: the tickets, and the ICommands: there must be one left to cease *)
(* every block that is open after the call.  And nothing is called once    *)
(* commands are answered twice: it would get the memory of those deleted.  *)
Bounded(s, token) ==
    LET open == IF token = "request" THEN InBlock \cup {s}
                ELSE IF token = "cease" THEN InBlock \ {s} ELSE InBlock
    IN  /\ ~doubled
        /\ Cardinality(Commands \ InUse) > Cardinality(open)
        /\ token # "none" => Ticket(s) <= MaxTickets

Call(s, api, token) ==
    LET cs == [commands EXCEPT ![NewCommand] =
                 [api |-> Effective(s, api), cease |-> token = "cease",
                  ticket |-> IF token = "none" THEN 0 ELSE Ticket(s)]]
    IN  /\ Bounded(s, token)
        /\ api = "RECEIVE" => token # "none"
        /\ commands' = cs
        /\ HandleTickets(s, token)
        /\ HandleAtomicBlock(cs, NewCommand)
        /\ UNCHANGED doubled

Cease(s) == s \in InBlock /\ \E api \in Apis : Call(s, api, "cease")

-----------------------------------------------------------------------------
(* The main queue.                                                         *)

Executes(to) == scheduler # <<>> /\ Head(scheduler).to = to

(* The caller's ExecuteCommand; the scheduler deletes the ICommand.        *)
CallerAnswered ==
    /\ Executes("caller")
    /\ commands' = [commands EXCEPT ![Head(scheduler).cmd] = Free]
    /\ scheduler' = Tail(scheduler)
    /\ UNCHANGED <<slaveVars, masterVars, connection, line, doubled>>

(* Tickets with an entry in atomic_icommands_pending; the next due is the  *)
(* first key of the map.                                                   *)
Waiting == { t \in Tickets : atomic[t] # <<>> }
NextTicket_Newest == CHOOSE t \in Waiting : \A u \in Waiting : t >= u
NextTicket == CHOOSE t \in Waiting : \A u \in Waiting : t <= u

NextActive_NotReset == IF Waiting = {} THEN active_ticket ELSE NextTicket
NextActive == IF Waiting = {} THEN 0 ELSE NextTicket

(* First the operations that wait outside of a block, then the block with  *)
(* the lowest ticket as far as it has come.  An end of a block that nobody *)
(* waits for fails assert(last_atomic_cmd): it is not executed any more.   *)
HandleEndOfBlock ==
    LET free == [i \in DOMAIN non_atomic |-> ToCaller(non_atomic[i])]
        block == IF Waiting = {} THEN <<>> ELSE atomic[NextTicket]
        resumed == [i \in DOMAIN block |->
                     IF i = Len(block) THEN Diverted(commands, block[i]) ELSE ToCaller(block[i])]
    IN  /\ Executes("endofblock") /\ last_atomic_cmd # 0
        /\ Issue(commands, free \o resumed, Append(Tail(scheduler), ToCaller(last_atomic_cmd)))
        /\ non_atomic' = <<>>
        /\ active_ticket' = NextActive
        /\ IF Waiting = {}
           THEN last_atomic_cmd' = 0 /\ UNCHANGED atomic
           ELSE /\ last_atomic_cmd' = IF commands[Last(block)].cease THEN Last(block) ELSE 0
                /\ atomic' = [atomic EXCEPT ![NextTicket] = <<>>]
        /\ UNCHANGED <<commands, slaveVars, doubled>>

ExecuteCommand == CallerAnswered \/ HandleEndOfBlock

-----------------------------------------------------------------------------
(* The real connection answers the operation it is at.  With what result   *)
(* makes no difference.                                                    *)
ConnectionAnswers ==
    /\ connection # <<>>
    /\ scheduler' = Append(scheduler, Head(connection))
    /\ connection' = Tail(connection)
    /\ UNCHANGED <<commands, slaveVars, masterVars, line, doubled>>

(* The owner's shutdown: what is queued at the real connection is answered *)
(* and stays there, to be answered again; what its thread has taken is not *)
(* queued any more.  A later use of a deleted ICommand finds it as it was  *)
(* left, free.  Bound: one abort that finds something.                     *)
AbortAll ==
    /\ ~doubled /\ doubled' = TRUE
    /\ \E taken \in {0, 1} :
         /\ Len(connection) > taken
         /\ scheduler' = scheduler \o SubSeq(connection, taken + 1, Len(connection))
    /\ UNCHANGED <<commands, slaveVars, masterVars, connection, line>>

Next ==
    \/ \E s \in Slaves, api \in Apis, token \in {"none", "request", "cease"} :
         Call(s, api, token)
    \/ ExecuteCommand
    \/ ConnectionAnswers
    \/ AbortAll

Spec == Init /\ [][Next]_vars

(* The main loop executes, the connection answers (NothingHangs of the two *)
(* transports), and who begins a block ends it (BlockCeased of  *)
(* the inverter).                                                          *)
FairSpec ==
    /\ Spec
    /\ WF_vars(ExecuteCommand) /\ WF_vars(ConnectionAnswers)
    /\ \A s \in Slaves : WF_vars(Cease(s))

-----------------------------------------------------------------------------
(* The operations that wait in the master: in a block, or outside of any.  *)
Pending(t) == IF t = 0 THEN non_atomic ELSE atomic[t]

(* What the real connection and the main queue have to answer.             *)
Below == Range(connection) \cup Range(scheduler)

Places(c) ==
    { p \in {"waits", "diverted", "below"} :
        CASE p = "waits" -> \E t \in 0 .. MaxTickets : c \in Range(Pending(t))
          [] p = "diverted" -> last_atomic_cmd = c
          [] p = "below" -> ToCaller(c) \in Below }

(* Between the call and its answer the ICommand is in one place, the       *)
(* master (in the queue of its ticket) or below it, and there once; twice  *)
(* it would be deleted twice.                                              *)
OnePlace ==
    /\ \A c \in Commands :
         IF c \in InUse THEN \E p \in {"waits", "diverted", "below"} : Places(c) = {p}
         ELSE Places(c) = {}
    /\ \A t \in 0 .. MaxTickets :
         /\ IsInjective(Pending(t))
         /\ \A c \in Range(Pending(t)) : commands[c].ticket = t
    /\ IsInjective(connection) /\ IsInjective(scheduler)
    /\ Range(connection) \cap Range(scheduler) = {}

(* On the line the operations of a block follow each other without those   *)
(* of anybody else, and the blocks come in the order of their tickets      *)
(* (CSharedConnection.h: "needs not to be interrupted", "establish a       *)
(* FIFO"), whatever the slaves issue or queue meanwhile, until an abort    *)
(* leaves commands to be answered twice.                                   *)
BlocksInTurn == ~doubled =>
    \A i, j \in DOMAIN line :
        i < j /\ line[i] # 0 /\ line[j] # 0 => line[i] < line[j]

(* The assertions of CMD_HANDLEENDOFBLOCK and HandleAtomicBlock: an end of *)
(* a block is on its way exactly while last_atomic_cmd waits for it, there *)
(* is one at most, and nobody waits in the master while no block is active. *)
EndOfBlockExpected ==
    /\ { e \in Below : e.to = "endofblock" } =
            IF last_atomic_cmd = 0 THEN {} ELSE {ToEndOfBlock(last_atomic_cmd)}
    /\ active_ticket = 0 => last_atomic_cmd = 0 /\ non_atomic = <<>> /\ Waiting = {}

(* No command is lost or held twice while it changes hands, and the end of *)
(* a block is announced once, for as long as no abort has found commands   *)
(* queued at the real connection: those are answered twice.                *)
SharedInv == TypeOK /\ (~doubled => OnePlace /\ EndOfBlockExpected)

(* Who is in a block has its own ticket, has not ceased it, and has the    *)
(* line or waits for it; ...                                               *)
BlocksBegun ==
    /\ \A r, s \in InBlock : current_ticket[r] = current_ticket[s] => r = s
    /\ \A s \in InBlock :
         /\ current_ticket[s] = active_ticket \/ current_ticket[s] \in Waiting
         /\ \A c \in InUse : commands[c].ticket = current_ticket[s] => ~commands[c].cease
    /\ \A c \in InUse : commands[c].ticket <= ticket_cnt

(* ... the block on the line is before all that wait, and the last on it.  *)
BlocksToCome ==
    /\ \A t \in Waiting : active_ticket < t
    /\ last_atomic_cmd # 0 => /\ commands[last_atomic_cmd].cease
                              /\ commands[last_atomic_cmd].ticket = active_ticket
    /\ active_ticket # 0 =>
         \A i \in DOMAIN line : line[i] < active_ticket
                                \/ (i = Len(line) /\ line[i] = active_ticket)

(* What is left of it where commands are answered twice.                   *)
TicketsIssued == /\ \A t \in Waiting : t <= ticket_cnt
                 /\ \A c \in Commands : commands[c].ticket <= ticket_cnt

(* The inductive invariant. *)
SharedIInv ==
    /\ SharedInv /\ BlocksInTurn
    /\ IF doubled THEN TicketsIssued ELSE BlocksBegun /\ BlocksToCome

(* Every operation is answered, also those that wait for others' blocks,   *)
(* unless an abort has left commands to be answered twice.                 *)
EveryCallAnswered == \A c \in Commands : c \in InUse ~> c \notin InUse \/ doubled
=============================================================================
