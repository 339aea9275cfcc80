---------------------------- MODULE SharedReads ----------------------------
(***************************************************************************)
(* The reads outside of atomic blocks on a shared connection (the blocks   *)
(* are in SharedConnection): several simulators on one line.  Each slave   *)
(* keeps its pending read and a timer; the master reads once for all of    *)
(* them, in slices of a second, up to the latest of their time-outs, and   *)
(* hands what comes in to every slave that is subscribed.                  *)
(* All of it runs in the main thread but the connection, which answers     *)
(* through the main queue.  A slave has one pending read at a time, as the *)
(* simulator has.                                                          *)
(***************************************************************************)
EXTENDS Integers, Sequences, FiniteSets, SequencesExt

CONSTANTS
    Readers,
    Timeouts,   \* of the reads
    MaxTime,    \* bound: the clock
    MaxQueue    \* bound: commands in the main queue when a caller acts

ASSUME ReadsAssumption ==
    /\ IsFiniteSet(Readers) /\ Timeouts \subseteq Nat \ {0}
    /\ MaxTime \in Nat /\ MaxQueue \in Nat \ {0}

VARIABLES
    pending_reads,  \* of each slave: the due times of its pending reads
    read_buffer,    \* of each slave: is there something in it
    reading_slaves, \* the subscribed slaves (slave_registered is membership)
    readtimeout,    \* until when the master reads, or NoDate
    reads,          \* the number of reads at the real connection
    timers,         \* the CMD_HANDLETIMEOUTS in the timed work
    queue,          \* of the main scheduler
    now, aborted    \* the clock; has AbortAll of the master been called

pendingVars == <<pending_reads, read_buffer, timers>>
readingVars == <<reading_slaves, readtimeout>>
readsVars == <<pendingVars, readingVars, reads, queue, now, aborted>>

NoDate == -1
Outcomes == {"data", "error", "timeout", "canceled"}
Completion(o) == [to |-> "master", outcome |-> o]
HandleRead(s, data) == [to |-> "slave", slave |-> s, data |-> data]
HandleTimeouts(s) == [to |-> "timeouts", slave |-> s]
Answer(s) == [to |-> "caller", slave |-> s]

Completions == { Completion(o) : o \in Outcomes }
HandleReads(s) == { HandleRead(s, data) : data \in BOOLEAN }
ForSlave(s) == HandleReads(s) \cup { HandleTimeouts(s), Answer(s) }

ReadsInit ==
    /\ pending_reads = [s \in Readers |-> <<>>] /\ read_buffer = [s \in Readers |-> FALSE]
    /\ reading_slaves = <<>> /\ readtimeout = NoDate /\ reads = 0
    /\ timers = {} /\ queue = <<>> /\ now = 0 /\ aborted = FALSE

ReadsTypeOK ==
    /\ pending_reads \in [Readers -> Seq(Nat)] /\ read_buffer \in [Readers -> BOOLEAN]
    /\ reading_slaves \in Seq(Readers) /\ readtimeout \in Nat \cup {NoDate}
    /\ reads \in Nat /\ timers \subseteq [slave : Readers, due : Nat]
    /\ queue \in Seq(Completions \cup UNION { ForSlave(s) : s \in Readers })
    /\ now \in 0 .. MaxTime /\ aborted \in BOOLEAN

-----------------------------------------------------------------------------
(* The calls.                                                              *)

Answered(s) == \E i \in DOMAIN queue : queue[i] = Answer(s)

\* A mistake: the read of another slave does not prolong the master's.
MasterReceive_FirstCounts(due) ==
    IF readtimeout = NoDate THEN reads' = reads + 1 /\ readtimeout' = due
    ELSE UNCHANGED <<reads, readtimeout>>

\* The master starts to read, or reads longer.
MasterReceive(due) ==
    IF readtimeout = NoDate THEN reads' = reads + 1 /\ readtimeout' = due
    ELSE /\ readtimeout' = IF readtimeout < due THEN due ELSE readtimeout
         /\ UNCHANGED reads

ReceiveBuffered(s) ==
    /\ read_buffer[s]
    /\ read_buffer' = [read_buffer EXCEPT ![s] = FALSE]
    /\ queue' = Append(queue, Answer(s))
    /\ UNCHANGED <<pending_reads, timers, readingVars, reads>>

ReceiveLater(s, timeout) ==
    /\ ~read_buffer[s]
    /\ pending_reads' = [pending_reads EXCEPT ![s] = Append(@, now + timeout)]
    /\ timers' = timers \cup {[slave |-> s, due |-> now + timeout]}
    /\ reading_slaves' = IF s \in Range(reading_slaves) THEN reading_slaves
                         ELSE Append(reading_slaves, s)
    /\ MasterReceive(now + timeout)
    /\ UNCHANGED <<read_buffer, queue>>

Receive(s) ==
    /\ Len(queue) < MaxQueue /\ pending_reads[s] = <<>> /\ ~Answered(s)
    /\ ReceiveBuffered(s) \/ \E timeout \in Timeouts : ReceiveLater(s, timeout)
    /\ UNCHANGED <<now, aborted>>

Connect(s) ==
    /\ read_buffer[s]
    /\ read_buffer' = [read_buffer EXCEPT ![s] = FALSE]
    /\ UNCHANGED <<pending_reads, timers, readingVars, reads, queue, now, aborted>>

\* The slave is unsubscribed (it is in the list once: SubscribedOnce).
Disconnect(s) ==
    /\ \E i \in DOMAIN reading_slaves :
           reading_slaves[i] = s /\ reading_slaves' = RemoveAt(reading_slaves, i)
    /\ read_buffer' = [read_buffer EXCEPT ![s] = FALSE]
    /\ UNCHANGED <<pending_reads, timers, readtimeout, reads, queue, now, aborted>>

\* AbortAll of a slave answers its pending read.
SlaveAbortAll(s) ==
    /\ Len(queue) < MaxQueue /\ pending_reads[s] # <<>>
    /\ queue' = Append(queue, Answer(s))
    /\ pending_reads' = [pending_reads EXCEPT ![s] = <<>>]
    /\ UNCHANGED <<read_buffer, timers, readingVars, reads, now, aborted>>

\* AbortAll of the master; bound: once.  A read that the thread of the real
\* connection has not taken yet is answered, and stays to be answered again.
MasterAbortAll ==
    /\ ~aborted /\ aborted' = TRUE
    /\ readtimeout' = NoDate
    /\ \E queued \in 0 .. reads :
           queue' = queue \o [i \in 1 .. queued |-> Completion("canceled")]
    /\ UNCHANGED <<pendingVars, reading_slaves, reads, now>>

-----------------------------------------------------------------------------
(* The real connection, the timers and the clock.                          *)

LineAnswers ==
    /\ reads > 0 /\ Len(queue) < MaxQueue
    /\ reads' = reads - 1
    /\ \E o \in Outcomes : /\ o = "canceled" => aborted
                           /\ queue' = Append(queue, Completion(o))
    /\ UNCHANGED <<pendingVars, readingVars, now, aborted>>

TimerExpires ==
    /\ Len(queue) < MaxQueue
    /\ \E t \in timers : /\ t.due <= now /\ timers' = timers \ {t}
                         /\ queue' = Append(queue, HandleTimeouts(t.slave))
    /\ UNCHANGED <<pending_reads, read_buffer, readingVars, reads, now, aborted>>

Tick ==
    /\ now < MaxTime /\ now' = now + 1
    /\ UNCHANGED <<pendingVars, readingVars, reads, queue, aborted>>

-----------------------------------------------------------------------------
(* The main queue.                                                         *)

Runs(to) == queue # <<>> /\ Head(queue).to = to

CallerReads ==
    /\ Runs("caller") /\ queue' = Tail(queue)
    /\ UNCHANGED <<pendingVars, readingVars, reads, now, aborted>>

\* Data, and errors other than a time-out, go to every subscribed slave and
\* end the reading.
Distribute ==
    /\ Head(queue).outcome \in {"data", "error"}
    /\ queue' = Tail(queue) \o [i \in DOMAIN reading_slaves |->
                    HandleRead(reading_slaves[i], Head(queue).outcome = "data")]
    /\ readtimeout' = NoDate /\ UNCHANGED reads

\* After a slice without data the master reads on while there is time.
ReadOn ==
    LET on == reading_slaves # <<>> /\ readtimeout # NoDate /\ now < readtimeout IN
    /\ Head(queue).outcome \in {"timeout", "canceled"}
    /\ queue' = Tail(queue)
    /\ reads' = IF on THEN reads + 1 ELSE reads
    /\ readtimeout' = IF on THEN readtimeout ELSE NoDate

HandleReadCompletion ==
    /\ Runs("master")
    /\ Distribute \/ ReadOn
    /\ UNCHANGED <<pendingVars, reading_slaves, now, aborted>>

\* What came in answers the pending read, or waits for the next one.
SlaveHandleRead ==
    LET s == Head(queue).slave IN
    /\ Runs("slave")
    /\ queue' = Tail(queue) \o [i \in DOMAIN pending_reads[s] |-> Answer(s)]
    /\ pending_reads' = [pending_reads EXCEPT ![s] = <<>>]
    /\ read_buffer' = [read_buffer EXCEPT ![s] =
                          @ \/ (pending_reads[s] = <<>> /\ Head(queue).data)]
    /\ UNCHANGED <<timers, readingVars, reads, now, aborted>>

\* The time stamp is looked up in the command that is executed, which has
\* none, instead of in the read: findData throws, and the handler erases the
\* read, whether it has expired or not, without an answer.
SlaveHandleTimeouts ==
    /\ Runs("timeouts") /\ queue' = Tail(queue)
    /\ pending_reads' = [pending_reads EXCEPT ![Head(queue).slave] = <<>>]
    /\ UNCHANGED <<read_buffer, timers, readingVars, reads, now, aborted>>

ReadsNext ==
    \/ \E s \in Readers : Receive(s) \/ Connect(s) \/ Disconnect(s) \/ SlaveAbortAll(s)
    \/ MasterAbortAll \/ LineAnswers \/ TimerExpires \/ Tick
    \/ CallerReads \/ HandleReadCompletion \/ SlaveHandleRead \/ SlaveHandleTimeouts

ReadsSpec == ReadsInit /\ [][ReadsNext]_readsVars

-----------------------------------------------------------------------------
\* How many of these commands there are in a queue.
Count(q, S) == Cardinality({ i \in DOMAIN q : q[i] \in S })

\* A read is answered once: what is pending is not on its way back, and there
\* is one answer at most (a command that is scheduled twice is deleted twice).
AnsweredAtMostOnce ==
    \A s \in Readers :
        Len(pending_reads[s]) + Count(queue, {Answer(s)}) <= 1

UnderWay == reads + Count(queue, Completions)

\* The master has one read under way exactly while it has a time until which
\* it reads; two of them would share what comes in between them.
OneReader == ~aborted => UnderWay = (IF readtimeout = NoDate THEN 0 ELSE 1)

\* A slave that is subscribed and waits is listened for until its time-out:
\* the master reads, or something for the slave is in the queue already.
Listened ==
    ~aborted =>
        \A s \in Range(reading_slaves) : \A i \in DOMAIN pending_reads[s] :
            pending_reads[s][i] > now =>
                \/ UnderWay > 0 /\ readtimeout >= pending_reads[s][i]
                \/ Count(queue, HandleReads(s)) > 0

\* No slave is subscribed twice: it would get everything twice.
SubscribedOnce == IsInjective(reading_slaves)

\* The parts above: how master and slaves share the reads of one line.
SharedReadsInv == ReadsTypeOK /\ AnsweredAtMostOnce /\ OneReader /\ Listened /\ SubscribedOnce
=============================================================================
