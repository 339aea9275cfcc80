--------------------------- MODULE Sputnik_proofs ---------------------------
(***************************************************************************)
(* The inverter object, for any set of queries, any strategies and any     *)
(* lengths of the answers, and the simulator that stands in for the real   *)
(* inverter, for any number of clients, of `disconnect`s and any tokens.   *)
(***************************************************************************)
EXTENDS SputnikInverter, Simulator, FiniteSetTheorems, WellFoundedInduction, TLAPS

-----------------------------------------------------------------------------
(* The inverter object.                                                    *)

(* The four shapes of the chain: what the object waits for.                *)
InQueue(c) == queue = <<c>> /\ timed = <<>> /\ ops = <<>>
InTimed(k) == queue = <<>> /\ timed = <<k>> /\ ops = <<>>
InOps(o) == queue = <<>> /\ timed = <<>> /\ ops = <<o>>
Ended == queue = <<>> /\ timed = <<>> /\ ops = <<>>

Commands == [code : Codes, ok : BOOLEAN]
Operations == [op : Ops, code : Codes]

Chain ==
    \/ \E c \in Commands : InQueue(c)
    \/ \E k \in Codes : InTimed(k)
    \/ \E o \in Operations : InOps(o) /\ (o.code = "EVALUATE_RECEIVE" => o.op = "Receive")
    \/ Ended /\ shutdown

(* The receive that ceases a block is still under way when the block is.   *)
BlockHeld ==
    block => \/ Awaits({"WAIT_SENT"})
             \/ \E i \in DOMAIN ops : ops[i].code = "EVALUATE_RECEIVE"

IInv == Chain /\ FreshStart /\ QueriesSettled /\ BlockHeld

(* Where ExecuteCommand finds the object, and where its three ways to go   *)
(* on take it.                                                             *)
LEMMA Executing ==
    ASSUME NEW code, Chain, Executes(code)
    PROVE  \E c \in Commands :
              /\ InQueue(c) /\ c.code = code /\ Head(queue) = c
              /\ \A codes : Awaits(codes) <=> code \in codes
  BY DEF Chain, Executes, InQueue, InTimed, InOps, Ended, Awaits

LEMMA GotoStep ==
    ASSUME NEW c, InQueue(c), NEW code \in Codes, Goto(code)
    PROVE  /\ Chain'
           /\ ops' = <<>>
           /\ \A codes : Awaits(codes)' <=> code \in codes
<1>1. PICK d : d = Command(code, TRUE)
  OBVIOUS
<1>2. d \in Commands /\ d.code = code
  BY <1>1 DEF Command, Commands
<1>3. queue' = <<d>> /\ timed' = <<>> /\ ops' = <<>>
  <2>1. Tail(queue) = <<>>
    BY DEF InQueue
  <2>2. queue' = Append(<<>>, d)
    BY <1>1, <2>1 DEF Goto
  <2>3. Append(<<>>, d) = <<d>>
    OBVIOUS
  <2>4. timed' = <<>> /\ ops' = <<>>
    BY DEF InQueue, Goto
  <2> QED
    BY <2>2, <2>3, <2>4
<1>4. Chain'
  BY <1>2, <1>3 DEF Chain, InQueue
<1> QED
  BY <1>2, <1>3, <1>4 DEF Awaits

LEMMA GotoLaterStep ==
    ASSUME NEW c, InQueue(c), NEW code \in Codes, GotoLater(code)
    PROVE  /\ Chain'
           /\ ops' = <<>>
           /\ \A codes : Awaits(codes)' <=> code \in codes
<1>1. queue' = <<>> /\ timed' = <<code>> /\ ops' = <<>>
  BY DEF InQueue, GotoLater
<1> QED
  BY <1>1 DEF Chain, InTimed, Awaits

LEMMA StartStep ==
    ASSUME NEW c, InQueue(c), NEW op \in Ops, NEW code \in Codes, Start(op, code),
           code = "EVALUATE_RECEIVE" => op = "Receive"
    PROVE  /\ Chain'
           /\ ops' = <<[op |-> op, code |-> code]>>
           /\ \A codes : Awaits(codes)' <=> code \in codes
<1>1. PICK o : o = [op |-> op, code |-> code]
  OBVIOUS
<1>2. o \in Operations /\ o.code = code /\ o.op = op
  BY <1>1 DEF Operations
<1>3. queue' = <<>> /\ timed' = <<>> /\ ops' = <<o>>
  BY <1>1 DEF InQueue, Start
<1>4. Chain'
  BY <1>2, <1>3 DEF Chain, InOps
<1> QED
  BY <1>1, <1>2, <1>3, <1>4 DEF Awaits

-----------------------------------------------------------------------------
(* The constructor leaves the object with one command and no block.        *)
THEOREM InitInv == Init => IInv
<1> SUFFICES ASSUME Init PROVE IInv
  OBVIOUS
<1>1. PICK c : c = Command("INIT", TRUE)
  OBVIOUS
<1>2. c \in Commands /\ c.code = "INIT" /\ InQueue(c)
  BY <1>1 DEF Init, Command, Commands, Codes, InQueue
<1>3. Chain
  BY <1>2 DEF Chain
<1>4. FreshStart /\ QueriesSettled /\ BlockHeld
  BY <1>2 DEF FreshStart, QueriesSettled, BlockHeld, Awaits, InQueue, Reset,
              Init, BackoffInit
<1> QED
  BY <1>3, <1>4 DEF IInv

(* The handlers that lead away from an exchange, and those that go on.     *)
LEMMA ReconnectStep ==
    ASSUME IInv, Disconnected \/ DisconnectedWait \/ Initialize \/ Wait4Connection
    PROVE  IInv'
<1> USE DEF IInv, FreshStart, QueriesSettled, BlockHeld, Codes, Ops, lineVars, queryVars,
        backoffVars, Reset
<1>1. CASE Disconnected
  <2>1. PICK c \in Commands : InQueue(c) /\ \A codes : Awaits(codes) <=> "DISCONNECTED" \in codes
    BY <1>1, Executing DEF Disconnected
  <2>2. /\ Chain'
        /\ \A i \in DOMAIN ops' : ops'[i].code # "EVALUATE_RECEIVE"
        /\ \A codes : Awaits(codes)' <=> "DISCONNECTED_WAIT" \in codes
    BY <1>1, <2>1, GotoStep, StartStep DEF Disconnected
  <2>3. ~block
    BY <2>1 DEF InQueue
  <2> QED
    BY <1>1, <2>2, <2>3 DEF Disconnected, InverterDisconnected
<1>2. CASE DisconnectedWait
  <2>1. PICK c \in Commands :
            InQueue(c) /\ \A codes : Awaits(codes) <=> "DISCONNECTED_WAIT" \in codes
    BY <1>2, Executing DEF DisconnectedWait
  <2>2. Chain' /\ ops' = <<>> /\ \A codes : Awaits(codes)' <=> "INIT" \in codes
    BY <1>2, <2>1, GotoLaterStep DEF DisconnectedWait
  <2>3. ~block
    BY <2>1 DEF InQueue
  <2> QED
    BY <1>2, <2>1, <2>2, <2>3 DEF DisconnectedWait
<1>3. CASE Initialize
  <2>1. PICK c \in Commands : InQueue(c) /\ \A codes : Awaits(codes) <=> "INIT" \in codes
    BY <1>3, Executing DEF Initialize
  <2>2. ~block
    BY <2>1 DEF InQueue
  <2>3. CASE shutdown
    <3>1. Ended' /\ shutdown'
      BY <1>3, <2>1, <2>3 DEF Initialize, InQueue, Ended
    <3> QED
      BY <1>3, <2>2, <3>1 DEF Initialize, Ended, Chain, Awaits
  <2>4. CASE ~shutdown
    <3>1. /\ Chain' /\ ops' = <<[op |-> "Connect", code |-> "WAIT4CONNECTION"]>>
          /\ \A codes : Awaits(codes)' <=> "WAIT4CONNECTION" \in codes
      BY <1>3, <2>1, <2>4, StartStep DEF Initialize
    <3> QED
      BY <1>3, <2>1, <2>2, <3>1 DEF Initialize
  <2> QED
    BY <2>3, <2>4
<1>4. CASE Wait4Connection
  <2>1. PICK c \in Commands :
            InQueue(c) /\ \A codes : Awaits(codes) <=> "WAIT4CONNECTION" \in codes
    BY <1>4, Executing DEF Wait4Connection
  <2>2. PICK next \in {"QUERY_POLL", "DISCONNECTED"} :
            Chain' /\ ops' = <<>> /\ \A codes : Awaits(codes)' <=> next \in codes
    BY <1>4, <2>1, GotoStep DEF Wait4Connection
  <2>3. ~block
    BY <2>1 DEF InQueue
  <2> QED
    BY <1>4, <2>1, <2>2, <2>3 DEF Wait4Connection
<1> QED
  BY <1>1, <1>2, <1>3, <1>4

LEMMA ExchangeStep ==
    ASSUME IInv,
           \/ QueryPoll \/ SendRemaining \/ WaitSent \/ ReceiveFailed \/ NotATelegram
           \/ \E tokens, zero : Telegram(tokens, zero) \/ TelegramWithError(tokens, zero)
    PROVE  IInv'
<1> USE DEF IInv, FreshStart, QueriesSettled, BlockHeld, Codes, Ops, lineVars, queryVars,
        backoffVars
<1>1. CASE QueryPoll \/ SendRemaining
  <2>1. PICK code \in {"QUERY_POLL", "SEND_QUERIES"} : Executes(code)
    BY <1>1 DEF QueryPoll, SendRemaining
  <2>2. PICK c \in Commands : InQueue(c)
    BY <2>1, Executing
  <2>3. Start("Send", "WAIT_SENT")
    BY <1>1 DEF QueryPoll, SendRemaining, SendQueries
  <2>4. Chain' /\ \A codes : Awaits(codes)' <=> "WAIT_SENT" \in codes
    BY <2>2, <2>3, StartStep
  <2> QED
    BY <2>4
<1>2. CASE WaitSent
  <2>1. PICK c \in Commands : InQueue(c)
    BY <1>2, Executing DEF WaitSent
  <2>2. CASE Head(queue).ok
    <3>1. /\ Chain' /\ ops' = <<[op |-> "Receive", code |-> "EVALUATE_RECEIVE"]>>
          /\ \A codes : Awaits(codes)' <=> "EVALUATE_RECEIVE" \in codes
      BY <1>2, <2>1, <2>2, StartStep DEF WaitSent
    <3>2. 1 \in DOMAIN ops' /\ ops'[1].code = "EVALUATE_RECEIVE"
      BY <3>1
    <3> QED
      BY <3>1, <3>2
  <2>3. CASE ~Head(queue).ok
    <3>1. Chain' /\ (\A codes : Awaits(codes)' <=> "DISCONNECTED" \in codes) /\ ~block'
      BY <1>2, <2>1, <2>3, GotoStep DEF WaitSent
    <3> QED
      BY <3>1
  <2> QED
    BY <2>2, <2>3
<1>3. ASSUME ReceiveFailed \/ NotATelegram \/ \E tokens, zero : TelegramWithError(tokens, zero)
      PROVE  IInv'
  <2>1. Executes("EVALUATE_RECEIVE") /\ Goto("DISCONNECTED") /\ UNCHANGED block
    BY <1>3 DEF ReceiveFailed, NotATelegram, TelegramWithError
  <2>2. PICK c \in Commands :
            InQueue(c) /\ \A codes : Awaits(codes) <=> "EVALUATE_RECEIVE" \in codes
    BY <2>1, Executing
  <2>3. Chain' /\ \A codes : Awaits(codes)' <=> "DISCONNECTED" \in codes
    BY <2>1, <2>2, GotoStep
  <2>4. ~block
    BY <2>2 DEF InQueue
  <2> QED
    BY <2>1, <2>3, <2>4
<1>4. ASSUME NEW tokens, NEW zero, Telegram(tokens, zero)
      PROVE  IInv'
  <2>1. PICK c \in Commands :
            InQueue(c) /\ \A codes : Awaits(codes) <=> "EVALUATE_RECEIVE" \in codes
    BY <1>4, Executing DEF Telegram
  <2>2. ~block /\ ~block'
    BY <1>4, <2>1 DEF InQueue, Telegram
  <2>3. CASE pendingcommands # <<>>
    <3>1. Chain' /\ \A codes : Awaits(codes)' <=> "SEND_QUERIES" \in codes
      BY <1>4, <2>1, <2>3, GotoStep DEF Telegram
    <3> QED
      BY <2>2, <3>1
  <2>4. CASE pendingcommands = <<>>
    <3>1. Chain' /\ \A codes : Awaits(codes)' <=> "QUERY_POLL" \in codes
      BY <1>4, <2>1, <2>4, GotoLaterStep DEF Telegram
    <3>2. pendingcommands' = <<>> /\ notansweredcommands' = {}
      BY <1>4, <2>4 DEF Telegram
    <3> QED
      BY <2>2, <3>1, <3>2
  <2> QED
    BY <2>3, <2>4
<1> QED
  BY <1>1, <1>2, <1>3, <1>4

(* What the environment does: the chain moves on with the same code.       *)
LEMMA EnvironmentStep ==
    ASSUME IInv, Shutdown \/ Due \/ Answered \/ Tick
    PROVE  IInv'
<1> USE DEF IInv, FreshStart, QueriesSettled, BlockHeld, lineVars, queryVars, chainVars,
        backoffVars, Reset
<1>1. CASE Shutdown
  BY <1>1 DEF Shutdown, Chain, InQueue, InTimed, InOps, Ended, Awaits
<1>2. CASE Tick
  BY <1>2 DEF Tick, Chain, InQueue, InTimed, InOps, Ended, Awaits
<1>3. CASE Due
  <2>1. PICK k \in Codes : InTimed(k)
    BY <1>3 DEF Due, Chain, InQueue, InTimed, InOps, Ended
  <2>2. PICK d : d = [code |-> k, ok |-> TRUE]
    OBVIOUS
  <2>3. d \in Commands /\ d.code = k /\ InQueue(d)'
    BY <1>3, <2>1, <2>2 DEF Due, InTimed, InQueue, Command, Commands
  <2>4. \A codes : (Awaits(codes) <=> k \in codes) /\ (Awaits(codes)' <=> k \in codes)
    BY <2>1, <2>3 DEF InTimed, InQueue, Awaits
  <2>5. Chain'
    BY <2>3 DEF Chain
  <2>6. block => k = "WAIT_SENT"
    BY <2>1, <2>4 DEF InTimed
  <2> QED
    BY <1>3, <2>4, <2>5, <2>6 DEF Due
<1>4. ASSUME NEW ok \in BOOLEAN, ConnectionAnswers(ok)
      PROVE  IInv'
  <2>1. PICK o \in Operations : InOps(o) /\ (o.code = "EVALUATE_RECEIVE" => o.op = "Receive")
    BY <1>4 DEF ConnectionAnswers, Chain, InQueue, InTimed, InOps, Ended
  <2>2. PICK d : d = [code |-> o.code, ok |-> ok]
    OBVIOUS
  <2>3. d \in Commands /\ d.code = o.code /\ InQueue(d)'
    BY <1>4, <2>1, <2>2 DEF ConnectionAnswers, InOps, InQueue, Command, Commands, Operations
  <2>4. \A codes : (Awaits(codes) <=> o.code \in codes) /\ (Awaits(codes)' <=> o.code \in codes)
    BY <2>1, <2>3 DEF InOps, InQueue, Awaits
  <2>5. Chain'
    BY <2>3 DEF Chain
  <2>6. block' => o.code = "WAIT_SENT"
    <3>1. Head(ops) = o /\ \A i \in DOMAIN ops : ops[i] = o
      BY <2>1 DEF InOps
    <3>2. block' => block /\ o.op # "Receive"
      BY <1>4, <3>1 DEF ConnectionAnswers
    <3> QED
      BY <2>1, <2>4, <3>1, <3>2
  <2> QED
    BY <1>4, <2>4, <2>5, <2>6 DEF ConnectionAnswers
<1> QED
  BY <1>1, <1>2, <1>3, <1>4 DEF Answered

(* The inductive invariant of the inverter object, for every table of queries. *)
THEOREM Invariance == Spec => []IInv
<1>1. IInv /\ [Next]_vars => IInv'
  <2> SUFFICES ASSUME IInv, [Next]_vars PROVE IInv'
    OBVIOUS
  <2>1. CASE ExecuteCommand
    BY <2>1, ReconnectStep, ExchangeStep DEF ExecuteCommand
  <2>2. CASE Shutdown \/ Due \/ Answered \/ Tick
    BY <2>2, EnvironmentStep
  <2>3. CASE UNCHANGED vars
    BY <2>3 DEF vars, chainVars, lineVars, queryVars, backoffVars, IInv, Chain, FreshStart,
                QueriesSettled, BlockHeld, InQueue, InTimed, InOps, Ended, Awaits, Reset
  <2> QED
    BY <2>1, <2>2, <2>3 DEF Next
<1> QED
  BY InitInv, <1>1, PTL DEF Spec

(* The object never talks over itself and never stalls.                    *)
THEOREM Continues == Spec => []OneContinuation
<1>1. IInv => OneContinuation
  <2> SUFFICES ASSUME Chain PROVE OneContinuation
    BY DEF IInv
  <2>1. ASSUME NEW x PROVE Len(<<x>>) = 1
    OBVIOUS
  <2>2. Len(<<>>) = 0
    OBVIOUS
  <2>3. CASE Ended /\ shutdown
    BY <2>2, <2>3 DEF OneContinuation, Ended
  <2>4. CASE \E c : InQueue(c)
    BY <2>1, <2>2, <2>4 DEF OneContinuation, InQueue
  <2>5. CASE \E k : InTimed(k)
    BY <2>1, <2>2, <2>5 DEF OneContinuation, InTimed
  <2>6. CASE \E o : InOps(o)
    BY <2>1, <2>2, <2>6 DEF OneContinuation, InOps
  <2> QED
    BY <2>3, <2>4, <2>5, <2>6 DEF Chain
<1> QED
  BY <1>1, Invariance, PTL

(* Nothing of a lost connection is left when it reconnects, and nothing of *)
(* the last poll when the next one starts.                                 *)
THEOREM StartsClean == Spec => [](FreshStart /\ QueriesSettled)
<1>1. IInv => FreshStart /\ QueriesSettled
  BY DEF IInv
<1> QED
  BY <1>1, Invariance, PTL

(* The atomic block ceases on every path.                                  *)
THEOREM BlocksCease == Spec => []BlockCeased
<1>1. IInv => BlockCeased
  BY DEF IInv, BlockHeld, BlockCeased, Awaits
<1> QED
  BY <1>1, Invariance, PTL

-----------------------------------------------------------------------------
(* What the recursive functions of the model return.                       *)

(* Induction from 0 to n with a set in place of a predicate: the form of   *)
(* the least-number principle that needs no operator parameter.            *)
LEMMA InductionUpTo ==
    ASSUME NEW n \in Nat, NEW T, 0 \in T, \A i \in 0..n : i \in T /\ i # n => i + 1 \in T
    PROVE  0..n \subseteq T
<1> SUFFICES ASSUME NEW k \in 0..n, k \notin T PROVE FALSE
  OBVIOUS
<1> DEFINE D == { i \in 0..n : i \notin T }
           R == OpToRel(<, Nat)
<1>1. IsWellFoundedOn(R, Nat)
  BY NatLessThanWellFounded
<1>2. D \subseteq Nat /\ D # {}
  OBVIOUS
<1>3. PICK m \in D : \A y \in D : ~ (<<y, m>> \in R)
  <2> HIDE DEF D, R
  <2> QED
    BY <1>1, <1>2, WFMin
<1>4. \A y \in D : ~ (y < m)
  BY <1>2, <1>3 DEF OpToRel
<1>5. m # 0 /\ m \in 1..n /\ m - 1 \in 0..n
  OBVIOUS
<1>6. m - 1 \in T
  BY <1>4, <1>5
<1> QED
  BY <1>5, <1>6

Follows(f, n, v0, step) == f[0] = v0 /\ \A i \in 1..n : f[i] = step[i][f[i - 1]]

(* Recursion along 0..n, with the step as a function: what it defines      *)
(* exists, and stays in V.                                                 *)
LEMMA Recursion ==
    ASSUME NEW n \in Nat, NEW V, NEW v0 \in V, NEW step \in [1..n -> [V -> V]]
    PROVE  \E f \in [0..n -> V] : Follows(f, n, v0, step)
<1> DEFINE Good(m, f) == f[0] = v0 /\ \A i \in 1..m : f[i] = step[i][f[i - 1]]
           T == { m \in 0..n : \E f \in [0..m -> V] : Good(m, f) }
<1>1. 0 \in T
  <2>1. PICK f : f = [i \in 0..0 |-> v0]
    OBVIOUS
  <2>2. f \in [0..0 -> V] /\ Good(0, f)
    BY <2>1
  <2> QED
    BY <2>2
<1>2. ASSUME NEW m \in 0..n, m \in T, m # n PROVE m + 1 \in T
  <2>1. PICK f \in [0..m -> V] : Good(m, f)
    BY <1>2
  <2>2. PICK g : g = [i \in 0..(m + 1) |-> IF i = m + 1 THEN step[m + 1][f[m]] ELSE f[i]]
    OBVIOUS
  <2>3. step[m + 1] \in [V -> V] /\ f[m] \in V
    BY <1>2
  <2>4. g \in [0..(m + 1) -> V]
    BY <2>2, <2>3
  <2>5. Good(m + 1, g)
    BY <2>1, <2>2
  <2> QED
    BY <1>2, <2>4, <2>5
<1>3. 0..n \subseteq T
  <2> HIDE DEF T
  <2> QED
    BY <1>1, <1>2, InductionUpTo
<1>4. n \in T
  BY <1>3
<1> QED
  BY <1>4 DEF Follows

(* f[i] is what Only() has kept of the first i elements of s.              *)
Filters(f, n, s, qs) ==
    /\ f[0] = <<>>
    /\ \A i \in 1..n :
          f[i] = IF s[i] \in qs THEN Append(f[i - 1], s[i]) ELSE f[i - 1]

(* Only() is the function its recursive definition describes.              *)
LEMMA OnlyUnfolds ==
    ASSUME NEW S, NEW s \in Seq(S), NEW qs, NEW n, n = Len(s)
    PROVE  \E f \in [0..n -> Seq(S)] : Only(s, qs) = f[n] /\ Filters(f, n, s, qs)
<1> DEFINE next(i, v) == IF s[i] \in qs THEN Append(v, s[i]) ELSE v
           Def(g) == [i \in 0..n |-> IF i = 0 THEN <<>> ELSE next(i, g[i - 1])]
           only == CHOOSE g : g = Def(g)
<1>1. n \in Nat /\ \A i \in 1..n : s[i] \in S
  OBVIOUS
<1>a. \A i \in 0..n : i = 0 \/ (i \in 1..n /\ i - 1 \in 0..n)
  BY ONLY <1>1
<1>b. \A i \in 1..n : i # 0 /\ i \in 0..n /\ i - 1 \in 0..n
  BY ONLY <1>1
<1>c. 0 \in 0..n
  BY ONLY <1>1
<1>2. PICK step \in [1..n -> [Seq(S) -> Seq(S)]] :
         \A i \in 1..n, v \in Seq(S) : step[i][v] = next(i, v)
  <2>1. \A i \in 1..n, v \in Seq(S) : next(i, v) \in Seq(S)
    BY <1>1
  <2>2. [i \in 1..n |-> [v \in Seq(S) |-> next(i, v)]] \in [1..n -> [Seq(S) -> Seq(S)]]
    <3> HIDE DEF next
    <3> QED
      BY <2>1
  <2> HIDE DEF next
  <2> QED
    BY <2>2
<1>3. PICK f \in [0..n -> Seq(S)] : f[0] = <<>> /\ \A i \in 1..n : f[i] = step[i][f[i - 1]]
  <2>1. PICK V : V = Seq(S)
    OBVIOUS
  <2>2. PICK e : e = <<>>
    OBVIOUS
  <2>3. n \in Nat /\ e \in V /\ step \in [1..n -> [V -> V]]
    BY <1>1, <1>2, <2>1, <2>2
  <2>4. \E f \in [0..n -> V] : Follows(f, n, e, step)
    BY ONLY <2>3, Recursion
  <2> QED
    BY ONLY <2>1, <2>2, <2>4 DEF Follows
<1>4. \A i \in 1..n : f[i] = next(i, f[i - 1])
  <2> HIDE DEF next
  <2> QED
    BY ONLY f \in [0..n -> Seq(S)], <1>b, <1>2, <1>3
<1>5. f = Def(f)
  <2> HIDE DEF next
  <2> QED
    BY <1>a, <1>3, <1>4
<1>6. only = Def(only)
  <2> HIDE DEF Def
  <2> QED
    BY <1>5
<1>7. only[0] = <<>> /\ \A i \in 1..n : only[i] = next(i, only[i - 1])
  <2> HIDE DEF only, next
  <2>1. only[0] = IF 0 = 0 THEN <<>> ELSE next(0, only[0 - 1])
    BY <1>c, <1>6
  <2>2. ASSUME NEW i \in 1..n PROVE only[i] = next(i, only[i - 1])
    BY <1>b, <1>6
  <2> QED
    BY <2>1, <2>2
<1> DEFINE T == { i \in 0..n : only[i] = f[i] }
<1>8. 0 \in T
  <2> HIDE DEF only
  <2> QED
    BY <1>1, <1>3, <1>7
<1>9. ASSUME NEW i \in 0..n, i \in T, i # n PROVE i + 1 \in T
  <2>1. i + 1 \in 1..n /\ (i + 1) - 1 = i
    BY <1>1, <1>9
  <2> HIDE DEF only, next
  <2>2. only[i + 1] = next(i + 1, only[i]) /\ f[i + 1] = next(i + 1, f[i])
    BY <1>4, <1>7, <2>1
  <2> QED
    BY <1>9, <2>1, <2>2
<1>10. 0..n \subseteq T
  <2> HIDE DEF T
  <2> QED
    BY ONLY <1>1, <1>8, <1>9, InductionUpTo
<1>11. Only(s, qs) = only[n]
  BY DEF Only
<1>12. Only(s, qs) = f[n]
  <2> HIDE DEF only
  <2> QED
    BY <1>1, <1>10, <1>11
<1>13. Filters(f, n, s, qs)
  BY <1>3, <1>4 DEF Filters
<1> QED
  BY <1>12, <1>13

Contents(s) == { s[i] : i \in DOMAIN s }

LEMMA AppendContents ==
    ASSUME NEW S, NEW s \in Seq(S), NEW e \in S
    PROVE  Contents(Append(s, e)) = Contents(s) \cup {e}
<1>1. \A i \in DOMAIN s : i \in DOMAIN Append(s, e) /\ Append(s, e)[i] = s[i]
  OBVIOUS
<1>2. \A i \in DOMAIN Append(s, e) : Append(s, e)[i] = e \/ i \in DOMAIN s
  OBVIOUS
<1>3. Len(s) + 1 \in DOMAIN Append(s, e) /\ Append(s, e)[Len(s) + 1] = e
  OBVIOUS
<1>4. ASSUME NEW i \in DOMAIN Append(s, e)
      PROVE  Append(s, e)[i] \in Contents(s) \cup {e}
  BY <1>1, <1>2 DEF Contents
<1>5. ASSUME NEW i \in DOMAIN s PROVE s[i] \in Contents(Append(s, e))
  BY <1>1 DEF Contents
<1>6. e \in Contents(Append(s, e))
  BY <1>3 DEF Contents
<1> QED
  BY <1>4, <1>5, <1>6 DEF Contents

(* It returns a sequence with exactly the elements of s that are in qs.    *)
LEMMA OnlyContents ==
    ASSUME NEW S, NEW s \in Seq(S), NEW qs
    PROVE  Only(s, qs) \in Seq(S) /\ Contents(Only(s, qs)) = Contents(s) \cap qs
<1>1. PICK n : n = Len(s)
  OBVIOUS
<1>2. n \in Nat /\ DOMAIN s = 1..n /\ \A i \in 1..n : s[i] \in S
  BY <1>1
<1>3. PICK V : V = Seq(S)
  OBVIOUS
<1>4. PICK f \in [0..n -> V] : Only(s, qs) = f[n] /\ Filters(f, n, s, qs)
  <2>1. \E f \in [0..n -> Seq(S)] : Only(s, qs) = f[n] /\ Filters(f, n, s, qs)
    BY ONLY s \in Seq(S), <1>1, OnlyUnfolds
  <2> QED
    BY ONLY <2>1, <1>3
<1> DEFINE First(i) == { s[j] : j \in 1..i }
           T == { i \in 0..n : Contents(f[i]) = First(i) \cap qs }
<1>5. 0 \in T
  <2>1. f[0] = <<>> /\ Contents(<<>>) = {} /\ First(0) = {} /\ 0 \in 0..n
    BY ONLY <1>2, <1>4 DEF Filters, Contents
  <2> HIDE DEF First
  <2> QED
    BY ONLY <2>1
<1>6. ASSUME NEW i \in 0..n, i \in T, i # n PROVE i + 1 \in T
  <2>1. i + 1 \in 0..n /\ i + 1 \in 1..n /\ (i + 1) - 1 = i
    BY ONLY <1>2, i \in 0..n, i # n
  <2>2. 1..(i + 1) = (1..i) \cup {i + 1}
    BY ONLY <1>2, i \in 0..n
  <2>3. First(i + 1) = First(i) \cup { s[i + 1] }
    BY ONLY <2>2
  <2>4. f[i] \in Seq(S) /\ s[i + 1] \in S
    BY ONLY <1>2, <1>3, <1>4, <2>1, i \in 0..n
  <2>5. Contents(Append(f[i], s[i + 1])) = Contents(f[i]) \cup { s[i + 1] }
    BY ONLY <2>4, AppendContents
  <2>6. f[i + 1] = IF s[i + 1] \in qs THEN Append(f[i], s[i + 1]) ELSE f[i]
    <3>1. f[i + 1] = IF s[i + 1] \in qs THEN Append(f[(i + 1) - 1], s[i + 1])
                                        ELSE f[(i + 1) - 1]
      BY ONLY <1>4, <2>1 DEF Filters
    <3> QED
      BY ONLY <2>1, <3>1
  <2>7. Contents(f[i]) = First(i) \cap qs
    BY ONLY i \in T
  <2> HIDE DEF First
  <2>8. Contents(f[i + 1]) = First(i + 1) \cap qs
    BY ONLY <2>3, <2>5, <2>6, <2>7
  <2> QED
    BY ONLY <2>1, <2>8
<1>7. 0..n \subseteq T
  <2> HIDE DEF T
  <2> QED
    BY ONLY <1>2, <1>5, <1>6, InductionUpTo
<1>8. n \in 0..n /\ Contents(s) = First(n)
  BY ONLY <1>2 DEF Contents
<1>9. Contents(f[n]) = First(n) \cap qs
  BY ONLY <1>7, <1>8
<1>10. f[n] \in V
  BY ONLY <1>4, <1>8
<1> HIDE DEF First
<1> QED
  BY ONLY <1>3, <1>4, <1>8, <1>9, <1>10

LEMMA ConcatContents ==
    ASSUME NEW S, NEW s \in Seq(S), NEW t \in Seq(S)
    PROVE  s \o t \in Seq(S) /\ Contents(s \o t) = Contents(s) \cup Contents(t)
<1>1. \A i \in DOMAIN s : i \in DOMAIN (s \o t) /\ (s \o t)[i] = s[i]
  OBVIOUS
<1>2. \A i \in DOMAIN t : Len(s) + i \in DOMAIN (s \o t) /\ (s \o t)[Len(s) + i] = t[i]
  OBVIOUS
<1>3. \A i \in DOMAIN (s \o t) :
         \/ i \in DOMAIN s
         \/ i - Len(s) \in DOMAIN t /\ (s \o t)[i] = t[i - Len(s)]
  OBVIOUS
<1>4. ASSUME NEW i \in DOMAIN (s \o t) PROVE (s \o t)[i] \in Contents(s) \cup Contents(t)
  BY <1>1, <1>3 DEF Contents
<1>5. ASSUME NEW i \in DOMAIN s PROVE s[i] \in Contents(s \o t)
  BY <1>1 DEF Contents
<1>6. ASSUME NEW i \in DOMAIN t PROVE t[i] \in Contents(s \o t)
  BY <1>2 DEF Contents
<1>7. Contents(s \o t) \subseteq Contents(s) \cup Contents(t)
  <2> SUFFICES ASSUME NEW e \in Contents(s \o t) PROVE e \in Contents(s) \cup Contents(t)
    OBVIOUS
  <2>1. PICK i \in DOMAIN (s \o t) : e = (s \o t)[i]
    BY Zenon DEF Contents
  <2> QED
    BY ONLY <1>4, <2>1
<1>8. Contents(s) \cup Contents(t) \subseteq Contents(s \o t)
  BY ONLY <1>5, <1>6, Zenon DEF Contents
<1>9. s \o t \in Seq(S)
  OBVIOUS
<1> QED
  BY ONLY <1>7, <1>8, <1>9

-----------------------------------------------------------------------------
(* The types: what waits, the lines and queries, the strategies.           *)
ChainTypes ==
    queue \in Seq(Commands) /\ timed \in Seq(Codes) /\ ops \in Seq(Operations)

OwnTypes ==
    /\ connected \in BOOLEAN /\ block \in BOOLEAN
    /\ pendingcommands \in Seq(Queries) /\ notansweredcommands \subseteq Queries
    /\ datastate \in BOOLEAN /\ shutdown \in BOOLEAN

LEMMA Types == TypeOK <=> BackoffTypeOK /\ ChainTypes /\ OwnTypes
  BY DEF TypeOK, ChainTypes, OwnTypes, Commands, Operations

LEMMA TypesNext == BackoffTypeOK' /\ ChainTypes' /\ OwnTypes' => TypeOK'
  BY DEF TypeOK, ChainTypes, OwnTypes, Commands, Operations

LEMMA Empty == ASSUME NEW S PROVE <<>> \in Seq(S)
  OBVIOUS

LEMMA AppendTypes ==
    ASSUME NEW S, NEW s \in Seq(S), NEW e \in S PROVE Append(s, e) \in Seq(S)
  OBVIOUS

LEMMA ExecutedTypes ==
    ASSUME ChainTypes, NEW code, Executes(code)
    PROVE  Head(queue) \in Commands /\ Tail(queue) \in Seq(Commands)
  BY DEF ChainTypes, Executes

LEMMA GotoTypes ==
    ASSUME ChainTypes, NEW at, Executes(at), NEW code \in Codes, Goto(code)
    PROVE  ChainTypes'
<1>1. Command(code, TRUE) \in Commands
  BY DEF Command, Commands
<1>2. queue' = Append(Tail(queue), Command(code, TRUE))
  BY DEF Goto
<1>3. queue' \in Seq(Commands)
  BY ONLY <1>1, <1>2, ExecutedTypes, AppendTypes, ChainTypes, Executes(at)
<1> QED
  BY <1>3 DEF ChainTypes, Goto

LEMMA GotoLaterTypes ==
    ASSUME ChainTypes, NEW at, Executes(at), NEW code \in Codes, GotoLater(code)
    PROVE  ChainTypes'
  BY ExecutedTypes DEF ChainTypes, GotoLater

LEMMA StartTypes ==
    ASSUME ChainTypes, NEW at, Executes(at),
           NEW op \in Ops, NEW code \in Codes, Start(op, code)
    PROVE  ChainTypes'
<1>1. [op |-> op, code |-> code] \in Operations
  BY DEF Operations
<1> QED
  BY <1>1, ExecutedTypes DEF ChainTypes, Start

LEMMA HandleTypes ==
    ASSUME BackoffTypeOK, NEW tokens, NEW zero, HandleTokens(tokens, zero)
    PROVE  /\ answered' \in [Queries -> BOOLEAN]
           /\ last' \in [Queries -> (0..MaxTime) \cup {NotADateTime}]
           /\ \A q \in Queries : got'[q] \subseteq Token[q]
           /\ valid' \subseteq Queries
<1>1. answered' \in [Queries -> BOOLEAN]
  BY Zenon DEF HandleTokens
<1>2. last' \in [Queries -> (0..MaxTime) \cup {NotADateTime}]
  BY DEF BackoffTypeOK, HandleTokens
<1>3. \A q \in Queries : got'[q] \subseteq Token[q]
  BY DEF BackoffTypeOK, HandleTokens
<1>4. valid' \subseteq Queries
  BY DEF BackoffTypeOK, HandleTokens, Handled
<1> QED
  BY <1>1, <1>2, <1>3, <1>4

LEMMA NotAnsweredTypes ==
    ASSUME BackoffTypeOK, NEW qs, CommandNotAnswered(qs)
    PROVE  triesleft' \in [Queries -> 0..Retries]
  BY QueryAssumption DEF BackoffTypeOK, CommandNotAnswered

LEMMA DisconnectedTypes ==
    ASSUME BackoffTypeOK, InverterDisconnected, UNCHANGED now
    PROVE  BackoffTypeOK'
<1>1. answered' \in [Queries -> BOOLEAN]
  BY Zenon DEF InverterDisconnected
<1> QED
  BY <1>1, QueryAssumption DEF BackoffTypeOK, InverterDisconnected

LEMMA SendTypes ==
    ASSUME ChainTypes, OwnTypes, BackoffTypeOK, NEW at, Executes(at),
           NEW wanted \in Seq(Queries), SendQueries(wanted)
    PROVE  ChainTypes' /\ OwnTypes' /\ BackoffTypeOK'
<1>1. Fits(wanted) \subseteq Queries
  BY DEF Fits
<1>2. Only(wanted, Queries \ Fits(wanted)) \in Seq(Queries)
  BY OnlyContents
<1>3. ChainTypes'
  <2>1. Start("Send", "WAIT_SENT")
    BY DEF SendQueries
  <2> QED
    BY <2>1, StartTypes DEF Ops, Codes
<1>4. OwnTypes'
  BY <1>1, <1>2 DEF OwnTypes, SendQueries
<1>5. BackoffTypeOK'
  BY DEF BackoffTypeOK, SendQueries, backoffVars
<1> QED
  BY <1>3, <1>4, <1>5

(* The queries of a poll are those left over and those that are due.       *)
LEMMA ConsideredContents ==
    /\ Considered \in Seq(Queries)
    /\ Contents(Considered) = { q \in Contents(Order) : ConsiderCommand(q) }
<1>1. Order \in Seq(Queries)
  BY TelegramAssumption
<1>2. Contents(Order) \subseteq Queries
  BY <1>1 DEF Contents
<1>3. /\ Considered \in Seq(Queries)
      /\ Contents(Considered) = Contents(Order) \cap { q \in Queries : ConsiderCommand(q) }
  BY <1>1, OnlyContents DEF Considered
<1> QED
  BY <1>2, <1>3

(* No step of the object puts anything of a wrong type anywhere.           *)
THEOREM TypeStep == ASSUME TypeOK, [Next]_vars PROVE TypeOK'
<1> USE DEF Codes, Ops
<1>0. BackoffTypeOK /\ ChainTypes /\ OwnTypes
  BY Types
<1>1. CASE Disconnected
  <2>1. ChainTypes'
    BY <1>0, <1>1, GotoTypes, StartTypes DEF Disconnected
  <2>2. BackoffTypeOK'
    BY <1>0, <1>1, DisconnectedTypes DEF Disconnected
  <2>3. OwnTypes'
    BY <1>0, <1>1, Empty DEF OwnTypes, Disconnected, lineVars
  <2> QED
    BY <2>1, <2>2, <2>3, TypesNext
<1>2. CASE DisconnectedWait
  <2>1. ChainTypes'
    BY <1>0, <1>2, GotoLaterTypes DEF DisconnectedWait
  <2>2. BackoffTypeOK' /\ OwnTypes'
    BY <1>0, <1>2 DEF DisconnectedWait, BackoffTypeOK, OwnTypes, lineVars, queryVars, backoffVars
  <2> QED
    BY <2>1, <2>2, TypesNext
<1>3. CASE Initialize
  <2>1. ChainTypes'
    <3>1. CASE shutdown
      BY <1>0, <1>3, <3>1, ExecutedTypes DEF Initialize, ChainTypes
    <3>2. CASE ~shutdown
      BY <1>0, <1>3, <3>2, StartTypes DEF Initialize
    <3> QED
      BY <3>1, <3>2
  <2>2. BackoffTypeOK' /\ OwnTypes'
    BY <1>0, <1>3 DEF Initialize, BackoffTypeOK, OwnTypes, lineVars, queryVars, backoffVars
  <2> QED
    BY <2>1, <2>2, TypesNext
<1>4. CASE Wait4Connection
  <2>1. ChainTypes'
    BY <1>0, <1>4, GotoTypes DEF Wait4Connection
  <2>2. BackoffTypeOK' /\ OwnTypes'
    BY <1>0, <1>4 DEF Wait4Connection, BackoffTypeOK, OwnTypes, lineVars, queryVars, backoffVars
  <2> QED
    BY <2>1, <2>2, TypesNext
<1>5. CASE QueryPoll
  <2>1. pendingcommands \o Considered \in Seq(Queries)
    BY <1>0, ConsideredContents, ConcatContents DEF OwnTypes
  <2>2. Executes("QUERY_POLL") /\ SendQueries(pendingcommands \o Considered)
    BY <1>5 DEF QueryPoll
  <2> QED
    BY <1>0, <2>1, <2>2, SendTypes, TypesNext
<1>6. CASE SendRemaining
  <2>1. pendingcommands \in Seq(Queries)
    BY <1>0 DEF OwnTypes
  <2>2. Executes("SEND_QUERIES") /\ SendQueries(pendingcommands)
    BY <1>6 DEF SendRemaining
  <2> QED
    BY <1>0, <2>1, <2>2, SendTypes, TypesNext
<1>7. CASE WaitSent
  <2>1. ChainTypes'
    BY <1>0, <1>7, GotoTypes, StartTypes DEF WaitSent
  <2>2. BackoffTypeOK' /\ OwnTypes'
    BY <1>0, <1>7 DEF WaitSent, BackoffTypeOK, OwnTypes, queryVars, backoffVars
  <2> QED
    BY <2>1, <2>2, TypesNext
<1>8. CASE ReceiveFailed \/ NotATelegram
  <2>1. ChainTypes'
    BY <1>0, <1>8, GotoTypes DEF ReceiveFailed, NotATelegram
  <2>2. BackoffTypeOK' /\ OwnTypes'
    BY <1>0, <1>8
    DEF ReceiveFailed, NotATelegram, BackoffTypeOK, OwnTypes, lineVars, queryVars, backoffVars
  <2> QED
    BY <2>1, <2>2, TypesNext
<1>9. ASSUME NEW tokens, NEW zero, TelegramWithError(tokens, zero) PROVE TypeOK'
  <2>1. ChainTypes'
    BY <1>0, <1>9, GotoTypes DEF TelegramWithError
  <2>2. BackoffTypeOK'
    BY <1>0, <1>9, HandleTypes DEF TelegramWithError, BackoffTypeOK
  <2>3. OwnTypes'
    BY <1>0, <1>9 DEF TelegramWithError, OwnTypes, lineVars
  <2> QED
    BY <2>1, <2>2, <2>3, TypesNext
<1>10. ASSUME NEW tokens, NEW zero, Telegram(tokens, zero) PROVE TypeOK'
  <2>1. ChainTypes'
    BY <1>0, <1>10, GotoTypes, GotoLaterTypes DEF Telegram
  <2>2. BackoffTypeOK'
    <3>1. triesleft' \in [Queries -> 0..Retries]
      BY <1>0, <1>10, NotAnsweredTypes DEF Telegram
    <3> QED
      BY <1>0, <1>10, <3>1, HandleTypes DEF Telegram, BackoffTypeOK
  <2>3. OwnTypes'
    BY <1>0, <1>10 DEF Telegram, OwnTypes, lineVars
  <2> QED
    BY <2>1, <2>2, <2>3, TypesNext
<1>11. CASE Shutdown
  <2>1. ChainTypes' /\ BackoffTypeOK' /\ OwnTypes'
    BY <1>0, <1>11
    DEF Shutdown, ChainTypes, BackoffTypeOK, OwnTypes, chainVars, lineVars, queryVars, backoffVars
  <2> QED
    BY <2>1, TypesNext
<1>12. CASE Due
  <2>1. Command(Head(timed), TRUE) \in Commands
    BY <1>0, <1>12 DEF Due, ChainTypes, Command, Commands
  <2>2. ChainTypes'
    <3>1. queue' = Append(queue, Command(Head(timed), TRUE)) /\ queue \in Seq(Commands)
      BY <1>0, <1>12 DEF Due, ChainTypes
    <3>2. queue' \in Seq(Commands)
      BY ONLY <2>1, <3>1, AppendTypes
    <3>3. timed' \in Seq(Codes)
      BY <1>0, <1>12 DEF Due, ChainTypes
    <3>4. UNCHANGED ops
      BY <1>12 DEF Due
    <3> QED
      BY <1>0, <3>2, <3>3, <3>4 DEF ChainTypes
  <2>3. BackoffTypeOK' /\ OwnTypes'
    BY <1>0, <1>12 DEF Due, BackoffTypeOK, OwnTypes, lineVars, queryVars, backoffVars
  <2> QED
    BY <2>2, <2>3, TypesNext
<1>13. ASSUME NEW ok \in BOOLEAN, ConnectionAnswers(ok) PROVE TypeOK'
  <2>1. Head(ops) \in Operations /\ Tail(ops) \in Seq(Operations)
    BY <1>0, <1>13 DEF ConnectionAnswers, ChainTypes
  <2>2. Command(Head(ops).code, ok) \in Commands
    BY <2>1 DEF Operations, Command, Commands
  <2>3. ChainTypes'
    BY <1>0, <1>13, <2>1, <2>2 DEF ConnectionAnswers, ChainTypes
  <2>4. connected' \in BOOLEAN
    BY <1>0, <1>13 DEF ConnectionAnswers, OwnTypes
  <2>5. BackoffTypeOK' /\ OwnTypes'
    BY <1>0, <1>13, <2>4 DEF ConnectionAnswers, BackoffTypeOK, OwnTypes, queryVars, backoffVars
  <2> QED
    BY <2>3, <2>5, TypesNext
<1>14. CASE Tick
  <2>1. now' \in 0..MaxTime
    BY <1>0, <1>14, QueryAssumption DEF Tick, BackoffTypeOK
  <2>2. ChainTypes' /\ BackoffTypeOK' /\ OwnTypes'
    BY <1>0, <1>14, <2>1
    DEF Tick, ChainTypes, BackoffTypeOK, OwnTypes, chainVars, lineVars, queryVars, backoffVars
  <2> QED
    BY <2>2, TypesNext
<1>15. CASE UNCHANGED vars
  <2>1. ChainTypes' /\ BackoffTypeOK' /\ OwnTypes'
    BY <1>0, <1>15
    DEF vars, ChainTypes, BackoffTypeOK, OwnTypes, chainVars, lineVars, queryVars, backoffVars
  <2> QED
    BY <2>1, TypesNext
<1> QED
  BY <1>1, <1>2, <1>3, <1>4, <1>5, <1>6, <1>7, <1>8, <1>9, <1>10, <1>11, <1>12, <1>13,
     <1>14, <1>15
  DEF Next, ExecuteCommand, Answered

LEMMA InitTypes == Init => TypeOK
<1> SUFFICES ASSUME Init PROVE TypeOK
  OBVIOUS
<1>1. Command("INIT", TRUE) \in Commands
  BY DEF Command, Commands, Codes
<1>2. ChainTypes
  <2>1. PICK c : c = Command("INIT", TRUE)
    OBVIOUS
  <2>2. queue = <<c>> /\ c \in Commands
    BY <1>1, <2>1 DEF Init
  <2>3. queue \in Seq(Commands)
    BY ONLY <2>2
  <2> QED
    BY <2>3, Empty DEF Init, ChainTypes
<1>3. OwnTypes
  BY Empty DEF Init, OwnTypes
<1>4. answered \in [Queries -> BOOLEAN]
  BY Zenon DEF Init, BackoffInit
<1>5. BackoffTypeOK
  BY <1>4, QueryAssumption DEF Init, BackoffInit, BackoffTypeOK
<1> QED
  BY <1>2, <1>3, <1>5, Types

(* The types hold, a new connection finds nothing of the lost one, and no  *)
(* poll starts over a query that is pending or unanswered.                 *)
THEOREM SputnikSound == Spec => []SputnikInv
<1>1. TypeOK /\ [Next]_vars => TypeOK'
  BY TypeStep
<1>2. Spec => []TypeOK
  BY <1>1, InitTypes, PTL DEF Spec
<1>3. Spec => [](FreshStart /\ QueriesSettled)
  BY StartsClean
<1> QED
  BY <1>2, <1>3, PTL DEF SputnikInv

(* What a telegram has no room for stays pending.                          *)
LEMMA SendKeeps ==
    ASSUME NEW wanted \in Seq(Queries), SendQueries(wanted)
    PROVE  Contents(wanted) \subseteq Contents(pendingcommands') \cup notansweredcommands'
<1>1. Contents(wanted) \subseteq Queries
  BY DEF Contents
<1>2. Contents(pendingcommands') = Contents(wanted) \cap (Queries \ Fits(wanted))
  BY OnlyContents DEF SendQueries
<1>3. Fits(wanted) \subseteq notansweredcommands'
  BY DEF SendQueries
<1> QED
  BY <1>1, <1>2, <1>3

LEMMA PollAsks ==
    ASSUME TypeOK, QueryPoll
    PROVE  /\ Contents(pendingcommands) \subseteq
                  Contents(pendingcommands') \cup notansweredcommands'
           /\ \A q \in Contents(Order) : ConsiderCommand(q) =>
                  q \in Contents(pendingcommands') \cup notansweredcommands'
<1>1. pendingcommands \in Seq(Queries) /\ Considered \in Seq(Queries)
  BY ConsideredContents DEF TypeOK
<1>2. PICK wanted : wanted = pendingcommands \o Considered
  OBVIOUS
<1>3. /\ wanted \in Seq(Queries)
      /\ Contents(wanted) = Contents(pendingcommands) \cup Contents(Considered)
  BY <1>1, <1>2, ConcatContents
<1>4. SendQueries(wanted)
  BY <1>2 DEF QueryPoll
<1>5. Contents(wanted) \subseteq Contents(pendingcommands') \cup notansweredcommands'
  BY <1>3, <1>4, SendKeeps
<1> QED
  BY <1>3, <1>5, ConsideredContents

(* A poll asks for everything that is due, in as many telegrams as it      *)
(* takes: only a disconnect lets go of a query that has not been sent.     *)
THEOREM NothingDropped == Spec => NoQueryDropped
<1> DEFINE Kept == ~Executes("DISCONNECTED") => Pending \subseteq Pending' \cup notansweredcommands'
           Asked == QueryPoll => \A i \in DOMAIN Order : ConsiderCommand(Order[i]) =>
                        Order[i] \in Pending' \cup notansweredcommands'
<1>1. TypeOK /\ [Next]_vars => Kept
  <2> SUFFICES ASSUME TypeOK, [Next]_vars, ~Executes("DISCONNECTED")
               PROVE  Contents(pendingcommands) \subseteq
                          Contents(pendingcommands') \cup notansweredcommands'
    BY DEF Pending, Contents
  <2>1. CASE QueryPoll
    BY <2>1, PollAsks
  <2>2. CASE SendRemaining
    <3>1. pendingcommands \in Seq(Queries) /\ SendQueries(pendingcommands)
      BY <2>2 DEF TypeOK, SendRemaining
    <3> QED
      BY <3>1, SendKeeps
  <2>3. CASE ~QueryPoll /\ ~SendRemaining
    <3>1. UNCHANGED pendingcommands
      BY <2>3
      DEF Next, ExecuteCommand, Disconnected, DisconnectedWait, Initialize, Wait4Connection,
          WaitSent, ReceiveFailed, NotATelegram, Telegram, TelegramWithError, Shutdown, Due,
          Answered, ConnectionAnswers, Tick, vars, queryVars
    <3> QED
      BY <3>1
  <2> QED
    BY <2>1, <2>2, <2>3
<1>2. TypeOK => Asked
  <2> SUFFICES ASSUME TypeOK, QueryPoll, NEW i \in DOMAIN Order, ConsiderCommand(Order[i])
               PROVE  Order[i] \in Pending' \cup notansweredcommands'
    OBVIOUS
  <2>1. Order[i] \in Contents(Order)
    BY DEF Contents
  <2> QED
    BY <2>1, PollAsks DEF Pending, Contents
<1>3. TypeOK /\ [Next]_vars => [Kept /\ Asked]_vars
  BY <1>1, <1>2
<1>4. Spec => []TypeOK
  BY TypeStep, InitTypes, PTL DEF Spec
<1> QED
  BY <1>3, <1>4, PTL DEF Spec, NoQueryDropped

-----------------------------------------------------------------------------
(* The simulator.                                                          *)

(* The number of the commands of a kind in a queue.                        *)

Places(q, S) == { i \in DOMAIN q : q[i].cmd \in S }
NumberOf(q, S) == Cardinality(Places(q, S))

LEMMA NumberTypes ==
    ASSUME NEW q \in Seq(CommandTypes), NEW S
    PROVE  /\ IsFiniteSet(Places(q, S)) /\ NumberOf(q, S) \in Nat
           /\ NumberOf(q, S) = 0 <=> \A i \in DOMAIN q : q[i].cmd \notin S
<1>1. IsFiniteSet(1 .. Len(q)) /\ DOMAIN q = 1 .. Len(q)
  BY FS_Interval
<1>2. IsFiniteSet(Places(q, S))
  <2>1. Places(q, S) \subseteq 1 .. Len(q)
    BY <1>1 DEF Places
  <2> QED
    BY <1>1, <2>1, FS_Subset
<1>3. Places(q, S) = {} <=> \A i \in DOMAIN q : q[i].cmd \notin S
  BY DEF Places
<1> QED
  BY <1>2, <1>3, FS_CardinalityType, FS_EmptySet DEF NumberOf

LEMMA TwoPlaces ==
    ASSUME NEW q \in Seq(CommandTypes), NEW S,
           NEW i \in DOMAIN q, q[i].cmd \in S, NEW j \in DOMAIN q, q[j].cmd \in S, i # j
    PROVE  NumberOf(q, S) >= 2
<1>1. {i, j} \subseteq Places(q, S)
  BY DEF Places
<1>2. IsFiniteSet({i}) /\ Cardinality({i}) = 1
  BY FS_Singleton
<1>3. Cardinality({i} \cup {j}) = 2
  <2>1. j \notin {i}
    OBVIOUS
  <2>2. Cardinality({i} \cup {j}) = Cardinality({i}) + 1
    BY <1>2, <2>1, FS_AddElement, Zenon
  <2> QED
    BY <1>2, <2>2
<1>4. {i} \cup {j} = {i, j}
  OBVIOUS
<1> QED
  BY <1>1, <1>3, <1>4, NumberTypes, FS_Subset DEF NumberOf

LEMMA NumberConcat ==
    ASSUME NEW q \in Seq(CommandTypes), NEW r \in Seq(CommandTypes), NEW S
    PROVE  NumberOf(q \o r, S) = NumberOf(q, S) + NumberOf(r, S)
<1> DEFINE Shifted == { i + Len(q) : i \in Places(r, S) }
           shift == [i \in Places(r, S) |-> i + Len(q)]
<1>1. /\ Len(q) \in Nat /\ DOMAIN q = 1 .. Len(q)
      /\ Len(r) \in Nat /\ DOMAIN r = 1 .. Len(r) /\ DOMAIN (q \o r) = 1 .. Len(q) + Len(r)
      /\ \A i \in DOMAIN q : (q \o r)[i] = q[i]
      /\ \A i \in DOMAIN r : (q \o r)[i + Len(q)] = r[i]
  OBVIOUS
<1>2. Places(q \o r, S) = Places(q, S) \cup Shifted
  <2>1. ASSUME NEW i \in Places(q \o r, S) PROVE i \in Places(q, S) \cup Shifted
    <3>1. CASE i \in DOMAIN q
      BY <1>1, <2>1, <3>1 DEF Places
    <3>2. CASE i \notin DOMAIN q
      <4>1. PICK k \in DOMAIN r : i = k + Len(q)
        <5>1. i - Len(q) \in DOMAIN r /\ i = (i - Len(q)) + Len(q)
          BY <1>1, <2>1, <3>2 DEF Places
        <5> QED
          BY <5>1
      <4>2. k \in Places(r, S)
        BY <1>1, <2>1, <4>1 DEF Places
      <4> QED
        BY <4>1, <4>2
    <3> QED
      BY <3>1, <3>2
  <2>2. \A i \in Places(q, S) : i \in Places(q \o r, S)
    BY <1>1 DEF Places
  <2>3. ASSUME NEW k \in Places(r, S) PROVE k + Len(q) \in Places(q \o r, S)
    BY <1>1, <2>3 DEF Places
  <2> QED
    BY <2>1, <2>2, <2>3
<1>3. Places(q, S) \cap Shifted = {}
  BY <1>1 DEF Places
<1>4. shift \in Bijection(Places(r, S), Shifted)
  <2>1. \A i \in Places(r, S) : i \in Nat
    BY <1>1 DEF Places
  <2>2. shift \in [Places(r, S) -> Shifted]
    OBVIOUS
  <2>3. \A i, j \in Places(r, S) : shift[i] = shift[j] => i = j
    BY <1>1, <2>1
  <2>4. \A k \in Shifted : \E i \in Places(r, S) : shift[i] = k
    OBVIOUS
  <2> QED
    BY <2>2, <2>3, <2>4 DEF Bijection, Injection, Surjection, IsInjective
<1>5. /\ IsFiniteSet(Places(q, S)) /\ IsFiniteSet(Places(r, S))
      /\ NumberOf(q, S) \in Nat /\ NumberOf(r, S) \in Nat
  BY NumberTypes
<1>6. IsFiniteSet(Shifted) /\ Cardinality(Shifted) = NumberOf(r, S)
  BY <1>4, <1>5, FS_Bijection DEF ExistsBijection, NumberOf
<1> HIDE DEF Shifted
<1>7. Cardinality(Places(q, S) \cup Shifted) = Cardinality(Places(q, S)) + Cardinality(Shifted)
  <2>1. Cardinality(Places(q, S) \cup Shifted)
           = Cardinality(Places(q, S)) + Cardinality(Shifted) - Cardinality(Places(q, S) \cap Shifted)
    BY <1>5, <1>6, FS_Union, Zenon
  <2>2. Cardinality(Places(q, S) \cap Shifted) = 0
    BY <1>3, FS_EmptySet, Zenon
  <2> QED
    BY <1>5, <1>6, <2>1, <2>2 DEF NumberOf
<1> QED
  BY <1>2, <1>6, <1>7 DEF NumberOf

LEMMA NumberOne ==
    ASSUME NEW e \in CommandTypes, NEW S
    PROVE  /\ <<e>> \in Seq(CommandTypes)
           /\ NumberOf(<<e>>, S) = IF e.cmd \in S THEN 1 ELSE 0
<1>1. <<e>> \in Seq(CommandTypes) /\ DOMAIN <<e>> = {1} /\ <<e>>[1] = e
  OBVIOUS
<1>2. Places(<<e>>, S) = IF e.cmd \in S THEN {1} ELSE {}
  BY <1>1 DEF Places
<1> QED
  BY <1>1, <1>2, FS_Singleton, FS_EmptySet DEF NumberOf

LEMMA NumberNone ==
    ASSUME NEW S
    PROVE  <<>> \in Seq(CommandTypes) /\ NumberOf(<<>>, S) = 0
<1>1. <<>> \in Seq(CommandTypes) /\ DOMAIN <<>> = {}
  OBVIOUS
<1> QED
  BY <1>1, NumberTypes

LEMMA NumberTail ==
    ASSUME NEW q \in Seq(CommandTypes), q # <<>>, NEW S
    PROVE  /\ Head(q) \in CommandTypes /\ Tail(q) \in Seq(CommandTypes)
           /\ NumberOf(q, S) = NumberOf(Tail(q), S) + IF Head(q).cmd \in S THEN 1 ELSE 0
<1>1. Head(q) \in CommandTypes /\ Tail(q) \in Seq(CommandTypes) /\ q = <<Head(q)>> \o Tail(q)
  OBVIOUS
<1>2. NumberOf(<<Head(q)>> \o Tail(q), S) = NumberOf(<<Head(q)>>, S) + NumberOf(Tail(q), S)
  <2>1. <<Head(q)>> \in Seq(CommandTypes)
    BY <1>1, NumberOne, Zenon
  <2> QED
    BY <1>1, <2>1, NumberConcat, Zenon
<1>3. NumberOf(<<Head(q)>>, S) = IF Head(q).cmd \in S THEN 1 ELSE 0
  BY <1>1, NumberOne, Zenon
<1>4. NumberOf(Tail(q), S) \in Nat
  BY <1>1, NumberTypes, Zenon
<1>5. NumberOf(q, S) = NumberOf(<<Head(q)>> \o Tail(q), S)
  BY <1>1, Zenon
<1> QED
  BY <1>1, <1>2, <1>3, <1>4, <1>5

LEMMA NumberAppend ==
    ASSUME NEW q \in Seq(CommandTypes), NEW e \in CommandTypes, NEW S
    PROVE  NumberOf(Append(q, e), S) = NumberOf(q, S) + IF e.cmd \in S THEN 1 ELSE 0
<1>1. Append(q, e) = q \o <<e>>
  OBVIOUS
<1>2. <<e>> \in Seq(CommandTypes) /\ NumberOf(<<e>>, S) = IF e.cmd \in S THEN 1 ELSE 0
  BY NumberOne, Zenon
<1>3. NumberOf(q \o <<e>>, S) = NumberOf(q, S) + NumberOf(<<e>>, S)
  BY <1>2, NumberConcat, Zenon
<1> QED
  BY <1>1, <1>2, <1>3, Zenon

LEMMA NumberAll ==
    ASSUME NEW q \in Seq(CommandTypes), NEW S, \A i \in DOMAIN q : q[i].cmd \in S
    PROVE  NumberOf(q, S) = Len(q)
<1>1. Places(q, S) = 1 .. Len(q) /\ Len(q) \in Nat
  BY DEF Places
<1> QED
  BY <1>1, FS_Interval DEF NumberOf

-----------------------------------------------------------------------------
(* The inductive invariant.                                                *)

SimAll == SimCommands \cup {"INIT"}
CtrlAll == CtrlCommands \cup {"INIT"}

SimOps ==
    {Accept, Receive} \cup { Answer(s) : s \in 0 .. MaxSessions }
        \cup { Op("Disconnect", c) : c \in {"SIM_WAITDISCONNECT", "SIM_DISCONNECTED"} }
CtrlOps ==
    {Op("Accept", "CTRL_CONNECTED"), Op("Receive", "CTRL_PARSERECEIVE"),
     Op("Disconnect", "CTRL_WAITDISCONNECT"), Op("Send", "CTRL_INIT"), Op("Send", "CTRL_WAIT_SENT")}
OpsOf(c) == IF c = "connection" THEN SimOps ELSE CtrlOps

OperationsRight == \A c \in Connections : pending[c] \in Seq(OpsOf(c))

(* The work of each half, the start of both included.                      *)
Later == IF later THEN 1 ELSE 0
SimWork == NumberOf(commands, SimAll) + Len(pending["connection"])
CtrlWork == NumberOf(commands, CtrlAll) + Len(pending["ctrlserver"]) + Later

Calm == disconnects = 0 /\ forks = 0

InitFirst == \A i \in DOMAIN commands : commands[i].cmd = "INIT" => i = 1

ConversationsCounted ==
    /\ forks <= 1 => SimWork <= 1 + forks
    /\ Working /\ Calm => SimWork = 1
    /\ ctrlserver => CtrlWork <= 1
    /\ Working /\ ctrlserver => CtrlWork = 1

(* What the control server was told last is not told more often than it    *)
(* may be.                                                                 *)
DisconnectsBounded ==
    \A i \in DOMAIN commands :
        commands[i].cmd = "CTRL_PARSERECEIVE" /\ commands[i].line = "disconnect" =>
            disconnects < MaxDisconnects

(* While there is one conversation and no `disconnect` was said the flag   *)
(* _isconnected is right, and a Disconnect is an end of the conversation   *)
(* that SIM_INIT has asked for.                                            *)
Undisturbed ==
    Calm =>
        /\ ~disconnect
        /\ isconnected => up["connection"]
        /\ \A i \in DOMAIN commands :
              /\ commands[i].cmd # "SIM_DISCONNECTED"
              /\ commands[i].cmd = "SIM_CONNECTED" /\ commands[i].ok => up["connection"]
        /\ \A i \in DOMAIN pending["connection"] :
              pending["connection"][i].op = "Disconnect" =>
                  ~isconnected /\ pending["connection"][i].cmd = "SIM_WAITDISCONNECT"

(* A telegram that waits and an answer that is not sent yet belong to the  *)
(* client that is connected, or the other conversation has disconnected it *)
(* and its next step is behind the answer.                                 *)
Asking(q) == q.cmd = "SIM_EVALUATE_RECEIVE" /\ q.ok

NothingAhead(i) ==
    /\ pending["connection"] = <<>>
    /\ \A j \in DOMAIN commands : j < i => commands[j].cmd \notin SimCommands

TelegramsRight ==
    \A i \in DOMAIN commands :
        Asking(commands[i]) =>
            /\ commands[i].data.from = session
            /\ up["connection"] \/ (forks = 1 /\ NothingAhead(i))

AnswersRight ==
    \A i \in DOMAIN pending["connection"] :
        pending["connection"][i].op = "Send" =>
            /\ pending["connection"][i].to = session
            /\ up["connection"] \/ (forks = 1 /\ i = 1)

ConversationsApart == forks <= 1 => TelegramsRight /\ AnswersRight /\ ~misdirected

SimulatorIInv ==
    /\ SimulatorTypeOK /\ OperationsRight /\ InitFirst /\ ConversationsCounted
    /\ DisconnectsBounded /\ Undisturbed /\ ConversationsApart

-----------------------------------------------------------------------------
(* What commands and operations there are.                                 *)

LEMMA Bounds == MaxSessions \in Nat /\ MaxDisconnects \in Nat /\ 0 \in 0 .. MaxSessions
BY SimulatorAssumption

LEMMA ReplyTypes ==
    ASSUME NEW c \in SimCommands \cup CtrlCommands \cup {"INIT"}, NEW ok \in BOOLEAN,
           NEW data \in [bad : BOOLEAN, asks : Requests \cup {{}}, from : 0 .. MaxSessions],
           NEW line \in Lines
    PROVE  /\ Reply(c, ok, data, line) \in CommandTypes
           /\ Reply(c, ok, data, line).cmd = c /\ Reply(c, ok, data, line).ok = ok
           /\ Reply(c, ok, data, line).data = data /\ Reply(c, ok, data, line).line = line
BY DEF Reply, CommandTypes

LEMMA CmdTypes ==
    ASSUME NEW c \in SimCommands \cup CtrlCommands \cup {"INIT"}
    PROVE  /\ Cmd(c) \in CommandTypes /\ Cmd(c).cmd = c /\ Cmd(c).ok /\ Cmd(c).line = "other"
           /\ Failed(c) \in CommandTypes /\ Failed(c).cmd = c /\ ~Failed(c).ok
           /\ Failed(c).line = "other"
<1>1. NoData \in [bad : BOOLEAN, asks : Requests \cup {{}}, from : 0 .. MaxSessions]
  BY Bounds DEF NoData
<1>2. "other" \in Lines
  BY DEF Lines
<1> QED
  BY <1>1, <1>2 DEF Cmd, Failed, Reply, CommandTypes

LEMMA SimOpTypes ==
    ASSUME NEW o \in SimOps
    PROVE  /\ o \in OperationTypes /\ o.cmd \in SimCommands
           /\ o.op = "Receive" <=> o.cmd = "SIM_EVALUATE_RECEIVE"
           /\ o.op = "Accept" <=> o.cmd = "SIM_CONNECTED"
           /\ o.op = "Disconnect" <=> o.cmd \in {"SIM_WAITDISCONNECT", "SIM_DISCONNECTED"}
           /\ o.op # "Send" => o.to = 0
BY Bounds DEF SimOps, OperationTypes, SimCommands, Accept, Receive, Answer, Op

LEMMA CtrlOpTypes ==
    ASSUME NEW o \in CtrlOps
    PROVE  /\ o \in OperationTypes /\ o.cmd \in CtrlCommands /\ o.to = 0
           /\ o.op = "Receive" <=> o.cmd = "CTRL_PARSERECEIVE"
BY Bounds DEF CtrlOps, OperationTypes, CtrlCommands, Op

LEMMA Started ==
    /\ Accept \in SimOps /\ Accept.op = "Accept" /\ Accept.cmd = "SIM_CONNECTED"
    /\ Receive \in SimOps /\ Receive.op = "Receive"
    /\ \A s \in 0 .. MaxSessions : Answer(s) \in SimOps /\ Answer(s).op = "Send" /\ Answer(s).to = s
    /\ \A c \in {"SIM_WAITDISCONNECT", "SIM_DISCONNECTED"} :
          /\ Op("Disconnect", c) \in SimOps /\ Op("Disconnect", c).op = "Disconnect"
          /\ Op("Disconnect", c).cmd = c
BY DEF SimOps, Accept, Receive, Answer, Op

-----------------------------------------------------------------------------
(* The initial state, and what the invariant says of the run's property.   *)

LEMMA InitSimulator == SimulatorInit => SimulatorIInv
<1> SUFFICES ASSUME SimulatorInit PROVE SimulatorIInv
  OBVIOUS
<1>1. /\ Cmd("INIT") \in CommandTypes /\ Cmd("INIT").cmd = "INIT"
      /\ commands = <<Cmd("INIT")>> /\ commands \in Seq(CommandTypes)
      /\ DOMAIN commands = {1} /\ commands[1].cmd = "INIT"
  <2>1. "INIT" \in SimCommands \cup CtrlCommands \cup {"INIT"}
    OBVIOUS
  <2>2. Cmd("INIT") \in CommandTypes /\ Cmd("INIT").cmd = "INIT"
    BY <2>1, CmdTypes, Zenon
  <2>3. commands = <<Cmd("INIT")>>
    BY DEF SimulatorInit
  <2> QED
    BY <2>2, <2>3
<1>2. \A S : NumberOf(commands, S) = IF "INIT" \in S THEN 1 ELSE 0
  BY <1>1, NumberOne
<1>3. \A c \in Connections : pending[c] = <<>> /\ Len(pending[c]) = 0 /\ DOMAIN pending[c] = {}
  BY DEF SimulatorInit
<1>4. "connection" \in Connections /\ "ctrlserver" \in Connections
  BY DEF Connections
<1>5. SimWork = 1 /\ CtrlWork = 1
  BY <1>2, <1>3, <1>4 DEF SimWork, CtrlWork, SimAll, CtrlAll, Later, SimulatorInit
<1>6. CtrlChain = 0
  <2>1. "INIT" \notin CtrlCommands
    BY DEF CtrlCommands
  <2>2. Queued(CtrlCommands) = 0
    BY <1>2, <2>1 DEF Queued, NumberOf, Places
  <2> QED
    BY <1>3, <1>4, <2>2 DEF CtrlChain, ChainOf, SimulatorInit
<1>7. SimulatorTypeOK
  <2>1. pending \in [Connections -> Seq(OperationTypes)]
    BY <1>3 DEF SimulatorInit
  <2>2. up \in [Connections -> BOOLEAN] /\ ~up["connection"]
    BY <1>4 DEF SimulatorInit
  <2>3. 0 \in 0 .. MaxDisconnects /\ 0 \in 0 .. 2
    BY Bounds
  <2> QED
    BY <1>1, <1>6, <2>1, <2>2, <2>3, Bounds DEF SimulatorTypeOK, SimulatorInit
<1>8. OperationsRight
  <2>1. \A c \in Connections : <<>> \in Seq(OpsOf(c))
    OBVIOUS
  <2> QED
    BY <1>3, <2>1 DEF OperationsRight
<1>9. InitFirst /\ DisconnectsBounded /\ Undisturbed /\ ConversationsApart
  <2>1. InitFirst /\ DisconnectsBounded
    BY <1>1 DEF InitFirst, DisconnectsBounded
  <2>2. Undisturbed
    BY <1>1, <1>3, <1>4 DEF Undisturbed, SimulatorInit
  <2>3. TelegramsRight
    BY <1>1 DEF TelegramsRight, Asking
  <2>4. AnswersRight
    BY <1>3, <1>4 DEF AnswersRight
  <2> QED
    BY <2>1, <2>2, <2>3, <2>4 DEF ConversationsApart, SimulatorInit
<1>10. ConversationsCounted
  BY <1>5 DEF ConversationsCounted, SimulatorInit
<1> QED
  BY <1>7, <1>8, <1>9, <1>10 DEF SimulatorIInv

(* Without INIT in the queue, the work of a half is its chain.             *)
LEMMA ChainIsWork ==
    ASSUME NEW S, commands \in Seq(CommandTypes), \A i \in DOMAIN commands : commands[i].cmd # "INIT"
    PROVE  NumberOf(commands, S \cup {"INIT"}) = Queued(S)
<1>1. Places(commands, S \cup {"INIT"}) = { i \in DOMAIN commands : commands[i].cmd \in S }
  BY DEF Places
<1> QED
  BY <1>1 DEF NumberOf, Queued

LEMMA SimulatorIInvSuffices == SimulatorIInv => SimulatorInv
<1> SUFFICES ASSUME SimulatorIInv PROVE SimulatorInv
  OBVIOUS
<1>1. SimulatorTypeOK
  BY DEF SimulatorIInv
<1>2. commands \in Seq(CommandTypes)
  BY <1>1 DEF SimulatorTypeOK
<1>3. CASE \A i \in DOMAIN commands : commands[i].cmd # "INIT"
  <2>1. NumberOf(commands, SimAll) = Queued(SimCommands)
    BY <1>2, <1>3, ChainIsWork DEF SimAll
  <2>2. NumberOf(commands, CtrlAll) = Queued(CtrlCommands)
    BY <1>2, <1>3, ChainIsWork DEF CtrlAll
  <2>3. SimWork = SimChain /\ CtrlWork = CtrlChain
    BY <2>1, <2>2 DEF SimWork, SimChain, CtrlWork, CtrlChain, ChainOf, Later
  <2> QED
    BY <1>1, <2>3 DEF SimulatorIInv, SimulatorInv, ConversationsCounted, SimulatorGoesOn,
       CtrlServerGoesOn, AnswersItsClient, ConversationsApart, Calm
<1>4. CASE \E i \in DOMAIN commands : commands[i].cmd = "INIT"
  <2>1. 1 \in DOMAIN commands /\ commands[1].cmd = "INIT"
    BY <1>4 DEF SimulatorIInv, InitFirst
  <2>2. commands # <<>> /\ Head(commands).cmd = "INIT"
    BY <1>2, <2>1
  <2>3. Working => Starting
    BY <2>2 DEF Working, Starting, Take
  <2> QED
    BY <1>1, <2>3 DEF SimulatorIInv, SimulatorInv, SimulatorGoesOn, CtrlServerGoesOn,
       AnswersItsClient, ConversationsApart
<1> QED
  BY <1>3, <1>4

-----------------------------------------------------------------------------
(* What a handler of the main loop does to the queue and the operations.   *)

LEMMA ConcatPlaces ==
    ASSUME NEW E, NEW q \in Seq(E), NEW r \in Seq(E), NEW i \in DOMAIN (q \o r)
    PROVE  /\ i \in DOMAIN q => (q \o r)[i] = q[i]
           /\ i \notin DOMAIN q =>
                 \E k \in DOMAIN r : (q \o r)[i] = r[k] /\ i = Len(q) + k
<1>1. CASE i \in DOMAIN q
  BY <1>1
<1>2. CASE i \notin DOMAIN q
  <2>1. i - Len(q) \in DOMAIN r /\ (q \o r)[i] = r[i - Len(q)] /\ i = Len(q) + (i - Len(q))
    BY <1>2
  <2> QED
    BY <1>2, <2>1
<1> QED
  BY <1>1, <1>2

LEMMA DoTypes ==
    ASSUME SimulatorTypeOK, OperationsRight, commands # <<>>,
           NEW cmds \in Seq(CommandTypes), NEW c \in Connections, NEW started \in Seq(OpsOf(c)),
           Do(cmds, c, started)
    PROVE  /\ commands' \in Seq(CommandTypes)
           /\ pending' \in [Connections -> Seq(OperationTypes)]
           /\ OperationsRight'
           /\ pending'[c] = pending[c] \o started
           /\ \A d \in Connections \ {c} : pending'[d] = pending[d]
           /\ Len(pending'[c]) = Len(pending[c]) + Len(started)
           /\ Len(pending[c]) \in Nat /\ Len(started) \in Nat
<1>1. commands \in Seq(CommandTypes) /\ pending \in [Connections -> Seq(OperationTypes)]
  BY DEF SimulatorTypeOK
<1>2. commands' = Tail(commands) \o cmds /\ pending' = [pending EXCEPT ![c] = @ \o started]
  BY DEF Do
<1>3. pending'[c] = pending[c] \o started /\ \A d \in Connections \ {c} : pending'[d] = pending[d]
  BY <1>1, <1>2
<1>4. \A d \in Connections : OpsOf(d) \subseteq OperationTypes
  BY SimOpTypes, CtrlOpTypes DEF OpsOf
<1>5. pending[c] \in Seq(OpsOf(c))
  BY DEF OperationsRight
<1>6. pending'[c] \in Seq(OpsOf(c)) /\ Len(pending'[c]) = Len(pending[c]) + Len(started)
  BY <1>3, <1>5
<1>7. OperationsRight'
  BY <1>3, <1>6 DEF OperationsRight
<1>8. pending' \in [Connections -> Seq(OperationTypes)]
  <2>1. \A d \in Connections : pending'[d] \in Seq(OpsOf(d))
    BY <1>7 DEF OperationsRight
  <2>2. \A d \in Connections : pending'[d] \in Seq(OperationTypes)
    BY <1>4, <2>1
  <2>3. DOMAIN pending' = Connections /\ pending' = [d \in Connections |-> pending'[d]]
    BY <1>1, <1>2
  <2> QED
    BY <2>2, <2>3
<1>9. commands' \in Seq(CommandTypes)
  BY <1>1, <1>2
<1> QED
  BY <1>3, <1>5, <1>6, <1>7, <1>8, <1>9

LEMMA DoPlaces ==
    ASSUME commands \in Seq(CommandTypes), commands # <<>>,
           NEW cmds \in Seq(CommandTypes), NEW c, NEW started, Do(cmds, c, started)
    PROVE  /\ \A i \in DOMAIN commands' :
                 \/ i + 1 \in DOMAIN commands /\ commands'[i] = commands[i + 1]
                 \/ \E k \in DOMAIN cmds : commands'[i] = cmds[k]
           /\ \A i \in DOMAIN commands' : i \in Nat \ {0}
           /\ \A i \in DOMAIN commands' :
                 i + 1 \in DOMAIN commands => commands'[i] = commands[i + 1]
           /\ 1 \in DOMAIN commands /\ Head(commands) = commands[1]
           /\ Head(commands) \in CommandTypes
<1>1. commands' = Tail(commands) \o cmds
  BY DEF Do
<1>2. /\ Len(commands) \in Nat /\ Len(cmds) \in Nat /\ Len(commands) # 0
      /\ Len(Tail(commands)) = Len(commands) - 1 /\ Tail(commands) \in Seq(CommandTypes)
      /\ DOMAIN commands = 1 .. Len(commands) /\ DOMAIN cmds = 1 .. Len(cmds)
      /\ \A i \in 1 .. Len(commands) - 1 : Tail(commands)[i] = commands[i + 1]
  OBVIOUS
<1>3. /\ DOMAIN commands' = 1 .. Len(commands) - 1 + Len(cmds)
      /\ \A i \in 1 .. Len(commands) - 1 : commands'[i] = commands[i + 1]
      /\ \A k \in 1 .. Len(cmds) : commands'[k + Len(commands) - 1] = cmds[k]
  BY <1>1, <1>2
<1>4. ASSUME NEW i \in DOMAIN commands', i + 1 \notin DOMAIN commands
      PROVE  \E k \in DOMAIN cmds : commands'[i] = cmds[k]
  <2>1. i - (Len(commands) - 1) \in 1 .. Len(cmds)
    BY <1>2, <1>3, <1>4
  <2>2. commands'[(i - (Len(commands) - 1)) + Len(commands) - 1] = cmds[i - (Len(commands) - 1)]
    BY <1>3, <2>1
  <2>3. (i - (Len(commands) - 1)) + Len(commands) - 1 = i
    BY <1>2, <1>3
  <2> QED
    BY <1>2, <2>1, <2>2, <2>3
<1>5. \A i \in DOMAIN commands' :
          i \in Nat \ {0} /\ (i + 1 \in DOMAIN commands => commands'[i] = commands[i + 1])
  BY <1>2, <1>3
<1> QED
  BY <1>2, <1>4, <1>5

LEMMA DoNumbers ==
    ASSUME commands \in Seq(CommandTypes), commands # <<>>,
           NEW cmds \in Seq(CommandTypes), NEW c, NEW started, Do(cmds, c, started), NEW S
    PROVE  /\ NumberOf(commands', S) \in Nat /\ NumberOf(cmds, S) \in Nat
           /\ NumberOf(commands, S) \in Nat
           /\ NumberOf(commands', S) + (IF Head(commands).cmd \in S THEN 1 ELSE 0)
                = NumberOf(commands, S) + NumberOf(cmds, S)
<1>1. commands' = Tail(commands) \o cmds
  BY DEF Do
<1>2. Tail(commands) \in Seq(CommandTypes)
  OBVIOUS
<1>3. NumberOf(Tail(commands) \o cmds, S) = NumberOf(Tail(commands), S) + NumberOf(cmds, S)
  BY <1>2, NumberConcat, Zenon
<1>4. NumberOf(commands, S) =
          NumberOf(Tail(commands), S) + IF Head(commands).cmd \in S THEN 1 ELSE 0
  BY NumberTail, Zenon
<1>5. /\ NumberOf(Tail(commands), S) \in Nat /\ NumberOf(cmds, S) \in Nat
      /\ NumberOf(commands, S) \in Nat
  BY <1>2, NumberTypes, Zenon
<1> QED
  BY <1>1, <1>3, <1>4, <1>5

(* The positions in the conversations.                                     *)
LEMMA DoInitFirst ==
    ASSUME SimulatorIInv, commands # <<>>, NEW cmds \in Seq(CommandTypes), NEW c, NEW started,
           Do(cmds, c, started), \A k \in DOMAIN cmds : cmds[k].cmd # "INIT"
    PROVE  /\ InitFirst'
           /\ \A i \in DOMAIN commands' : commands'[i].cmd # "INIT"
<1>1. commands \in Seq(CommandTypes)
  BY DEF SimulatorIInv, SimulatorTypeOK
<1>2. ASSUME NEW i \in DOMAIN commands' PROVE commands'[i].cmd # "INIT"
  <2>1. CASE i + 1 \in DOMAIN commands /\ commands'[i] = commands[i + 1]
    <3>1. i \in Nat \ {0}
      BY <1>1, DoPlaces
    <3>2. i + 1 # 1
      BY <3>1
    <3> QED
      BY <2>1, <3>2 DEF SimulatorIInv, InitFirst
  <2>2. CASE \E k \in DOMAIN cmds : commands'[i] = cmds[k]
    BY <2>2
  <2> QED
    BY <1>1, <2>1, <2>2, DoPlaces
<1> QED
  BY <1>2 DEF InitFirst

LEMMA DoApart ==
    ASSUME SimulatorIInv, commands # <<>>, NEW cmds \in Seq(CommandTypes),
           NEW c \in Connections, NEW started \in Seq(OpsOf(c)), Do(cmds, c, started),
           forks' \in {forks, forks + 1}, forks <= 1,
           \A k \in DOMAIN cmds : ~Asking(cmds[k]),
           c = "connection" /\ started # <<>> => Head(commands).cmd \in SimCommands,
           \A k \in DOMAIN started : c = "connection" /\ started[k].op = "Send" =>
               /\ Asking(Head(commands)) /\ started[k].to = Head(commands).data.from
               /\ forks' = forks => k = 1
    PROVE  ConversationsApart'
<1>1. commands \in Seq(CommandTypes) /\ session \in 0 .. MaxSessions /\ forks \in 0 .. 2
  BY DEF SimulatorIInv, SimulatorTypeOK
<1>2. UNCHANGED <<up, session, misdirected>>
  BY DEF Do
<1>3. TelegramsRight /\ AnswersRight /\ ~misdirected
  BY DEF SimulatorIInv, ConversationsApart
<1>4. "connection" \in Connections
  BY DEF Connections
<1>5. forks = 1 /\ forks' <= 1 => forks' = 1
  BY <1>1
<1>6. pending["connection"] \in Seq(SimOps)
  BY <1>4 DEF SimulatorIInv, OperationsRight, OpsOf
<1>7. /\ c = "connection" => pending'["connection"] = pending["connection"] \o started
      /\ c # "connection" => pending'["connection"] = pending["connection"]
  BY <1>4, DoTypes DEF SimulatorIInv
<1>8. /\ 1 \in DOMAIN commands /\ Head(commands) = commands[1]
      /\ Head(commands) \in CommandTypes
  BY <1>1, DoPlaces
<1>9. ASSUME forks' <= 1 PROVE TelegramsRight'
  <2> SUFFICES ASSUME NEW i \in DOMAIN commands', Asking(commands'[i])
               PROVE  /\ commands'[i].data.from = session
                      /\ up["connection"] \/ (forks' = 1 /\ NothingAhead(i)')
    BY <1>2 DEF TelegramsRight
  <2>1. i + 1 \in DOMAIN commands /\ commands'[i] = commands[i + 1] /\ i \in Nat \ {0}
    BY <1>1, DoPlaces
  <2>2. /\ commands[i + 1].data.from = session
        /\ up["connection"] \/ (forks = 1 /\ NothingAhead(i + 1))
    BY <1>3, <2>1 DEF TelegramsRight
  <2>3. ASSUME forks = 1, NothingAhead(i + 1) PROVE NothingAhead(i)'
    <3>1. 1 < i + 1
      BY <2>1
    <3>2. Head(commands).cmd \notin SimCommands
      BY <1>8, <2>3, <3>1 DEF NothingAhead
    <3>3. pending'["connection"] = <<>>
      <4>1. pending["connection"] = <<>>
        BY <2>3 DEF NothingAhead
      <4>2. c = "connection" => started = <<>>
        BY <3>2
      <4> QED
        BY <1>7, <4>1, <4>2
    <3>4. ASSUME NEW j \in DOMAIN commands', j < i PROVE commands'[j].cmd \notin SimCommands
      <4>1. j \in Nat \ {0}
        BY <1>1, DoPlaces
      <4>2. j + 1 \in DOMAIN commands /\ j + 1 < i + 1
        BY <1>1, <2>1, <3>4, <4>1
      <4>3. commands'[j] = commands[j + 1]
        BY <1>1, <4>2, DoPlaces
      <4> QED
        BY <2>3, <4>2, <4>3 DEF NothingAhead
    <3> QED
      BY <3>3, <3>4 DEF NothingAhead
  <2> QED
    BY <1>5, <1>9, <2>1, <2>2, <2>3
<1>10. ASSUME forks' <= 1 PROVE AnswersRight'
  <2> SUFFICES ASSUME NEW i \in DOMAIN pending'["connection"],
                      pending'["connection"][i].op = "Send"
               PROVE  /\ pending'["connection"][i].to = session
                      /\ up["connection"] \/ (forks' = 1 /\ i = 1)
    BY <1>2 DEF AnswersRight
  <2>1. CASE i \in DOMAIN pending["connection"]
    <3>1. pending'["connection"][i] = pending["connection"][i]
      <4>1. CASE c = "connection"
        <5>1. started \in Seq(SimOps)
          BY <4>1 DEF OpsOf
        <5>2. i \in DOMAIN (pending["connection"] \o started)
          BY <1>7, <4>1
        <5> QED
          BY <1>6, <1>7, <2>1, <4>1, <5>1, <5>2, ConcatPlaces
      <4>2. CASE c # "connection"
        BY <1>7, <4>2
      <4> QED
        BY <4>1, <4>2
    <3> QED
      BY <1>3, <1>5, <1>10, <2>1, <3>1 DEF AnswersRight
  <2>2. CASE i \notin DOMAIN pending["connection"]
    <3>1. c = "connection"
      BY <1>7, <2>2
    <3>2. PICK k \in DOMAIN started : /\ pending'["connection"][i] = started[k]
                                      /\ i = Len(pending["connection"]) + k
      <4>1. started \in Seq(SimOps)
        BY <3>1 DEF OpsOf
      <4>2. i \in DOMAIN (pending["connection"] \o started)
        BY <1>7, <3>1
      <4>3. \E k \in DOMAIN started : /\ (pending["connection"] \o started)[i] = started[k]
                                      /\ i = Len(pending["connection"]) + k
        BY <1>6, <2>2, <4>1, <4>2, ConcatPlaces
      <4> QED
        BY <1>7, <3>1, <4>3
    <3>3. /\ Asking(Head(commands)) /\ started[k].to = Head(commands).data.from
          /\ forks' = forks => k = 1
      BY <3>1, <3>2
    <3>4. /\ Head(commands).data.from = session
          /\ up["connection"] \/ (forks = 1 /\ pending["connection"] = <<>>)
      BY <1>3, <1>8, <3>3 DEF TelegramsRight, NothingAhead
    <3>5. forks = 1 /\ pending["connection"] = <<>> => forks' = 1 /\ i = 1
      <4> SUFFICES ASSUME forks = 1, pending["connection"] = <<>> PROVE forks' = 1 /\ i = 1
        OBVIOUS
      <4>1. forks' = 1
        BY <1>5, <1>10
      <4>2. k = 1
        BY <3>3, <4>1
      <4>3. Len(pending["connection"]) = 0
        OBVIOUS
      <4> QED
        BY <3>2, <4>1, <4>2, <4>3
    <3> QED
      BY <3>2, <3>3, <3>4, <3>5
  <2> QED
    BY <2>1, <2>2
<1> QED
  BY <1>2, <1>3, <1>9, <1>10 DEF ConversationsApart

LEMMA DoUndisturbed ==
    ASSUME SimulatorIInv, commands # <<>>, NEW cmds \in Seq(CommandTypes),
           NEW c \in Connections, NEW started \in Seq(OpsOf(c)), Do(cmds, c, started),
           Calm, ~disconnect',
           isconnected' \in BOOLEAN,
           \A k \in DOMAIN cmds : cmds[k].cmd \notin {"SIM_DISCONNECTED", "SIM_CONNECTED"},
           \A k \in DOMAIN started : c = "connection" /\ started[k].op = "Disconnect" =>
               ~isconnected' /\ started[k].cmd = "SIM_WAITDISCONNECT",
           isconnected' => up["connection"] /\ (isconnected \/ pending["connection"] = <<>>)
    PROVE  Undisturbed'
<1>1. commands \in Seq(CommandTypes)
  BY DEF SimulatorIInv, SimulatorTypeOK
<1>2. UNCHANGED up
  BY DEF Do
<1>3. "connection" \in Connections
  BY DEF Connections
<1>4. pending["connection"] \in Seq(SimOps)
  BY <1>3 DEF SimulatorIInv, OperationsRight, OpsOf
<1>5. /\ c = "connection" => pending'["connection"] = pending["connection"] \o started
      /\ c # "connection" => pending'["connection"] = pending["connection"]
  BY <1>3, DoTypes DEF SimulatorIInv
<1>6. ASSUME NEW i \in DOMAIN commands'
      PROVE  /\ commands'[i].cmd # "SIM_DISCONNECTED"
             /\ commands'[i].cmd = "SIM_CONNECTED" /\ commands'[i].ok => up["connection"]
  <2>1. CASE i + 1 \in DOMAIN commands /\ commands'[i] = commands[i + 1]
    BY <2>1 DEF SimulatorIInv, Undisturbed
  <2>2. CASE \E k \in DOMAIN cmds : commands'[i] = cmds[k]
    BY <2>2
  <2> QED
    BY <1>1, <2>1, <2>2, DoPlaces
<1>7. ASSUME NEW i \in DOMAIN pending'["connection"],
             pending'["connection"][i].op = "Disconnect"
      PROVE  ~isconnected' /\ pending'["connection"][i].cmd = "SIM_WAITDISCONNECT"
  <2>1. ASSUME i \in DOMAIN pending["connection"],
               pending'["connection"][i] = pending["connection"][i]
        PROVE  ~isconnected' /\ pending'["connection"][i].cmd = "SIM_WAITDISCONNECT"
    <3>1. ~isconnected /\ pending["connection"][i].cmd = "SIM_WAITDISCONNECT"
      BY <1>7, <2>1 DEF SimulatorIInv, Undisturbed
    <3>2. pending["connection"] # <<>>
      BY <2>1
    <3> QED
      BY <2>1, <3>1, <3>2
  <2>2. CASE c # "connection"
    BY <1>5, <2>1, <2>2
  <2>3. CASE c = "connection"
    <3>1. started \in Seq(SimOps)
      BY <2>3 DEF OpsOf
    <3>2. i \in DOMAIN (pending["connection"] \o started)
      BY <1>5, <2>3
    <3>3. \/ /\ i \in DOMAIN pending["connection"]
             /\ (pending["connection"] \o started)[i] = pending["connection"][i]
          \/ \E k \in DOMAIN started : (pending["connection"] \o started)[i] = started[k]
      BY <1>4, <3>1, <3>2, ConcatPlaces
    <3> QED
      BY <1>5, <1>7, <2>1, <2>3, <3>3
  <2> QED
    BY <2>2, <2>3
<1> QED
  BY <1>2, <1>6, <1>7 DEF Undisturbed

LEMMA DoDisconnectsBounded ==
    ASSUME SimulatorIInv, commands # <<>>, NEW cmds \in Seq(CommandTypes), NEW c, NEW started,
           Do(cmds, c, started), disconnects' = disconnects,
           \A k \in DOMAIN cmds : cmds[k].line = "other"
    PROVE  DisconnectsBounded'
<1>1. commands \in Seq(CommandTypes)
  BY DEF SimulatorIInv, SimulatorTypeOK
<1>2. ASSUME NEW i \in DOMAIN commands',
             commands'[i].cmd = "CTRL_PARSERECEIVE" /\ commands'[i].line = "disconnect"
      PROVE  disconnects' < MaxDisconnects
  <2>1. i + 1 \in DOMAIN commands /\ commands'[i] = commands[i + 1]
    BY <1>1, <1>2, DoPlaces
  <2> QED
    BY <1>2, <2>1 DEF SimulatorIInv, DisconnectsBounded
<1> QED
  BY <1>2 DEF DisconnectsBounded

(* The commands a handler adds to the queue.                               *)
LEMMA Added ==
    /\ <<>> \in Seq(CommandTypes) /\ DOMAIN <<>> = {} /\ Len(<<>>) = 0
    /\ \A S : NumberOf(<<>>, S) = 0
    /\ \A c \in SimCommands \cup CtrlCommands \cup {"INIT"} :
          /\ <<Cmd(c)>> \in Seq(CommandTypes) /\ DOMAIN <<Cmd(c)>> = {1} /\ Len(<<Cmd(c)>>) = 1
          /\ \A k \in DOMAIN <<Cmd(c)>> : <<Cmd(c)>>[k].cmd = c /\ <<Cmd(c)>>[k].line = "other"
          /\ \A S : NumberOf(<<Cmd(c)>>, S) = IF c \in S THEN 1 ELSE 0
<1>1. <<>> \in Seq(CommandTypes) /\ DOMAIN <<>> = {} /\ Len(<<>>) = 0
  OBVIOUS
<1>2. \A S : NumberOf(<<>>, S) = 0
  BY NumberNone
<1>3. ASSUME NEW c \in SimCommands \cup CtrlCommands \cup {"INIT"}
      PROVE  /\ <<Cmd(c)>> \in Seq(CommandTypes) /\ DOMAIN <<Cmd(c)>> = {1} /\ Len(<<Cmd(c)>>) = 1
             /\ \A k \in DOMAIN <<Cmd(c)>> : <<Cmd(c)>>[k].cmd = c /\ <<Cmd(c)>>[k].line = "other"
             /\ \A S : NumberOf(<<Cmd(c)>>, S) = IF c \in S THEN 1 ELSE 0
  <2>1. Cmd(c) \in CommandTypes /\ Cmd(c).cmd = c /\ Cmd(c).line = "other"
    BY CmdTypes, Zenon
  <2>2. \A S : NumberOf(<<Cmd(c)>>, S) = IF c \in S THEN 1 ELSE 0
    BY <2>1, NumberOne
  <2> QED
    BY <2>1, <2>2
<1> QED
  BY <1>1, <1>2, <1>3

LEMMA AddedTwice ==
    ASSUME NEW c \in SimCommands \cup CtrlCommands \cup {"INIT"},
           NEW both, both = <<Cmd(c), Cmd(c)>>
    PROVE  /\ both \in Seq(CommandTypes) /\ Len(both) = 2
           /\ \A S : NumberOf(both, S) = IF c \in S THEN 2 ELSE 0
           /\ \A k \in DOMAIN both : both[k].cmd = c /\ both[k].line = "other"
<1>1. PICK q : q = Cmd(c)
  OBVIOUS
<1>2. q \in CommandTypes /\ q.cmd = c /\ q.line = "other"
  BY <1>1, CmdTypes, Zenon
<1>3. both = <<q>> \o <<q>> /\ <<q>> \in Seq(CommandTypes)
  BY <1>1, <1>2
<1>4. ASSUME NEW S PROVE NumberOf(both, S) = IF c \in S THEN 2 ELSE 0
  <2>1. NumberOf(<<q>>, S) = IF c \in S THEN 1 ELSE 0
    BY <1>2, NumberOne
  <2>2. NumberOf(<<q>> \o <<q>>, S) = NumberOf(<<q>>, S) + NumberOf(<<q>>, S)
    BY <1>3, NumberConcat
  <2>3. NumberOf(both, S) = NumberOf(<<q>>, S) + NumberOf(<<q>>, S)
    BY <1>3, <2>2
  <2> QED
    BY <2>1, <2>3
<1>5. /\ both \in Seq(CommandTypes) /\ Len(both) = 2
      /\ \A k \in DOMAIN both : both[k].cmd = c /\ both[k].line = "other"
  BY <1>2, <1>3
<1> QED
  BY <1>4, <1>5

-----------------------------------------------------------------------------
(* A command of the simulator, and one of the control server.              *)

LEMMA Kinds ==
    /\ SimCommands \cap CtrlCommands = {}
    /\ "INIT" \notin SimCommands /\ "INIT" \notin CtrlCommands
    /\ SimCommands \subseteq SimAll /\ SimCommands \cap CtrlAll = {}
    /\ CtrlCommands \subseteq CtrlAll /\ CtrlCommands \cap SimAll = {}
    /\ "INIT" \in SimAll /\ "INIT" \in CtrlAll
    /\ "connection" \in Connections /\ "ctrlserver" \in Connections
    /\ Connections = {"connection", "ctrlserver"}
BY DEF SimCommands, CtrlCommands, SimAll, CtrlAll, Connections

(* The chain of a control server that there is not.                        *)
LEMMA CtrlChainIs ==
    /\ CtrlChain = NumberOf(commands, CtrlCommands) + Len(pending["ctrlserver"]) + Later
    /\ CtrlChain' = NumberOf(commands', CtrlCommands) + Len(pending'["ctrlserver"]) + Later'
BY DEF CtrlChain, ChainOf, Queued, NumberOf, Places, Later

(* What a handler of the command h may do: one thing goes on, but with an  *)
(* error that comes with data, or after a `disconnect`, two can.           *)
SimSchedules == {<<>>, <<Cmd("SIM_INIT")>>, <<Cmd("SIM_INIT"), Cmd("SIM_INIT")>>}

SimMove(h, cmds, started) ==
    /\ h \in SimCommands /\ Take(h)
    /\ cmds \in SimSchedules /\ started \in Seq(SimOps)
    /\ Do(cmds, "connection", started)
    /\ UNCHANGED <<offline, disconnect, killbit, disconnects, later>>
    /\ isconnected' \in BOOLEAN
    /\ forks' = forks \/ forks' = IF forks < 2 THEN forks + 1 ELSE forks
    /\ Len(cmds) + Len(started) <= 2
    /\ forks' = forks /\ forks <= 1 => Len(cmds) + Len(started) <= 1
    /\ ~shutdown_requested /\ Calm' => Len(cmds) + Len(started) = 1
    /\ \A k \in DOMAIN started : started[k].op = "Send" =>
           /\ Asking(Head(commands)) /\ started[k].to = Head(commands).data.from
           /\ forks' = forks /\ forks <= 1 => k = 1
    /\ Calm =>
           /\ \A k \in DOMAIN started : started[k].op = "Disconnect" =>
                  ~isconnected' /\ started[k].cmd = "SIM_WAITDISCONNECT"
           /\ isconnected' => up["connection"] /\ (isconnected \/ pending["connection"] = <<>>)

LEMMA SimStep ==
    ASSUME SimulatorIInv, NEW h, NEW cmds, NEW started, SimMove(h, cmds, started)
    PROVE  SimulatorIInv'
<1>0. /\ h \in SimCommands /\ Take(h)
      /\ cmds \in SimSchedules /\ started \in Seq(SimOps)
      /\ Do(cmds, "connection", started)
      /\ UNCHANGED <<offline, disconnect, killbit, disconnects, later>>
      /\ isconnected' \in BOOLEAN
      /\ forks' = forks \/ forks' = IF forks < 2 THEN forks + 1 ELSE forks
      /\ Len(cmds) + Len(started) <= 2
      /\ forks' = forks /\ forks <= 1 => Len(cmds) + Len(started) <= 1
      /\ ~shutdown_requested /\ Calm' => Len(cmds) + Len(started) = 1
      /\ \A k \in DOMAIN started : started[k].op = "Send" =>
             /\ Asking(Head(commands)) /\ started[k].to = Head(commands).data.from
             /\ forks' = forks /\ forks <= 1 => k = 1
      /\ Calm =>
             /\ \A k \in DOMAIN started : started[k].op = "Disconnect" =>
                    ~isconnected' /\ started[k].cmd = "SIM_WAITDISCONNECT"
             /\ isconnected' => up["connection"] /\ (isconnected \/ pending["connection"] = <<>>)
  BY DEF SimMove
<1> USE <1>0
<1>1. /\ commands \in Seq(CommandTypes) /\ commands # <<>> /\ Head(commands).cmd = h
      /\ SimulatorTypeOK /\ OperationsRight
  BY DEF SimulatorIInv, SimulatorTypeOK, Take
<1>2. /\ h \in SimAll /\ h \notin CtrlAll /\ h \notin CtrlCommands
      /\ "connection" \in Connections /\ "ctrlserver" \in Connections
      /\ "SIM_INIT" \in SimCommands /\ "SIM_INIT" \in SimAll /\ "SIM_INIT" \notin CtrlAll
      /\ "SIM_INIT" \notin CtrlCommands
  BY Kinds DEF SimCommands, CtrlCommands, SimAll, CtrlAll
<1>3. /\ cmds \in Seq(CommandTypes)
      /\ NumberOf(cmds, SimAll) = Len(cmds) /\ NumberOf(cmds, CtrlAll) = 0
      /\ NumberOf(cmds, CtrlCommands) = 0 /\ Len(cmds) \in Nat
      /\ \A k \in DOMAIN cmds : cmds[k].cmd = "SIM_INIT" /\ cmds[k].line = "other"
  <2>0. "SIM_INIT" \in SimCommands \cup CtrlCommands \cup {"INIT"}
    BY <1>2
  <2>1. CASE cmds = <<>>
    BY <2>1, Added
  <2>2. CASE cmds = <<Cmd("SIM_INIT")>>
    BY <1>2, <2>2, <2>0, Added
  <2>3. CASE cmds = <<Cmd("SIM_INIT"), Cmd("SIM_INIT")>>
    <3>1. /\ cmds \in Seq(CommandTypes) /\ Len(cmds) = 2
          /\ \A S : NumberOf(cmds, S) = IF "SIM_INIT" \in S THEN 2 ELSE 0
          /\ \A k \in DOMAIN cmds : cmds[k].cmd = "SIM_INIT" /\ cmds[k].line = "other"
      BY <2>0, <2>3, AddedTwice
    <3> QED
      BY <1>2, <3>1
  <2> QED
    BY <2>1, <2>2, <2>3 DEF SimSchedules
<1>4. started \in Seq(OpsOf("connection"))
  BY DEF OpsOf
<1>5. /\ commands' \in Seq(CommandTypes) /\ pending' \in [Connections -> Seq(OperationTypes)]
      /\ OperationsRight' /\ pending'["ctrlserver"] = pending["ctrlserver"]
      /\ Len(pending'["connection"]) = Len(pending["connection"]) + Len(started)
      /\ Len(pending["connection"]) \in Nat /\ Len(started) \in Nat
  <2>1. "ctrlserver" \in Connections \ {"connection"}
    BY <1>2
  <2> QED
    BY <1>1, <1>2, <1>3, <1>4, <2>1, DoTypes
<1>6. /\ NumberOf(commands', SimAll) + 1 = NumberOf(commands, SimAll) + Len(cmds)
      /\ NumberOf(commands, SimAll) \in Nat /\ NumberOf(commands', SimAll) \in Nat
  <2>1. NumberOf(commands', SimAll) + (IF Head(commands).cmd \in SimAll THEN 1 ELSE 0)
            = NumberOf(commands, SimAll) + NumberOf(cmds, SimAll)
    BY <1>1, <1>3, DoNumbers
  <2>2. NumberOf(commands, SimAll) \in Nat /\ NumberOf(commands', SimAll) \in Nat
    BY <1>1, <1>5, NumberTypes
  <2> QED
    BY <1>1, <1>2, <1>3, <2>1, <2>2
<1>7. \A S \in {CtrlAll, CtrlCommands} : NumberOf(commands', S) = NumberOf(commands, S)
  <2> SUFFICES ASSUME NEW S \in {CtrlAll, CtrlCommands}
               PROVE  NumberOf(commands', S) = NumberOf(commands, S)
    OBVIOUS
  <2>1. NumberOf(commands', S) + (IF Head(commands).cmd \in S THEN 1 ELSE 0)
            = NumberOf(commands, S) + NumberOf(cmds, S)
    BY <1>1, <1>3, DoNumbers
  <2>2. NumberOf(commands, S) \in Nat /\ NumberOf(commands', S) \in Nat
    BY <1>1, <1>5, NumberTypes
  <2> QED
    BY <1>1, <1>2, <1>3, <2>1, <2>2
<1>8. /\ SimWork' + 1 = SimWork + Len(cmds) + Len(started) /\ SimWork \in Nat /\ SimWork' \in Nat
      /\ CtrlWork' = CtrlWork /\ CtrlChain' = CtrlChain
  <2>1. SimWork' + 1 = SimWork + Len(cmds) + Len(started) /\ SimWork \in Nat /\ SimWork' \in Nat
    <3> DEFINE n == NumberOf(commands, SimAll)
               m == NumberOf(commands', SimAll)
               l == Len(pending["connection"])
               k == Len(started)
               a == Len(cmds)
    <3>1. SimWork' = m + (l + k) /\ SimWork = n + l
      BY <1>5 DEF SimWork
    <3>2. n \in Nat /\ m \in Nat /\ l \in Nat /\ k \in Nat /\ a \in Nat /\ m + 1 = n + a
      BY <1>3, <1>5, <1>6
    <3> HIDE DEF n, m, l, k, a
    <3>3. SimWork' + 1 = SimWork + a + k /\ SimWork \in Nat /\ SimWork' \in Nat
      BY <3>1, <3>2
    <3> QED
      BY <3>3 DEF a, k
  <2>2. /\ NumberOf(commands', CtrlAll) = NumberOf(commands, CtrlAll)
        /\ NumberOf(commands', CtrlCommands) = NumberOf(commands, CtrlCommands)
    BY <1>7
  <2>3. CtrlWork' = CtrlWork
    BY <1>5, <2>2 DEF CtrlWork, Later
  <2>4. CtrlChain' = CtrlChain
    BY <1>5, <2>2, CtrlChainIs DEF Later
  <2> QED
    BY <2>1, <2>3, <2>4
<1>9. UNCHANGED <<ctrlserver, shutdown_requested, up, session, misdirected, crashed>>
  BY DEF Do
<1>10. forks \in 0 .. 2 /\ forks' \in 0 .. 2 /\ (forks' # forks => forks' = forks + 1)
  BY <1>1 DEF SimulatorTypeOK
<1>11. SimulatorTypeOK'
  BY <1>1, <1>5, <1>8, <1>9, <1>10 DEF SimulatorTypeOK
<1>12. InitFirst'
  <2>1. \A k \in DOMAIN cmds : cmds[k].cmd # "INIT"
    BY <1>3
  <2> QED
    BY <1>1, <1>3, <2>1, DoInitFirst
<1>13. ConversationsCounted'
  <2>1. /\ forks <= 1 => SimWork <= 1 + forks
        /\ Working /\ Calm => SimWork = 1
        /\ ctrlserver => CtrlWork <= 1
        /\ Working /\ ctrlserver => CtrlWork = 1
    BY DEF SimulatorIInv, ConversationsCounted
  <2>2. Working' = Working /\ (Working => ~shutdown_requested)
    BY <1>9 DEF Working
  <2>3. forks' <= 1 => SimWork' <= 1 + forks'
    <3>1. Len(cmds) \in Nat /\ Len(started) \in Nat
      BY <1>3, <1>5
    <3>2. CASE forks' = forks
      BY <1>8, <1>10, <2>1, <3>1, <3>2
    <3>3. CASE forks' # forks
      BY <1>8, <1>10, <2>1, <3>1, <3>3
    <3> QED
      BY <3>2, <3>3
  <2>4. Working' /\ Calm' => SimWork' = 1
    <3>1. Calm' => Calm
      BY <1>10 DEF Calm
    <3> QED
      BY <1>3, <1>5, <1>8, <2>1, <2>2, <3>1
  <2> QED
    BY <1>8, <1>9, <2>1, <2>2, <2>3, <2>4 DEF ConversationsCounted
<1>14. DisconnectsBounded'
  BY <1>1, <1>3, DoDisconnectsBounded
<1>15. Undisturbed'
  <2>1. CASE Calm
    <3>2. ~disconnect'
      BY <2>1 DEF SimulatorIInv, Undisturbed
    <3>3. \A k \in DOMAIN cmds : cmds[k].cmd \notin {"SIM_DISCONNECTED", "SIM_CONNECTED"}
      BY <1>3
    <3>4. \A k \in DOMAIN started : "connection" = "connection" /\ started[k].op = "Disconnect" =>
              ~isconnected' /\ started[k].cmd = "SIM_WAITDISCONNECT"
      BY <2>1
    <3> QED
      BY <1>1, <1>2, <1>3, <1>4, <2>1, <3>2, <3>3, <3>4, DoUndisturbed
  <2>2. CASE ~Calm
    BY <1>10, <2>2 DEF Undisturbed, Calm
  <2> QED
    BY <2>1, <2>2
<1>16. ConversationsApart'
  <2>1. CASE forks <= 1
    <3>1. \A k \in DOMAIN cmds : ~Asking(cmds[k])
      BY <1>3 DEF Asking
    <3>2. \A k \in DOMAIN started : "connection" = "connection" /\ started[k].op = "Send" =>
              /\ Asking(Head(commands)) /\ started[k].to = Head(commands).data.from
              /\ forks' = forks => k = 1
      BY <2>1
    <3>3. forks' \in {forks, forks + 1}
      BY <1>10
    <3>4. "connection" = "connection" /\ started # <<>> => Head(commands).cmd \in SimCommands
      BY <1>1
    <3> QED
      BY <1>1, <1>2, <1>3, <1>4, <2>1, <3>1, <3>2, <3>3, <3>4, DoApart
  <2>2. CASE ~(forks <= 1)
    <3>1. ~(forks' <= 1)
      BY <1>10, <2>2
    <3> QED
      BY <3>1 DEF ConversationsApart
  <2> QED
    BY <2>1, <2>2
<1> QED
  BY <1>5, <1>11, <1>12, <1>13, <1>14, <1>15, <1>16 DEF SimulatorIInv

(* With one conversation, nothing is under way while a command waits.      *)
LEMMA Alone ==
    ASSUME SimulatorIInv, NEW h \in SimCommands, Take(h), forks = 0
    PROVE  pending["connection"] = <<>>
<1>1. commands \in Seq(CommandTypes) /\ pending["connection"] \in Seq(SimOps)
  BY Kinds DEF SimulatorIInv, SimulatorTypeOK, OperationsRight, OpsOf
<1>2. NumberOf(commands, SimAll) \in Nat /\ NumberOf(commands, SimAll) # 0
  <2>1. 1 \in DOMAIN commands /\ commands[1].cmd \in SimAll
    BY <1>1, Kinds DEF Take
  <2> QED
    BY <1>1, <2>1, NumberTypes
<1>3. NumberOf(commands, SimAll) + Len(pending["connection"]) <= 1
  BY DEF SimulatorIInv, ConversationsCounted, SimWork
<1>4. Len(pending["connection"]) = 0
  <2>1. Len(pending["connection"]) \in Nat
    BY <1>1
  <2> QED
    BY <1>2, <1>3, <2>1
<1> QED
  BY <1>1, <1>4

(* What one operation that is started looks like.                          *)
LEMMA OneStarted ==
    ASSUME NEW o \in SimOps
    PROVE  /\ <<o>> \in Seq(SimOps) /\ Len(<<o>>) = 1 /\ DOMAIN <<o>> = {1}
           /\ \A k \in DOMAIN <<o>> : <<o>>[k] = o
OBVIOUS

LEMMA TwoStarted ==
    ASSUME NEW d \in SimOps, NEW o \in SimOps, NEW both, both = <<d>> \o <<o>>
    PROVE  /\ both \in Seq(SimOps) /\ Len(both) = 2 /\ both[1] = d /\ both[2] = o
           /\ \A k \in DOMAIN both : k = 1 \/ k = 2
<1>1. <<d>> \in Seq(SimOps) /\ <<o>> \in Seq(SimOps)
  OBVIOUS
<1> QED
  BY <1>1

LEMMA NoneStarted == <<>> \in Seq(SimOps) /\ Len(<<>>) = 0 /\ DOMAIN <<>> = {}
OBVIOUS

(* A handler that starts one operation, or none, and schedules nothing.    *)
LEMMA StartsOne ==
    ASSUME SimulatorIInv, NEW h \in SimCommands, Take(h), NEW o \in SimOps, Sim(<<o>>),
           UNCHANGED <<toldVars, later>>, isconnected' \in BOOLEAN,
           o.op # "Send",
           Calm =>
               /\ o.op = "Disconnect" => ~isconnected' /\ o.cmd = "SIM_WAITDISCONNECT"
               /\ isconnected' => up["connection"]
    PROVE  SimulatorIInv'
<1>1. <<o>> \in Seq(SimOps) /\ Len(<<o>>) = 1 /\ \A k \in DOMAIN <<o>> : <<o>>[k] = o
  BY OneStarted
<1>2. Do(<<>>, "connection", <<o>>)
  BY DEF Sim
<1>3. Len(<<>>) = 0
  OBVIOUS
<1>4. Calm => pending["connection"] = <<>>
  BY Alone DEF Calm
<1>5. UNCHANGED <<offline, disconnect, killbit, disconnects, later>> /\ forks' = forks
  BY DEF toldVars
<1>7. Len(<<>>) + Len(<<o>>) = 1
  BY <1>1, <1>3
<1>8. \A k \in DOMAIN <<o>> : <<o>>[k].op # "Send"
  BY <1>1
<1>9. Calm =>
          /\ \A k \in DOMAIN <<o>> : <<o>>[k].op = "Disconnect" =>
                 ~isconnected' /\ <<o>>[k].cmd = "SIM_WAITDISCONNECT"
          /\ isconnected' => up["connection"] /\ (isconnected \/ pending["connection"] = <<>>)
  BY <1>1, <1>4
<1> HIDE DEF Sim
<1> DEFINE started == <<o>>
           cmds == <<>>
<1>10. cmds \in SimSchedules /\ started \in Seq(SimOps)
  BY <1>1 DEF SimSchedules
<1>11. /\ Len(cmds) + Len(started) <= 2
       /\ forks' = forks /\ forks <= 1 => Len(cmds) + Len(started) <= 1
       /\ ~shutdown_requested /\ Calm' => Len(cmds) + Len(started) = 1
  BY <1>7
<1>12. /\ Do(cmds, "connection", started)
       /\ \A k \in DOMAIN started : started[k].op # "Send"
       /\ Calm =>
             /\ \A k \in DOMAIN started : started[k].op = "Disconnect" =>
                    ~isconnected' /\ started[k].cmd = "SIM_WAITDISCONNECT"
             /\ isconnected' => up["connection"] /\ (isconnected \/ pending["connection"] = <<>>)
  BY <1>2, <1>8, <1>9
<1> HIDE DEF started, cmds
<1>13. SimMove(h, cmds, started)
  BY <1>5, <1>10, <1>11, <1>12 DEF SimMove
<1> QED
  BY <1>13, SimStep, Zenon

(* A handler that does nothing: the conversation ends.                     *)
LEMMA StartsNone ==
    ASSUME SimulatorIInv, NEW h \in SimCommands, Take(h), Sim(<<>>),
           UNCHANGED <<toldVars, isconnected, later>>,
           shutdown_requested \/ ~Calm
    PROVE  SimulatorIInv'
<1> DEFINE started == <<>>
           cmds == <<>>
<1>1. /\ cmds \in SimSchedules /\ started \in Seq(SimOps)
      /\ Do(cmds, "connection", started)
      /\ \A k \in DOMAIN started : FALSE
      /\ Len(cmds) + Len(started) = 0
  BY DEF Sim, SimSchedules
<1>2. UNCHANGED <<offline, disconnect, killbit, disconnects, later>> /\ forks' = forks
  BY DEF toldVars
<1>3. isconnected' \in BOOLEAN
  BY DEF SimulatorIInv, SimulatorTypeOK, toldVars
<1>4. Calm => pending["connection"] = <<>> /\ (isconnected => up["connection"])
  BY Alone DEF SimulatorIInv, Undisturbed, Calm
<1> HIDE DEF started, cmds
<1>5. /\ Len(cmds) + Len(started) <= 2
      /\ forks' = forks /\ forks <= 1 => Len(cmds) + Len(started) <= 1
      /\ ~shutdown_requested /\ Calm' => Len(cmds) + Len(started) = 1
  BY <1>1, <1>2 DEF Calm
<1>6. SimMove(h, cmds, started)
  BY <1>1, <1>2, <1>3, <1>4, <1>5 DEF SimMove
<1> QED
  BY <1>6, SimStep, Zenon

(* A handler that goes back to SIM_INIT.                                   *)
LEMMA SchedulesInit ==
    ASSUME SimulatorIInv, NEW h \in SimCommands, Take(h), Schedule(<<Cmd("SIM_INIT")>>),
           UNCHANGED <<toldVars, isconnected, later>>
    PROVE  SimulatorIInv'
<1> DEFINE started == <<>>
           cmds == <<Cmd("SIM_INIT")>>
<1>1. /\ cmds \in SimSchedules /\ started \in Seq(SimOps)
      /\ Do(cmds, "connection", started)
      /\ \A k \in DOMAIN started : FALSE
      /\ Len(cmds) + Len(started) = 1
  BY DEF Schedule, SimSchedules
<1>2. UNCHANGED <<offline, disconnect, killbit, disconnects, later>> /\ forks' = forks
  BY DEF toldVars
<1>3. isconnected' \in BOOLEAN
  BY DEF SimulatorIInv, SimulatorTypeOK, toldVars
<1>4. Calm => pending["connection"] = <<>> /\ (isconnected => up["connection"])
  BY Alone DEF SimulatorIInv, Undisturbed, Calm
<1> HIDE DEF started, cmds
<1>5. /\ Len(cmds) + Len(started) <= 2
      /\ forks' = forks /\ forks <= 1 => Len(cmds) + Len(started) <= 1
      /\ ~shutdown_requested /\ Calm' => Len(cmds) + Len(started) = 1
  BY <1>1, <1>2 DEF Calm
<1>6. SimMove(h, cmds, started)
  BY <1>1, <1>2, <1>3, <1>4, <1>5 DEF SimMove
<1> QED
  BY <1>6, SimStep, Zenon

LEMMA SimInitStep ==
    ASSUME SimulatorIInv, SimInit
    PROVE  SimulatorIInv'
<1>1. Take("SIM_INIT") /\ "SIM_INIT" \in SimCommands /\ UNCHANGED <<toldVars, later>>
  BY DEF SimInit, SimCommands
<1>2. isconnected \in BOOLEAN
  BY DEF SimulatorIInv, SimulatorTypeOK
<1>3. CASE shutdown_requested
  <2>1. Sim(<<>>) /\ UNCHANGED isconnected
    BY <1>3 DEF SimInit
  <2> QED
    BY <1>1, <1>3, <2>1, StartsNone
<1>4. CASE ~shutdown_requested /\ up["connection"]
  <2>1. Sim(<<Op("Disconnect", "SIM_WAITDISCONNECT")>>) /\ isconnected' = FALSE
    BY <1>4 DEF SimInit
  <2>2. PICK o : o = Op("Disconnect", "SIM_WAITDISCONNECT")
    OBVIOUS
  <2>3. o \in SimOps /\ o.op = "Disconnect" /\ o.cmd = "SIM_WAITDISCONNECT" /\ Sim(<<o>>)
    BY <2>1, <2>2, Started
  <2> QED
    BY <1>1, <2>1, <2>3, StartsOne
<1>5. CASE ~shutdown_requested /\ ~up["connection"]
  <2>1. AwaitClient
    BY <1>5 DEF SimInit
  <2>2. CASE disconnect \/ isconnected
    <3>1. Sim(<<>>) /\ UNCHANGED isconnected
      BY <2>1, <2>2 DEF AwaitClient
    <3>2. ~Calm
      BY <1>5, <2>2 DEF SimulatorIInv, Undisturbed
    <3> QED
      BY <1>1, <3>1, <3>2, StartsNone
  <2>3. CASE ~(disconnect \/ isconnected)
    <3>1. Sim(<<Accept>>) /\ UNCHANGED isconnected
      BY <2>1, <2>3 DEF AwaitClient
    <3> QED
      BY <1>1, <1>2, <2>3, <3>1, Started, StartsOne
  <2> QED
    BY <2>2, <2>3
<1> QED
  BY <1>3, <1>4, <1>5

LEMMA SimDisconnectedStep ==
    ASSUME SimulatorIInv, SimDisconnected
    PROVE  SimulatorIInv'
<1>1. /\ Take("SIM_DISCONNECTED") /\ "SIM_DISCONNECTED" \in SimCommands
      /\ UNCHANGED <<toldVars, later>>
  BY DEF SimDisconnected, SimCommands
<1>2. isconnected \in BOOLEAN
  BY DEF SimulatorIInv, SimulatorTypeOK
<1>3. ~Calm
  <2>1. commands \in Seq(CommandTypes) /\ commands # <<>> /\ Head(commands).cmd = "SIM_DISCONNECTED"
    BY <1>1 DEF SimulatorIInv, SimulatorTypeOK, Take
  <2>2. 1 \in DOMAIN commands /\ commands[1].cmd = "SIM_DISCONNECTED"
    BY <2>1
  <2> QED
    BY <2>2 DEF SimulatorIInv, Undisturbed
<1>4. CASE disconnect \/ isconnected
  <2>1. Sim(<<>>) /\ UNCHANGED isconnected
    BY <1>4 DEF SimDisconnected, AwaitClient
  <2> QED
    BY <1>1, <1>3, <2>1, StartsNone
<1>5. CASE ~(disconnect \/ isconnected)
  <2>1. Sim(<<Accept>>) /\ UNCHANGED isconnected
    BY <1>5 DEF SimDisconnected, AwaitClient
  <2> QED
    BY <1>1, <1>2, <1>5, <2>1, Started, StartsOne
<1> QED
  BY <1>4, <1>5

LEMMA SimWaitDisconnectStep ==
    ASSUME SimulatorIInv, SimWaitDisconnect
    PROVE  SimulatorIInv'
<1>1. /\ Take("SIM_WAITDISCONNECT") /\ "SIM_WAITDISCONNECT" \in SimCommands
      /\ UNCHANGED <<toldVars, isconnected, later>>
  BY DEF SimWaitDisconnect, SimCommands
<1>2. isconnected \in BOOLEAN /\ (Calm => ~disconnect /\ (isconnected => up["connection"]))
  BY DEF SimulatorIInv, SimulatorTypeOK, Undisturbed
<1>3. CASE disconnect
  <2>1. Sim(<<>>)
    BY <1>3 DEF SimWaitDisconnect
  <2> QED
    BY <1>1, <1>2, <1>3, <2>1, StartsNone
<1>4. CASE ~disconnect
  <2>1. Sim(<<Accept>>)
    BY <1>4 DEF SimWaitDisconnect
  <2> QED
    BY <1>1, <1>2, <2>1, Started, StartsOne
<1> QED
  BY <1>3, <1>4

LEMMA SimConnectedStep ==
    ASSUME SimulatorIInv, SimConnected
    PROVE  SimulatorIInv'
<1>1. /\ Take("SIM_CONNECTED") /\ "SIM_CONNECTED" \in SimCommands
      /\ UNCHANGED <<toldVars, later>>
  BY DEF SimConnected, SimCommands
<1>2. /\ isconnected \in BOOLEAN /\ disconnect \in BOOLEAN /\ Head(commands).ok \in BOOLEAN
      /\ 1 \in DOMAIN commands /\ commands[1] = Head(commands) /\ commands[1].cmd = "SIM_CONNECTED"
  <2>1. commands \in Seq(CommandTypes) /\ commands # <<>> /\ Head(commands).cmd = "SIM_CONNECTED"
    BY <1>1 DEF SimulatorIInv, SimulatorTypeOK, Take
  <2>2. Head(commands) \in CommandTypes /\ 1 \in DOMAIN commands /\ commands[1] = Head(commands)
    BY <2>1
  <2> QED
    BY <2>1, <2>2 DEF SimulatorIInv, SimulatorTypeOK, CommandTypes
<1>3. Calm => /\ ~disconnect /\ (isconnected => up["connection"])
              /\ Head(commands).ok => up["connection"]
  BY <1>2 DEF SimulatorIInv, Undisturbed
<1>4. CASE ~Head(commands).ok
  <2>1. Schedule(<<Cmd("SIM_INIT")>>) /\ UNCHANGED isconnected
    BY <1>4 DEF SimConnected
  <2> QED
    BY <1>1, <2>1, SchedulesInit
<1>5. CASE Head(commands).ok /\ ~disconnect
  <2>1. Sim(<<Receive>>) /\ isconnected' = TRUE
    BY <1>5 DEF SimConnected
  <2>2. Receive \in SimOps /\ Receive.op = "Receive" /\ isconnected' \in BOOLEAN
    BY <2>1, Started
  <2>3. Calm => up["connection"]
    BY <1>3, <1>5
  <2> QED
    BY <1>1, <2>1, <2>2, <2>3, StartsOne
<1>6. CASE Head(commands).ok /\ disconnect
  <2>1. Sim(<<Op("Disconnect", "SIM_DISCONNECTED")>>) /\ UNCHANGED isconnected
    BY <1>6 DEF SimConnected
  <2>2. PICK o : o = Op("Disconnect", "SIM_DISCONNECTED")
    OBVIOUS
  <2>3. o \in SimOps /\ o.op = "Disconnect" /\ Sim(<<o>>)
    BY <2>1, <2>2, Started
  <2>4. ~Calm /\ isconnected' \in BOOLEAN
    BY <1>2, <1>3, <1>6, <2>1
  <2> QED
    BY <1>1, <2>3, <2>4, StartsOne
<1> QED
  BY <1>2, <1>4, <1>5, <1>6

LEMMA SimWaitSentStep ==
    ASSUME SimulatorIInv, SimWaitSent
    PROVE  SimulatorIInv'
<1>1. /\ Take("SIM_WAIT_SENT") /\ "SIM_WAIT_SENT" \in SimCommands
      /\ UNCHANGED <<toldVars, isconnected, later>>
  BY DEF SimWaitSent, SimCommands
<1>2. isconnected \in BOOLEAN /\ (Calm => (isconnected => up["connection"]))
  BY DEF SimulatorIInv, SimulatorTypeOK, Undisturbed
<1>3. CASE Head(commands).ok
  <2>1. Sim(<<Receive>>)
    BY <1>3 DEF SimWaitSent
  <2> QED
    BY <1>1, <1>2, <2>1, Started, StartsOne
<1>4. CASE ~Head(commands).ok
  <2>1. Schedule(<<Cmd("SIM_INIT")>>)
    BY <1>4 DEF SimWaitSent
  <2> QED
    BY <1>1, <2>1, SchedulesInit
<1> QED
  BY <1>3, <1>4

(* The telegram is answered or not, after a Disconnect or without.         *)
LEMMA Reactions ==
    ASSUME NEW telegram, telegram.from \in 0 .. MaxSessions
    PROVE  \E o \in {Answer(telegram.from), Receive} :
              Reaction(telegram) = IF disconnect THEN <<Op("Disconnect", "SIM_DISCONNECTED")>> \o <<o>>
                                                 ELSE <<o>>
<1>1. PICK o \in {Answer(telegram.from), Receive} :
          (IF Answerable(telegram) THEN <<Answer(telegram.from)>> ELSE <<Receive>>) = <<o>>
  OBVIOUS
<1>2. CASE disconnect
  <2>1. Reaction(telegram) = <<Op("Disconnect", "SIM_DISCONNECTED")>> \o <<o>>
    BY <1>1, <1>2 DEF Reaction
  <2> QED
    BY <1>1, <1>2, <2>1
<1>3. CASE ~disconnect
  <2>1. Reaction(telegram) = <<>> \o <<o>>
    BY <1>1, <1>3 DEF Reaction
  <2>2. \A a : <<>> \o <<a>> = <<a>>
    OBVIOUS
  <2> QED
    BY <1>1, <1>3, <2>1, <2>2
<1> QED
  BY <1>2, <1>3

LEMMA SimEvaluateReceiveStep ==
    ASSUME SimulatorIInv, SimEvaluateReceive
    PROVE  SimulatorIInv'
<1>1. /\ Take("SIM_EVALUATE_RECEIVE") /\ "SIM_EVALUATE_RECEIVE" \in SimCommands
      /\ UNCHANGED <<offline, disconnect, killbit, disconnects, later>>
  BY DEF SimEvaluateReceive, SimCommands
<1>2. /\ isconnected \in BOOLEAN /\ disconnect \in BOOLEAN
      /\ forks \in 0 .. 2
      /\ Calm => ~disconnect /\ (isconnected => up["connection"])
  BY DEF SimulatorIInv, SimulatorTypeOK, Undisturbed
<1>3. /\ Head(commands) \in CommandTypes /\ Head(commands).cmd = "SIM_EVALUATE_RECEIVE"
      /\ Head(commands).ok \in BOOLEAN /\ Head(commands).data.from \in 0 .. MaxSessions
  <2>1. commands \in Seq(CommandTypes) /\ commands # <<>>
    BY <1>1 DEF SimulatorIInv, SimulatorTypeOK, Take
  <2>2. Head(commands) \in CommandTypes
    BY <2>1
  <2> QED
    BY <1>1, <2>2 DEF CommandTypes, Take
<1>4. CASE ~Head(commands).ok
  <2> DEFINE telegram == Head(commands).data
  <2>1. CASE telegram = NoData
    <3>1. Schedule(<<Cmd("SIM_INIT")>>) /\ UNCHANGED <<isconnected, forks>>
      BY <1>4, <2>1 DEF SimEvaluateReceive, Restarts, Forks
    <3>2. UNCHANGED toldVars
      BY <1>1, <3>1 DEF toldVars
    <3> QED
      BY <1>1, <3>1, <3>2, SchedulesInit
  <2>2. CASE telegram # NoData
    <3> DEFINE cmds == <<Cmd("SIM_INIT"), Cmd("SIM_INIT")>>
               started == <<>>
    <3>1. /\ Schedule(cmds) /\ UNCHANGED isconnected
          /\ forks' = IF forks < 2 THEN forks + 1 ELSE forks
      BY <1>4, <2>2 DEF SimEvaluateReceive, Restarts, Forks
    <3>2. /\ cmds \in SimSchedules /\ started \in Seq(SimOps)
          /\ Do(cmds, "connection", started)
          /\ \A k \in DOMAIN started : FALSE
          /\ Len(cmds) + Len(started) = 2
      BY <3>1 DEF Schedule, SimSchedules
    <3>3. ~(forks' = forks /\ forks <= 1) /\ ~Calm'
      BY <1>2, <3>1 DEF Calm
    <3> HIDE DEF cmds, started
    <3>4. /\ Len(cmds) + Len(started) <= 2
          /\ forks' = forks /\ forks <= 1 => Len(cmds) + Len(started) <= 1
          /\ ~shutdown_requested /\ Calm' => Len(cmds) + Len(started) = 1
      BY <3>2, <3>3
    <3>5. Calm => (isconnected' => up["connection"] /\ (isconnected \/ pending["connection"] = <<>>))
      BY <1>2, <3>1
    <3>6. isconnected' \in BOOLEAN
      BY <1>2, <3>1
    <3>7. SimMove("SIM_EVALUATE_RECEIVE", cmds, started)
      BY <1>1, <3>1, <3>2, <3>4, <3>5, <3>6 DEF SimMove
    <3> QED
      BY <3>7, SimStep, Zenon
  <2> QED
    BY <2>1, <2>2
<1>5. CASE Head(commands).ok
  <2> DEFINE telegram == Head(commands).data
             cmds == <<>>
             started == Reaction(telegram)
  <2>1. /\ Sim(started)
        /\ isconnected' = (isconnected /\ ~disconnect)
        /\ forks' = IF disconnect /\ forks < 2 THEN forks + 1 ELSE forks
    BY <1>5 DEF SimEvaluateReceive, Forks
  <2>2. PICK o \in {Answer(telegram.from), Receive} :
            started = IF disconnect THEN <<Op("Disconnect", "SIM_DISCONNECTED")>> \o <<o>> ELSE <<o>>
    BY <1>3, Reactions
  <2>3. PICK d : d = Op("Disconnect", "SIM_DISCONNECTED")
    OBVIOUS
  <2>4. /\ d \in SimOps /\ d.op = "Disconnect"
        /\ o \in SimOps /\ o.op # "Disconnect" /\ (o.op = "Send" => o.to = telegram.from)
    BY <1>3, <2>2, <2>3, Started
  <2>5. /\ disconnect => started = <<d>> \o <<o>>
        /\ ~disconnect => started = <<o>>
    BY <2>2, <2>3
  <2>6. isconnected' \in BOOLEAN
    BY <1>2, <2>1
  <2>7. Asking(Head(commands))
    BY <1>3, <1>5 DEF Asking
  <2>8. Do(cmds, "connection", started)
    BY <2>1 DEF Sim
  <2>9. cmds \in SimSchedules /\ Len(cmds) = 0
    BY DEF SimSchedules
  <2> HIDE DEF started, cmds
  <2>10. CASE disconnect
    <3>1. /\ started \in Seq(SimOps) /\ Len(started) = 2
          /\ started[1] = d /\ started[2] = o /\ \A k \in DOMAIN started : k = 1 \/ k = 2
      <4>1. started = <<d>> \o <<o>>
        BY <2>5, <2>10
      <4>2. <<d>> \in Seq(SimOps) /\ <<o>> \in Seq(SimOps)
        BY <2>4, OneStarted
      <4> QED
        BY <4>1, <4>2
    <3>2. \A k \in DOMAIN started : started[k].op = "Send" => started[k].to = telegram.from
      BY <2>4, <3>1
    <3>3. forks' = IF forks < 2 THEN forks + 1 ELSE forks
      BY <2>1, <2>10
    <3>4. ~(forks' = forks /\ forks <= 1) /\ ~Calm /\ ~Calm'
      BY <1>2, <2>10, <3>3 DEF Calm
    <3>5. Len(cmds) + Len(started) = 2
      BY <2>9, <3>1
    <3>6. \A k \in DOMAIN started : started[k].op = "Send" =>
              /\ Asking(Head(commands)) /\ started[k].to = Head(commands).data.from
              /\ forks' = forks /\ forks <= 1 => k = 1
      BY <2>7, <3>2, <3>4
    <3>7. /\ Len(cmds) + Len(started) <= 2
          /\ forks' = forks /\ forks <= 1 => Len(cmds) + Len(started) <= 1
          /\ ~shutdown_requested /\ Calm' => Len(cmds) + Len(started) = 1
      BY <3>4, <3>5
    <3>8. SimMove("SIM_EVALUATE_RECEIVE", cmds, started)
      BY <1>1, <2>6, <2>8, <2>9, <2>10, <3>1, <3>3, <3>4, <3>6, <3>7 DEF SimMove
    <3> QED
      BY <3>8, SimStep, Zenon
  <2>11. CASE ~disconnect
    <3>1. started \in Seq(SimOps) /\ Len(started) = 1 /\ DOMAIN started = {1}
      BY <2>4, <2>5, <2>11, OneStarted, Zenon
    <3>2. /\ \A k \in DOMAIN started : started[k].op = "Send" => started[k].to = telegram.from /\ k = 1
          /\ \A k \in DOMAIN started : started[k].op # "Disconnect"
      <4>1. started[1] = o /\ \A k \in DOMAIN started : k = 1
        BY <2>5, <2>11, <3>1
      <4> QED
        BY <2>4, <4>1
    <3>3. forks' = forks
      BY <2>1, <2>11
    <3>4. isconnected' = isconnected
      BY <1>2, <2>1, <2>11
    <3>5. Len(cmds) + Len(started) = 1
      BY <2>9, <3>1
    <3>6. \A k \in DOMAIN started : started[k].op = "Send" =>
              /\ Asking(Head(commands)) /\ started[k].to = Head(commands).data.from
              /\ forks' = forks /\ forks <= 1 => k = 1
      BY <2>7, <3>2
    <3>7. /\ Len(cmds) + Len(started) <= 2
          /\ forks' = forks /\ forks <= 1 => Len(cmds) + Len(started) <= 1
          /\ ~shutdown_requested /\ Calm' => Len(cmds) + Len(started) = 1
      BY <3>5
    <3>8. Calm =>
              /\ \A k \in DOMAIN started : started[k].op = "Disconnect" =>
                     ~isconnected' /\ started[k].cmd = "SIM_WAITDISCONNECT"
              /\ isconnected' => up["connection"] /\ (isconnected \/ pending["connection"] = <<>>)
      BY <1>2, <3>2, <3>4
    <3>9. SimMove("SIM_EVALUATE_RECEIVE", cmds, started)
      BY <1>1, <2>6, <2>8, <2>9, <3>1, <3>3, <3>6, <3>7, <3>8 DEF SimMove
    <3> QED
      BY <3>9, SimStep, Zenon
  <2> QED
    BY <1>2, <2>10, <2>11
<1> QED
  BY <1>3, <1>4, <1>5

-----------------------------------------------------------------------------
(* The control server has one conversation: while a command of it waits    *)
(* nothing else of it is under way.                                        *)

LEMMA CtrlAlone ==
    ASSUME SimulatorIInv, NEW h \in CtrlCommands, Take(h)
    PROVE  /\ ctrlserver /\ pending["ctrlserver"] = <<>> /\ ~later
           /\ NumberOf(commands, CtrlAll) = 1
           /\ \A i \in DOMAIN commands : i # 1 => commands[i].cmd \notin CtrlAll
           /\ 1 \in DOMAIN commands /\ commands[1] = Head(commands) /\ commands[1].cmd = h
<1>1. /\ commands \in Seq(CommandTypes) /\ commands # <<>> /\ Head(commands).cmd = h
      /\ pending["ctrlserver"] \in Seq(CtrlOps) /\ later \in BOOLEAN /\ ctrlserver \in BOOLEAN
  BY Kinds DEF SimulatorIInv, SimulatorTypeOK, OperationsRight, OpsOf, Take
<1>2. 1 \in DOMAIN commands /\ commands[1] = Head(commands) /\ commands[1].cmd = h
  BY <1>1
<1>3. /\ NumberOf(commands, CtrlCommands) \in Nat /\ NumberOf(commands, CtrlCommands) # 0
      /\ NumberOf(commands, CtrlAll) \in Nat /\ NumberOf(commands, CtrlAll) # 0
  BY <1>1, <1>2, Kinds, NumberTypes
<1>4. Len(pending["ctrlserver"]) \in Nat /\ Later \in {0, 1}
  BY <1>1 DEF Later
<1>5. ctrlserver
  <2>1. CtrlChain # 0
    <3> DEFINE n == NumberOf(commands, CtrlCommands)
               l == Len(pending["ctrlserver"])
    <3>1. n \in Nat /\ n # 0 /\ l \in Nat /\ CtrlChain = n + l + Later
      BY <1>3, <1>4, CtrlChainIs
    <3> HIDE DEF n, l
    <3> QED
      BY <1>4, <3>1
  <2> QED
    BY <1>1, <2>1 DEF SimulatorIInv, SimulatorTypeOK
<1>6. NumberOf(commands, CtrlAll) = 1 /\ Len(pending["ctrlserver"]) = 0 /\ Later = 0
  <2> DEFINE n == NumberOf(commands, CtrlAll)
             l == Len(pending["ctrlserver"])
  <2>1. n \in Nat /\ n # 0 /\ l \in Nat /\ n + l + Later <= 1
    BY <1>3, <1>4, <1>5 DEF SimulatorIInv, ConversationsCounted, CtrlWork
  <2> HIDE DEF n, l
  <2>2. n = 1 /\ l = 0 /\ Later = 0
    BY <1>4, <2>1
  <2> QED
    BY <2>2 DEF n, l
<1>7. ASSUME NEW i \in DOMAIN commands, i # 1 PROVE commands[i].cmd \notin CtrlAll
  <2> SUFFICES ASSUME commands[i].cmd \in CtrlAll PROVE FALSE
    OBVIOUS
  <2>1. commands[1].cmd \in CtrlAll
    BY <1>2, Kinds
  <2>2. NumberOf(commands, CtrlAll) >= 2
    BY <1>1, <1>2, <1>7, <2>1, TwoPlaces
  <2> QED
    BY <1>6, <2>2
<1> QED
  BY <1>1, <1>2, <1>5, <1>6, <1>7 DEF Later

(* What a handler of the control server may do: its conversation goes on,  *)
(* and a `connect` adds a conversation to the simulator's.                 *)
Told ==
    /\ offline' \in BOOLEAN /\ disconnect' \in BOOLEAN
    /\ killbit' \subseteq Known
    /\ disconnects' \in 0 .. MaxDisconnects /\ (disconnect' => disconnects' > 0)
    /\ disconnects' = 0 => disconnects = 0

CtrlMove(h, cmds, started) ==
    /\ h \in CtrlCommands /\ Take(h)
    /\ cmds \in {<<>>, <<Cmd("CTRL_INIT")>>, <<Cmd("SIM_DISCONNECTED")>>}
    /\ started \in Seq(CtrlOps) /\ Do(cmds, "ctrlserver", started)
    /\ Told /\ UNCHANGED isconnected /\ later' \in BOOLEAN
    /\ IF cmds = <<Cmd("SIM_DISCONNECTED")>>
       THEN disconnects # 0 /\ forks' = IF forks < 2 THEN forks + 1 ELSE forks
       ELSE forks' = forks
    /\ Len(started) + NumberOf(cmds, CtrlAll) + Later' <= 1
    /\ ~shutdown_requested => Len(started) + NumberOf(cmds, CtrlAll) + Later' = 1

LEMMA CtrlAdded ==
    ASSUME NEW cmds \in {<<>>, <<Cmd("CTRL_INIT")>>, <<Cmd("SIM_DISCONNECTED")>>}
    PROVE  /\ cmds \in Seq(CommandTypes)
           /\ NumberOf(cmds, CtrlAll) = IF cmds = <<Cmd("CTRL_INIT")>> THEN 1 ELSE 0
           /\ NumberOf(cmds, SimAll) = IF cmds = <<Cmd("SIM_DISCONNECTED")>> THEN 1 ELSE 0
           /\ \A k \in DOMAIN cmds : /\ cmds[k].cmd \in {"CTRL_INIT", "SIM_DISCONNECTED"}
                                     /\ cmds[k].line = "other"
           /\ cmds # <<Cmd("SIM_DISCONNECTED")>> =>
                 \A k \in DOMAIN cmds : cmds[k].cmd = "CTRL_INIT"
<1>1. /\ "CTRL_INIT" \in CtrlAll /\ "CTRL_INIT" \notin SimAll
      /\ "SIM_DISCONNECTED" \in SimAll /\ "SIM_DISCONNECTED" \notin CtrlAll
      /\ "CTRL_INIT" \in SimCommands \cup CtrlCommands \cup {"INIT"}
      /\ "SIM_DISCONNECTED" \in SimCommands \cup CtrlCommands \cup {"INIT"}
  BY DEF SimAll, CtrlAll, SimCommands, CtrlCommands
<1>2. /\ <<Cmd("CTRL_INIT")>> # <<Cmd("SIM_DISCONNECTED")>>
      /\ <<>> # <<Cmd("CTRL_INIT")>> /\ <<>> # <<Cmd("SIM_DISCONNECTED")>>
  <2>1. Cmd("CTRL_INIT").cmd = "CTRL_INIT" /\ Cmd("SIM_DISCONNECTED").cmd = "SIM_DISCONNECTED"
    BY <1>1, CmdTypes, Zenon
  <2>2. Cmd("CTRL_INIT") # Cmd("SIM_DISCONNECTED")
    BY <2>1
  <2> QED
    BY <2>2
<1>3. CASE cmds = <<>>
  BY <1>2, <1>3, Added
<1>4. CASE cmds = <<Cmd("CTRL_INIT")>>
  BY <1>1, <1>2, <1>4, Added
<1>5. CASE cmds = <<Cmd("SIM_DISCONNECTED")>>
  BY <1>1, <1>2, <1>5, Added
<1> QED
  BY <1>3, <1>4, <1>5

LEMMA CtrlStep ==
    ASSUME SimulatorIInv, NEW h, NEW cmds, NEW started, CtrlMove(h, cmds, started)
    PROVE  SimulatorIInv'
<1>0. /\ h \in CtrlCommands /\ Take(h)
      /\ cmds \in {<<>>, <<Cmd("CTRL_INIT")>>, <<Cmd("SIM_DISCONNECTED")>>}
      /\ started \in Seq(CtrlOps) /\ Do(cmds, "ctrlserver", started)
      /\ Told /\ UNCHANGED isconnected /\ later' \in BOOLEAN
      /\ IF cmds = <<Cmd("SIM_DISCONNECTED")>>
         THEN disconnects # 0 /\ forks' = IF forks < 2 THEN forks + 1 ELSE forks
         ELSE forks' = forks
      /\ Len(started) + NumberOf(cmds, CtrlAll) + Later' <= 1
      /\ ~shutdown_requested => Len(started) + NumberOf(cmds, CtrlAll) + Later' = 1
  BY DEF CtrlMove
<1>1. /\ commands \in Seq(CommandTypes) /\ commands # <<>> /\ Head(commands).cmd = h
      /\ SimulatorTypeOK /\ OperationsRight
  BY <1>0 DEF SimulatorIInv, SimulatorTypeOK, Take
<1>2. /\ h \notin SimAll /\ h \in CtrlAll /\ h \notin SimCommands
      /\ "connection" \in Connections /\ "ctrlserver" \in Connections
  BY <1>0, Kinds
<1>3. /\ ctrlserver /\ pending["ctrlserver"] = <<>> /\ NumberOf(commands, CtrlAll) = 1
      /\ \A i \in DOMAIN commands : i # 1 => commands[i].cmd \notin CtrlAll
  BY <1>0, CtrlAlone
<1>4. /\ cmds \in Seq(CommandTypes)
      /\ NumberOf(cmds, CtrlAll) = IF cmds = <<Cmd("CTRL_INIT")>> THEN 1 ELSE 0
      /\ NumberOf(cmds, SimAll) = IF cmds = <<Cmd("SIM_DISCONNECTED")>> THEN 1 ELSE 0
      /\ \A k \in DOMAIN cmds : cmds[k].cmd \in {"CTRL_INIT", "SIM_DISCONNECTED"}
      /\ cmds # <<Cmd("SIM_DISCONNECTED")>> => \A k \in DOMAIN cmds : cmds[k].cmd = "CTRL_INIT"
  BY <1>0, CtrlAdded
<1>5. started \in Seq(OpsOf("ctrlserver"))
  BY <1>0 DEF OpsOf
<1>6. /\ commands' \in Seq(CommandTypes) /\ pending' \in [Connections -> Seq(OperationTypes)]
      /\ OperationsRight' /\ pending'["connection"] = pending["connection"]
      /\ Len(pending'["ctrlserver"]) = Len(started) /\ Len(started) \in Nat
  <2>1. "connection" \in Connections \ {"ctrlserver"} /\ Len(pending["ctrlserver"]) = 0
    BY <1>2, <1>3
  <2> QED
    BY <1>0, <1>1, <1>2, <1>4, <1>5, <2>1, DoTypes
<1>7. /\ NumberOf(commands', SimAll) = NumberOf(commands, SimAll) + NumberOf(cmds, SimAll)
      /\ NumberOf(commands', CtrlAll) = NumberOf(cmds, CtrlAll)
      /\ NumberOf(commands, SimAll) \in Nat /\ NumberOf(commands', SimAll) \in Nat
      /\ NumberOf(commands', CtrlAll) \in Nat
  <2>1. /\ NumberOf(commands', SimAll) + (IF Head(commands).cmd \in SimAll THEN 1 ELSE 0)
             = NumberOf(commands, SimAll) + NumberOf(cmds, SimAll)
        /\ NumberOf(commands', CtrlAll) + (IF Head(commands).cmd \in CtrlAll THEN 1 ELSE 0)
             = NumberOf(commands, CtrlAll) + NumberOf(cmds, CtrlAll)
    BY <1>0, <1>1, <1>4, DoNumbers
  <2>2. /\ NumberOf(commands, SimAll) \in Nat /\ NumberOf(commands', SimAll) \in Nat
        /\ NumberOf(commands', CtrlAll) \in Nat
    BY <1>1, <1>6, NumberTypes
  <2> QED
    BY <1>1, <1>2, <1>3, <1>4, <2>1, <2>2
<1>8. /\ SimWork' = SimWork + NumberOf(cmds, SimAll) /\ SimWork \in Nat /\ SimWork' \in Nat
      /\ CtrlWork' = Len(started) + NumberOf(cmds, CtrlAll) + Later'
  <2>1. SimWork' = SimWork + NumberOf(cmds, SimAll) /\ SimWork \in Nat /\ SimWork' \in Nat
    <3> DEFINE n == NumberOf(commands, SimAll)
               m == NumberOf(commands', SimAll)
               l == Len(pending["connection"])
               a == NumberOf(cmds, SimAll)
    <3>1. SimWork' = m + l /\ SimWork = n + l
      BY <1>6 DEF SimWork
    <3>2. l \in Nat
      BY <1>2 DEF SimulatorIInv, OperationsRight
    <3>3. n \in Nat /\ m \in Nat /\ a \in {0, 1} /\ m = n + a
      BY <1>4, <1>7
    <3> HIDE DEF n, m, l, a
    <3>4. SimWork' = SimWork + a /\ SimWork \in Nat /\ SimWork' \in Nat
      BY <3>1, <3>2, <3>3
    <3> QED
      BY <3>4 DEF a
  <2>2. CtrlWork' = Len(started) + NumberOf(cmds, CtrlAll) + Later'
    <3> DEFINE k == Len(started)
               a == NumberOf(cmds, CtrlAll)
    <3>1. CtrlWork' = a + k + Later' /\ a \in {0, 1} /\ k \in Nat /\ Later' \in {0, 1}
      BY <1>0, <1>4, <1>6, <1>7 DEF CtrlWork, Later
    <3> HIDE DEF k, a
    <3>2. CtrlWork' = k + a + Later'
      BY <3>1
    <3> QED
      BY <3>2 DEF k, a
  <2> QED
    BY <2>1, <2>2
<1>9. UNCHANGED <<ctrlserver, shutdown_requested, up, session, misdirected, crashed>>
  BY <1>0 DEF Do
<1>10. /\ forks \in 0 .. 2 /\ forks' \in 0 .. 2 /\ forks' \in {forks, forks + 1}
       /\ forks' <= 1 => forks' = forks + NumberOf(cmds, SimAll)
  BY <1>0, <1>1, <1>4 DEF SimulatorTypeOK
<1>11. SimulatorTypeOK'
  BY <1>0, <1>1, <1>3, <1>6, <1>9, <1>10 DEF SimulatorTypeOK, Told
<1>12. InitFirst'
  <2>1. \A k \in DOMAIN cmds : cmds[k].cmd # "INIT"
    BY <1>4
  <2> QED
    BY <1>0, <1>1, <1>4, <2>1, DoInitFirst
<1>13. ConversationsCounted'
  <2>1. /\ forks <= 1 => SimWork <= 1 + forks
        /\ Working /\ Calm => SimWork = 1
    BY DEF SimulatorIInv, ConversationsCounted
  <2>2. Working' = Working /\ (Working => ~shutdown_requested)
    BY <1>9 DEF Working
  <2>3. forks' <= 1 => SimWork' <= 1 + forks'
    <3>1. NumberOf(cmds, SimAll) \in {0, 1}
      BY <1>4
    <3>2. forks' <= 1 => forks <= 1
      BY <1>10
    <3> QED
      BY <1>8, <1>10, <2>1, <3>1, <3>2
  <2>4. Working' /\ Calm' => SimWork' = 1
    <3> SUFFICES ASSUME Working', Calm' PROVE SimWork' = 1
      OBVIOUS
    <3>1. Calm /\ cmds # <<Cmd("SIM_DISCONNECTED")>>
      BY <1>0 DEF Told, Calm
    <3> QED
      BY <1>4, <1>8, <2>1, <2>2, <3>1
  <2> QED
    BY <1>0, <1>8, <2>2, <2>3, <2>4 DEF ConversationsCounted
<1>14. DisconnectsBounded'
  <2>1. ASSUME NEW i \in DOMAIN commands' PROVE commands'[i].cmd # "CTRL_PARSERECEIVE"
    <3>1. CASE i + 1 \in DOMAIN commands /\ commands'[i] = commands[i + 1]
      <4>1. i + 1 # 1
        BY <1>0, <1>1, <1>4, DoPlaces
      <4>2. "CTRL_PARSERECEIVE" \in CtrlAll
        BY DEF CtrlAll, CtrlCommands
      <4> QED
        BY <1>3, <3>1, <4>1, <4>2
    <3>2. CASE \E k \in DOMAIN cmds : commands'[i] = cmds[k]
      BY <1>4, <3>2
    <3> QED
      BY <1>0, <1>1, <1>4, <3>1, <3>2, DoPlaces
  <2> QED
    BY <2>1 DEF DisconnectsBounded
<1>15. Undisturbed'
  <2>1. CASE Calm'
    <3>1. Calm /\ ~disconnect' /\ cmds # <<Cmd("SIM_DISCONNECTED")>>
      BY <1>0, <2>1 DEF Told, Calm
    <3>3. \A k \in DOMAIN cmds : cmds[k].cmd \notin {"SIM_DISCONNECTED", "SIM_CONNECTED"}
      BY <1>4, <3>1
    <3>4. isconnected' \in BOOLEAN /\ (isconnected' => up["connection"] /\ isconnected)
      BY <1>0, <3>1 DEF SimulatorIInv, SimulatorTypeOK, Undisturbed
    <3>5. \A k \in DOMAIN started : "ctrlserver" = "connection" /\ started[k].op = "Disconnect" =>
              ~isconnected' /\ started[k].cmd = "SIM_WAITDISCONNECT"
      OBVIOUS
    <3> QED
      BY <1>0, <1>1, <1>2, <1>4, <1>5, <3>1, <3>3, <3>4, <3>5, DoUndisturbed
  <2>2. CASE ~Calm'
    BY <2>2 DEF Undisturbed
  <2> QED
    BY <2>1, <2>2
<1>16. ConversationsApart'
  <2>1. CASE forks <= 1
    <3>1. \A k \in DOMAIN cmds : ~Asking(cmds[k])
      BY <1>4 DEF Asking
    <3>2. \A k \in DOMAIN started : "ctrlserver" = "connection" /\ started[k].op = "Send" =>
              /\ Asking(Head(commands)) /\ started[k].to = Head(commands).data.from
              /\ forks' = forks => k = 1
      OBVIOUS
    <3>3. "ctrlserver" = "connection" /\ started # <<>> => Head(commands).cmd \in SimCommands
      OBVIOUS
    <3> QED
      BY <1>0, <1>1, <1>2, <1>4, <1>5, <1>10, <2>1, <3>1, <3>2, <3>3, DoApart
  <2>2. CASE ~(forks <= 1)
    <3>1. ~(forks' <= 1)
      BY <1>10, <2>2
    <3> QED
      BY <3>1 DEF ConversationsApart
  <2> QED
    BY <2>1, <2>2
<1> QED
  BY <1>6, <1>11, <1>12, <1>13, <1>14, <1>15, <1>16 DEF SimulatorIInv

(* A handler of the control server that leaves what it has been told.      *)
LEMMA CtrlStartsOne ==
    ASSUME SimulatorIInv, NEW h \in CtrlCommands, Take(h), NEW o \in CtrlOps, Ctrl(<<o>>),
           UNCHANGED <<toldVars, isconnected, later>>
    PROVE  SimulatorIInv'
<1> DEFINE cmds == <<>>
           started == <<o>>
<1>1. /\ cmds \in {<<>>, <<Cmd("CTRL_INIT")>>, <<Cmd("SIM_DISCONNECTED")>>}
      /\ cmds # <<Cmd("SIM_DISCONNECTED")>> /\ NumberOf(cmds, CtrlAll) = 0
      /\ started \in Seq(CtrlOps) /\ Len(started) = 1 /\ Do(cmds, "ctrlserver", started)
  BY Added DEF Ctrl
<1>2. Told /\ UNCHANGED isconnected /\ forks' = forks
  BY DEF SimulatorIInv, SimulatorTypeOK, toldVars, Told
<1>3. ~later /\ later' \in BOOLEAN /\ Later' = 0
  BY CtrlAlone DEF Later, SimulatorIInv, SimulatorTypeOK
<1> HIDE DEF cmds, started
<1>4. Len(started) + NumberOf(cmds, CtrlAll) + Later' = 1
  BY <1>1, <1>3
<1>5. CtrlMove(h, cmds, started)
  BY <1>1, <1>2, <1>3, <1>4 DEF CtrlMove
<1> QED
  BY <1>5, CtrlStep, Zenon

LEMMA CtrlStartsNone ==
    ASSUME SimulatorIInv, NEW h \in CtrlCommands, Take(h), Ctrl(<<>>),
           UNCHANGED <<toldVars, isconnected>>,
           (UNCHANGED later /\ shutdown_requested) \/ later' = TRUE
    PROVE  SimulatorIInv'
<1> DEFINE cmds == <<>>
           started == <<>>
<1>1. /\ cmds \in {<<>>, <<Cmd("CTRL_INIT")>>, <<Cmd("SIM_DISCONNECTED")>>}
      /\ cmds # <<Cmd("SIM_DISCONNECTED")>> /\ NumberOf(cmds, CtrlAll) = 0
      /\ started \in Seq(CtrlOps) /\ Len(started) = 0 /\ Do(cmds, "ctrlserver", started)
  BY Added DEF Ctrl
<1>2. Told /\ UNCHANGED isconnected /\ forks' = forks
  BY DEF SimulatorIInv, SimulatorTypeOK, toldVars, Told
<1>3. later' \in BOOLEAN /\ (Later' = 1 \/ (Later' = 0 /\ shutdown_requested))
  BY CtrlAlone DEF Later, SimulatorIInv, SimulatorTypeOK
<1> HIDE DEF cmds, started
<1>4. /\ Len(started) + NumberOf(cmds, CtrlAll) + Later' <= 1
      /\ ~shutdown_requested => Len(started) + NumberOf(cmds, CtrlAll) + Later' = 1
  BY <1>1, <1>3
<1>5. CtrlMove(h, cmds, started)
  BY <1>1, <1>2, <1>3, <1>4 DEF CtrlMove
<1> QED
  BY <1>5, CtrlStep, Zenon

LEMMA CtrlSchedulesInit ==
    ASSUME SimulatorIInv, NEW h \in CtrlCommands, Take(h), Schedule(<<Cmd("CTRL_INIT")>>),
           UNCHANGED <<toldVars, isconnected, later>>
    PROVE  SimulatorIInv'
<1> DEFINE cmds == <<Cmd("CTRL_INIT")>>
           started == <<>>
<1>1. /\ cmds \in {<<>>, <<Cmd("CTRL_INIT")>>, <<Cmd("SIM_DISCONNECTED")>>}
      /\ NumberOf(cmds, CtrlAll) = 1
      /\ started \in Seq(CtrlOps) /\ Len(started) = 0
  BY CtrlAdded
<1>2. cmds # <<Cmd("SIM_DISCONNECTED")>>
  <2>1. /\ "SIM_DISCONNECTED" \in SimCommands \cup CtrlCommands \cup {"INIT"}
        /\ "SIM_DISCONNECTED" \notin CtrlAll
    BY DEF SimCommands, CtrlAll, CtrlCommands
  <2>2. NumberOf(<<Cmd("SIM_DISCONNECTED")>>, CtrlAll) = 0
    BY <2>1, Added
  <2> QED
    BY <1>1, <2>2
<1>3. Do(cmds, "ctrlserver", started)
  <2>1. Do(<<Cmd("CTRL_INIT")>>, "connection", <<>>)
    BY DEF Schedule
  <2>2. /\ pending["connection"] \o <<>> = pending["connection"]
        /\ pending["ctrlserver"] \o <<>> = pending["ctrlserver"]
        /\ pending \in [Connections -> Seq(OperationTypes)]
    BY Kinds DEF SimulatorIInv, SimulatorTypeOK
  <2>3. [pending EXCEPT !["connection"] = @ \o <<>>] = [pending EXCEPT !["ctrlserver"] = @ \o <<>>]
    BY <2>2
  <2> QED
    BY <2>1, <2>3 DEF Do
<1>4. Told /\ UNCHANGED isconnected /\ forks' = forks
  BY DEF SimulatorIInv, SimulatorTypeOK, toldVars, Told
<1>5. later' \in BOOLEAN /\ Later' = 0
  BY CtrlAlone DEF Later, SimulatorIInv, SimulatorTypeOK
<1> HIDE DEF cmds, started
<1>6. Len(started) + NumberOf(cmds, CtrlAll) + Later' = 1
  BY <1>1, <1>5
<1>7. CtrlMove(h, cmds, started)
  BY <1>1, <1>2, <1>3, <1>4, <1>5, <1>6 DEF CtrlMove
<1> QED
  BY <1>7, CtrlStep, Zenon

LEMMA CtrlStarted ==
    \A o \in {"Accept", "Receive", "Disconnect", "Send"}, c \in CtrlCommands :
        <<o, c>> \in {<<"Accept", "CTRL_CONNECTED">>, <<"Receive", "CTRL_PARSERECEIVE">>,
                      <<"Disconnect", "CTRL_WAITDISCONNECT">>, <<"Send", "CTRL_INIT">>,
                      <<"Send", "CTRL_WAIT_SENT">>} => Op(o, c) \in CtrlOps
BY DEF CtrlOps

LEMMA CtrlInitStep ==
    ASSUME SimulatorIInv, CtrlInit
    PROVE  SimulatorIInv'
<1>1. /\ Take("CTRL_INIT") /\ "CTRL_INIT" \in CtrlCommands
      /\ UNCHANGED <<toldVars, isconnected, later>>
  BY DEF CtrlInit, CtrlCommands
<1>2. CASE shutdown_requested
  <2>1. Ctrl(<<>>)
    BY <1>2 DEF CtrlInit
  <2> QED
    BY <1>1, <1>2, <2>1, CtrlStartsNone
<1>3. CASE ~shutdown_requested
  <2>1. PICK o \in CtrlOps : Ctrl(<<o>>)
    <3>1. /\ Op("Disconnect", "CTRL_WAITDISCONNECT") \in CtrlOps
          /\ Op("Accept", "CTRL_CONNECTED") \in CtrlOps
      BY DEF CtrlOps
    <3>2. \/ Ctrl(<<Op("Disconnect", "CTRL_WAITDISCONNECT")>>)
          \/ Ctrl(<<Op("Accept", "CTRL_CONNECTED")>>)
      BY <1>3 DEF CtrlInit
    <3> QED
      BY <3>1, <3>2
  <2> QED
    BY <1>1, <2>1, CtrlStartsOne
<1> QED
  BY <1>2, <1>3

LEMMA CtrlWaitDisconnectStep ==
    ASSUME SimulatorIInv, CtrlWaitDisconnect
    PROVE  SimulatorIInv'
<1>1. /\ Take("CTRL_WAITDISCONNECT") /\ "CTRL_WAITDISCONNECT" \in CtrlCommands
      /\ UNCHANGED <<toldVars, isconnected, later>>
  BY DEF CtrlWaitDisconnect, CtrlCommands
<1>2. PICK o \in CtrlOps : Ctrl(<<o>>)
  BY DEF CtrlWaitDisconnect, CtrlOps
<1> QED
  BY <1>1, <1>2, CtrlStartsOne

LEMMA CtrlConnectedStep ==
    ASSUME SimulatorIInv, CtrlConnected
    PROVE  SimulatorIInv'
<1>1. /\ Take("CTRL_CONNECTED") /\ "CTRL_CONNECTED" \in CtrlCommands
      /\ UNCHANGED <<toldVars, isconnected>>
  BY DEF CtrlConnected, CtrlCommands
<1>2. CASE Head(commands).ok
  <2>1. PICK o \in CtrlOps : Ctrl(<<o>>)
    BY <1>2 DEF CtrlConnected, CtrlOps
  <2>2. UNCHANGED <<toldVars, isconnected, later>>
    BY <1>1, <1>2 DEF CtrlConnected
  <2> QED
    BY <1>1, <2>1, <2>2, CtrlStartsOne
<1>3. CASE ~Head(commands).ok
  <2>1. Ctrl(<<>>) /\ later' = TRUE
    BY <1>3 DEF CtrlConnected
  <2> QED
    BY <1>1, <2>1, CtrlStartsNone
<1> QED
  BY <1>2, <1>3

LEMMA CtrlWaitSentStep ==
    ASSUME SimulatorIInv, CtrlWaitSent
    PROVE  SimulatorIInv'
<1>1. /\ Take("CTRL_WAIT_SENT") /\ "CTRL_WAIT_SENT" \in CtrlCommands
      /\ UNCHANGED <<toldVars, isconnected, later>>
  BY DEF CtrlWaitSent, CtrlCommands
<1>2. CASE Head(commands).ok
  <2>1. PICK o \in CtrlOps : Ctrl(<<o>>)
    BY <1>2 DEF CtrlWaitSent, CtrlOps
  <2> QED
    BY <1>1, <2>1, CtrlStartsOne
<1>3. CASE ~Head(commands).ok
  <2>1. Schedule(<<Cmd("CTRL_INIT")>>)
    BY <1>3 DEF CtrlWaitSent
  <2> QED
    BY <1>1, <2>1, CtrlSchedulesInit
<1> QED
  BY <1>2, <1>3

(* The flags keep their types, and `disconnect` is counted.                *)
LEMMA Obeys ==
    ASSUME SimulatorIInv, NEW line, Obey(line),
           line = "disconnect" => disconnects < MaxDisconnects
    PROVE  Told
<1>1. /\ {offline, disconnect} \subseteq BOOLEAN /\ killbit \subseteq Known
      /\ disconnects \in 0 .. MaxDisconnects /\ (disconnect => disconnects > 0)
      /\ MaxDisconnects \in Nat
  BY Bounds DEF SimulatorIInv, SimulatorTypeOK
<1>2. /\ offline' = ((offline \/ line = "offline") /\ line # "online")
      /\ disconnect' = ((disconnect \/ line = "disconnect") /\ line # "connect")
      /\ disconnects' = disconnects + IF line = "disconnect" THEN 1 ELSE 0
  BY DEF Obey
<1>3. killbit' \subseteq Known
  <2>1. killbit' \in { killbit \cup {t} : t \in Known } \cup { killbit \ {t} : t \in Known }
                        \cup {killbit}
    BY DEF Obey
  <2> QED
    BY <1>1, <2>1
<1>4. offline' \in BOOLEAN /\ disconnect' \in BOOLEAN
  BY <1>1, <1>2
<1>5. disconnects' \in 0 .. MaxDisconnects /\ (disconnects' = 0 => disconnects = 0)
  BY <1>1, <1>2
<1>6. disconnect' => disconnects' > 0
  BY <1>1, <1>2
<1> QED
  BY <1>3, <1>4, <1>5, <1>6 DEF Told

LEMMA CtrlParseReceiveStep ==
    ASSUME SimulatorIInv, CtrlParseReceive
    PROVE  SimulatorIInv'
<1>1. /\ Take("CTRL_PARSERECEIVE") /\ "CTRL_PARSERECEIVE" \in CtrlCommands
      /\ UNCHANGED <<isconnected, later>>
  BY DEF CtrlParseReceive, CtrlCommands
<1>2. CASE ~Head(commands).ok
  <2>1. Schedule(<<Cmd("CTRL_INIT")>>) /\ UNCHANGED toldVars
    BY <1>2 DEF CtrlParseReceive
  <2> QED
    BY <1>1, <2>1, CtrlSchedulesInit
<1>3. CASE Head(commands).ok
  <2> DEFINE line == Head(commands).line
             next == IF line = "quit" THEN "CTRL_INIT" ELSE "CTRL_WAIT_SENT"
             cmds == IF WakeUp(line) THEN <<Cmd("SIM_DISCONNECTED")>> ELSE <<>>
             started == <<Op("Send", next)>>
  <2>1. Obey(line) /\ Forks(WakeUp(line)) /\ Do(cmds, "ctrlserver", started)
    BY <1>3 DEF CtrlParseReceive
  <2>2. line = "disconnect" => disconnects < MaxDisconnects
    <3>1. 1 \in DOMAIN commands /\ commands[1] = Head(commands) /\ commands[1].cmd = "CTRL_PARSERECEIVE"
      BY <1>1, CtrlAlone
    <3> QED
      BY <3>1 DEF SimulatorIInv, DisconnectsBounded
  <2> HIDE DEF line
  <2>3. Told
    BY <2>1, <2>2, Obeys
  <2>4. /\ Op("Send", next) \in CtrlOps /\ started \in Seq(CtrlOps) /\ Len(started) = 1
    BY DEF CtrlOps
  <2>5. /\ cmds \in {<<>>, <<Cmd("CTRL_INIT")>>, <<Cmd("SIM_DISCONNECTED")>>}
        /\ cmds = <<Cmd("SIM_DISCONNECTED")>> <=> WakeUp(line)
        /\ NumberOf(cmds, CtrlAll) = 0
    <3>1. <<>> # <<Cmd("SIM_DISCONNECTED")>>
      OBVIOUS
    <3>2. /\ "SIM_DISCONNECTED" \in SimCommands \cup CtrlCommands \cup {"INIT"}
          /\ "SIM_DISCONNECTED" \notin CtrlAll
      BY DEF SimCommands, CtrlAll, CtrlCommands
    <3>3. NumberOf(<<Cmd("SIM_DISCONNECTED")>>, CtrlAll) = 0 /\ NumberOf(<<>>, CtrlAll) = 0
      BY <3>2, Added
    <3> QED
      BY <3>1, <3>3
  <2>6. IF cmds = <<Cmd("SIM_DISCONNECTED")>>
        THEN disconnects # 0 /\ forks' = IF forks < 2 THEN forks + 1 ELSE forks
        ELSE forks' = forks
    <3>1. WakeUp(line) => disconnects # 0
      BY Bounds DEF WakeUp, SimulatorIInv, SimulatorTypeOK
    <3> HIDE DEF cmds
    <3> QED
      BY <2>1, <2>5, <3>1 DEF Forks
  <2>7. later' \in BOOLEAN /\ Later' = 0
    BY <1>1, CtrlAlone DEF Later, SimulatorIInv, SimulatorTypeOK
  <2> HIDE DEF cmds, started
  <2>8. Len(started) + NumberOf(cmds, CtrlAll) + Later' = 1
    BY <2>4, <2>5, <2>7
  <2>9. CtrlMove("CTRL_PARSERECEIVE", cmds, started)
    BY <1>1, <2>1, <2>3, <2>4, <2>5, <2>6, <2>7, <2>8 DEF CtrlMove
  <2> QED
    BY <2>9, CtrlStep, Zenon
<1> QED
  BY <1>2, <1>3

-----------------------------------------------------------------------------
(* What is put at the end of the queue from outside the main loop.         *)

LEMMA Extended ==
    ASSUME SimulatorIInv, NEW more \in Seq(CommandTypes), commands' = commands \o more
    PROVE  /\ commands' \in Seq(CommandTypes)
           /\ \A S : /\ NumberOf(commands', S) = NumberOf(commands, S) + NumberOf(more, S)
                     /\ NumberOf(commands, S) \in Nat /\ NumberOf(more, S) \in Nat
           /\ DOMAIN commands \subseteq DOMAIN commands'
           /\ \A i \in DOMAIN commands : commands'[i] = commands[i] /\ i \in Nat
           /\ \A i \in DOMAIN commands' \ DOMAIN commands :
                 /\ \E k \in DOMAIN more : commands'[i] = more[k]
                 /\ \A j \in DOMAIN commands : j < i
<1>1. commands \in Seq(CommandTypes)
  BY DEF SimulatorIInv, SimulatorTypeOK
<1>2. commands' \in Seq(CommandTypes)
  BY <1>1
<1>3. \A S : /\ NumberOf(commands', S) = NumberOf(commands, S) + NumberOf(more, S)
             /\ NumberOf(commands, S) \in Nat /\ NumberOf(more, S) \in Nat
  BY <1>1, NumberConcat, NumberTypes
<1>4. /\ DOMAIN commands \subseteq DOMAIN commands'
      /\ \A i \in DOMAIN commands : commands'[i] = commands[i] /\ i \in Nat
  BY <1>1
<1>5. ASSUME NEW i \in DOMAIN commands' \ DOMAIN commands
      PROVE  /\ \E k \in DOMAIN more : commands'[i] = more[k]
             /\ \A j \in DOMAIN commands : j < i
  <2>1. PICK k \in DOMAIN more : commands'[i] = more[k] /\ i = Len(commands) + k
    BY <1>1, <1>5, ConcatPlaces
  <2> QED
    BY <1>1, <2>1
<1> QED
  BY <1>2, <1>3, <1>4, <1>5

LEMMA ExtendedInitFirst ==
    ASSUME SimulatorIInv, NEW more \in Seq(CommandTypes), commands' = commands \o more,
           \A k \in DOMAIN more : more[k].cmd # "INIT"
    PROVE  InitFirst'
BY Extended DEF SimulatorIInv, InitFirst

(* The telegrams that wait stay right while the client is the same and no  *)
(* operation is started.                                                   *)
LEMMA ExtendedTelegrams ==
    ASSUME SimulatorIInv, NEW more \in Seq(CommandTypes), commands' = commands \o more,
           \A k \in DOMAIN more : ~Asking(more[k]),
           TelegramsRight, forks' = forks, session' = session,
           up'["connection"] = up["connection"],
           pending["connection"] = <<>> => pending'["connection"] = <<>>
    PROVE  TelegramsRight'
<1> SUFFICES ASSUME NEW i \in DOMAIN commands', Asking(commands'[i])
             PROVE  /\ commands'[i].data.from = session
                    /\ up["connection"] \/ (forks = 1 /\ NothingAhead(i)')
  BY DEF TelegramsRight
<1>1. i \in DOMAIN commands /\ commands'[i] = commands[i]
  BY Extended
<1>2. /\ commands[i].data.from = session
      /\ up["connection"] \/ (forks = 1 /\ NothingAhead(i))
  BY <1>1 DEF TelegramsRight
<1>3. ASSUME NothingAhead(i) PROVE NothingAhead(i)'
  <2>1. pending'["connection"] = <<>>
    BY <1>3 DEF NothingAhead
  <2>2. ASSUME NEW j \in DOMAIN commands', j < i PROVE commands'[j].cmd \notin SimCommands
    <3>1. j \in DOMAIN commands
      <4>1. j \notin DOMAIN commands => i < j
        BY <1>1, Extended
      <4>2. i \in Nat /\ j \in Nat
        <5>1. commands' \in Seq(CommandTypes)
          BY Extended
        <5> QED
          BY <1>1, <5>1
      <4> QED
        BY <2>2, <4>1, <4>2
    <3>2. commands'[j] = commands[j]
      BY <3>1, Extended
    <3> QED
      BY <1>3, <2>2, <3>1, <3>2 DEF NothingAhead
  <2> QED
    BY <2>1, <2>2 DEF NothingAhead
<1> QED
  BY <1>1, <1>2, <1>3

-----------------------------------------------------------------------------
(* The start, the timer and the shutdown.                                  *)

LEMMA CmdInitStep ==
    ASSUME SimulatorIInv, CmdInit
    PROVE  SimulatorIInv'
<1> DEFINE starting == <<Cmd("SIM_INIT")>>
           other == IF ctrlserver THEN <<Cmd("CTRL_INIT")>> ELSE <<>>
           cmds == starting \o other
           started == <<>>
<1>1. /\ commands \in Seq(CommandTypes) /\ commands # <<>> /\ Head(commands).cmd = "INIT"
      /\ SimulatorTypeOK /\ OperationsRight /\ ctrlserver \in BOOLEAN
      /\ Do(cmds, "connection", started) /\ UNCHANGED <<toldVars, isconnected, later>>
  BY DEF SimulatorIInv, SimulatorTypeOK, CmdInit, Take, Schedule
<1>2. /\ {"SIM_INIT", "CTRL_INIT"} \subseteq SimCommands \cup CtrlCommands \cup {"INIT"}
      /\ "SIM_INIT" \in SimAll /\ "SIM_INIT" \notin CtrlAll /\ "SIM_INIT" \notin CtrlCommands
      /\ "CTRL_INIT" \in CtrlAll /\ "CTRL_INIT" \notin SimAll
      /\ "INIT" \in SimAll /\ "INIT" \in CtrlAll /\ "INIT" \notin CtrlCommands
      /\ "connection" \in Connections /\ "ctrlserver" \in Connections
  BY Kinds DEF SimCommands, CtrlCommands, SimAll, CtrlAll
<1>3. /\ starting \in Seq(CommandTypes) /\ other \in Seq(CommandTypes)
      /\ NumberOf(starting, SimAll) = 1 /\ NumberOf(starting, CtrlAll) = 0
      /\ NumberOf(starting, CtrlCommands) = 0
      /\ NumberOf(other, SimAll) = 0 /\ NumberOf(other, CtrlAll) = IF ctrlserver THEN 1 ELSE 0
      /\ ~ctrlserver => NumberOf(other, CtrlCommands) = 0
      /\ \A k \in DOMAIN starting : starting[k].cmd = "SIM_INIT" /\ starting[k].line = "other"
      /\ \A k \in DOMAIN other : other[k].cmd = "CTRL_INIT" /\ other[k].line = "other"
  BY <1>2, Added
<1> HIDE DEF starting, other
<1>4. /\ cmds \in Seq(CommandTypes)
      /\ NumberOf(cmds, SimAll) = 1 /\ NumberOf(cmds, CtrlAll) = IF ctrlserver THEN 1 ELSE 0
      /\ ~ctrlserver => NumberOf(cmds, CtrlCommands) = 0
      /\ \A k \in DOMAIN cmds : cmds[k].cmd \in {"SIM_INIT", "CTRL_INIT"} /\ cmds[k].line = "other"
  <2>1. \A k \in DOMAIN cmds : \/ k \in DOMAIN starting /\ cmds[k] = starting[k]
                               \/ \E l \in DOMAIN other : cmds[k] = other[l]
    BY <1>3, ConcatPlaces
  <2>2. \A S : NumberOf(cmds, S) = NumberOf(starting, S) + NumberOf(other, S)
    BY <1>3, NumberConcat
  <2> QED
    BY <1>3, <2>1, <2>2
<1> HIDE DEF cmds
<1>5. started \in Seq(OpsOf("connection")) /\ DOMAIN started = {} /\ Len(started) = 0
  OBVIOUS
<1> HIDE DEF started
<1>6. /\ commands' \in Seq(CommandTypes) /\ pending' \in [Connections -> Seq(OperationTypes)]
      /\ OperationsRight' /\ pending'["ctrlserver"] = pending["ctrlserver"]
      /\ Len(pending'["connection"]) = Len(pending["connection"])
  <2>1. "ctrlserver" \in Connections \ {"connection"}
    BY <1>2
  <2>2. /\ Len(pending'["connection"]) = Len(pending["connection"]) + Len(started)
        /\ Len(pending["connection"]) \in Nat
    BY <1>1, <1>2, <1>4, <1>5, DoTypes
  <2> QED
    <3>1. Len(pending'["connection"]) = Len(pending["connection"])
      BY <1>5, <2>2
    <3>2. /\ commands' \in Seq(CommandTypes) /\ pending' \in [Connections -> Seq(OperationTypes)]
          /\ OperationsRight' /\ pending'["ctrlserver"] = pending["ctrlserver"]
      BY <1>1, <1>2, <1>4, <1>5, <2>1, DoTypes
    <3> QED
      BY <3>1, <3>2
<1>7. /\ NumberOf(commands', SimAll) = NumberOf(commands, SimAll)
      /\ ctrlserver => NumberOf(commands', CtrlAll) = NumberOf(commands, CtrlAll)
      /\ ~ctrlserver => NumberOf(commands', CtrlCommands) = NumberOf(commands, CtrlCommands)
  <2>1. /\ NumberOf(commands', SimAll) + (IF Head(commands).cmd \in SimAll THEN 1 ELSE 0)
             = NumberOf(commands, SimAll) + NumberOf(cmds, SimAll)
        /\ NumberOf(commands', CtrlAll) + (IF Head(commands).cmd \in CtrlAll THEN 1 ELSE 0)
             = NumberOf(commands, CtrlAll) + NumberOf(cmds, CtrlAll)
        /\ NumberOf(commands', CtrlCommands) + (IF Head(commands).cmd \in CtrlCommands THEN 1 ELSE 0)
             = NumberOf(commands, CtrlCommands) + NumberOf(cmds, CtrlCommands)
    BY <1>1, <1>4, DoNumbers
  <2>2. \A S \in {SimAll, CtrlAll, CtrlCommands} :
            NumberOf(commands, S) \in Nat /\ NumberOf(commands', S) \in Nat
    BY <1>1, <1>6, NumberTypes
  <2> QED
    BY <1>1, <1>2, <1>4, <2>1, <2>2
<1>8. /\ SimWork' = SimWork /\ (ctrlserver => CtrlWork' = CtrlWork)
      /\ ~ctrlserver => CtrlChain' = CtrlChain
  <2>1. later' = later
    BY <1>1
  <2> QED
    BY <1>6, <1>7, <2>1, CtrlChainIs DEF SimWork, CtrlWork, Later
<1>9. UNCHANGED <<ctrlserver, shutdown_requested, up, session, misdirected, crashed>>
  BY <1>1 DEF Do
<1>10. SimulatorTypeOK'
  BY <1>1, <1>6, <1>8, <1>9 DEF SimulatorTypeOK, toldVars
<1>11. InitFirst'
  <2>1. \A k \in DOMAIN cmds : cmds[k].cmd # "INIT"
    BY <1>4
  <2> QED
    BY <1>1, <1>4, <2>1, DoInitFirst
<1>12. ConversationsCounted'
  BY <1>1, <1>8, <1>9 DEF SimulatorIInv, ConversationsCounted, Working, toldVars, Calm
<1>13. DisconnectsBounded'
  BY <1>1, <1>4, DoDisconnectsBounded DEF toldVars
<1>14. Undisturbed'
  <2>1. CASE Calm
    <3>1. /\ ~disconnect' /\ isconnected' \in BOOLEAN
          /\ isconnected' => up["connection"] /\ isconnected
      BY <1>1, <2>1 DEF SimulatorIInv, SimulatorTypeOK, Undisturbed, toldVars
    <3>2. \A k \in DOMAIN cmds : cmds[k].cmd \notin {"SIM_DISCONNECTED", "SIM_CONNECTED"}
      BY <1>4
    <3>3. \A k \in DOMAIN started : "connection" = "connection" /\ started[k].op = "Disconnect" =>
              ~isconnected' /\ started[k].cmd = "SIM_WAITDISCONNECT"
      BY <1>5
    <3> QED
      BY <1>1, <1>2, <1>4, <1>5, <2>1, <3>1, <3>2, <3>3, DoUndisturbed
  <2>2. CASE ~Calm
    BY <1>1, <2>2 DEF Undisturbed, toldVars, Calm
  <2> QED
    BY <2>1, <2>2
<1>15. ConversationsApart'
  <2>1. CASE forks <= 1
    <3>1. \A k \in DOMAIN cmds : ~Asking(cmds[k])
      BY <1>4 DEF Asking
    <3>2. \A k \in DOMAIN started : "connection" = "connection" /\ started[k].op = "Send" =>
              /\ Asking(Head(commands)) /\ started[k].to = Head(commands).data.from
              /\ forks' = forks => k = 1
      BY <1>5
    <3>3. forks' \in {forks, forks + 1}
      BY <1>1 DEF toldVars
    <3>4. "connection" = "connection" /\ started # <<>> => Head(commands).cmd \in SimCommands
      BY DEF started
    <3> QED
      BY <1>1, <1>2, <1>4, <1>5, <2>1, <3>1, <3>2, <3>3, <3>4, DoApart
  <2>2. CASE ~(forks <= 1)
    BY <1>1, <2>2 DEF ConversationsApart, toldVars
  <2> QED
    BY <2>1, <2>2
<1> QED
  BY <1>6, <1>10, <1>11, <1>12, <1>13, <1>14, <1>15 DEF SimulatorIInv

LEMMA CtrlTimerStep ==
    ASSUME SimulatorIInv, CtrlTimer
    PROVE  SimulatorIInv'
<1> DEFINE more == <<Cmd("CTRL_INIT")>>
<1>1. /\ commands \in Seq(CommandTypes) /\ SimulatorTypeOK /\ later /\ later' = FALSE
      /\ UNCHANGED <<ctrlserver, toldVars, isconnected, shutdown_requested, connVars, crashed>>
  BY DEF SimulatorIInv, SimulatorTypeOK, CtrlTimer
<1>2. /\ "CTRL_INIT" \in SimCommands \cup CtrlCommands \cup {"INIT"}
      /\ "CTRL_INIT" \in CtrlAll /\ "CTRL_INIT" \in CtrlCommands /\ "CTRL_INIT" \notin SimAll
  BY DEF SimCommands, CtrlCommands, SimAll, CtrlAll
<1>3. /\ more \in Seq(CommandTypes) /\ NumberOf(more, SimAll) = 0
      /\ NumberOf(more, CtrlAll) = 1 /\ NumberOf(more, CtrlCommands) = 1
      /\ \A k \in DOMAIN more : more[k].cmd = "CTRL_INIT"
  BY <1>2, Added
<1>4. commands' = commands \o more
  <2>1. commands' = Append(commands, Cmd("CTRL_INIT"))
    BY DEF CtrlTimer
  <2> QED
    BY <1>1, <2>1
<1> HIDE DEF more
<1>5. /\ commands' \in Seq(CommandTypes)
      /\ NumberOf(commands', SimAll) = NumberOf(commands, SimAll)
      /\ NumberOf(commands', CtrlAll) = NumberOf(commands, CtrlAll) + 1
      /\ NumberOf(commands', CtrlCommands) = NumberOf(commands, CtrlCommands) + 1
      /\ NumberOf(commands, CtrlAll) \in Nat /\ NumberOf(commands, CtrlCommands) \in Nat
  <2>1. \A S : /\ NumberOf(commands', S) = NumberOf(commands, S) + NumberOf(more, S)
               /\ NumberOf(commands, S) \in Nat /\ NumberOf(more, S) \in Nat
    BY <1>3, <1>4, Extended
  <2>2. NumberOf(commands, SimAll) \in Nat
    BY <2>1
  <2> QED
    <3>1. NumberOf(commands', SimAll) = NumberOf(commands, SimAll)
      BY <1>3, <2>1, <2>2
    <3>2. commands' \in Seq(CommandTypes)
      BY <1>3, <1>4, Extended
    <3> QED
      BY <1>3, <2>1, <3>1, <3>2
<1>6. SimWork' = SimWork /\ CtrlWork' = CtrlWork /\ CtrlChain' = CtrlChain
  <2> DEFINE l == Len(pending["ctrlserver"])
             n == NumberOf(commands, CtrlAll)
             m == NumberOf(commands, CtrlCommands)
  <2>1. UNCHANGED pending /\ Later = 1 /\ Later' = 0
    BY <1>1 DEF connVars, Later
  <2>2. SimWork' = SimWork
    BY <1>5, <2>1 DEF SimWork
  <2>3. /\ CtrlWork' = (n + 1) + l + 0 /\ CtrlWork = n + l + 1
        /\ CtrlChain' = (m + 1) + l + 0 /\ CtrlChain = m + l + 1
    BY <1>5, <2>1, CtrlChainIs DEF CtrlWork
  <2>4. l \in Nat /\ n \in Nat /\ m \in Nat
    BY <1>5, Kinds DEF SimulatorIInv, OperationsRight
  <2> HIDE DEF l, n, m
  <2> QED
    BY <2>2, <2>3, <2>4
<1>7. SimulatorTypeOK'
  BY <1>1, <1>5, <1>6 DEF SimulatorTypeOK, toldVars, connVars
<1>8. OperationsRight' /\ InitFirst'
  <2>1. \A k \in DOMAIN more : more[k].cmd # "INIT"
    BY <1>3
  <2> QED
    BY <1>1, <1>3, <1>4, <2>1, ExtendedInitFirst DEF SimulatorIInv, OperationsRight, connVars
<1>9. ConversationsCounted'
  BY <1>1, <1>6 DEF SimulatorIInv, ConversationsCounted, Working, toldVars, Calm
<1>10. \A i \in DOMAIN commands' : \/ i \in DOMAIN commands /\ commands'[i] = commands[i]
                                   \/ commands'[i].cmd = "CTRL_INIT"
  BY <1>3, <1>4, Extended
<1>11. DisconnectsBounded' /\ Undisturbed'
  BY <1>1, <1>10 DEF SimulatorIInv, DisconnectsBounded, Undisturbed, toldVars, connVars, Calm
<1>12. ConversationsApart'
  <2>1. \A k \in DOMAIN more : ~Asking(more[k])
    BY <1>3 DEF Asking
  <2>2. UNCHANGED <<forks, session, up, pending, misdirected>>
    BY <1>1 DEF toldVars, connVars
  <2>3. TelegramsRight => TelegramsRight'
    BY <1>3, <1>4, <2>1, <2>2, ExtendedTelegrams
  <2> QED
    BY <2>2, <2>3 DEF SimulatorIInv, ConversationsApart, AnswersRight
<1> QED
  BY <1>5, <1>7, <1>8, <1>9, <1>11, <1>12 DEF SimulatorIInv

LEMMA ConcatTwice ==
    ASSUME NEW q \in Seq(CommandTypes), NEW r \in Seq(CommandTypes), NEW t \in Seq(CommandTypes)
    PROVE  (q \o r) \o t = q \o (r \o t)
<1> DEFINE a == (q \o r) \o t
           b == q \o (r \o t)
<1>1. /\ a \in Seq(CommandTypes) /\ b \in Seq(CommandTypes) /\ Len(a) = Len(b)
      /\ Len(a) = Len(q) + Len(r) + Len(t) /\ Len(q) \in Nat /\ Len(r) \in Nat /\ Len(t) \in Nat
  OBVIOUS
<1>2. ASSUME NEW i \in 1 .. Len(a) PROVE a[i] = b[i]
  <2>1. CASE i <= Len(q)
    BY <1>1, <2>1
  <2>2. CASE i > Len(q) /\ i <= Len(q) + Len(r)
    BY <1>1, <2>2
  <2>3. CASE i > Len(q) + Len(r)
    BY <1>1, <2>3
  <2> QED
    BY <1>1, <2>1, <2>2, <2>3
<1> HIDE DEF a, b
<1>3. \A x \in Seq(CommandTypes) : x \in [1 .. Len(x) -> CommandTypes]
  OBVIOUS
<1>4. a = b
  <2>1. PICK n : n = Len(a)
    OBVIOUS
  <2>2. a \in [1 .. n -> CommandTypes] /\ b \in [1 .. n -> CommandTypes]
    BY <1>1, <1>3, <2>1
  <2>3. \A i \in 1 .. n : a[i] = b[i]
    BY <1>2, <2>1
  <2>4. a = [i \in 1 .. n |-> a[i]]
    BY <2>2
  <2>5. b = [i \in 1 .. n |-> b[i]]
    BY <2>2
  <2> QED
    BY <2>3, <2>4, <2>5
<1> QED
  BY <1>4 DEF a, b

(* What the workers answer when they are told to abort.                    *)
LEMMA AbortedIs ==
    ASSUME SimulatorIInv, NEW c \in Connections
    PROVE  /\ Aborted(c) \in Seq(CommandTypes) /\ Remaining(c) \in Seq(OpsOf(c))
           /\ Len(Aborted(c)) + Len(Remaining(c)) = Len(pending[c])
           /\ Len(Aborted(c)) \in Nat /\ Len(Remaining(c)) \in Nat
           /\ \A k \in DOMAIN Remaining(c) : Remaining(c)[k].op = "Accept"
           /\ pending[c] = <<>> => Remaining(c) = <<>>
           /\ \A k \in DOMAIN Aborted(c) :
                 /\ ~Aborted(c)[k].ok /\ Aborted(c)[k].line = "other"
                 /\ \E j \in DOMAIN pending[c] : Aborted(c)[k].cmd = pending[c][j].cmd
<1> DEFINE p == pending[c]
           r == Remaining(c)
           gone == SubSeq(p, Len(r) + 1, Len(p))
<1>1. p \in Seq(OpsOf(c)) /\ Len(p) \in Nat
  BY DEF SimulatorIInv, OperationsRight
<1>2. /\ r = <<>> \/ (p # <<>> /\ r = <<p[1]>> /\ p[1].op = "Accept")
      /\ p = <<>> => r = <<>>
  BY DEF Remaining
<1>3. /\ r \in Seq(OpsOf(c)) /\ Len(r) \in Nat /\ Len(r) <= Len(p)
      /\ \A k \in DOMAIN r : r[k].op = "Accept"
  <2>1. CASE r = <<>>
    BY <1>1, <2>1
  <2>2. CASE p # <<>> /\ r = <<p[1]>> /\ p[1].op = "Accept"
    <3>1. p[1] \in OpsOf(c) /\ Len(p) >= 1
      BY <1>1, <2>2
    <3> HIDE DEF p, r
    <3>2. Len(r) = 1 /\ r \in Seq(OpsOf(c)) /\ DOMAIN r = {1} /\ r[1] = p[1]
      BY <2>2, <3>1
    <3> QED
      BY <1>1, <2>2, <3>1, <3>2
  <2> QED
    BY <1>2, <2>1, <2>2
<1>4. Aborted(c) = [i \in DOMAIN gone |-> Failed(gone[i].cmd)]
  BY DEF Aborted
<1> HIDE DEF p, r
<1>5. /\ gone \in Seq(OpsOf(c)) /\ Len(gone) = Len(p) - Len(r)
      /\ \A i \in DOMAIN gone : \E j \in DOMAIN p : gone[i] = p[j]
  BY <1>1, <1>3
<1> HIDE DEF gone
<1>6. \A i \in DOMAIN gone : gone[i].cmd \in SimCommands \cup CtrlCommands \cup {"INIT"}
  BY <1>5, SimOpTypes, CtrlOpTypes DEF OpsOf
<1>7. \A i \in DOMAIN gone : /\ Failed(gone[i].cmd) \in CommandTypes /\ ~Failed(gone[i].cmd).ok
                             /\ Failed(gone[i].cmd).cmd = gone[i].cmd
                             /\ Failed(gone[i].cmd).line = "other"
  BY <1>6, CmdTypes
<1>8. DOMAIN gone = 1 .. Len(gone) /\ Len(gone) \in Nat
  BY <1>5
<1>9. /\ Aborted(c) \in Seq(CommandTypes) /\ Len(Aborted(c)) = Len(gone)
      /\ DOMAIN Aborted(c) = DOMAIN gone
      /\ \A k \in DOMAIN gone : Aborted(c)[k] = Failed(gone[k].cmd)
  <2>1. DOMAIN Aborted(c) = 1 .. Len(gone) /\ \A k \in 1 .. Len(gone) : Aborted(c)[k] \in CommandTypes
    BY <1>4, <1>7, <1>8
  <2>2. Aborted(c) = [k \in 1 .. Len(gone) |-> Aborted(c)[k]]
    BY <1>4, <1>8
  <2>3. Aborted(c) \in Seq(CommandTypes) /\ Len(Aborted(c)) = Len(gone)
    BY <1>8, <2>1, <2>2
  <2> QED
    BY <1>4, <2>3
<1>10. Len(Aborted(c)) + Len(r) = Len(p)
  BY <1>1, <1>3, <1>5, <1>9
<1>11. \A k \in DOMAIN Aborted(c) :
          /\ ~Aborted(c)[k].ok /\ Aborted(c)[k].line = "other"
          /\ \E j \in DOMAIN p : Aborted(c)[k].cmd = p[j].cmd
  BY <1>5, <1>7, <1>9
<1> QED
  BY <1>2, <1>3, <1>8, <1>9, <1>10, <1>11 DEF p, r

LEMMA BrcShutdownStep ==
    ASSUME SimulatorIInv, BrcShutdown
    PROVE  SimulatorIInv'
<1> DEFINE sims == Aborted("connection")
           ctrls == Aborted("ctrlserver")
           more == sims \o ctrls
           p == pending["connection"]
           q == pending["ctrlserver"]
<1>1. /\ commands \in Seq(CommandTypes) /\ SimulatorTypeOK /\ ctrlserver \in BOOLEAN
      /\ commands' = (commands \o sims) \o ctrls
      /\ pending' = [c \in Connections |-> Remaining(c)]
      /\ crashed' = ~ctrlserver /\ shutdown_requested' = ctrlserver
      /\ UNCHANGED <<ctrlserver, toldVars, isconnected, later, up, session, misdirected>>
  BY DEF SimulatorIInv, SimulatorTypeOK, BrcShutdown
<1>2. "connection" \in Connections /\ "ctrlserver" \in Connections
  BY Kinds
<1>3. /\ sims \in Seq(CommandTypes) /\ ctrls \in Seq(CommandTypes)
      /\ Len(sims) + Len(Remaining("connection")) = Len(p)
      /\ Len(ctrls) + Len(Remaining("ctrlserver")) = Len(q)
      /\ Len(sims) \in Nat /\ Len(ctrls) \in Nat
      /\ Len(Remaining("connection")) \in Nat /\ Len(Remaining("ctrlserver")) \in Nat
  BY <1>2, AbortedIs
<1>4. \A c \in Connections : pending'[c] = Remaining(c) /\ pending'[c] \in Seq(OpsOf(c))
  BY <1>1, AbortedIs
<1>5. /\ \A k \in DOMAIN sims : /\ sims[k].cmd \in SimCommands /\ sims[k].line = "other"
                                /\ ~sims[k].ok
                                /\ Calm => sims[k].cmd # "SIM_DISCONNECTED"
      /\ \A k \in DOMAIN ctrls : /\ ctrls[k].cmd \in CtrlCommands /\ ctrls[k].line = "other"
                                 /\ ~ctrls[k].ok
  <2>1. p \in Seq(SimOps) /\ q \in Seq(CtrlOps)
    BY <1>2 DEF SimulatorIInv, OperationsRight, OpsOf
  <2>2. /\ \A k \in DOMAIN sims : /\ ~sims[k].ok /\ sims[k].line = "other"
                                  /\ \E j \in DOMAIN p : sims[k].cmd = p[j].cmd
        /\ \A k \in DOMAIN ctrls : /\ ~ctrls[k].ok /\ ctrls[k].line = "other"
                                   /\ \E j \in DOMAIN q : ctrls[k].cmd = q[j].cmd
    BY <1>2, AbortedIs
  <2>3. \A j \in DOMAIN p : p[j].cmd \in SimCommands
    BY <2>1, SimOpTypes
  <2>4. \A j \in DOMAIN q : q[j].cmd \in CtrlCommands
    BY <2>1, CtrlOpTypes
  <2>5. ASSUME Calm, NEW j \in DOMAIN p PROVE p[j].cmd # "SIM_DISCONNECTED"
    <3>1. p[j] \in SimOps
      BY <2>1
    <3>2. p[j].cmd = "SIM_DISCONNECTED" => p[j].op = "Disconnect"
      BY <3>1, SimOpTypes
    <3>3. p[j].op = "Disconnect" => p[j].cmd = "SIM_WAITDISCONNECT"
      BY <2>5 DEF SimulatorIInv, Undisturbed
    <3> QED
      BY <3>2, <3>3
  <2> HIDE DEF sims, ctrls, p, q
  <2> QED
    BY <2>2, <2>3, <2>4, <2>5
<1> HIDE DEF sims, ctrls
<1>6. /\ more \in Seq(CommandTypes) /\ commands' = commands \o more
      /\ \A k \in DOMAIN more : /\ more[k].cmd \in SimCommands \cup CtrlCommands
                                /\ more[k].line = "other" /\ ~more[k].ok
                                /\ Calm => more[k].cmd # "SIM_DISCONNECTED"
  <2>1. more \in Seq(CommandTypes) /\ commands' = commands \o more
    <3>1. (commands \o sims) \o ctrls = commands \o (sims \o ctrls)
      BY <1>1, <1>3, ConcatTwice
    <3> QED
      BY <1>1, <1>3, <3>1
  <2>2. "SIM_DISCONNECTED" \notin CtrlCommands
    BY DEF CtrlCommands
  <2>3. \A k \in DOMAIN more : \/ k \in DOMAIN sims /\ more[k] = sims[k]
                               \/ \E l \in DOMAIN ctrls : more[k] = ctrls[l]
    BY <1>3, ConcatPlaces
  <2> HIDE DEF more
  <2> QED
    BY <1>5, <2>1, <2>2, <2>3
<1>7. /\ NumberOf(more, SimAll) = Len(sims) /\ NumberOf(more, CtrlAll) = Len(ctrls)
      /\ NumberOf(more, CtrlCommands) = Len(ctrls)
  <2>1. NumberOf(sims, SimAll) = Len(sims)
    <3>1. \A k \in DOMAIN sims : sims[k].cmd \in SimAll
      BY <1>5, Kinds
    <3> QED
      BY <1>3, <3>1, NumberAll
  <2>2. NumberOf(ctrls, CtrlAll) = Len(ctrls) /\ NumberOf(ctrls, CtrlCommands) = Len(ctrls)
    <3>1. \A k \in DOMAIN ctrls : ctrls[k].cmd \in CtrlAll /\ ctrls[k].cmd \in CtrlCommands
      BY <1>5, Kinds
    <3> QED
      BY <1>3, <3>1, NumberAll
  <2>3. NumberOf(sims, CtrlAll) = 0 /\ NumberOf(sims, CtrlCommands) = 0
    <3>1. \A k \in DOMAIN sims : sims[k].cmd \notin CtrlAll /\ sims[k].cmd \notin CtrlCommands
      BY <1>5, Kinds
    <3> QED
      BY <1>3, <3>1, NumberTypes
  <2>4. NumberOf(ctrls, SimAll) = 0
    <3>1. \A k \in DOMAIN ctrls : ctrls[k].cmd \notin SimAll
      BY <1>5, Kinds
    <3> QED
      BY <1>3, <3>1, NumberTypes
  <2>5. \A S : NumberOf(more, S) = NumberOf(sims, S) + NumberOf(ctrls, S)
    BY <1>3, NumberConcat
  <2> QED
    BY <1>3, <2>1, <2>2, <2>3, <2>4, <2>5
<1> HIDE DEF more
<1>8. /\ commands' \in Seq(CommandTypes)
      /\ \A S : /\ NumberOf(commands', S) = NumberOf(commands, S) + NumberOf(more, S)
                /\ NumberOf(commands, S) \in Nat
      /\ \A i \in DOMAIN commands' : \/ i \in DOMAIN commands /\ commands'[i] = commands[i]
                                     \/ \E k \in DOMAIN more : commands'[i] = more[k]
  BY <1>6, Extended
<1>9. SimWork' = SimWork /\ CtrlWork' = CtrlWork /\ CtrlChain' = CtrlChain
  <2> DEFINE n == NumberOf(commands, SimAll)
             m == NumberOf(commands, CtrlAll)
             k == NumberOf(commands, CtrlCommands)
             a == Len(sims)
             b == Len(ctrls)
             x == Len(Remaining("connection"))
             y == Len(Remaining("ctrlserver"))
  <2>1. Later' = Later /\ Later \in Nat
    BY <1>1 DEF Later
  <2>2. /\ SimWork' = (n + a) + x /\ SimWork = n + Len(p)
        /\ CtrlWork' = (m + b) + y + Later /\ CtrlWork = m + Len(q) + Later
        /\ CtrlChain' = (k + b) + y + Later /\ CtrlChain = k + Len(q) + Later
    BY <1>2, <1>4, <1>7, <1>8, <2>1, CtrlChainIs DEF SimWork, CtrlWork
  <2>3. /\ n \in Nat /\ m \in Nat /\ k \in Nat
        /\ a \in Nat /\ b \in Nat /\ x \in Nat /\ y \in Nat
        /\ a + x = Len(p) /\ b + y = Len(q)
    BY <1>3, <1>8
  <2> HIDE DEF n, m, k, a, b, x, y, p, q
  <2> QED
    BY <2>1, <2>2, <2>3
<1>10. OperationsRight'
  BY <1>4 DEF OperationsRight
<1>11. SimulatorTypeOK'
  <2>1. \A c \in Connections : OpsOf(c) \subseteq OperationTypes
    BY SimOpTypes, CtrlOpTypes DEF OpsOf
  <2>2. pending' \in [Connections -> Seq(OperationTypes)]
    BY <1>1, <1>4, <2>1
  <2> QED
    BY <1>1, <1>8, <1>9, <2>2 DEF SimulatorTypeOK, toldVars
<1>12. InitFirst'
  <2>1. \A k \in DOMAIN more : more[k].cmd # "INIT"
    BY <1>6, Kinds
  <2> QED
    BY <1>6, <2>1, ExtendedInitFirst
<1>13. ConversationsCounted'
  <2>1. ~Working'
    BY <1>1 DEF Working
  <2> QED
    BY <1>1, <1>9, <2>1 DEF SimulatorIInv, ConversationsCounted, toldVars
<1>14. DisconnectsBounded'
  BY <1>1, <1>6, <1>8 DEF SimulatorIInv, DisconnectsBounded, toldVars
<1>15. \A i \in DOMAIN pending'["connection"] : pending'["connection"][i].op = "Accept"
  BY <1>2, <1>4, AbortedIs
<1>16. Undisturbed'
  BY <1>1, <1>6, <1>8, <1>15, ZenonT(60) DEF SimulatorIInv, Undisturbed, toldVars, Calm
<1>17. ConversationsApart'
  <2>1. \A k \in DOMAIN more : ~Asking(more[k])
    BY <1>6 DEF Asking
  <2>2. UNCHANGED <<forks, session, up, misdirected>>
    BY <1>1 DEF toldVars
  <2>3. pending["connection"] = <<>> => pending'["connection"] = <<>>
    BY <1>2, <1>4, AbortedIs
  <2>4. TelegramsRight => TelegramsRight'
    BY <1>6, <2>1, <2>2, <2>3, ExtendedTelegrams
  <2>5. AnswersRight'
    BY <1>15 DEF AnswersRight
  <2> QED
    BY <2>2, <2>4, <2>5 DEF SimulatorIInv, ConversationsApart
<1> QED
  BY <1>8, <1>10, <1>11, <1>12, <1>13, <1>14, <1>16, <1>17 DEF SimulatorIInv

-----------------------------------------------------------------------------
(* An operation ends.                                                      *)

LEMMA SendResults ==
    ASSUME NEW c, NEW o, o.op = "Send"
    PROVE  Results(c, o) = IF up[c] THEN {Cmd(o.cmd), Failed(o.cmd)} ELSE {Failed(o.cmd)}
BY DEF Results

LEMMA ReceiveResults ==
    ASSUME NEW o, o.op = "Receive", up["connection"], NEW r \in Results("connection", o)
    PROVE  \/ r = Failed(o.cmd) \/ r = CutOff(o.cmd)
           \/ \E t \in [bad : BOOLEAN, asks : Requests, from : {session}] :
                 r = Reply(o.cmd, TRUE, t, "other")
<1>1. Results("connection", o) =
          {Failed(o.cmd)} \cup { q \in {CutOff(o.cmd)} : forks = 0 }
              \cup { Reply(o.cmd, TRUE, t, "other") :
                         t \in [bad : BOOLEAN, asks : Requests, from : {session}] }
  BY DEF Results
<1> QED
  BY <1>1

LEMMA ResultsAre ==
    ASSUME SimulatorIInv, NEW c \in Connections, pending[c] # <<>>,
           NEW o, o = pending[c][1], NEW r \in Results(c, o)
    PROVE  /\ o \in OpsOf(c) /\ r \in CommandTypes /\ r.cmd = o.cmd
           /\ r.line = "disconnect" => disconnects < MaxDisconnects
           /\ Asking(r) => o.op = "Receive" /\ up[c] /\ r.data.from = session
           /\ r.ok => up[c] \/ o.op \in {"Accept", "Disconnect"}
<1>1. o \in OpsOf(c)
  BY DEF SimulatorIInv, OperationsRight
<1>2. o.cmd \in SimCommands \cup CtrlCommands
  BY <1>1, SimOpTypes, CtrlOpTypes DEF OpsOf
<1>3. /\ o.op \in {"Accept", "Receive", "Send", "Disconnect"}
      /\ o.cmd = "SIM_EVALUATE_RECEIVE" => o.op = "Receive" /\ c = "connection"
  <2>1. CASE c = "connection"
    BY <1>1, <2>1, SimOpTypes DEF OpsOf, OperationTypes
  <2>2. CASE c # "connection"
    <3>1. o \in CtrlOps
      BY <1>1, <2>2 DEF OpsOf
    <3>2. "SIM_EVALUATE_RECEIVE" \notin CtrlCommands
      BY DEF CtrlCommands
    <3> QED
      BY <3>1, <3>2, CtrlOpTypes DEF OperationTypes
  <2> QED
    BY <2>1, <2>2
<1>4. session \in 0 .. MaxSessions /\ up[c] \in BOOLEAN
  BY DEF SimulatorIInv, SimulatorTypeOK
<1>5. PICK ok \in {Cmd(o.cmd)}, failed \in {Failed(o.cmd)} :
          /\ ok \in CommandTypes /\ ok.cmd = o.cmd /\ ok.line = "other" /\ ok.ok
          /\ failed \in CommandTypes /\ failed.cmd = o.cmd /\ failed.line = "other" /\ ~failed.ok
  BY <1>2, CmdTypes
<1>6. CASE o.op \in {"Accept", "Disconnect", "Send"}
  <2>1. r \in {ok, failed} /\ (o.op = "Send" /\ r = ok => up[c])
    <3>1. CASE o.op = "Accept"
      BY <1>5, <3>1 DEF Results
    <3>2. CASE o.op = "Disconnect"
      BY <1>5, <3>2 DEF Results
    <3>3. CASE o.op = "Send"
      BY <1>4, <1>5, <3>3, SendResults
    <3> QED
      BY <1>6, <3>1, <3>2, <3>3
  <2>2. ~Asking(r)
    BY <1>3, <1>5, <1>6, <2>1 DEF Asking
  <2> QED
    BY <1>1, <1>5, <1>6, <2>1, <2>2
<1>7. CASE o.op = "Receive" /\ ~up[c]
  <2>1. r = failed
    BY <1>5, <1>7 DEF Results
  <2> QED
    BY <1>1, <1>5, <2>1 DEF Asking
<1>8. CASE o.op = "Receive" /\ up[c] /\ c = "connection"
  <2>1. \/ r = failed \/ r = CutOff(o.cmd)
        \/ \E t \in [bad : BOOLEAN, asks : Requests, from : {session}] : r = Reply(o.cmd, TRUE, t, "other")
    <3>1. r \in Results("connection", o) /\ up["connection"] /\ o.op = "Receive"
      BY <1>8
    <3> QED
      BY <1>5, <3>1, ReceiveResults
  <2>2. ASSUME NEW t \in [bad : BOOLEAN, asks : Requests, from : {session}],
               r = Reply(o.cmd, TRUE, t, "other")
        PROVE  /\ r \in CommandTypes /\ r.cmd = o.cmd /\ r.line = "other"
               /\ r.data.from = session
    <3>1. /\ t \in [bad : BOOLEAN, asks : Requests \cup {{}}, from : 0 .. MaxSessions]
          /\ t.from = session
      BY <1>4
    <3>2. "other" \in Lines /\ TRUE \in BOOLEAN /\ o.cmd \in SimCommands \cup CtrlCommands \cup {"INIT"}
      BY <1>2 DEF Lines
    <3>3. /\ Reply(o.cmd, TRUE, t, "other") \in CommandTypes
          /\ Reply(o.cmd, TRUE, t, "other").cmd = o.cmd /\ Reply(o.cmd, TRUE, t, "other").data = t
          /\ Reply(o.cmd, TRUE, t, "other").line = "other"
      BY <3>1, <3>2 DEF Reply, CommandTypes
    <3> QED
      BY <2>2, <3>1, <3>3
  <2>3. CASE r = failed
    BY <1>1, <1>5, <2>3 DEF Asking
  <2>4. CASE r = CutOff(o.cmd)
    <3>1. /\ [bad |-> TRUE, asks |-> {}, from |-> session]
                  \in [bad : BOOLEAN, asks : Requests \cup {{}}, from : 0 .. MaxSessions]
          /\ "other" \in Lines /\ o.cmd \in SimCommands \cup CtrlCommands \cup {"INIT"}
      BY <1>2, <1>4 DEF Lines
    <3>2. r \in CommandTypes /\ r.cmd = o.cmd /\ r.line = "other" /\ ~r.ok
      BY <2>4, <3>1 DEF CutOff, Reply, CommandTypes
    <3> QED
      BY <1>1, <3>2 DEF Asking
  <2> QED
    BY <1>1, <1>8, <2>1, <2>2, <2>3, <2>4
<1>9. CASE o.op = "Receive" /\ up[c] /\ c # "connection"
  <2>1. \/ r = failed
        \/ \E l \in { x \in Lines : x = "disconnect" => disconnects < MaxDisconnects } :
              r = Reply(o.cmd, TRUE, NoData, l)
    BY <1>5, <1>9 DEF Results
  <2>2. ASSUME NEW l \in Lines, l = "disconnect" => disconnects < MaxDisconnects,
               r = Reply(o.cmd, TRUE, NoData, l)
        PROVE  /\ r \in CommandTypes /\ r.cmd = o.cmd
               /\ r.line = "disconnect" => disconnects < MaxDisconnects
    <3>1. NoData \in [bad : BOOLEAN, asks : Requests \cup {{}}, from : 0 .. MaxSessions]
      BY Bounds DEF NoData
    <3>2. TRUE \in BOOLEAN /\ o.cmd \in SimCommands \cup CtrlCommands \cup {"INIT"}
      BY <1>2
    <3>3. /\ Reply(o.cmd, TRUE, NoData, l) \in CommandTypes
          /\ Reply(o.cmd, TRUE, NoData, l).cmd = o.cmd /\ Reply(o.cmd, TRUE, NoData, l).line = l
      BY <3>1, <3>2 DEF Reply, CommandTypes
    <3> QED
      BY <2>2, <3>3
  <2>3. CASE r = failed
    BY <1>1, <1>5, <2>3 DEF Asking
  <2>4. ~(r.cmd = "SIM_EVALUATE_RECEIVE") \/ r.cmd # o.cmd
    BY <1>3, <1>9
  <2> QED
    BY <1>1, <1>9, <2>1, <2>2, <2>3, <2>4 DEF Asking
<1> QED
  BY <1>3, <1>4, <1>6, <1>7, <1>8, <1>9

LEMMA Tailed ==
    ASSUME NEW E, NEW p \in Seq(E), p # <<>>
    PROVE  /\ Tail(p) \in Seq(E) /\ Len(p) = Len(Tail(p)) + 1 /\ Len(Tail(p)) \in Nat
           /\ 1 \in DOMAIN p
           /\ \A i \in DOMAIN Tail(p) : i \in Nat \ {0} /\ i + 1 \in DOMAIN p /\ Tail(p)[i] = p[i + 1]
OBVIOUS

(* What the completion of an operation leaves as it is: the number of      *)
(* things under way.                                                       *)
LEMMA Completed ==
    ASSUME SimulatorIInv, NEW c \in Connections, pending[c] # <<>>,
           NEW r \in Results(c, pending[c][1]), commands' = Append(commands, r),
           pending' = [pending EXCEPT ![c] = Tail(@)],
           UNCHANGED <<ctrlserver, toldVars, isconnected, shutdown_requested, later, crashed>>
    PROVE  /\ commands' \in Seq(CommandTypes) /\ pending' \in [Connections -> Seq(OperationTypes)]
           /\ pending'[c] = Tail(pending[c])
           /\ \A d \in Connections \ {c} : pending'[d] = pending[d]
           /\ <<r>> \in Seq(CommandTypes) /\ commands' = commands \o <<r>>
           /\ OperationsRight' /\ InitFirst' /\ ConversationsCounted' /\ DisconnectsBounded'
           /\ CtrlChain' = CtrlChain
<1> DEFINE o == pending[c][1]
<1>1. /\ o \in OpsOf(c) /\ r \in CommandTypes /\ r.cmd = o.cmd
      /\ r.line = "disconnect" => disconnects < MaxDisconnects
  BY ResultsAre
<1>2. commands \in Seq(CommandTypes) /\ pending \in [Connections -> Seq(OperationTypes)]
  BY DEF SimulatorIInv, SimulatorTypeOK
<1>3. pending'[c] = Tail(pending[c]) /\ \A d \in Connections \ {c} : pending'[d] = pending[d]
  BY <1>2
<1>4. /\ <<r>> \in Seq(CommandTypes) /\ commands' = commands \o <<r>>
      /\ \A k \in DOMAIN <<r>> : <<r>>[k] = r
  BY <1>1, <1>2
<1>5. /\ r.cmd \in SimCommands \/ r.cmd \in CtrlCommands
      /\ c = "connection" => r.cmd \in SimCommands
      /\ c # "connection" => r.cmd \in CtrlCommands
  BY <1>1, SimOpTypes, CtrlOpTypes DEF OpsOf
<1> HIDE DEF o
<1>6. pending[c] \in Seq(OpsOf(c))
  BY DEF SimulatorIInv, OperationsRight
<1>7. OperationsRight'
  <2>1. Tail(pending[c]) \in Seq(OpsOf(c))
    BY <1>6, Tailed
  <2> QED
    BY <1>3, <2>1 DEF SimulatorIInv, OperationsRight
<1>8. pending' \in [Connections -> Seq(OperationTypes)]
  <2>1. Tail(pending[c]) \in Seq(OperationTypes)
    BY <1>2, Tailed
  <2> QED
    BY <1>2, <2>1
<1>9. /\ commands' \in Seq(CommandTypes)
      /\ \A S : /\ NumberOf(commands', S) = NumberOf(commands, S) + IF r.cmd \in S THEN 1 ELSE 0
                /\ NumberOf(commands, S) \in Nat
      /\ \A i \in DOMAIN commands' : \/ i \in DOMAIN commands /\ commands'[i] = commands[i]
                                     \/ commands'[i] = r
  <2>1. commands' \in Seq(CommandTypes)
    BY <1>4, Extended
  <2>2. \A S : /\ NumberOf(commands', S) = NumberOf(commands, S) + IF r.cmd \in S THEN 1 ELSE 0
               /\ NumberOf(commands, S) \in Nat
    BY <1>1, <1>2, NumberAppend, NumberTypes
  <2>3. \A i \in DOMAIN commands' : \/ i \in DOMAIN commands /\ commands'[i] = commands[i]
                                    \/ commands'[i] = r
    BY <1>4, Extended
  <2> QED
    BY <2>1, <2>2, <2>3
<1>10. InitFirst'
  <2>1. \A k \in DOMAIN <<r>> : <<r>>[k].cmd # "INIT"
    BY <1>4, <1>5, Kinds
  <2> QED
    BY <1>4, <2>1, ExtendedInitFirst
<1>11. SimWork' = SimWork /\ CtrlWork' = CtrlWork /\ CtrlChain' = CtrlChain
  <2> DEFINE n == NumberOf(commands, SimAll)
             m == NumberOf(commands, CtrlAll)
             k == NumberOf(commands, CtrlCommands)
             l == Len(Tail(pending[c]))
             p == Len(pending["connection"])
             q == Len(pending["ctrlserver"])
  <2>1. Later' = Later /\ Later \in Nat
    BY DEF Later
  <2>2. n \in Nat /\ m \in Nat /\ k \in Nat /\ l \in Nat /\ Len(pending[c]) = l + 1
    BY <1>6, <1>9, Tailed
  <2>3. CASE c = "connection"
    <3>1. r.cmd \in SimAll /\ r.cmd \notin CtrlAll /\ r.cmd \notin CtrlCommands
      BY <1>5, <2>3, Kinds
    <3>2. /\ SimWork' = (n + 1) + l /\ SimWork = n + p /\ p = l + 1
          /\ CtrlWork' = (m + 0) + q + Later /\ CtrlWork = m + q + Later
          /\ CtrlChain' = (k + 0) + q + Later /\ CtrlChain = k + q + Later
      BY <1>3, <1>9, <2>1, <2>2, <2>3, <3>1, Kinds, CtrlChainIs DEF SimWork, CtrlWork
    <3> HIDE DEF n, m, k, l, p, q
    <3>3. SimWork' = SimWork
      BY <2>2, <3>2
    <3>4. m + 0 = m /\ k + 0 = k
      BY <2>2
    <3> QED
      BY <3>2, <3>3, <3>4
  <2>4. CASE c # "connection"
    <3>1. /\ c = "ctrlserver"
          /\ r.cmd \notin SimAll /\ r.cmd \in CtrlAll /\ r.cmd \in CtrlCommands
      BY <1>5, <2>4, Kinds
    <3>2. /\ SimWork' = (n + 0) + p /\ SimWork = n + p
          /\ CtrlWork' = (m + 1) + l + Later /\ CtrlWork = m + q + Later /\ q = l + 1
          /\ CtrlChain' = (k + 1) + l + Later /\ CtrlChain = k + q + Later
      BY <1>3, <1>9, <2>1, <2>2, <2>4, <3>1, Kinds, CtrlChainIs DEF SimWork, CtrlWork
    <3> HIDE DEF n, m, k, l, p, q
    <3>3. CtrlWork' = CtrlWork /\ CtrlChain' = CtrlChain
      BY <2>1, <2>2, <3>2
    <3>4. n + 0 = n
      BY <2>2
    <3> QED
      BY <3>2, <3>3, <3>4
  <2> QED
    BY <2>3, <2>4
<1>12. ConversationsCounted'
  BY <1>11 DEF SimulatorIInv, ConversationsCounted, Working, toldVars, Calm
<1>13. DisconnectsBounded'
  BY <1>1, <1>9 DEF SimulatorIInv, DisconnectsBounded, toldVars
<1> QED
  BY <1>3, <1>4, <1>7, <1>8, <1>9, <1>10, <1>11, <1>12, <1>13

LEMMA CtrlCompletesStep ==
    ASSUME SimulatorIInv, Completes("ctrlserver")
    PROVE  SimulatorIInv'
<1> DEFINE o == pending["ctrlserver"][1]
<1>1. PICK r \in Results("ctrlserver", o) :
          /\ commands' = Append(commands, r)
          /\ up' = [up EXCEPT !["ctrlserver"] =
                        IF o.op = "Accept" THEN @ \/ r.ok ELSE @ /\ o.op # "Disconnect"]
          /\ UNCHANGED session
          /\ misdirected' = (misdirected \/ (o.to \notin {0, session} /\ r.ok))
  BY DEF Completes
<1>2. /\ pending["ctrlserver"] # <<>>
      /\ pending' = [pending EXCEPT !["ctrlserver"] = Tail(@)]
      /\ UNCHANGED <<ctrlserver, toldVars, isconnected, shutdown_requested, later, crashed>>
  BY DEF Completes
<1>3. "connection" \in Connections /\ "ctrlserver" \in Connections /\ SimulatorTypeOK
  BY Kinds DEF SimulatorIInv
<1>4. /\ commands' \in Seq(CommandTypes) /\ pending' \in [Connections -> Seq(OperationTypes)]
      /\ pending'["connection"] = pending["connection"]
      /\ <<r>> \in Seq(CommandTypes) /\ commands' = commands \o <<r>>
      /\ OperationsRight' /\ InitFirst' /\ ConversationsCounted' /\ DisconnectsBounded'
      /\ CtrlChain' = CtrlChain
  <2>1. "connection" \in Connections \ {"ctrlserver"}
    BY <1>3
  <2> QED
    BY <1>1, <1>2, <1>3, <2>1, Completed
<1>5. o \in CtrlOps /\ o.to = 0 /\ r.cmd \in CtrlCommands /\ r \in CommandTypes
  <2>1. o \in OpsOf("ctrlserver") /\ r.cmd = o.cmd /\ r \in CommandTypes
    BY <1>1, <1>2, <1>3, ResultsAre
  <2>2. o \in CtrlOps
    BY <2>1 DEF OpsOf
  <2> QED
    BY <2>1, <2>2, CtrlOpTypes
<1> HIDE DEF o
<1>6. /\ up' \in [Connections -> BOOLEAN] /\ up'["connection"] = up["connection"]
      /\ misdirected' = misdirected
  <2>1. up \in [Connections -> BOOLEAN] /\ misdirected \in BOOLEAN /\ r.ok \in BOOLEAN
    BY <1>3, <1>5 DEF SimulatorTypeOK, CommandTypes
  <2>2. (IF o.op = "Accept" THEN up["ctrlserver"] \/ r.ok
                            ELSE up["ctrlserver"] /\ o.op # "Disconnect") \in BOOLEAN
    OBVIOUS
  <2>3. up' \in [Connections -> BOOLEAN] /\ up'["connection"] = up["connection"]
    BY <1>1, <1>3, <2>1, <2>2
  <2> QED
    BY <1>1, <1>5, <2>1, <2>3
<1>7. SimulatorTypeOK'
  BY <1>1, <1>2, <1>3, <1>4, <1>6 DEF SimulatorTypeOK, toldVars
<1>8. /\ ~Asking(r) /\ r.cmd # "SIM_DISCONNECTED" /\ r.cmd # "SIM_CONNECTED"
  <2>1. {"SIM_EVALUATE_RECEIVE", "SIM_DISCONNECTED", "SIM_CONNECTED"} \cap CtrlCommands = {}
    BY DEF CtrlCommands
  <2> QED
    BY <1>5, <2>1 DEF Asking
<1>9. \A k \in DOMAIN <<r>> : <<r>>[k] = r
  OBVIOUS
<1>10. Undisturbed'
  <2>1. \A i \in DOMAIN commands' : \/ i \in DOMAIN commands /\ commands'[i] = commands[i]
                                    \/ commands'[i] = r
    BY <1>4, <1>9, Extended
  <2> QED
    BY <1>2, <1>4, <1>6, <1>8, <2>1 DEF SimulatorIInv, Undisturbed, toldVars, Calm
<1>11. ConversationsApart'
  <2>1. \A k \in DOMAIN <<r>> : ~Asking(<<r>>[k])
    BY <1>8, <1>9
  <2>2. UNCHANGED <<forks, session, misdirected>>
    BY <1>1, <1>2, <1>6 DEF toldVars
  <2>3. TelegramsRight => TelegramsRight'
    BY <1>4, <1>6, <2>1, <2>2, ExtendedTelegrams
  <2> QED
    BY <1>4, <1>6, <2>2, <2>3 DEF SimulatorIInv, ConversationsApart, AnswersRight
<1> QED
  BY <1>4, <1>7, <1>10, <1>11 DEF SimulatorIInv

(* While an answer or a telegram waits behind an operation, the client is  *)
(* connected; if the operation is the Disconnect of the other conversation *)
(* nothing else is under way.                                              *)
LEMMA Behind ==
    ASSUME SimulatorIInv, pending["connection"] # <<>>, forks <= 1
    PROVE  /\ \A i \in DOMAIN commands : Asking(commands[i]) =>
                 /\ up["connection"] /\ forks = 1 /\ Tail(pending["connection"]) = <<>>
                 /\ \A j \in DOMAIN commands : j # i => commands[j].cmd \notin SimCommands
           /\ \A i \in DOMAIN Tail(pending["connection"]) :
                 Tail(pending["connection"])[i].op = "Send" =>
                     /\ up["connection"] /\ forks = 1 /\ i = 1
                     /\ Tail(pending["connection"])[i].to = session
           /\ forks = 0 => \A i \in DOMAIN commands : commands[i].cmd \notin SimCommands
<1> DEFINE p == pending["connection"]
           n == NumberOf(commands, SimAll)
           l == Len(Tail(p))
<1>1. /\ commands \in Seq(CommandTypes) /\ p \in Seq(SimOps) /\ forks \in 0 .. 2
      /\ up["connection"] \in BOOLEAN
  BY Kinds DEF SimulatorIInv, SimulatorTypeOK, OperationsRight, OpsOf
<1>2. /\ Tail(p) \in Seq(SimOps) /\ Len(p) = l + 1 /\ l \in Nat
      /\ \A i \in DOMAIN Tail(p) : i \in Nat \ {0} /\ i + 1 \in DOMAIN p /\ Tail(p)[i] = p[i + 1]
  BY <1>1, Tailed
<1>3. n \in Nat
  BY <1>1, NumberTypes
<1>4. n + l <= forks
  <2>1. n + (l + 1) <= 1 + forks
    BY <1>2 DEF SimulatorIInv, ConversationsCounted, SimWork
  <2> HIDE DEF n, l
  <2> QED
    BY <1>1, <1>2, <1>3, <2>1
<1>5. TelegramsRight /\ AnswersRight
  BY DEF SimulatorIInv, ConversationsApart
<1>6. ASSUME NEW i \in DOMAIN commands, Asking(commands[i])
      PROVE  /\ up["connection"] /\ forks = 1 /\ Tail(p) = <<>>
             /\ \A j \in DOMAIN commands : j # i => commands[j].cmd \notin SimCommands
  <2>1. commands[i].cmd \in SimAll
    BY <1>6 DEF Asking, SimAll, SimCommands
  <2>2. n # 0
    BY <1>1, <2>1, NumberTypes
  <2>3. up["connection"]
    BY <1>5, <1>6 DEF TelegramsRight, NothingAhead
  <2>4. forks = 1 /\ l = 0 /\ n = 1
    <3> HIDE DEF n, l
    <3> QED
      BY <1>1, <1>2, <1>3, <1>4, <2>2
  <2>5. Tail(p) = <<>>
    BY <1>2, <2>4
  <2>6. ASSUME NEW j \in DOMAIN commands, j # i PROVE commands[j].cmd \notin SimCommands
    <3> SUFFICES ASSUME commands[j].cmd \in SimCommands PROVE FALSE
      OBVIOUS
    <3>1. commands[j].cmd \in SimAll
      BY Kinds
    <3>2. n >= 2
      BY <1>1, <2>1, <2>6, <3>1, TwoPlaces
    <3> QED
      BY <2>4, <3>2
  <2> QED
    BY <2>3, <2>4, <2>5, <2>6
<1>7. ASSUME NEW i \in DOMAIN Tail(p), Tail(p)[i].op = "Send"
      PROVE  up["connection"] /\ forks = 1 /\ i = 1 /\ Tail(p)[i].to = session
  <2>1. i \in Nat \ {0} /\ i + 1 \in DOMAIN p /\ Tail(p)[i] = p[i + 1]
    BY <1>2
  <2>2. p[i + 1].to = session /\ (up["connection"] \/ i + 1 = 1)
    BY <1>5, <1>7, <2>1 DEF AnswersRight
  <2>3. i + 1 # 1 /\ i <= l
    BY <1>2, <2>1
  <2>4. forks = 1 /\ i = 1
    <3> HIDE DEF n, l
    <3> QED
      BY <1>1, <1>2, <1>3, <1>4, <2>1, <2>3
  <2> QED
    BY <2>1, <2>2, <2>3, <2>4
<1>8. ASSUME forks = 0, NEW i \in DOMAIN commands PROVE commands[i].cmd \notin SimCommands
  <2>1. n = 0
    <3> HIDE DEF n, l
    <3> QED
      BY <1>2, <1>3, <1>4, <1>8
  <2>2. commands[i].cmd \notin SimAll
    BY <1>1, <2>1, NumberTypes
  <2> QED
    BY <2>2, Kinds
<1> QED
  BY <1>6, <1>7, <1>8

LEMMA SimCompletesStep ==
    ASSUME SimulatorIInv, Completes("connection")
    PROVE  SimulatorIInv'
<1> DEFINE p == pending["connection"]
           o == p[1]
<1>1. PICK r \in Results("connection", o) :
          /\ commands' = Append(commands, r)
          /\ up' = [up EXCEPT !["connection"] =
                        IF o.op = "Accept" THEN @ \/ r.ok ELSE @ /\ o.op # "Disconnect"]
          /\ IF o.op = "Accept" /\ r.ok /\ ~up["connection"]
             THEN session < MaxSessions /\ session' = session + 1
             ELSE UNCHANGED session
          /\ misdirected' = (misdirected \/ (o.to \notin {0, session} /\ r.ok))
  BY DEF Completes
<1>2. /\ p # <<>> /\ pending' = [pending EXCEPT !["connection"] = Tail(@)]
      /\ UNCHANGED <<ctrlserver, toldVars, isconnected, shutdown_requested, later, crashed>>
  BY DEF Completes
<1>3. /\ "connection" \in Connections /\ "ctrlserver" \in Connections /\ SimulatorTypeOK
      /\ p \in Seq(SimOps)
  BY Kinds DEF SimulatorIInv, OperationsRight, OpsOf
<1>4. /\ commands' \in Seq(CommandTypes) /\ pending' \in [Connections -> Seq(OperationTypes)]
      /\ pending'["connection"] = Tail(p)
      /\ <<r>> \in Seq(CommandTypes) /\ commands' = commands \o <<r>>
      /\ OperationsRight' /\ InitFirst' /\ ConversationsCounted' /\ DisconnectsBounded'
      /\ CtrlChain' = CtrlChain
  BY <1>1, <1>2, <1>3, Completed
<1>5. /\ r.cmd = o.cmd /\ r \in CommandTypes
      /\ Asking(r) => o.op = "Receive" /\ up["connection"] /\ r.data.from = session
  BY <1>1, <1>2, <1>3, ResultsAre
<1>6. /\ o \in SimOps
      /\ o.op = "Accept" <=> o.cmd = "SIM_CONNECTED"
      /\ o.op = "Disconnect" <=> o.cmd \in {"SIM_WAITDISCONNECT", "SIM_DISCONNECTED"}
      /\ o.op # "Send" => o.to = 0
  <2>1. o \in SimOps
    BY <1>2, <1>3
  <2> QED
    BY <2>1, SimOpTypes
<1>7. /\ Tail(p) \in Seq(SimOps) /\ 1 \in DOMAIN p
      /\ \A i \in DOMAIN Tail(p) : i + 1 \in DOMAIN p /\ Tail(p)[i] = p[i + 1]
  BY <1>2, <1>3, Tailed
<1>8. /\ DOMAIN commands \subseteq DOMAIN commands'
      /\ \A i \in DOMAIN commands : commands'[i] = commands[i] /\ i \in Nat
      /\ \A i \in DOMAIN commands' \ DOMAIN commands :
            commands'[i] = r /\ \A j \in DOMAIN commands : j < i
  <2>1. \A k \in DOMAIN <<r>> : <<r>>[k] = r
    OBVIOUS
  <2> QED
    BY <1>4, <2>1, Extended
<1> HIDE DEF p, o
<1>9. /\ up' \in [Connections -> BOOLEAN]
      /\ up'["connection"] = IF o.op = "Accept" THEN up["connection"] \/ r.ok
                                                ELSE up["connection"] /\ o.op # "Disconnect"
      /\ up["connection"] \in BOOLEAN /\ r.ok \in BOOLEAN /\ misdirected' \in BOOLEAN
  <2>1. up \in [Connections -> BOOLEAN] /\ misdirected \in BOOLEAN /\ r.ok \in BOOLEAN
    BY <1>3, <1>5 DEF SimulatorTypeOK, CommandTypes
  <2>2. (IF o.op = "Accept" THEN up["connection"] \/ r.ok
                            ELSE up["connection"] /\ o.op # "Disconnect") \in BOOLEAN
    BY <2>1, <1>3
  <2> QED
    BY <1>1, <1>3, <2>1, <2>2
<1>10. /\ session' \in 0 .. MaxSessions
       /\ up'["connection"] => session' > 0
       /\ up["connection"] => session' = session
  <2>1. session \in 0 .. MaxSessions /\ (up["connection"] => session > 0) /\ MaxSessions \in Nat
    BY <1>3, Bounds DEF SimulatorTypeOK
  <2>2. CASE o.op = "Accept" /\ r.ok /\ ~up["connection"]
    BY <1>1, <2>1, <2>2
  <2>3. CASE ~(o.op = "Accept" /\ r.ok /\ ~up["connection"])
    BY <1>1, <1>9, <2>1, <2>3
  <2> QED
    BY <2>2, <2>3
<1>11. SimulatorTypeOK'
  BY <1>2, <1>3, <1>4, <1>9, <1>10 DEF SimulatorTypeOK, toldVars
<1>12. Undisturbed'
  <2>1. CASE Calm
    <3>1. /\ ~disconnect /\ forks = 0 /\ (isconnected => up["connection"])
          /\ \A i \in DOMAIN p : p[i].op = "Disconnect" =>
                ~isconnected /\ p[i].cmd = "SIM_WAITDISCONNECT"
      BY <2>1 DEF SimulatorIInv, Undisturbed, Calm, p
    <3>2. \A i \in DOMAIN commands : commands[i].cmd \notin SimCommands
      BY <1>2, <3>1, Behind DEF p
    <3>3. \A i \in DOMAIN commands :
              commands[i].cmd # "SIM_DISCONNECTED" /\ commands[i].cmd # "SIM_CONNECTED"
      BY <3>2 DEF SimCommands
    <3>4. o.op = "Disconnect" => ~isconnected /\ o.cmd = "SIM_WAITDISCONNECT"
      BY <1>7, <3>1 DEF o
    <3>5. r.cmd # "SIM_DISCONNECTED" /\ (r.cmd = "SIM_CONNECTED" /\ r.ok => up'["connection"])
      BY <1>5, <1>6, <1>9, <3>4
    <3>6. \A i \in DOMAIN commands' : /\ commands'[i].cmd # "SIM_DISCONNECTED"
                                      /\ commands'[i].cmd = "SIM_CONNECTED" /\ commands'[i].ok =>
                                            up'["connection"]
      BY <1>8, <3>3, <3>5
    <3>7. isconnected => up'["connection"]
      BY <1>9, <3>1, <3>4
    <3>8. \A i \in DOMAIN Tail(p) : Tail(p)[i].op = "Disconnect" =>
              ~isconnected /\ Tail(p)[i].cmd = "SIM_WAITDISCONNECT"
      BY <1>7, <3>1
    <3> QED
      BY <1>2, <1>4, <3>1, <3>6, <3>7, <3>8 DEF Undisturbed, toldVars
  <2>2. CASE ~Calm
    BY <1>2, <2>2 DEF Undisturbed, toldVars, Calm
  <2> QED
    BY <2>1, <2>2
<1>13. ConversationsApart'
  <2> SUFFICES ASSUME forks <= 1
               PROVE  TelegramsRight' /\ AnswersRight' /\ ~misdirected'
    BY <1>2 DEF ConversationsApart, toldVars
  <2>1. TelegramsRight /\ AnswersRight /\ ~misdirected
    BY DEF SimulatorIInv, ConversationsApart
  <2>2. forks' = forks
    BY <1>2 DEF toldVars
  <2>3. ~misdirected'
    <3>1. o.op = "Send" => o.to = session
      BY <1>7, <2>1 DEF AnswersRight, o, p
    <3> QED
      BY <1>1, <1>6, <2>1, <3>1
  <2>4. TelegramsRight'
    <3> SUFFICES ASSUME NEW i \in DOMAIN commands', Asking(commands'[i])
                 PROVE  /\ commands'[i].data.from = session'
                        /\ up'["connection"] \/ (forks = 1 /\ NothingAhead(i)')
      BY <2>2 DEF TelegramsRight
    <3>1. CASE i \in DOMAIN commands
      <4>1. /\ commands'[i] = commands[i] /\ Asking(commands[i]) /\ i \in Nat
            /\ commands[i].data.from = session
        BY <1>8, <2>1, <3>1 DEF TelegramsRight
      <4>2. /\ up["connection"] /\ forks = 1 /\ Tail(p) = <<>>
            /\ \A j \in DOMAIN commands : j # i => commands[j].cmd \notin SimCommands
        BY <1>2, <3>1, <4>1, Behind DEF p
      <4>3. ASSUME NEW j \in DOMAIN commands', j < i PROVE commands'[j].cmd \notin SimCommands
        <5>1. j \in DOMAIN commands
          <6>1. j \notin DOMAIN commands => i < j
            BY <1>8, <3>1
          <6>2. j \in Nat
            BY <1>4
          <6> QED
            BY <4>1, <4>3, <6>1, <6>2
        <5>2. j # i
          BY <4>1, <4>3
        <5> QED
          BY <1>8, <4>2, <5>1, <5>2
      <4>4. NothingAhead(i)'
        BY <1>4, <4>2, <4>3 DEF NothingAhead
      <4> QED
        BY <1>10, <4>1, <4>2, <4>4
    <3>2. CASE i \notin DOMAIN commands
      <4>1. commands'[i] = r /\ o.op = "Receive" /\ up["connection"] /\ r.data.from = session
        BY <1>5, <1>8, <3>2
      <4> QED
        BY <1>9, <1>10, <4>1
    <3> QED
      BY <3>1, <3>2
  <2>5. AnswersRight'
    <3> SUFFICES ASSUME NEW i \in DOMAIN Tail(p), Tail(p)[i].op = "Send"
                 PROVE  Tail(p)[i].to = session' /\ forks = 1 /\ i = 1
      BY <1>4, <2>2 DEF AnswersRight
    <3>1. up["connection"] /\ forks = 1 /\ i = 1 /\ Tail(p)[i].to = session
      BY <1>2, Behind DEF p
    <3> QED
      BY <1>10, <3>1
  <2> QED
    BY <2>3, <2>4, <2>5
<1> QED
  BY <1>4, <1>11, <1>12, <1>13 DEF SimulatorIInv

-----------------------------------------------------------------------------
(* Together.                                                               *)

LEMMA NextSimulator ==
    ASSUME SimulatorIInv, [SimulatorNext]_simulatorVars
    PROVE  SimulatorIInv'
<1>1. CASE CmdInit
  BY <1>1, CmdInitStep
<1>2. CASE SimInit
  BY <1>2, SimInitStep
<1>3. CASE SimDisconnected
  BY <1>3, SimDisconnectedStep
<1>4. CASE SimWaitDisconnect
  BY <1>4, SimWaitDisconnectStep
<1>5. CASE SimConnected
  BY <1>5, SimConnectedStep
<1>6. CASE SimEvaluateReceive
  BY <1>6, SimEvaluateReceiveStep
<1>7. CASE SimWaitSent
  BY <1>7, SimWaitSentStep
<1>8. CASE CtrlInit
  BY <1>8, CtrlInitStep
<1>9. CASE CtrlWaitDisconnect
  BY <1>9, CtrlWaitDisconnectStep
<1>10. CASE CtrlConnected
  BY <1>10, CtrlConnectedStep
<1>11. CASE CtrlParseReceive
  BY <1>11, CtrlParseReceiveStep
<1>12. CASE CtrlWaitSent
  BY <1>12, CtrlWaitSentStep
<1>13. CASE CtrlTimer
  BY <1>13, CtrlTimerStep
<1>14. CASE BrcShutdown
  BY <1>14, BrcShutdownStep
<1>15. ASSUME NEW c \in Connections, Completes(c) PROVE SimulatorIInv'
  <2>1. CASE c = "connection"
    BY <1>15, <2>1, SimCompletesStep
  <2>2. CASE c = "ctrlserver"
    BY <1>15, <2>2, CtrlCompletesStep
  <2> QED
    BY <2>1, <2>2, Kinds
<1>16. CASE UNCHANGED simulatorVars
  <2>1. /\ UNCHANGED <<ctrlserver, offline, disconnect, killbit, isconnected>>
        /\ UNCHANGED <<shutdown_requested, commands, later, up, pending, session, crashed>>
        /\ UNCHANGED <<disconnects, forks, misdirected>>
    BY <1>16 DEF simulatorVars, toldVars, connVars
  <2>2. CtrlChain' = CtrlChain /\ SimWork' = SimWork /\ CtrlWork' = CtrlWork
    BY <2>1, CtrlChainIs DEF SimWork, CtrlWork, Later
  <2>3. SimulatorTypeOK' /\ OperationsRight' /\ InitFirst'
    BY <2>1, <2>2 DEF SimulatorIInv, SimulatorTypeOK, OperationsRight, InitFirst
  <2>4. ConversationsCounted' /\ DisconnectsBounded' /\ Undisturbed'
    BY <2>1, <2>2 DEF SimulatorIInv, ConversationsCounted, DisconnectsBounded, Undisturbed, Working, Calm
  <2>5. ConversationsApart'
    BY <2>1 DEF SimulatorIInv, ConversationsApart, TelegramsRight, AnswersRight, NothingAhead
  <2> QED
    BY <2>3, <2>4, <2>5 DEF SimulatorIInv
<1> QED
  BY <1>1, <1>2, <1>3, <1>4, <1>5, <1>6, <1>7, <1>8, <1>9, <1>10, <1>11, <1>12, <1>13, <1>14,
     <1>15, <1>16 DEF SimulatorNext, MainLoop

(* The simulator and its control server each keep exactly one conversation *)
(* going until the shutdown, whatever fails, and, while one conversation   *)
(* has become two at most once, an answer goes to the client that asked    *)
(* (CInverterSputnikSSeriesSimulator::ExecuteCommand).                     *)
THEOREM ConversationsGoOn == SimulatorSpec => []SimulatorInv
<1>1. SimulatorInit => SimulatorIInv
  BY InitSimulator
<1>2. SimulatorIInv /\ [SimulatorNext]_simulatorVars => SimulatorIInv'
  BY NextSimulator
<1>3. SimulatorIInv => SimulatorInv
  BY SimulatorIInvSuffices
<1> QED
  BY <1>1, <1>2, <1>3, PTL DEF SimulatorSpec
=============================================================================
