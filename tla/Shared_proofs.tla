--------------------------- MODULE Shared_proofs ----------------------------
(***************************************************************************)
(* The shared connection for any number of inverters, commands and time-   *)
(* outs.  First the operations and the atomic blocks: every command is in  *)
(* one place, and the blocks have the line in turn.  Then the reads        *)
(* outside of blocks: one answer for each, and one reader.                 *)
(***************************************************************************)
EXTENDS SharedConnection, SharedReads, FiniteSetTheorems, WellFoundedInduction, TLAPS

-----------------------------------------------------------------------------
(* Operations and atomic blocks.                                           *)

(* Induction along 0..n, for the sets that comprehension defines.          *)
LEMMA InductionUpTo ==
    ASSUME NEW n \in Nat, NEW T, 0 \in T, \A i \in 0..n : i \in T /\ i # n => i + 1 \in T
    PROVE  0..n \subseteq T
<1> SUFFICES ASSUME NEW k \in 0..n, k \notin T PROVE FALSE
  OBVIOUS
<1> DEFINE D == { i \in 0..n : i \notin T }
           R == OpToRel(<, Nat)
<1>1. IsWellFoundedOn(R, Nat)
  BY NatLessThanWellFounded
<1>2. D \subseteq Nat /\ D # {}
  OBVIOUS
<1>3. PICK m \in D : \A y \in D : ~ (<<y, m>> \in R)
  <2> HIDE DEF D, R
  <2> QED
    BY <1>1, <1>2, WFMin
<1>4. \A y \in D : ~ (y < m)
  BY <1>2, <1>3 DEF OpToRel
<1>5. m # 0 /\ m \in 1..n /\ m - 1 \in 0..n
  OBVIOUS
<1>6. m - 1 \in T
  BY <1>4, <1>5
<1> QED
  BY <1>5, <1>6

LEMMA Least ==
    ASSUME NEW S, S \subseteq Nat, S # {}
    PROVE  \E m \in S : \A y \in S : m <= y
<1> DEFINE R == OpToRel(<, Nat)
<1>1. IsWellFoundedOn(R, Nat)
  BY NatLessThanWellFounded
<1>2. PICK m \in S : \A y \in S : ~ (<<y, m>> \in R)
  <2> HIDE DEF R
  <2> QED
    BY <1>1, WFMin
<1>3. \A y \in S : ~ (y < m)
  BY <1>2 DEF OpToRel
<1>4. \A y \in S : y \in Nat
  OBVIOUS
<1> QED
  BY <1>3, <1>4

-----------------------------------------------------------------------------
(* What Append, Tail and \o do to the entries of a queue.                  *)
LEMMA AppendQueue ==
    ASSUME NEW S, NEW q \in Seq(S), NEW e \in S
    PROVE  /\ Append(q, e) \in Seq(S) /\ Range(Append(q, e)) = Range(q) \cup {e}
           /\ IsInjective(q) /\ e \notin Range(q) => IsInjective(Append(q, e))
<1>1. /\ Append(q, e) \in Seq(S) /\ DOMAIN Append(q, e) = 1 .. Len(q) + 1
      /\ DOMAIN q = 1 .. Len(q) /\ Len(q) \in Nat
      /\ \A i \in 1 .. Len(q) : Append(q, e)[i] = q[i]
      /\ Append(q, e)[Len(q) + 1] = e
  OBVIOUS
<1>2. PICK a : a = Append(q, e)
  OBVIOUS
<1>3. \A i \in DOMAIN a : (i \in DOMAIN q /\ a[i] = q[i]) \/ (i = Len(q) + 1 /\ a[i] = e)
  BY ONLY <1>1, <1>2
<1>4. DOMAIN q \subseteq DOMAIN a /\ Len(q) + 1 \in DOMAIN a /\ Len(q) + 1 \notin DOMAIN q
  BY ONLY <1>1, <1>2
<1>5. Range(a) = Range(q) \cup {e}
  BY <1>1, <1>2, <1>3, <1>4 DEF Range
<1>6. IsInjective(q) /\ e \notin Range(q) => IsInjective(a)
  BY <1>3 DEF IsInjective, Range
<1> QED
  BY <1>1, <1>2, <1>5, <1>6

LEMMA TailQueue ==
    ASSUME NEW S, NEW q \in Seq(S), q # <<>>, IsInjective(q)
    PROVE  /\ Tail(q) \in Seq(S) /\ Head(q) \in Range(q)
           /\ Range(Tail(q)) = Range(q) \ {Head(q)}
           /\ IsInjective(Tail(q))
<1>1. /\ Tail(q) \in Seq(S) /\ DOMAIN Tail(q) = 1 .. Len(q) - 1
      /\ DOMAIN q = 1 .. Len(q) /\ Len(q) \in Nat \ {0} /\ Head(q) = q[1]
      /\ \A i \in 1 .. Len(q) - 1 : Tail(q)[i] = q[i + 1]
  OBVIOUS
<1>2. PICK a : a = Tail(q)
  OBVIOUS
<1>3. \A i \in DOMAIN a : i + 1 \in DOMAIN q /\ a[i] = q[i + 1] /\ i + 1 # 1
  BY ONLY <1>1, <1>2
<1>4. 1 \in DOMAIN q /\ \A i \in DOMAIN q : i = 1 \/ (i - 1 \in DOMAIN a /\ a[i - 1] = q[i])
  BY ONLY <1>1, <1>2
<1>5. Range(a) = Range(q) \ {q[1]}
  <2>1. ASSUME NEW x \in Range(a) PROVE x \in Range(q) \ {q[1]}
    BY <1>3, <1>4 DEF Range, IsInjective
  <2>2. ASSUME NEW x \in Range(q) \ {q[1]} PROVE x \in Range(a)
    BY <1>4 DEF Range
  <2> QED
    BY <2>1, <2>2
<1>6. IsInjective(a)
  <2> SUFFICES ASSUME NEW i \in DOMAIN a, NEW j \in DOMAIN a, a[i] = a[j] PROVE i = j
    BY DEF IsInjective
  <2>1. i + 1 = j + 1
    BY <1>3 DEF IsInjective
  <2>2. i \in Int /\ j \in Int
    BY <1>1, <1>2
  <2> QED
    BY ONLY <2>1, <2>2
<1>7. Head(q) \in Range(q)
  BY <1>1 DEF Range
<1> QED
  BY <1>1, <1>2, <1>5, <1>6, <1>7

LEMMA ConcatQueues ==
    ASSUME NEW S, NEW p \in Seq(S), NEW q \in Seq(S)
    PROVE  /\ p \o q \in Seq(S) /\ Range(p \o q) = Range(p) \cup Range(q)
           /\ IsInjective(p) /\ IsInjective(q) /\ Range(p) \cap Range(q) = {} => IsInjective(p \o q)
<1>1. /\ p \o q \in Seq(S) /\ DOMAIN (p \o q) = 1 .. Len(p) + Len(q)
      /\ DOMAIN p = 1 .. Len(p) /\ Len(p) \in Nat /\ DOMAIN q = 1 .. Len(q) /\ Len(q) \in Nat
      /\ \A i \in 1 .. Len(p) + Len(q) :
            (p \o q)[i] = IF i <= Len(p) THEN p[i] ELSE q[i - Len(p)]
  OBVIOUS
<1>2. PICK a : a = p \o q
  OBVIOUS
<1>3. \A i \in DOMAIN a : \/ i \in DOMAIN p /\ a[i] = p[i]
                          \/ i - Len(p) \in DOMAIN q /\ a[i] = q[i - Len(p)]
  BY ONLY <1>1, <1>2
<1>4. \A i \in DOMAIN p : i \in DOMAIN a /\ a[i] = p[i]
  BY ONLY <1>1, <1>2
<1>5. \A i \in DOMAIN q : i + Len(p) \in DOMAIN a /\ a[i + Len(p)] = q[i]
  BY ONLY <1>1, <1>2
<1>6. Range(a) = Range(p) \cup Range(q)
  BY <1>3, <1>4, <1>5 DEF Range
<1>7. ASSUME IsInjective(p), IsInjective(q), Range(p) \cap Range(q) = {} PROVE IsInjective(a)
  <2> SUFFICES ASSUME NEW i \in DOMAIN a, NEW j \in DOMAIN a, a[i] = a[j] PROVE i = j
    BY DEF IsInjective
  <2>1. i \in Int /\ j \in Int /\ Len(p) \in Int
    BY <1>1, <1>2
  <2>2. i = j \/ i - Len(p) = j - Len(p)
    BY <1>3, <1>7 DEF IsInjective, Range
  <2> QED
    BY ONLY <2>1, <2>2
<1> QED
  BY <1>1, <1>2, <1>6, <1>7

-----------------------------------------------------------------------------
(* Issue() works through the entries one by one: f[i] is what the first i  *)
(* of them make of the queues below the master.                            *)
Lower == [connection : Seq(Answers), scheduler : Seq(Answers), line : Seq(Nat)]

StepByStep(f, cs, entries, scheduled) ==
    LET n == Len(entries)
    IN  /\ f[0] = [connection |-> connection, scheduler |-> scheduled, line |-> line]
        /\ \A i \in 1 .. n : f[i] = Issued(cs, f[i - 1], entries[i])
        /\ connection' = f[n].connection /\ scheduler' = f[n].scheduler /\ line' = f[n].line

TicketNumbers(cs) == \A c \in Commands : cs[c].ticket \in Nat

LEMMA SeenTypes ==
    ASSUME NEW l \in Seq(Nat), NEW t \in Nat PROVE Seen(l, t) \in Seq(Nat)
  BY DEF Seen

LEMMA IssuedTypes ==
    ASSUME NEW cs, TicketNumbers(cs), NEW v \in Lower, NEW e \in Answers
    PROVE  Issued(cs, v, e) \in Lower
<1>1. e.cmd \in Commands /\ cs[e.cmd].ticket \in Nat
  BY DEF Answers, TicketNumbers
<1>2. PICK t \in Nat : t = cs[e.cmd].ticket
  BY <1>1
<1>3. PICK S : S = Seq(Answers)
  OBVIOUS
<1>4. v.connection \in S /\ v.scheduler \in S /\ v.line \in Seq(Nat)
  BY <1>3 DEF Lower
<1>5. Append(v.connection, e) \in S /\ Append(v.scheduler, e) \in S
  BY <1>3, <1>4
<1>6. Seen(v.line, t) \in Seq(Nat)
  BY <1>4, SeenTypes
<1>7. \/ Issued(cs, v, e) = [v EXCEPT !.scheduler = Append(@, e)]
      \/ Issued(cs, v, e) = [v EXCEPT !.connection = Append(@, e), !.line = Seen(@, t)]
  BY <1>2 DEF Issued
<1> QED
  BY <1>3, <1>5, <1>6, <1>7 DEF Lower

Follows(f, n, v0, step) == f[0] = v0 /\ \A i \in 1..n : f[i] = step[i][f[i - 1]]

(* Recursion along 0..n, with the step as a function: what it defines      *)
(* exists, and stays in V.                                                 *)
LEMMA Recursion ==
    ASSUME NEW n \in Nat, NEW V, NEW v0 \in V, NEW step \in [1..n -> [V -> V]]
    PROVE  \E f \in [0..n -> V] : Follows(f, n, v0, step)
<1> DEFINE Good(m, f) == f[0] = v0 /\ \A i \in 1..m : f[i] = step[i][f[i - 1]]
           T == { m \in 0..n : \E f \in [0..m -> V] : Good(m, f) }
<1>1. 0 \in T
  <2>1. PICK f : f = [i \in 0..0 |-> v0]
    OBVIOUS
  <2>2. f \in [0..0 -> V] /\ Good(0, f)
    BY <2>1
  <2> QED
    BY <2>2
<1>2. ASSUME NEW m \in 0..n, m \in T, m # n PROVE m + 1 \in T
  <2>1. PICK f \in [0..m -> V] : Good(m, f)
    BY <1>2
  <2>2. PICK g : g = [i \in 0..(m + 1) |-> IF i = m + 1 THEN step[m + 1][f[m]] ELSE f[i]]
    OBVIOUS
  <2>3. step[m + 1] \in [V -> V] /\ f[m] \in V
    BY <1>2
  <2>4. g \in [0..(m + 1) -> V]
    BY <2>2, <2>3
  <2>5. Good(m + 1, g)
    BY <2>1, <2>2
  <2> QED
    BY <1>2, <2>4, <2>5
<1>3. 0..n \subseteq T
  <2> HIDE DEF T
  <2> QED
    BY <1>1, <1>2, InductionUpTo
<1>4. n \in T
  BY <1>3
<1> QED
  BY <1>4 DEF Follows

LEMMA IssueUnfolds ==
    ASSUME NEW cs, TicketNumbers(cs), NEW entries \in Seq(Answers), NEW scheduled \in Seq(Answers),
           connection \in Seq(Answers), line \in Seq(Nat), Issue(cs, entries, scheduled)
    PROVE  \E f \in [0 .. Len(entries) -> Lower] : StepByStep(f, cs, entries, scheduled)
<1> DEFINE n == Len(entries)
           start == [connection |-> connection, scheduler |-> scheduled, line |-> line]
           Def(g) == [i \in 0..n |-> IF i = 0 THEN start ELSE Issued(cs, g[i - 1], entries[i])]
           issued == CHOOSE g : g = Def(g)
<1>1. n \in Nat /\ \A i \in 1..n : entries[i] \in Answers
  OBVIOUS
<1> HIDE DEF n
<1>a. \A i \in 0..n : i = 0 \/ (i \in 1..n /\ i - 1 \in 0..n)
  BY ONLY <1>1
<1>b. \A i \in 1..n : i # 0 /\ i \in 0..n /\ i - 1 \in 0..n
  BY ONLY <1>1
<1>c. 0 \in 0..n /\ n \in 0..n
  BY ONLY <1>1
<1>2. PICK step \in [1..n -> [Lower -> Lower]] :
         \A i \in 1..n, v \in Lower : step[i][v] = Issued(cs, v, entries[i])
  <2>1. \A i \in 1..n, v \in Lower : Issued(cs, v, entries[i]) \in Lower
    BY <1>1, IssuedTypes
  <2>2. [i \in 1..n |-> [v \in Lower |-> Issued(cs, v, entries[i])]] \in [1..n -> [Lower -> Lower]]
    BY <2>1
  <2> QED
    BY <2>2
<1>3. start \in Lower
  BY DEF Lower
<1> HIDE DEF start
<1>4. PICK f \in [0..n -> Lower] : Follows(f, n, start, step)
  BY ONLY <1>1, <1>2, <1>3, Recursion
<1>5. f[0] = start /\ \A i \in 1..n : f[i] = Issued(cs, f[i - 1], entries[i])
  <2>1. f[0] = start /\ \A i \in 1..n : f[i] = step[i][f[i - 1]]
    BY <1>4 DEF Follows
  <2>2. \A i \in 1..n : f[i - 1] \in Lower
    BY ONLY f \in [0..n -> Lower], <1>b
  <2> QED
    BY ONLY <1>2, <2>1, <2>2
<1>6. f = Def(f)
  BY ONLY f \in [0..n -> Lower], <1>a, <1>5
<1>7. issued = Def(issued)
  <2> HIDE DEF Def
  <2> QED
    BY <1>6
<1>8. issued[0] = start /\ \A i \in 1..n : issued[i] = Issued(cs, issued[i - 1], entries[i])
  <2> HIDE DEF issued
  <2>1. issued[0] = IF 0 = 0 THEN start ELSE Issued(cs, issued[0 - 1], entries[0])
    BY <1>c, <1>7
  <2>2. ASSUME NEW i \in 1..n PROVE issued[i] = Issued(cs, issued[i - 1], entries[i])
    BY <1>b, <1>7
  <2> QED
    BY <2>1, <2>2
<1> DEFINE T == { i \in 0..n : issued[i] = f[i] }
<1>9. n \in T
  <2> HIDE DEF issued
  <2>1. 0 \in T
    BY <1>5, <1>8, <1>c
  <2>2. ASSUME NEW i \in 0..n, i \in T, i # n PROVE i + 1 \in T
    <3>1. i + 1 \in 1..n /\ i + 1 \in 0..n /\ (i + 1) - 1 = i
      BY <1>1, <2>2
    <3>2. /\ issued[i + 1] = Issued(cs, issued[i], entries[i + 1])
          /\ f[i + 1] = Issued(cs, f[i], entries[i + 1])
      BY <1>5, <1>8, <3>1
    <3> QED
      BY <2>2, <3>1, <3>2
  <2> HIDE DEF T
  <2> QED
    BY <1>1, <1>c, <2>1, <2>2, InductionUpTo
<1>10. /\ connection' = issued[n].connection /\ scheduler' = issued[n].scheduler
       /\ line' = issued[n].line
  BY DEF Issue, n, start
<1>11. StepByStep(f, cs, entries, scheduled)
  <2>1. issued[n] = f[n]
    <3> HIDE DEF issued
    <3> QED
      BY <1>9
  <2> HIDE DEF issued
  <2>2. connection' = f[n].connection /\ scheduler' = f[n].scheduler /\ line' = f[n].line
    BY <1>10, <2>1
  <2> QED
    BY <1>5, <2>2 DEF StepByStep, start, n
<1> QED
  BY <1>11 DEF n

-----------------------------------------------------------------------------
(* No entry is issued twice, and none is lost.                             *)
Distinct(p, q) == IsInjective(p) /\ IsInjective(q) /\ Range(p) \cap Range(q) = {}
Entries(v) == Range(v.connection) \cup Range(v.scheduler)
OneMore(v, w, e) == Distinct(w.connection, w.scheduler) /\ Entries(w) = Entries(v) \cup {e}

LEMMA IssuedQueues ==
    ASSUME NEW cs, NEW v \in Lower, NEW e \in Answers,
           Distinct(v.connection, v.scheduler), e \notin Entries(v)
    PROVE  OneMore(v, Issued(cs, v, e), e)
<1>1. v.connection \in Seq(Answers) /\ v.scheduler \in Seq(Answers)
  BY DEF Lower
<1>2. PICK w : w = Issued(cs, v, e)
  OBVIOUS
<1>3. CASE Noop(cs, e)
  <2>1. w.connection = v.connection /\ w.scheduler = Append(v.scheduler, e)
    BY <1>2, <1>3 DEF Issued, Lower
  <2>2. /\ Range(w.scheduler) = Range(v.scheduler) \cup {e}
        /\ IsInjective(v.scheduler) /\ e \notin Range(v.scheduler) => IsInjective(w.scheduler)
    BY ONLY <1>1, <2>1, AppendQueue, e \in Answers
  <2>3. OneMore(v, w, e)
    BY <2>1, <2>2 DEF OneMore, Entries, Distinct
  <2> QED
    BY <1>2, <2>3
<1>4. CASE ~Noop(cs, e)
  <2>1. w.scheduler = v.scheduler /\ w.connection = Append(v.connection, e)
    BY <1>2, <1>4 DEF Issued, Lower
  <2>2. /\ Range(w.connection) = Range(v.connection) \cup {e}
        /\ IsInjective(v.connection) /\ e \notin Range(v.connection) => IsInjective(w.connection)
    BY ONLY <1>1, <2>1, AppendQueue, e \in Answers
  <2>3. OneMore(v, w, e)
    BY <2>1, <2>2 DEF OneMore, Entries, Distinct
  <2> QED
    BY <1>2, <2>3
<1> QED
  BY <1>3, <1>4

AllIssued(entries, scheduled) ==
    /\ connection' \in Seq(Answers) /\ scheduler' \in Seq(Answers)
    /\ Distinct(connection', scheduler')
    /\ Range(connection') \cup Range(scheduler')
         = Range(connection) \cup Range(scheduled) \cup Range(entries)

LEMMA IssueQueues ==
    ASSUME NEW cs, TicketNumbers(cs), NEW entries \in Seq(Answers), NEW scheduled \in Seq(Answers),
           connection \in Seq(Answers), line \in Seq(Nat), Issue(cs, entries, scheduled),
           Distinct(connection, scheduled), IsInjective(entries),
           Range(entries) \cap (Range(connection) \cup Range(scheduled)) = {}
    PROVE  AllIssued(entries, scheduled)
<1>1. PICK n \in Nat : n = Len(entries)
  OBVIOUS
<1>0. DOMAIN entries = 1..n
  BY <1>1
<1>2. PICK f \in [0..n -> Lower] : StepByStep(f, cs, entries, scheduled)
  BY <1>1, IssueUnfolds
<1>3. /\ f[0].connection = connection /\ f[0].scheduler = scheduled
      /\ \A i \in 1..n : f[i] = Issued(cs, f[i - 1], entries[i])
      /\ connection' = f[n].connection /\ scheduler' = f[n].scheduler
  BY <1>1, <1>2 DEF StepByStep
<1>4. PICK B : B = Range(connection) \cup Range(scheduled)
  OBVIOUS
<1> DEFINE T == { i \in 0..n : /\ Distinct(f[i].connection, f[i].scheduler)
                               /\ Entries(f[i]) = B \cup { entries[j] : j \in 1..i } }
<1>5. 0 \in T
  BY <1>3, <1>4 DEF Entries
<1>6. ASSUME NEW i \in 0..n, i \in T, i # n PROVE i + 1 \in T
  <2>1. i + 1 \in 1..n /\ i + 1 \in 0..n /\ (i + 1) - 1 = i
    BY <1>6
  <2>2. entries[i + 1] \in Answers /\ entries[i + 1] \in Range(entries)
    <3>1. i + 1 \in DOMAIN entries
      BY <1>0, <2>1
    <3> QED
      BY <3>1 DEF Range
  <2>3. entries[i + 1] \notin B
    BY <1>4, <2>2
  <2>4. \A j \in 1..i : entries[i + 1] # entries[j]
    <3>1. \A j \in 1..i : j \in 1..n /\ j # i + 1 /\ i + 1 \in 1..n
      BY ONLY <2>1, n \in Nat
    <3>2. \A j \in 1..i : j \in DOMAIN entries /\ j # i + 1 /\ i + 1 \in DOMAIN entries
      BY <1>0, <3>1
    <3> QED
      BY <3>2 DEF IsInjective
  <2>5. f[i] \in Lower /\ f[i + 1] = Issued(cs, f[i], entries[i + 1])
    BY <1>3, <2>1
  <2>6. OneMore(f[i], f[i + 1], entries[i + 1])
    <3>1. Distinct(f[i].connection, f[i].scheduler) /\ entries[i + 1] \notin Entries(f[i])
      BY <1>6, <2>3, <2>4
    <3> QED
      BY ONLY <2>2, <2>5, <3>1, IssuedQueues
  <2>7. { entries[j] : j \in 1..(i + 1) } = { entries[j] : j \in 1..i } \cup {entries[i + 1]}
    <3>1. 1..(i + 1) = 1..i \cup {i + 1}
      BY ONLY i \in 0..n, n \in Nat
    <3> QED
      BY <3>1
  <2> QED
    BY <1>6, <2>1, <2>6, <2>7 DEF OneMore
<1>7. n \in T
  <2>1. 0..n \subseteq T
    <3> HIDE DEF T
    <3> QED
      BY <1>5, <1>6, InductionUpTo
  <2> QED
    BY <2>1
<1>8. { entries[j] : j \in 1..n } = Range(entries)
  BY <1>0 DEF Range
<1>9. f[n].connection \in Seq(Answers) /\ f[n].scheduler \in Seq(Answers)
  BY <1>2 DEF Lower
<1> QED
  BY <1>3, <1>4, <1>7, <1>8, <1>9 DEF AllIssued, Entries

-----------------------------------------------------------------------------
(* What is put on the line.                                                *)
Increasing(l) ==
    \A i, j \in DOMAIN l : i < j /\ l[i] # 0 /\ l[j] # 0 => l[i] < l[j]
Under(l, b) == \A i \in DOMAIN l : l[i] < b
UpTo(l, b) == \A i \in DOMAIN l : l[i] < b \/ (i = Len(l) /\ l[i] = b)


(* What holds while no command has been answered twice.                    *)
Orderly ==
    /\ TypeOK /\ OnePlace /\ EndOfBlockExpected
    /\ Increasing(line) /\ BlocksBegun /\ BlocksToCome

LEMMA SeenCases ==
    ASSUME NEW l \in Seq(Nat), NEW t \in Nat
    PROVE  \/ Seen(l, t) = l
           \/ /\ Seen(l, t) = Append(l, t)
              /\ l = <<>> \/ l[Len(l)] # t
  BY DEF Seen, Last

(* Operations outside of a block and those of the block b keep the order,  *)
(* as long as b has not been on the line before.                           *)
LEMMA SeenFree ==
    ASSUME NEW l \in Seq(Nat), NEW b \in Nat \ {0}, Increasing(l), Under(l, b)
    PROVE  Increasing(Seen(l, 0)) /\ Under(Seen(l, 0), b)
<1>1. CASE Seen(l, 0) = Append(l, 0)
  <2>1. PICK a : a = Append(l, 0)
    OBVIOUS
  <2>2. /\ Len(l) \in Nat /\ DOMAIN l = 1..Len(l) /\ DOMAIN a = 1..(Len(l) + 1)
        /\ a[Len(l) + 1] = 0 /\ \A i \in 1..Len(l) : a[i] = l[i]
    BY <2>1
  <2>3. \A i \in DOMAIN a : (i \in DOMAIN l /\ a[i] = l[i]) \/ a[i] = 0
    BY ONLY <2>2
  <2>4. Increasing(a) /\ Under(a, b)
    BY <2>3 DEF Increasing, Under
  <2> QED
    BY <1>1, <2>1, <2>4
<1> QED
  BY <1>1, SeenCases

LEMMA SeenBlock ==
    ASSUME NEW l \in Seq(Nat), NEW b \in Nat \ {0}, Increasing(l), UpTo(l, b)
    PROVE  Increasing(Seen(l, b)) /\ UpTo(Seen(l, b), b)
<1>1. CASE Seen(l, b) = Append(l, b) /\ (l = <<>> \/ l[Len(l)] # b)
  <2>1. PICK a : a = Append(l, b)
    OBVIOUS
  <2>2. /\ Len(l) \in Nat /\ DOMAIN l = 1..Len(l)
        /\ DOMAIN a = 1..(Len(l) + 1) /\ Len(a) = Len(l) + 1
        /\ a[Len(l) + 1] = b /\ \A i \in 1..Len(l) : a[i] = l[i]
    BY <2>1
  <2>3. \A i \in DOMAIN l : l[i] < b
    BY <1>1 DEF UpTo
  <2>4. \A i \in DOMAIN a : (i \in DOMAIN l /\ a[i] = l[i]) \/ (i = Len(a) /\ a[i] = b)
    BY ONLY <2>2
  <2>5. \A i \in DOMAIN a : i <= Len(a) /\ i \in Int /\ Len(a) \in Int
    BY ONLY <2>2
  <2>6. Increasing(a)
    <3> SUFFICES ASSUME NEW i \in DOMAIN a, NEW j \in DOMAIN a, i < j, a[i] # 0, a[j] # 0
                 PROVE  a[i] < a[j]
      BY DEF Increasing
    <3>1. i \in DOMAIN l /\ a[i] = l[i]
      <4>1. i # Len(a)
        BY <2>5
      <4> QED
        BY <2>4, <4>1
    <3> QED
      BY <2>3, <2>4, <3>1 DEF Increasing
  <2>7. UpTo(a, b)
    BY <2>3, <2>4 DEF UpTo
  <2> QED
    BY <1>1, <2>1, <2>6, <2>7
<1> QED
  BY <1>1, SeenCases

(* The first k of the entries are outside of any block, the rest in b.     *)
Ranked(cs, entries, k, b) ==
    \A i \in DOMAIN entries : cs[entries[i].cmd].ticket = IF i <= k THEN 0 ELSE b

InOrder(l, b, free) ==
    l \in Seq(Nat) /\ Increasing(l) /\ UpTo(l, b) /\ (free => Under(l, b))

LEMMA IssuedLine ==
    ASSUME NEW cs, NEW v \in Lower, NEW e \in Answers, NEW b \in Nat \ {0},
           NEW free \in BOOLEAN, NEW was \in BOOLEAN,
           InOrder(v.line, b, was), free => was,
           cs[e.cmd].ticket = IF free THEN 0 ELSE b
    PROVE  InOrder(Issued(cs, v, e).line, b, free)
<1>1. PICK l \in Seq(Nat) : l = v.line
  BY DEF Lower
<1>2. Increasing(l) /\ UpTo(l, b) /\ (was => Under(l, b))
  BY <1>1 DEF InOrder
<1>3. CASE Noop(cs, e)
  <2>1. Issued(cs, v, e).line = l
    BY <1>1, <1>3 DEF Issued, Lower
  <2> QED
    BY <1>2, <2>1 DEF InOrder
<1>4. CASE ~Noop(cs, e)
  <2>1. Issued(cs, v, e).line = Seen(l, IF free THEN 0 ELSE b)
    BY <1>1, <1>4 DEF Issued, Lower
  <2>2. CASE free
    <3>1. Increasing(Seen(l, 0)) /\ Under(Seen(l, 0), b) /\ Seen(l, 0) \in Seq(Nat)
      BY <1>2, <2>2, SeenFree, SeenTypes
    <3>2. UpTo(Seen(l, 0), b)
      BY <3>1 DEF Under, UpTo
    <3> QED
      BY <2>1, <2>2, <3>1, <3>2 DEF InOrder
  <2>3. CASE ~free
    <3>1. Increasing(Seen(l, b)) /\ UpTo(Seen(l, b), b) /\ Seen(l, b) \in Seq(Nat)
      BY <1>2, SeenBlock, SeenTypes
    <3> QED
      BY <2>1, <2>3, <3>1 DEF InOrder
  <2> QED
    BY <2>2, <2>3
<1> QED
  BY <1>3, <1>4

LEMMA IssueLine ==
    ASSUME NEW cs, TicketNumbers(cs), NEW entries \in Seq(Answers), NEW scheduled \in Seq(Answers),
           connection \in Seq(Answers), Issue(cs, entries, scheduled),
           NEW k \in Nat, NEW b \in Nat \ {0}, Ranked(cs, entries, k, b),
           NEW fresh \in BOOLEAN, k > 0 => fresh, InOrder(line, b, fresh)
    PROVE  InOrder(line', b, fresh /\ Len(entries) <= k)
<1>0. line \in Seq(Nat)
  BY DEF InOrder
<1>1. PICK n \in Nat : n = Len(entries)
  OBVIOUS
<1>2. PICK f \in [0..n -> Lower] : StepByStep(f, cs, entries, scheduled)
  BY <1>0, <1>1, IssueUnfolds
<1>3. /\ f[0].line = line
      /\ \A i \in 1..n : f[i] = Issued(cs, f[i - 1], entries[i])
      /\ line' = f[n].line
  BY <1>1, <1>2 DEF StepByStep
<1> DEFINE T == { i \in 0..n : InOrder(f[i].line, b, fresh /\ i <= k) }
<1>4. 0 \in T
  BY <1>3 DEF InOrder
<1>5. ASSUME NEW i \in 0..n, i \in T, i # n PROVE i + 1 \in T
  <2>1. i + 1 \in 1..n /\ i + 1 \in 0..n /\ (i + 1) - 1 = i
    BY <1>5
  <2>2. entries[i + 1] \in Answers /\ i + 1 \in DOMAIN entries
    BY <1>1, <2>1
  <2>3. cs[entries[i + 1].cmd].ticket = IF i + 1 <= k THEN 0 ELSE b
    BY <2>2 DEF Ranked
  <2>4. f[i] \in Lower /\ f[i + 1] = Issued(cs, f[i], entries[i + 1])
    BY <1>3, <2>1
  <2>a. PICK was \in BOOLEAN : was <=> fresh /\ i <= k
    BY ONLY TRUE \in BOOLEAN, FALSE \in BOOLEAN, Zenon
  <2>b. PICK free \in BOOLEAN : free <=> i + 1 <= k
    BY ONLY TRUE \in BOOLEAN, FALSE \in BOOLEAN, Zenon
  <2>5. (was <=> fresh /\ i <= k) /\ (free <=> i + 1 <= k)
    BY <2>a, <2>b
  <2>6. free => was
    <3>1. i + 1 <= k => i <= k /\ k > 0
      BY ONLY i \in 0..n, n \in Nat, k \in Nat
    <3> QED
      BY <2>5, <3>1
  <2>7. InOrder(f[i].line, b, was)
    BY <1>5, <2>5
  <2>8. cs[entries[i + 1].cmd].ticket = IF free THEN 0 ELSE b
    BY <2>3, <2>5
  <2>9. InOrder(f[i + 1].line, b, free)
    BY <2>2, <2>4, <2>6, <2>7, <2>8, IssuedLine
  <2>10. fresh /\ i + 1 <= k => free
    BY <2>5
  <2> QED
    BY <2>1, <2>9, <2>10 DEF InOrder
<1>6. n \in T
  <2>1. 0..n \subseteq T
    <3> HIDE DEF T
    <3> QED
      BY <1>4, <1>5, InductionUpTo
  <2> QED
    BY <2>1
<1> QED
  BY <1>1, <1>3, <1>6

LEMMA SeenNumbers ==
    ASSUME NEW m \in Nat, NEW l \in Seq(0 .. m), NEW t \in 0 .. m PROVE Seen(l, t) \in Seq(0 .. m)
<1>1. PICK S : S = 0 .. m
  OBVIOUS
<1>2. Append(l, t) \in Seq(S)
  BY <1>1
<1> QED
  BY <1>1, <1>2 DEF Seen

(* Whatever is issued, only tickets of it get to the line.                 *)
LEMMA IssueNumbers ==
    ASSUME NEW cs, NEW m \in Nat, \A c \in Commands : cs[c].ticket \in 0 .. m,
           NEW entries \in Seq(Answers), NEW scheduled \in Seq(Answers),
           connection \in Seq(Answers), line \in Seq(0 .. m), Issue(cs, entries, scheduled)
    PROVE  connection' \in Seq(Answers) /\ scheduler' \in Seq(Answers) /\ line' \in Seq(0 .. m)
<1>0. line \in Seq(Nat) /\ TicketNumbers(cs)
  BY DEF TicketNumbers
<1>1. PICK n \in Nat : n = Len(entries)
  OBVIOUS
<1>2. PICK f \in [0..n -> Lower] : StepByStep(f, cs, entries, scheduled)
  BY <1>0, <1>1, IssueUnfolds
<1>3. /\ f[0].line = line
      /\ \A i \in 1..n : f[i] = Issued(cs, f[i - 1], entries[i])
      /\ connection' = f[n].connection /\ scheduler' = f[n].scheduler /\ line' = f[n].line
  BY <1>1, <1>2 DEF StepByStep
<1> DEFINE T == { i \in 0..n : f[i].line \in Seq(0 .. m) }
<1>4. 0 \in T
  BY <1>3
<1>5. ASSUME NEW i \in 0..n, i \in T, i # n PROVE i + 1 \in T
  <2>1. i + 1 \in 1..n /\ i + 1 \in 0..n /\ (i + 1) - 1 = i
    BY <1>5
  <2>2. entries[i + 1] \in Answers
    BY <1>1, <2>1
  <2>3. PICK t \in 0 .. m : t = cs[entries[i + 1].cmd].ticket
    BY <2>2 DEF Answers
  <2>4. f[i] \in Lower /\ f[i + 1] = Issued(cs, f[i], entries[i + 1])
    BY <1>3, <2>1
  <2>5. f[i + 1].line = f[i].line \/ f[i + 1].line = Seen(f[i].line, t)
    BY <2>3, <2>4 DEF Issued, Lower
  <2>6. f[i + 1].line \in Seq(0 .. m)
    BY <1>5, <2>5, SeenNumbers
  <2> QED
    BY <2>1, <2>6
<1>6. n \in T
  <2>1. 0..n \subseteq T
    <3> HIDE DEF T
    <3> QED
      BY <1>4, <1>5, InductionUpTo
  <2> QED
    BY <2>1
<1>7. f[n] \in Lower
  BY <1>1
<1> QED
  BY <1>3, <1>6, <1>7 DEF Lower

-----------------------------------------------------------------------------
(* Where a command is, without the names of the places.                    *)
Waits(c) == \E t \in 0 .. MaxTickets : c \in Range(Pending(t))
Once(used, waits, diverted, below) ==
    /\ used <=> waits \/ diverted \/ below
    /\ ~(waits /\ diverted) /\ ~(waits /\ below) /\ ~(diverted /\ below)
EachOnce == \A c \in Commands :
    Once(c \in InUse, Waits(c), last_atomic_cmd = c, ToCaller(c) \in Below)
Listed(places, used) ==
    IF used THEN \E p \in {"waits", "diverted", "below"} : places = {p} ELSE places = {}
Lists == \A c \in Commands : Listed(Places(c), c \in InUse)

LEMMA OneOfThree ==
    ASSUME NEW P, P \subseteq {"waits", "diverted", "below"}, NEW used
    PROVE  Listed(P, used) <=> Once(used, "waits" \in P, "diverted" \in P, "below" \in P)
<1>1. P = {} <=> ~("waits" \in P) /\ ~("diverted" \in P) /\ ~("below" \in P)
  OBVIOUS
<1>2. (\E p \in {"waits", "diverted", "below"} : P = {p})
        <=> /\ "waits" \in P \/ "diverted" \in P \/ "below" \in P
            /\ ~("waits" \in P /\ "diverted" \in P) /\ ~("waits" \in P /\ "below" \in P)
            /\ ~("diverted" \in P /\ "below" \in P)
  OBVIOUS
<1>3. CASE used
  BY <1>2, <1>3 DEF Once, Listed
<1>4. CASE ~used
  BY <1>1, <1>4 DEF Once, Listed
<1> QED
  BY <1>3, <1>4

LEMMA ListsOnce == Lists <=> EachOnce
<1> SUFFICES ASSUME NEW c \in Commands
             PROVE  Listed(Places(c), c \in InUse)
                      <=> Once(c \in InUse, Waits(c), last_atomic_cmd = c, ToCaller(c) \in Below)
  BY DEF Lists, EachOnce
<1>1. /\ Places(c) \subseteq {"waits", "diverted", "below"}
      /\ "waits" \in Places(c) <=> Waits(c)
      /\ "diverted" \in Places(c) <=> last_atomic_cmd = c
      /\ "below" \in Places(c) <=> ToCaller(c) \in Below
  BY DEF Places, Waits
<1>2. Once(c \in InUse, "waits" \in Places(c), "diverted" \in Places(c), "below" \in Places(c))
        <=> Once(c \in InUse, Waits(c), last_atomic_cmd = c, ToCaller(c) \in Below)
  BY <1>1 DEF Once
<1> QED
  BY <1>1, <1>2, OneOfThree

LEMMA ListsOnceNext == Lists' <=> EachOnce'
<1> SUFFICES ASSUME NEW c \in Commands
             PROVE  Listed(Places(c)', c \in InUse')
                      <=> Once(c \in InUse', Waits(c)', last_atomic_cmd' = c, ToCaller(c) \in Below')
  BY DEF Lists, EachOnce, ToCaller
<1>1. /\ Places(c)' \subseteq {"waits", "diverted", "below"}
      /\ "waits" \in Places(c)' <=> Waits(c)'
      /\ "diverted" \in Places(c)' <=> last_atomic_cmd' = c
      /\ "below" \in Places(c)' <=> ToCaller(c) \in Below'
  BY DEF Places, Waits, ToCaller
<1>2. Once(c \in InUse', "waits" \in Places(c)', "diverted" \in Places(c)', "below" \in Places(c)')
        <=> Once(c \in InUse', Waits(c)', last_atomic_cmd' = c, ToCaller(c) \in Below')
  BY <1>1 DEF Once
<1> QED
  BY <1>1, <1>2, OneOfThree

(* What waits, waits in the queue of its ticket; what is below, is there   *)
(* once.                                                                   *)
InQueues == \A t \in 0 .. MaxTickets :
    /\ IsInjective(Pending(t))
    /\ \A c \in Range(Pending(t)) : commands[c].ticket = t

LEMMA OnePlaceParts ==
    /\ OnePlace <=> EachOnce /\ InQueues /\ Distinct(connection, scheduler)
    /\ OnePlace' <=> EachOnce' /\ InQueues' /\ Distinct(connection', scheduler')
<1>1. OnePlace <=> Lists /\ InQueues /\ Distinct(connection, scheduler)
  BY DEF OnePlace, Lists, Listed, InQueues, Distinct
<1>2. OnePlace' <=> Lists' /\ InQueues' /\ Distinct(connection', scheduler')
  BY DEF OnePlace, Lists, Listed, InQueues, Distinct
<1> QED
  BY <1>1, <1>2, ListsOnce, ListsOnceNext

-----------------------------------------------------------------------------
(* The call takes a command that is not in use, and a ticket.              *)
LEMMA NewCommandIsFree ==
    ASSUME TypeOK, NEW s \in Slaves, NEW token \in {"none", "request", "cease"}, Bounded(s, token)
    PROVE  NewCommand \in Commands \ InUse
<1>1. PICK open : Cardinality(Commands \ InUse) > Cardinality(open) /\ IsFiniteSet(open)
  <2>1. IsFiniteSet(Slaves)
    BY SharingAssumption
  <2>2. \A S \in SUBSET Slaves : IsFiniteSet(S)
    BY <2>1, FS_Subset
  <2>3. InBlock \cup {s} \subseteq Slaves /\ InBlock \ {s} \subseteq Slaves /\ InBlock \subseteq Slaves
    BY DEF InBlock
  <2> QED
    BY <2>2, <2>3 DEF Bounded
<1>2. Cardinality(open) \in Nat
  BY <1>1, FS_CardinalityType
<1>3. Commands \ InUse # {}
  BY <1>1, <1>2, FS_EmptySet
<1>4. Commands \ InUse \subseteq Nat
  BY SharingAssumption
<1>5. \E c \in Commands \ InUse : \A d \in Commands \ InUse : c <= d
  BY <1>3, <1>4, Least
<1> QED
  BY <1>5 DEF NewCommand

NewCall(c, t, s, token) ==
    /\ c \in Commands /\ c \notin InUse /\ InUse' = InUse \cup {c}
    /\ commands'[c].ticket = t /\ (commands'[c].cease <=> token = "cease")
    /\ \A d \in Commands : d # c => commands'[d] = commands[d]
    /\ commands' \in [Commands ->
         {Free} \cup [api : Apis \cup {"NOOP"}, ticket : 0 .. MaxTickets, cease : BOOLEAN]]

LEMMA TakesCommand ==
    ASSUME TypeOK, NEW s \in Slaves, NEW api \in Apis, NEW token \in {"none", "request", "cease"},
           Call(s, api, token)
    PROVE  NewCall(NewCommand, IF token = "none" THEN 0 ELSE Ticket(s), s, token)
<1>1. PICK c \in Commands \ InUse : c = NewCommand
  BY NewCommandIsFree DEF Call
<1>2. PICK t : t = IF token = "none" THEN 0 ELSE Ticket(s)
  OBVIOUS
<1>3. t \in 0 .. MaxTickets
  BY <1>2, SharingAssumption DEF Call, Bounded, Ticket, TypeOK
<1>4. PICK x : x = [api |-> Effective(s, api), cease |-> token = "cease", ticket |-> t]
  OBVIOUS
<1>5. commands' = [commands EXCEPT ![c] = x]
  BY <1>1, <1>2, <1>4 DEF Call
<1>6. /\ x \in [api : Apis \cup {"NOOP"}, ticket : 0 .. MaxTickets, cease : BOOLEAN]
      /\ x.ticket = t /\ x.cease = (token = "cease") /\ x.api # "none"
  BY <1>3, <1>4, SharingAssumption DEF Effective
<1>7. x # Free
  BY <1>6 DEF Free
<1>8. PICK V : V = {Free} \cup [api : Apis \cup {"NOOP"}, ticket : 0 .. MaxTickets, cease : BOOLEAN]
  OBVIOUS
<1>9. commands \in [Commands -> V] /\ x \in V
  BY <1>6, <1>8 DEF TypeOK
<1>10. /\ commands' \in [Commands -> V] /\ commands'[c] = x
       /\ \A d \in Commands : d # c => commands'[d] = commands[d]
  BY <1>5, <1>9
<1>11. InUse' = InUse \cup {c}
  BY <1>7, <1>10 DEF InUse, Free
<1> QED
  BY <1>1, <1>2, <1>6, <1>8, <1>10, <1>11 DEF NewCall

Ticketed(t, s, token) ==
    /\ ticket_cnt' \in 0 .. MaxTickets /\ ticket_cnt <= ticket_cnt' /\ t \in 0 .. ticket_cnt'
    /\ current_ticket' \in [Slaves -> 0 .. ticket_cnt']
    /\ \A r \in Slaves : r # s => current_ticket'[r] = current_ticket[r]
    /\ t = 0 => token = "none" /\ current_ticket' = current_ticket /\ ticket_cnt' = ticket_cnt
    /\ t # 0 => /\ \/ s \in InBlock /\ t = current_ticket[s]
                   \/ s \notin InBlock /\ t = ticket_cnt + 1
                /\ \/ token = "request" /\ current_ticket'[s] = t
                   \/ token = "cease" /\ current_ticket'[s] = 0

LEMMA TakesTicket ==
    ASSUME TypeOK, NEW s \in Slaves, NEW api \in Apis, NEW token \in {"none", "request", "cease"},
           Call(s, api, token)
    PROVE  Ticketed(IF token = "none" THEN 0 ELSE Ticket(s), s, token)
<1>1. /\ ticket_cnt \in Nat /\ MaxTickets \in Nat /\ ticket_cnt <= MaxTickets
      /\ current_ticket \in [Slaves -> 0 .. ticket_cnt]
      /\ current_ticket[s] \in Nat /\ current_ticket[s] <= ticket_cnt
  BY SharingAssumption DEF TypeOK
<1>2. s \in InBlock <=> current_ticket[s] # 0
  BY DEF InBlock
<1>3. CASE token = "none"
  BY <1>1, <1>3 DEF Ticketed, Call, HandleTickets, slaveVars
<1>4. CASE token # "none"
  <2>1. PICK t : t = Ticket(s)
    OBVIOUS
  <2>2. /\ t \in Nat /\ t # 0 /\ t <= MaxTickets
        /\ (s \in InBlock /\ t = current_ticket[s] /\ ticket_cnt' = ticket_cnt)
           \/ (s \notin InBlock /\ t = ticket_cnt + 1 /\ ticket_cnt' = ticket_cnt + 1)
    BY <1>1, <1>2, <1>4, <2>1 DEF Call, Bounded, Ticket, HandleTickets
  <2>3. ticket_cnt' \in 0 .. MaxTickets /\ ticket_cnt <= ticket_cnt' /\ t \in 0 .. ticket_cnt'
    BY <1>1, <2>2
  <2>4. PICK u : u = (IF token = "request" THEN t ELSE 0)
    OBVIOUS
  <2>5. current_ticket' = [current_ticket EXCEPT ![s] = u] /\ u \in 0 .. ticket_cnt'
    BY <1>4, <2>1, <2>3, <2>4 DEF Call, HandleTickets
  <2>6. current_ticket \in [Slaves -> 0 .. ticket_cnt']
    <3>1. \A r \in Slaves : current_ticket[r] \in 0 .. ticket_cnt'
      BY <1>1, <2>3
    <3> QED
      BY <1>1, <3>1
  <2>7. /\ current_ticket' \in [Slaves -> 0 .. ticket_cnt'] /\ current_ticket'[s] = u
        /\ \A r \in Slaves : r # s => current_ticket'[r] = current_ticket[r]
    BY ONLY s \in Slaves, <2>5, <2>6
  <2>8. (token = "request" /\ u = t) \/ (token = "cease" /\ u = 0)
    BY <1>4, <2>4
  <2>9. (token = "request" /\ current_ticket'[s] = t) \/ (token = "cease" /\ current_ticket'[s] = 0)
    BY ONLY <2>7, <2>8
  <2>10. Ticketed(t, s, token)
    BY ONLY <2>2, <2>3, <2>7, <2>9 DEF Ticketed
  <2> QED
    BY <1>4, <2>1, <2>10
<1> QED
  BY <1>3, <1>4

LEMMA CallBegun ==
    ASSUME TypeOK, BlocksBegun, NEW s \in Slaves, NEW c, NEW t, NEW token,
           NewCall(c, t, s, token), Ticketed(t, s, token),
           t # 0 => t = active_ticket' \/ t \in Waiting',
           Waiting \subseteq Waiting', active_ticket' = active_ticket \/ InBlock = {}
    PROVE  BlocksBegun'
<1>1. /\ ticket_cnt \in Nat /\ ticket_cnt' \in Nat /\ ticket_cnt <= ticket_cnt'
      /\ t \in Nat /\ t <= ticket_cnt' /\ c \in Commands /\ commands'[c].ticket = t
      /\ InUse' = InUse \cup {c} /\ InUse \subseteq Commands /\ c \notin InUse
      /\ \A d \in InUse : commands'[d] = commands[d]
  BY SharingAssumption DEF NewCall, Ticketed, InUse, TypeOK
<1>2. \A d \in InUse : commands[d].ticket \in Nat /\ commands[d].ticket <= ticket_cnt
  <2>1. \A d \in Commands : commands[d].ticket \in 0 .. MaxTickets
    BY SharingAssumption DEF TypeOK, Free
  <2> QED
    BY <1>1, <2>1, SharingAssumption DEF BlocksBegun
<1>3. \A d \in InUse' : commands'[d].ticket <= ticket_cnt'
  <2>1. \A d \in InUse : commands[d].ticket <= ticket_cnt'
    BY <1>1, <1>2
  <2> QED
    BY <1>1, <2>1
<1>4. \A r \in InBlock' : \/ r # s /\ r \in InBlock /\ current_ticket'[r] = current_ticket[r]
                          \/ r = s /\ t = 0 /\ r \in InBlock /\ current_ticket'[r] = current_ticket[r]
                          \/ r = s /\ t # 0 /\ current_ticket'[r] = t /\ token = "request"
  BY DEF InBlock, Ticketed
<1>5. \A r \in InBlock : current_ticket[r] \in Nat \ {0} /\ current_ticket[r] <= ticket_cnt
  BY DEF InBlock, TypeOK
<1>6. t # 0 => \/ s \in InBlock /\ t = current_ticket[s]
               \/ s \notin InBlock /\ t = ticket_cnt + 1
  BY DEF Ticketed
<1>7. ASSUME NEW r \in InBlock', NEW q \in InBlock', current_ticket'[r] = current_ticket'[q]
      PROVE  r = q
  <2>1. \A p \in InBlock : p # s => t = 0 \/ current_ticket[p] # t
    <3>1. \A p \in InBlock : current_ticket[p] # ticket_cnt + 1
      BY <1>1, <1>5
    <3> QED
      BY <1>6, <3>1 DEF BlocksBegun
  <2> QED
    BY <1>4, <1>7, <2>1 DEF BlocksBegun
<1>8. ASSUME NEW r \in InBlock'
      PROVE  current_ticket'[r] = active_ticket' \/ current_ticket'[r] \in Waiting'
  BY <1>4, <1>8 DEF BlocksBegun
<1>9. ASSUME NEW r \in InBlock', NEW d \in InUse', commands'[d].ticket = current_ticket'[r]
      PROVE  ~commands'[d].cease
  <2>1. CASE d = c
    <3>1. t # 0
      BY <1>1, <1>4, <1>5, <1>9, <2>1
    <3>2. token = "request"
      <4>1. r = s
        <5> SUFFICES ASSUME r # s PROVE FALSE
          OBVIOUS
        <5>1. r \in InBlock /\ current_ticket[r] = t
          BY <1>1, <1>4, <1>9, <2>1
        <5>2. t # ticket_cnt + 1
          BY <1>1, <1>5, <5>1
        <5>3. s \in InBlock /\ t = current_ticket[s]
          BY <1>6, <3>1, <5>2
        <5> QED
          BY <5>1, <5>3 DEF BlocksBegun
      <4> QED
        BY <1>4, <3>1, <4>1
    <3> QED
      BY <2>1, <3>2 DEF NewCall
  <2>2. CASE d # c
    <3>1. d \in InUse /\ commands'[d] = commands[d]
      BY <1>1, <2>2
    <3>2. CASE r \in InBlock /\ current_ticket'[r] = current_ticket[r]
      BY <1>9, <3>1, <3>2 DEF BlocksBegun
    <3>3. CASE r = s /\ t # 0 /\ current_ticket'[r] = t
      <4>1. t # ticket_cnt + 1
        BY <1>1, <1>2, <1>9, <3>1, <3>3
      <4>2. s \in InBlock /\ t = current_ticket[s]
        BY <1>6, <3>3, <4>1
      <4> QED
        BY <1>9, <3>1, <3>3, <4>2 DEF BlocksBegun
    <3> QED
      BY <1>4, <3>2, <3>3
  <2> QED
    BY <2>1, <2>2
<1> QED
  BY <1>3, <1>7, <1>8, <1>9 DEF BlocksBegun

LEMMA SingleQueue ==
    ASSUME NEW S, NEW e \in S
    PROVE  /\ <<e>> \in Seq(S) /\ DOMAIN <<e>> = {1} /\ <<e>>[1] = e /\ Len(<<e>>) = 1
           /\ Range(<<e>>) = {e} /\ IsInjective(<<e>>)
<1>1. <<e>> \in Seq(S) /\ DOMAIN <<e>> = {1} /\ <<e>>[1] = e /\ Len(<<e>>) = 1
  <2>1. \A x \in S : <<x>> \in Seq(S)
    OBVIOUS
  <2> QED
    BY <2>1
<1> QED
  BY <1>1 DEF Range, IsInjective

LEMMA LineTypes ==
    ASSUME NEW l \in Seq(Nat), NEW n \in Nat, \A i \in DOMAIN l : l[i] <= n
    PROVE  l \in Seq(0 .. n)
<1>1. \A i \in 1 .. Len(l) : l[i] \in 0 .. n
  OBVIOUS
<1> QED
  BY <1>1

LEMMA LineNow ==
    ASSUME TypeOK, Increasing(line)
    PROVE  /\ line \in Seq(Nat) /\ Increasing(line) /\ Under(line, ticket_cnt + 1)
           /\ ticket_cnt + 1 \in Nat \ {0}
<1>1. ticket_cnt \in Nat /\ line \in Seq(0 .. ticket_cnt)
  BY SharingAssumption DEF TypeOK
<1>2. \A i \in DOMAIN line : line[i] \in 0 .. ticket_cnt
  BY <1>1
<1>3. \A i \in DOMAIN line : line[i] < ticket_cnt + 1
  BY <1>1, <1>2
<1>4. line \in Seq(Nat)
  BY <1>1
<1> QED
  BY <1>1, <1>3, <1>4 DEF Under

LEMMA Numbered == TypeOK => TicketNumbers(commands)
  BY SharingAssumption DEF TypeOK, TicketNumbers, Free

LEMMA NumberedNext ==
    ASSUME commands' \in [Commands ->
         {Free} \cup [api : Apis \cup {"NOOP"}, ticket : 0 .. MaxTickets, cease : BOOLEAN]]
    PROVE  TicketNumbers(commands')
  BY SharingAssumption DEF TicketNumbers, Free

(* A call that goes right to the real connection: nobody has the line, or  *)
(* it is the caller's.                                                     *)
LEMMA DirectFacts ==
    ASSUME Orderly, NEW s \in Slaves, NEW t, NEW token, Ticketed(t, s, token),
           active_ticket \in {0, t}
    PROVE  /\ last_atomic_cmd = 0
           /\ active_ticket = 0 => non_atomic = <<>> /\ Waiting = {} /\ InBlock = {}
           /\ active_ticket # 0 => s \in InBlock
           /\ active_ticket = 0 /\ t # 0 => t = ticket_cnt + 1
<1> USE DEF Orderly
<1>1. active_ticket = 0 => last_atomic_cmd = 0 /\ non_atomic = <<>> /\ Waiting = {} /\ InBlock = {}
  BY DEF EndOfBlockExpected, BlocksBegun, InBlock
<1>2. ASSUME active_ticket # 0 PROVE s \in InBlock /\ last_atomic_cmd = 0
  <2>1. t = active_ticket /\ active_ticket \in 0 .. ticket_cnt /\ ticket_cnt \in Nat
    BY <1>2, SharingAssumption DEF TypeOK
  <2>2. t # ticket_cnt + 1
    BY <2>1
  <2>3. s \in InBlock /\ current_ticket[s] = active_ticket
    BY <1>2, <2>1, <2>2 DEF Ticketed
  <2>4. last_atomic_cmd # 0 => last_atomic_cmd \in InUse
    BY OnePlaceParts DEF EachOnce, Once, TypeOK
  <2>5. last_atomic_cmd # 0 => /\ commands[last_atomic_cmd].ticket = current_ticket[s]
                               /\ commands[last_atomic_cmd].cease
    BY <2>3 DEF BlocksToCome
  <2> QED
    BY <2>3, <2>4, <2>5 DEF BlocksBegun
<1>3. active_ticket = 0 /\ t # 0 => t = ticket_cnt + 1
  BY <1>1 DEF Ticketed
<1> QED
  BY <1>1, <1>2, <1>3

LEMMA DirectLine ==
    ASSUME Orderly, NEW s \in Slaves, NEW c \in Commands, NEW t \in Nat, NEW token,
           Ticketed(t, s, token), TicketNumbers(commands'), commands'[c].ticket = t,
           active_ticket \in {0, t}, NEW e \in Answers, e.cmd = c,
           Issue(commands', <<e>>, scheduler)
    PROVE  /\ line' \in Seq(0 .. ticket_cnt') /\ Increasing(line')
           /\ t # 0 => UpTo(line', t)
<1> USE DEF Orderly
<1>1. /\ line \in Seq(Nat) /\ Increasing(line) /\ Under(line, ticket_cnt + 1)
      /\ ticket_cnt + 1 \in Nat \ {0} /\ ticket_cnt \in Nat
  BY LineNow, SharingAssumption DEF TypeOK
<1>2. PICK b \in Nat \ {0} : b = IF t = 0 THEN ticket_cnt + 1 ELSE t
  BY <1>1
<1>3. PICK k \in Nat : k = IF t = 0 THEN 1 ELSE 0
  OBVIOUS
<1>4. PICK fresh \in BOOLEAN : fresh <=> active_ticket = 0
  BY ONLY TRUE \in BOOLEAN, FALSE \in BOOLEAN, Zenon
<1>5. PICK entries \in Seq(Answers) : entries = <<e>>
  BY SingleQueue
<1>6. DOMAIN entries = {1} /\ entries[1] = e /\ Len(entries) = 1
  BY <1>5, SingleQueue
<1>7. Ranked(commands', entries, k, b)
  BY <1>2, <1>3, <1>6 DEF Ranked
<1>8. InOrder(line, b, fresh)
  <2>1. CASE active_ticket = 0
    <3>1. b = ticket_cnt + 1
      BY <1>2, <2>1, DirectFacts
    <3>2. UpTo(line, b)
      BY <1>1, <3>1 DEF Under, UpTo
    <3> QED
      BY <1>1, <3>1, <3>2 DEF InOrder
  <2>2. CASE active_ticket # 0
    <3>1. t = active_ticket /\ b = t
      BY <1>2, <2>2
    <3>2. UpTo(line, b)
      BY <2>2, <3>1 DEF BlocksToCome, UpTo
    <3> QED
      BY <1>1, <1>4, <2>2, <3>2 DEF InOrder
  <2> QED
    BY <2>1, <2>2
<1>9. k > 0 => fresh
  BY <1>3, <1>4
<1>10. connection \in Seq(Answers) /\ scheduler \in Seq(Answers) /\ Issue(commands', entries, scheduler)
  BY <1>5 DEF TypeOK
<1>11. InOrder(line', b, fresh /\ Len(entries) <= k)
  BY <1>7, <1>8, <1>9, <1>10, IssueLine
<1>12. /\ line' \in Seq(Nat) /\ Increasing(line') /\ UpTo(line', b)
       /\ t = 0 => Under(line', b)
  BY <1>3, <1>4, <1>6, <1>11 DEF InOrder
<1>13. PICK l \in Seq(Nat) : l = line'
  BY <1>12
<1>14. ticket_cnt' \in Nat /\ ticket_cnt <= ticket_cnt' /\ t <= ticket_cnt'
  BY SharingAssumption DEF Ticketed
<1>15. \A i \in DOMAIN l : l[i] \in Nat
  OBVIOUS
<1>16. \A i \in DOMAIN l : l[i] <= ticket_cnt'
  <2>1. CASE t = 0
    <3>1. \A i \in DOMAIN l : l[i] < ticket_cnt + 1
      BY <1>2, <1>12, <1>13, <2>1 DEF Under
    <3> QED
      BY <1>1, <1>14, <1>15, <3>1
  <2>2. CASE t # 0
    <3>1. \A i \in DOMAIN l : l[i] < t \/ l[i] = t
      BY <1>2, <1>12, <1>13, <2>2 DEF UpTo
    <3>2. ticket_cnt' \in Nat /\ t <= ticket_cnt'
      BY <1>14
    <3> QED
      BY ONLY t \in Nat, <3>2, <1>15, <3>1
  <2> QED
    BY <2>1, <2>2
<1> QED
  BY <1>2, <1>12, <1>13, <1>14, <1>16, LineTypes

LEMMA CallDirect ==
    ASSUME Orderly, NEW s \in Slaves, NEW c, NEW t, NEW token,
           NewCall(c, t, s, token), Ticketed(t, s, token), active_ticket \in {0, t},
           HandleAtomicBlock(commands', c), UNCHANGED doubled
    PROVE  Orderly'
<1> USE DEF Orderly
<1>1. PICK e : e = Diverted(commands', c)
  OBVIOUS
<1>2. /\ active_ticket' = t /\ Issue(commands', <<e>>, scheduler)
      /\ last_atomic_cmd' = IF commands'[c].cease THEN c ELSE last_atomic_cmd
      /\ non_atomic' = non_atomic /\ atomic' = atomic
  BY <1>1 DEF HandleAtomicBlock, NewCall
<1>3. c \in Commands /\ c \notin InUse /\ c # 0 /\ InUse' = InUse \cup {c} /\ commands'[c].ticket = t
  BY SharingAssumption DEF NewCall
<1>4. e \in Answers /\ e.cmd = c
  BY <1>1, <1>3 DEF Diverted, ToCaller, ToEndOfBlock, Answers
<1>5. /\ last_atomic_cmd = 0
      /\ active_ticket = 0 => non_atomic = <<>> /\ Waiting = {} /\ InBlock = {}
      /\ active_ticket # 0 => s \in InBlock
  BY DirectFacts
<1>6. TicketNumbers(commands')
  BY NumberedNext DEF NewCall
<1>7. t \in Nat /\ t \in 0 .. ticket_cnt' /\ ticket_cnt' \in 0 .. MaxTickets
  BY SharingAssumption DEF Ticketed
<1>8. EachOnce /\ InQueues /\ Distinct(connection, scheduler)
  BY OnePlaceParts
<1>9. ~Waits(c) /\ ToCaller(c) \notin Below
  BY <1>3, <1>8 DEF EachOnce, Once
<1>10. \A d \in Commands : ToEndOfBlock(d) \notin Below
  BY <1>5 DEF EndOfBlockExpected, ToEndOfBlock
<1>11. e \notin Below
  BY <1>1, <1>3, <1>9, <1>10 DEF Diverted
<1>12. /\ connection' \in Seq(Answers) /\ scheduler' \in Seq(Answers)
       /\ Distinct(connection', scheduler') /\ Below' = Below \cup {e}
  <2>1. connection \in Seq(Answers) /\ scheduler \in Seq(Answers) /\ line \in Seq(Nat)
    BY LineNow DEF TypeOK
  <2>2. PICK entries \in Seq(Answers) : entries = <<e>>
    BY <1>4, SingleQueue
  <2>3. Range(entries) = {e} /\ IsInjective(entries)
    BY <1>4, <2>2, SingleQueue
  <2>4. Range(entries) \cap (Range(connection) \cup Range(scheduler)) = {}
    BY <1>11, <2>3 DEF Below
  <2>5. AllIssued(entries, scheduler)
    BY <1>2, <1>6, <1>8, <2>1, <2>2, <2>3, <2>4, IssueQueues
  <2> QED
    BY <2>3, <2>5 DEF AllIssued, Below
<1>13. /\ line' \in Seq(0 .. ticket_cnt') /\ Increasing(line')
       /\ t # 0 => UpTo(line', t)
  BY <1>2, <1>3, <1>4, <1>6, <1>7, DirectLine
<1>14. Waiting' = Waiting /\ (\A x : Pending(x)' = Pending(x)) /\ \A d : Waits(d)' <=> Waits(d)
  BY <1>2 DEF Waiting, Pending, Waits
<1>15. TypeOK'
  BY <1>2, <1>3, <1>7, <1>12, <1>13 DEF TypeOK, NewCall, Ticketed
<1>16. EachOnce'
  <2> SUFFICES ASSUME NEW d \in Commands
               PROVE  Once(d \in InUse', Waits(d)', last_atomic_cmd' = d, ToCaller(d) \in Below')
    BY DEF EachOnce, ToCaller
  <2>1. d # 0
    BY SharingAssumption
  <2>2. CASE d = c
    <3>1. CASE commands'[c].cease
      <4>1. ToCaller(d) \notin Below' /\ last_atomic_cmd' = d
        BY <1>1, <1>2, <1>9, <1>12, <2>2, <3>1 DEF Diverted, ToCaller, ToEndOfBlock
      <4> QED
        BY <1>3, <1>9, <1>14, <2>2, <4>1 DEF Once
    <3>2. CASE ~commands'[c].cease
      <4>1. ToCaller(d) \in Below' /\ last_atomic_cmd' # d
        BY <1>1, <1>2, <1>5, <1>12, <2>1, <2>2, <3>2 DEF Diverted
      <4> QED
        BY <1>3, <1>9, <1>14, <2>2, <4>1 DEF Once
    <3> QED
      BY <3>1, <3>2
  <2>3. CASE d # c
    <3>1. ToCaller(d) \in Below' <=> ToCaller(d) \in Below
      BY <1>4, <1>12, <2>3 DEF ToCaller
    <3>2. last_atomic_cmd' # d /\ last_atomic_cmd # d
      BY <1>2, <1>5, <2>1, <2>3
    <3>3. Once(d \in InUse, Waits(d), last_atomic_cmd = d, ToCaller(d) \in Below)
      BY <1>8 DEF EachOnce
    <3> QED
      BY <1>3, <1>14, <2>3, <3>1, <3>2, <3>3 DEF Once
  <2> QED
    BY <2>2, <2>3
<1>17. InQueues'
  <2> SUFFICES ASSUME NEW x \in 0 .. MaxTickets
               PROVE  /\ IsInjective(Pending(x)')
                      /\ \A d \in Range(Pending(x)') : commands'[d].ticket = x
    BY DEF InQueues
  <2>1. IsInjective(Pending(x)) /\ \A d \in Range(Pending(x)) : d # c /\ commands[d].ticket = x
    BY <1>8, <1>9 DEF InQueues, Waits
  <2>2. \A d \in Range(Pending(x)) : d \in Commands
    BY DEF TypeOK, Pending, Range, Tickets
  <2> QED
    BY <1>14, <2>1, <2>2 DEF NewCall
<1>18. EndOfBlockExpected'
  <2>1. { a \in Below : a.to = "endofblock" } = {}
    BY <1>5 DEF EndOfBlockExpected
  <2>2. { a \in Below' : a.to = "endofblock" } = IF e.to = "endofblock" THEN {e} ELSE {}
    BY <1>12, <2>1
  <2>3. { a \in Below' : a.to = "endofblock" } =
            IF last_atomic_cmd' = 0 THEN {} ELSE {ToEndOfBlock(last_atomic_cmd')}
    BY <1>1, <1>2, <1>3, <1>5, <2>2 DEF Diverted, ToCaller, ToEndOfBlock
  <2>4. active_ticket' = 0 => last_atomic_cmd' = 0 /\ non_atomic' = <<>> /\ Waiting' = {}
    <3>1. t = 0 => ~commands'[c].cease
      BY DEF Ticketed, NewCall
    <3>2. t = 0 => active_ticket = 0
      OBVIOUS
    <3> QED
      BY <1>2, <1>5, <1>14, <3>1, <3>2
  <2> QED
    BY <2>3, <2>4 DEF EndOfBlockExpected, ToEndOfBlock
<1>19. BlocksBegun'
  BY <1>2, <1>5, <1>14, CallBegun
<1>20. BlocksToCome'
  <2>1. \A x \in Waiting' : active_ticket' < x
    BY <1>2, <1>5, <1>14 DEF BlocksToCome
  <2>2. last_atomic_cmd' # 0 => /\ commands'[last_atomic_cmd'].cease
                                /\ commands'[last_atomic_cmd'].ticket = active_ticket'
    BY <1>2, <1>3, <1>5
  <2> QED
    BY <1>2, <1>13, <2>1, <2>2 DEF BlocksToCome, UpTo
<1>21. Increasing(line')
  BY <1>13
<1> QED
  BY <1>12, <1>15, <1>16, <1>17, <1>18, <1>19, <1>20, <1>21, OnePlaceParts

LEMMA PendingTypes ==
    TypeOK => \A t \in 0 .. MaxTickets : Pending(t) \in Seq(Commands)
  BY SharingAssumption DEF TypeOK, Pending, Tickets

(* A call that waits in the master for the block that has the line.        *)
LEMMA CallQueued ==
    ASSUME Orderly, NEW s \in Slaves, NEW c, NEW t, NEW token,
           NewCall(c, t, s, token), Ticketed(t, s, token), active_ticket \notin {0, t},
           HandleAtomicBlock(commands', c), UNCHANGED doubled
    PROVE  Orderly'
<1> USE DEF Orderly
<1>1. /\ UNCHANGED <<active_ticket, last_atomic_cmd, lowerVars>>
      /\ t = 0 => non_atomic' = Append(non_atomic, c) /\ atomic' = atomic
      /\ t # 0 => /\ non_atomic' = non_atomic
                  /\ atomic' = [atomic EXCEPT ![t] = Append(@, c)]
  BY DEF HandleAtomicBlock, NewCall
<1>2. connection' = connection /\ scheduler' = scheduler /\ line' = line
  BY <1>1 DEF lowerVars
<1>3. c \in Commands /\ c \notin InUse /\ c # 0 /\ InUse' = InUse \cup {c} /\ commands'[c].ticket = t
  BY SharingAssumption DEF NewCall
<1>4. /\ t \in 0 .. MaxTickets /\ (t # 0 => t \in Tickets) /\ MaxTickets \in Nat
      /\ ticket_cnt \in Nat /\ ticket_cnt' \in 0 .. MaxTickets /\ ticket_cnt <= ticket_cnt'
      /\ active_ticket \in Nat /\ active_ticket <= ticket_cnt
  BY SharingAssumption DEF Ticketed, Tickets, TypeOK
<1>5. EachOnce /\ InQueues /\ Distinct(connection, scheduler)
  BY OnePlaceParts
<1>6. ~Waits(c) /\ ToCaller(c) \notin Below /\ last_atomic_cmd # c
  BY <1>3, <1>5 DEF EachOnce, Once
<1>7. PICK q \in Seq(Commands) : q = Pending(t)
  BY <1>4, PendingTypes
<1>8. atomic \in [Tickets -> Seq(Commands)] /\ non_atomic \in Seq(Commands)
  BY DEF TypeOK
<1>9. /\ Append(q, c) \in Seq(Commands) /\ Range(Append(q, c)) = Range(q) \cup {c}
      /\ IsInjective(q) /\ c \notin Range(q) => IsInjective(Append(q, c))
  BY <1>3, AppendQueue
<1>10. PICK p \in Seq(Commands) : p = Append(q, c)
  BY <1>9
<1>11. /\ Pending(t)' = p
       /\ \A x \in 0 .. MaxTickets : x # t => Pending(x)' = Pending(x)
       /\ atomic' \in [Tickets -> Seq(Commands)] /\ non_atomic' \in Seq(Commands)
  <2>1. CASE t = 0
    <3>1. non_atomic' = p /\ atomic' = atomic
      BY <1>1, <1>7, <1>10, <2>1 DEF Pending
    <3> QED
      BY <1>8, <2>1, <3>1 DEF Pending
  <2>2. CASE t # 0
    <3>1. non_atomic' = non_atomic /\ atomic' = [atomic EXCEPT ![t] = p]
      BY <1>1, <1>7, <1>10, <2>2 DEF Pending
    <3>2. /\ atomic' \in [Tickets -> Seq(Commands)] /\ atomic'[t] = p
          /\ \A x \in Tickets : x # t => atomic'[x] = atomic[x]
      BY <1>4, <1>8, <2>2, <3>1
    <3>3. \A x \in 0 .. MaxTickets : x = 0 \/ x \in Tickets
      BY DEF Tickets
    <3> QED
      BY <1>8, <2>2, <3>1, <3>2, <3>3 DEF Pending
  <2> QED
    BY <2>1, <2>2
<1>12. p # <<>>
  <2>1. \A u \in Seq(Commands) : Append(u, c) # <<>>
    BY <1>3
  <2> QED
    BY <1>10, <2>1
<1>13. Waiting' = IF t = 0 THEN Waiting ELSE Waiting \cup {t}
  <2>1. \A x \in Tickets : x \in 0 .. MaxTickets /\ x # 0 /\ Pending(x) = atomic[x] /\ Pending(x)' = atomic'[x]
    BY DEF Tickets, Pending
  <2>2. \A x \in Tickets : x # t => atomic'[x] = atomic[x]
    BY <1>11, <2>1
  <2>3. t # 0 => atomic'[t] # <<>>
    BY <1>4, <1>11, <1>12, <2>1
  <2> QED
    BY <1>4, <2>1, <2>2, <2>3 DEF Waiting
<1>14. /\ Waits(c)'
       /\ \A d \in Commands : d # c => (Waits(d)' <=> Waits(d))
  <2>1. Range(p) = Range(Pending(t)) \cup {c}
    BY <1>7, <1>9, <1>10
  <2>2. Range(Pending(t)') = Range(Pending(t)) \cup {c}
    BY <1>11, <2>1
  <2> QED
    BY <1>4, <1>11, <2>2 DEF Waits
<1>15. t # 0 => active_ticket < t
  <2>1. t = ticket_cnt + 1 => active_ticket < t
    BY <1>4
  <2>2. s \in InBlock /\ t = current_ticket[s] => t \in Waiting
    BY DEF BlocksBegun
  <2> QED
    BY <2>1, <2>2 DEF Ticketed, BlocksToCome
<1>16. Below' = Below
  BY <1>2 DEF Below
<1>17. TypeOK'
  <2>1. line \in Seq(0 .. ticket_cnt')
    <3>1. /\ line \in Seq(Nat) /\ \A i \in DOMAIN line : line[i] \in 0 .. ticket_cnt
      BY LineNow DEF TypeOK
    <3>2. \A i \in DOMAIN line : line[i] <= ticket_cnt'
      BY <1>4, <3>1
    <3> QED
      BY <1>4, <3>1, <3>2, LineTypes
  <2>2. active_ticket \in 0 .. ticket_cnt'
    BY <1>4
  <2> QED
    BY <1>1, <1>2, <1>4, <1>11, <2>1, <2>2 DEF TypeOK, NewCall, Ticketed
<1>18. EachOnce'
  <2> SUFFICES ASSUME NEW d \in Commands
               PROVE  Once(d \in InUse', Waits(d)', last_atomic_cmd' = d, ToCaller(d) \in Below')
    BY DEF EachOnce, ToCaller
  <2>1. last_atomic_cmd' = last_atomic_cmd
    BY <1>1
  <2>2. CASE d = c
    BY <1>3, <1>6, <1>14, <1>16, <2>1, <2>2 DEF Once
  <2>3. CASE d # c
    <3>1. Once(d \in InUse, Waits(d), last_atomic_cmd = d, ToCaller(d) \in Below)
      BY <1>5 DEF EachOnce
    <3> QED
      BY <1>3, <1>14, <1>16, <2>1, <2>3, <3>1 DEF Once
  <2> QED
    BY <2>2, <2>3
<1>19. InQueues'
  <2> SUFFICES ASSUME NEW x \in 0 .. MaxTickets
               PROVE  /\ IsInjective(Pending(x)')
                      /\ \A d \in Range(Pending(x)') : commands'[d].ticket = x
    BY DEF InQueues
  <2>1. IsInjective(Pending(x)) /\ \A d \in Range(Pending(x)) : d # c /\ commands[d].ticket = x
    BY <1>5, <1>6 DEF InQueues, Waits
  <2>2. \A d \in Range(Pending(x)) : d \in Commands
    BY PendingTypes DEF Range
  <2>3. \A d \in Range(Pending(x)) : commands'[d].ticket = x
    BY <2>1, <2>2 DEF NewCall
  <2>4. CASE x = t
    <3>1. IsInjective(p) /\ Range(p) = Range(Pending(x)) \cup {c}
      BY <1>7, <1>9, <1>10, <2>1, <2>4
    <3> QED
      BY <1>3, <1>11, <2>3, <2>4, <3>1
  <2>5. CASE x # t
    BY <1>11, <2>1, <2>3, <2>5
  <2> QED
    BY <2>4, <2>5
<1>20. EndOfBlockExpected'
  BY <1>1, <1>16 DEF EndOfBlockExpected, ToEndOfBlock
<1>21. BlocksBegun'
  <2>1. t # 0 => t \in Waiting'
    BY <1>13
  <2> QED
    BY <1>1, <1>13, <2>1, CallBegun
<1>22. BlocksToCome'
  <2>1. \A x \in Waiting' : active_ticket' < x
    BY <1>1, <1>13, <1>15 DEF BlocksToCome
  <2>2. last_atomic_cmd # 0 => commands'[last_atomic_cmd] = commands[last_atomic_cmd]
    BY <1>6 DEF NewCall, TypeOK
  <2> QED
    BY <1>1, <1>2, <2>1, <2>2 DEF BlocksToCome
<1>23. Increasing(line')
  BY <1>2 DEF Increasing
<1> QED
  BY <1>2, <1>5, <1>17, <1>18, <1>19, <1>20, <1>21, <1>22, <1>23, OnePlaceParts

LEMMA CallStep ==
    ASSUME Orderly, NEW s \in Slaves, NEW api \in Apis,
           NEW token \in {"none", "request", "cease"}, Call(s, api, token)
    PROVE  Orderly'
<1>1. TypeOK
  BY DEF Orderly
<1>2. PICK c, t : NewCall(c, t, s, token) /\ Ticketed(t, s, token) /\ c = NewCommand
  BY <1>1, TakesCommand, TakesTicket
<1>3. HandleAtomicBlock(commands', c) /\ UNCHANGED doubled
  BY <1>2 DEF Call
<1>4. active_ticket \in {0, t} \/ active_ticket \notin {0, t}
  OBVIOUS
<1> QED
  BY <1>2, <1>3, <1>4, CallDirect, CallQueued

-----------------------------------------------------------------------------
(* The scheduler executes the answer to a caller.                          *)
LEMMA CallerStep ==
    ASSUME Orderly, CallerAnswered PROVE Orderly'
<1> USE DEF Orderly
<1>1. EachOnce /\ InQueues /\ Distinct(connection, scheduler)
  BY OnePlaceParts
<1>2. scheduler \in Seq(Answers) /\ scheduler # <<>>
  BY DEF TypeOK, CallerAnswered, Executes
<1>3. /\ scheduler' \in Seq(Answers) /\ Head(scheduler) \in Range(scheduler)
      /\ Range(scheduler') = Range(scheduler) \ {Head(scheduler)} /\ IsInjective(scheduler')
  BY <1>1, <1>2, TailQueue DEF CallerAnswered, Distinct
<1>4. PICK e \in Answers : e = Head(scheduler) /\ e.to = "caller"
  BY <1>2 DEF CallerAnswered, Executes
<1>5. PICK c \in Commands : c = e.cmd /\ e = ToCaller(c)
  <2>1. e = [to |-> e.to, cmd |-> e.cmd] /\ e.cmd \in Commands
    BY DEF Answers
  <2> QED
    BY <1>4, <2>1 DEF ToCaller
<1>6. /\ connection' = connection /\ line' = line /\ current_ticket' = current_ticket
      /\ ticket_cnt' = ticket_cnt /\ active_ticket' = active_ticket
      /\ last_atomic_cmd' = last_atomic_cmd /\ non_atomic' = non_atomic /\ atomic' = atomic
      /\ commands' = [commands EXCEPT ![c] = Free] /\ doubled' = doubled
  BY <1>4, <1>5 DEF CallerAnswered, slaveVars, masterVars
<1>7. Below' = Below \ {ToCaller(c)} /\ ToCaller(c) \in Below /\ Distinct(connection', scheduler')
  BY <1>1, <1>3, <1>4, <1>5, <1>6 DEF Below, Distinct
<1>8. PICK V : V = {Free} \cup [api : Apis \cup {"NOOP"}, ticket : 0 .. MaxTickets, cease : BOOLEAN]
  OBVIOUS
<1>9. /\ commands' \in [Commands -> V] /\ commands'[c] = Free
      /\ \A d \in Commands : d # c => commands'[d] = commands[d]
  <2>1. commands \in [Commands -> V] /\ Free \in V
    BY <1>8 DEF TypeOK
  <2> QED
    BY <1>6, <2>1
<1>10. InUse' = InUse \ {c}
  BY <1>9 DEF InUse, Free
<1>11. ~Waits(c) /\ last_atomic_cmd # c
  BY <1>1, <1>7 DEF EachOnce, Once
<1>12. Waiting' = Waiting /\ (\A x : Pending(x)' = Pending(x)) /\ \A d : Waits(d)' <=> Waits(d)
  BY <1>6 DEF Waiting, Pending, Waits
<1>13. TypeOK'
  BY <1>3, <1>6, <1>8, <1>9 DEF TypeOK, Free
<1>14. EachOnce'
  <2> SUFFICES ASSUME NEW d \in Commands
               PROVE  Once(d \in InUse', Waits(d)', last_atomic_cmd' = d, ToCaller(d) \in Below')
    BY DEF EachOnce, ToCaller
  <2>1. CASE d = c
    BY <1>6, <1>7, <1>10, <1>11, <1>12, <2>1 DEF Once
  <2>2. CASE d # c
    <3>1. ToCaller(d) \in Below' <=> ToCaller(d) \in Below
      BY <1>7, <2>2 DEF ToCaller
    <3>2. Once(d \in InUse, Waits(d), last_atomic_cmd = d, ToCaller(d) \in Below)
      BY <1>1 DEF EachOnce
    <3> QED
      BY <1>6, <1>10, <1>12, <2>2, <3>1, <3>2 DEF Once
  <2> QED
    BY <2>1, <2>2
<1>15. InQueues'
  <2> SUFFICES ASSUME NEW x \in 0 .. MaxTickets
               PROVE  /\ IsInjective(Pending(x)')
                      /\ \A d \in Range(Pending(x)') : commands'[d].ticket = x
    BY DEF InQueues
  <2>1. IsInjective(Pending(x)) /\ \A d \in Range(Pending(x)) : d # c /\ commands[d].ticket = x
    BY <1>1, <1>11 DEF InQueues, Waits
  <2>2. \A d \in Range(Pending(x)) : d \in Commands
    BY PendingTypes DEF Range
  <2> QED
    BY <1>9, <1>12, <2>1, <2>2
<1>16. EndOfBlockExpected'
  <2>1. { a \in Below' : a.to = "endofblock" } = { a \in Below : a.to = "endofblock" }
    BY <1>7 DEF ToCaller
  <2> QED
    BY <1>6, <1>12, <2>1 DEF EndOfBlockExpected, ToEndOfBlock
<1>17. BlocksBegun'
  <2>1. InBlock' = InBlock
    BY <1>6 DEF InBlock
  <2>2. \A d \in InUse' : d \in InUse /\ commands'[d] = commands[d]
    BY <1>9, <1>10 DEF InUse
  <2> QED
    BY <1>6, <1>12, <2>1, <2>2 DEF BlocksBegun
<1>18. BlocksToCome'
  <2>1. last_atomic_cmd # 0 => commands'[last_atomic_cmd] = commands[last_atomic_cmd]
    BY <1>9, <1>11 DEF TypeOK
  <2> QED
    BY <1>6, <1>12, <2>1 DEF BlocksToCome
<1>19. Increasing(line')
  BY <1>6 DEF Increasing
<1> QED
  BY <1>7, <1>13, <1>14, <1>15, <1>16, <1>17, <1>18, <1>19, OnePlaceParts

-----------------------------------------------------------------------------
(* The connection hands operations over to the main queue.                 *)
LEMMA HandedOver ==
    ASSUME Orderly, UNCHANGED <<commands, slaveVars, masterVars, line, doubled>>,
           connection' \in Seq(Answers), scheduler' \in Seq(Answers),
           Distinct(connection', scheduler'), Below' = Below
    PROVE  Orderly'
<1> USE DEF Orderly
<1>1. EachOnce /\ InQueues
  BY OnePlaceParts
<1>2. /\ commands' = commands /\ line' = line /\ current_ticket' = current_ticket
      /\ ticket_cnt' = ticket_cnt /\ active_ticket' = active_ticket
      /\ last_atomic_cmd' = last_atomic_cmd /\ non_atomic' = non_atomic /\ atomic' = atomic
      /\ doubled' = doubled
  BY DEF slaveVars, masterVars
<1>3. /\ InUse' = InUse /\ InBlock' = InBlock /\ Waiting' = Waiting
      /\ (\A x : Pending(x)' = Pending(x)) /\ \A d : Waits(d)' <=> Waits(d)
  BY <1>2 DEF InUse, InBlock, Waiting, Pending, Waits
<1>4. TypeOK'
  BY <1>2 DEF TypeOK
<1>5. EachOnce' /\ InQueues'
  BY <1>1, <1>2, <1>3 DEF EachOnce, InQueues, Once, ToCaller
<1>6. EndOfBlockExpected'
  BY <1>2, <1>3 DEF EndOfBlockExpected, ToEndOfBlock
<1>7. BlocksBegun' /\ BlocksToCome' /\ Increasing(line')
  BY <1>2, <1>3 DEF BlocksBegun, BlocksToCome, Increasing
<1> QED
  BY <1>4, <1>5, <1>6, <1>7, OnePlaceParts

LEMMA AnswerStep ==
    ASSUME Orderly, ConnectionAnswers PROVE Orderly'
<1>1. /\ connection \in Seq(Answers) /\ scheduler \in Seq(Answers)
      /\ Distinct(connection, scheduler)
  BY OnePlaceParts DEF Orderly, TypeOK
<1>2. connection # <<>> /\ connection' = Tail(connection)
  BY DEF ConnectionAnswers
<1>3. PICK e \in Answers : e = Head(connection)
  BY <1>1, <1>2
<1>4. scheduler' = Append(scheduler, e)
  BY <1>3 DEF ConnectionAnswers
<1>5. /\ connection' \in Seq(Answers) /\ e \in Range(connection)
      /\ Range(connection') = Range(connection) \ {e} /\ IsInjective(connection')
  BY <1>1, <1>2, <1>3, TailQueue DEF Distinct
<1>6. /\ scheduler' \in Seq(Answers) /\ Range(scheduler') = Range(scheduler) \cup {e}
      /\ IsInjective(scheduler) /\ e \notin Range(scheduler) => IsInjective(scheduler')
  BY <1>1, <1>4, AppendQueue
<1>7. Distinct(connection', scheduler') /\ Below' = Below
  BY <1>1, <1>5, <1>6 DEF Distinct, Below
<1> QED
  BY <1>5, <1>6, <1>7, HandedOver DEF ConnectionAnswers

-----------------------------------------------------------------------------
(* The end of a block resumes the commands of two queues: m answers those  *)
(* of q to their callers, but for the one that ends the next block.        *)
Ending(end) == IF end = 0 THEN {} ELSE {ToEndOfBlock(end)}
Resumed(cs, end) == { ToCaller(c) : c \in cs \ {end} } \cup Ending(end)
Resumes(m, q, end) ==
    /\ m \in Seq(Answers) /\ Len(m) = Len(q) /\ IsInjective(m)
    /\ \A i \in DOMAIN q : m[i].cmd = q[i]
    /\ Range(m) = Resumed(Range(q), end)

LEMMA Resumption ==
    ASSUME NEW q \in Seq(Commands), IsInjective(q), NEW end, end = 0 \/ end \in Range(q), NEW m,
           m = [i \in DOMAIN q |-> IF q[i] = end THEN ToEndOfBlock(end) ELSE ToCaller(q[i])]
    PROVE  Resumes(m, q, end)
<1>1. DOMAIN q = 1 .. Len(q) /\ Len(q) \in Nat /\ \A i \in DOMAIN q : q[i] \in Commands /\ q[i] # 0
  BY SharingAssumption
<1>2. DOMAIN m = DOMAIN q
  OBVIOUS
<1>3. \A i \in DOMAIN q : /\ q[i] = end => m[i] = ToEndOfBlock(end)
                          /\ q[i] # end => m[i] = ToCaller(q[i])
  OBVIOUS
<1>4. \A i \in DOMAIN q : m[i] \in Answers /\ m[i].cmd = q[i]
  BY <1>1, <1>3 DEF ToEndOfBlock, ToCaller, Answers
<1>5. m \in Seq(Answers) /\ Len(m) = Len(q)
  <2>1. m \in [1 .. Len(q) -> Answers]
    BY <1>1, <1>2, <1>4
  <2> QED
    BY <1>1, <2>1
<1>6. IsInjective(m)
  BY <1>2, <1>4 DEF IsInjective
<1>7. Range(m) = Resumed(Range(q), end)
  <2>1. ASSUME NEW x \in Range(m) PROVE x \in Resumed(Range(q), end)
    <3>1. PICK i \in DOMAIN q : x = m[i]
      BY <1>2 DEF Range
    <3>2. q[i] \in Range(q) /\ q[i] # 0
      BY <1>1 DEF Range
    <3> QED
      BY <1>3, <3>1, <3>2 DEF Resumed, Ending
  <2>2. ASSUME NEW x \in Resumed(Range(q), end) PROVE x \in Range(m)
    <3>1. CASE end # 0 /\ x = ToEndOfBlock(end)
      <4>1. PICK i \in DOMAIN q : q[i] = end
        BY <3>1 DEF Range
      <4> QED
        BY <1>2, <1>3, <3>1, <4>1 DEF Range
    <3>2. CASE \E c \in Range(q) \ {end} : x = ToCaller(c)
      <4>1. PICK i \in DOMAIN q : x = ToCaller(q[i]) /\ q[i] # end
        BY <3>2 DEF Range
      <4> QED
        BY <1>2, <1>3, <4>1 DEF Range
    <3> QED
      BY <2>2, <3>1, <3>2 DEF Resumed, Ending
  <2> QED
    BY <2>1, <2>2
<1> QED
  BY <1>4, <1>5, <1>6, <1>7 DEF Resumes

LEMMA NextTicketIsLeast ==
    ASSUME Waiting # {}
    PROVE  NextTicket \in Waiting /\ \A u \in Waiting : NextTicket <= u
<1>1. Waiting \subseteq Nat
  BY SharingAssumption DEF Waiting, Tickets
<1>2. \E t \in Waiting : \A u \in Waiting : t <= u
  BY <1>1, Least
<1> QED
  BY <1>2 DEF NextTicket

(* The step, with names: q is the queue of the block b that has the line   *)
(* next (or empty), end the command that ends it (or 0).                   *)
EndsBlock(q, b, end, entries, scheduled) ==
    /\ Issue(commands, entries, scheduled)
    /\ non_atomic' = <<>> /\ last_atomic_cmd' = end
    /\ \/ /\ Waiting = {} /\ q = <<>> /\ b = ticket_cnt + 1 /\ end = 0
          /\ active_ticket' = 0 /\ atomic' = atomic
       \/ /\ b \in Waiting /\ \A u \in Waiting : b <= u
          /\ q = atomic[b] /\ (end # 0 => end \in Range(q) /\ commands[end].cease)
          /\ active_ticket' = b /\ atomic' = [atomic EXCEPT ![b] = <<>>]
    /\ UNCHANGED <<commands, slaveVars, doubled>>

LEMMA EndOfBlockUnfolds ==
    ASSUME TypeOK, OnePlace, HandleEndOfBlock
    PROVE  \E q, b, end, free, resumed :
             /\ q \in Seq(Commands)
             /\ Resumes(free, non_atomic, 0) /\ Resumes(resumed, q, end)
             /\ EndsBlock(q, b, end, free \o resumed,
                          Append(Tail(scheduler), ToCaller(last_atomic_cmd)))
<1> DEFINE block == IF Waiting = {} THEN <<>> ELSE atomic[NextTicket]
<1>1. PICK free : free = [i \in DOMAIN non_atomic |-> ToCaller(non_atomic[i])]
  OBVIOUS
<1>2. PICK q : q = block
  OBVIOUS
<1>3. PICK resumed : resumed = [i \in DOMAIN q |->
                       IF i = Len(q) THEN Diverted(commands, q[i]) ELSE ToCaller(q[i])]
  OBVIOUS
<1>4. Issue(commands, free \o resumed, Append(Tail(scheduler), ToCaller(last_atomic_cmd)))
  BY <1>1, <1>2, <1>3 DEF HandleEndOfBlock
<1>5. non_atomic \in Seq(Commands) /\ IsInjective(non_atomic)
  <2>1. 0 \in 0 .. MaxTickets
    BY SharingAssumption
  <2> QED
    BY <2>1, OnePlaceParts DEF TypeOK, InQueues, Pending
<1>6. Resumes(free, non_atomic, 0)
  <2>1. \A i \in DOMAIN non_atomic : non_atomic[i] # 0
    BY <1>5, SharingAssumption
  <2>2. free = [i \in DOMAIN non_atomic |->
                  IF non_atomic[i] = 0 THEN ToEndOfBlock(0) ELSE ToCaller(non_atomic[i])]
    BY <1>1, <2>1
  <2> QED
    BY <1>5, <2>2, Resumption
<1>7. CASE Waiting = {}
  <2>1. q = <<>> /\ q \in Seq(Commands) /\ IsInjective(q)
    BY <1>2, <1>7 DEF IsInjective
  <2>2. resumed = [i \in DOMAIN q |-> IF q[i] = 0 THEN ToEndOfBlock(0) ELSE ToCaller(q[i])]
    <3>1. DOMAIN q = {}
      BY <2>1
    <3> QED
      BY <1>3, <3>1
  <2>3. Resumes(resumed, q, 0)
    BY <2>1, <2>2, Resumption
  <2>4. PICK b : b = ticket_cnt + 1
    OBVIOUS
  <2>5. EndsBlock(q, b, 0, free \o resumed, Append(Tail(scheduler), ToCaller(last_atomic_cmd)))
    BY <1>4, <1>7, <2>1, <2>4 DEF EndsBlock, HandleEndOfBlock, NextActive
  <2> QED
    BY <1>6, <2>1, <2>3, <2>5
<1>8. CASE Waiting # {}
  <2>1. PICK b : b = NextTicket
    OBVIOUS
  <2>2. b \in Waiting /\ (\A u \in Waiting : b <= u) /\ b \in Tickets /\ q = atomic[b] /\ q # <<>>
    BY <1>2, <1>8, <2>1, NextTicketIsLeast DEF Waiting
  <2>3. q \in Seq(Commands) /\ IsInjective(q)
    <3>1. b \in 0 .. MaxTickets /\ b # 0
      BY <2>2 DEF Tickets
    <3> QED
      BY <2>2, <3>1, OnePlaceParts DEF TypeOK, InQueues, Pending
  <2>4. /\ DOMAIN q = 1 .. Len(q) /\ Len(q) \in DOMAIN q /\ Last(q) = q[Len(q)]
        /\ q[Len(q)] \in Range(q) /\ q[Len(q)] \in Commands /\ q[Len(q)] # 0
    <3>1. DOMAIN q = 1 .. Len(q) /\ Len(q) \in 1 .. Len(q)
      BY <2>2, <2>3
    <3>2. q[Len(q)] \in Commands
      BY <2>3, <3>1
    <3> QED
      BY <3>1, <3>2, SharingAssumption DEF Last, Range
  <2>5. PICK end : end = IF commands[q[Len(q)]].cease THEN q[Len(q)] ELSE 0
    OBVIOUS
  <2>6. end = 0 \/ (end \in Range(q) /\ commands[end].cease)
    BY <2>4, <2>5
  <2>7. \A i \in DOMAIN q : i = Len(q) <=> q[i] = q[Len(q)]
    BY <2>3, <2>4 DEF IsInjective
  <2>8. \A i \in DOMAIN q : q[i] # 0
    BY <2>3, SharingAssumption
  <2>9. resumed = [i \in DOMAIN q |-> IF q[i] = end THEN ToEndOfBlock(end) ELSE ToCaller(q[i])]
    BY <1>3, <2>5, <2>7, <2>8 DEF Diverted
  <2>10. Resumes(resumed, q, end)
    BY <2>3, <2>6, <2>9, Resumption
  <2>11. last_atomic_cmd' = end
    BY <1>8, <2>1, <2>2, <2>4, <2>5 DEF HandleEndOfBlock
  <2>12. EndsBlock(q, b, end, free \o resumed, Append(Tail(scheduler), ToCaller(last_atomic_cmd)))
    BY <1>4, <1>8, <2>1, <2>2, <2>6, <2>11 DEF EndsBlock, HandleEndOfBlock, NextActive
  <2> QED
    BY <1>6, <2>3, <2>10, <2>12
<1> QED
  BY <1>7, <1>8

(* Whose end is announced: the block that has the line, and it alone.      *)
LEMMA EndFacts ==
    ASSUME Orderly, Executes("endofblock"), NEW l, l = last_atomic_cmd
    PROVE  /\ l \in Commands /\ l # 0 /\ l \in InUse /\ ~Waits(l) /\ ToCaller(l) \notin Below
           /\ scheduler # <<>> /\ Head(scheduler) = ToEndOfBlock(l)
           /\ commands[l].cease /\ commands[l].ticket = active_ticket
           /\ active_ticket \in 1 .. ticket_cnt /\ ticket_cnt \in Nat
           /\ \A s \in InBlock : current_ticket[s] # active_ticket
<1> USE DEF Orderly
<1>1. scheduler # <<>> /\ Head(scheduler).to = "endofblock" /\ scheduler \in Seq(Answers)
  BY DEF Executes, TypeOK
<1>2. Head(scheduler) \in Range(scheduler)
  BY <1>1, TailQueue, OnePlaceParts DEF Distinct
<1>3. Head(scheduler) \in { e \in Below : e.to = "endofblock" }
  BY <1>1, <1>2 DEF Below
<1>4. l # 0 /\ Head(scheduler) = ToEndOfBlock(l)
  BY <1>3 DEF EndOfBlockExpected
<1>5. l \in Commands
  BY <1>4 DEF TypeOK
<1>6. l \in InUse /\ ~Waits(l) /\ ToCaller(l) \notin Below
  BY <1>5, OnePlaceParts DEF EachOnce, Once
<1>7. commands[l].cease /\ commands[l].ticket = active_ticket
  BY <1>4 DEF BlocksToCome
<1>8. active_ticket # 0
  BY <1>4 DEF EndOfBlockExpected
<1>9. active_ticket \in 1 .. ticket_cnt /\ ticket_cnt \in Nat
  BY <1>8, SharingAssumption DEF TypeOK
<1> QED
  BY <1>1, <1>4, <1>5, <1>6, <1>7, <1>9 DEF BlocksBegun

(* Who is resumed, waited in one queue, which is empty after.              *)
LEMMA EndQueues ==
    ASSUME Orderly, NEW q \in Seq(Commands), NEW b, NEW end, NEW entries, NEW scheduled,
           EndsBlock(q, b, end, entries, scheduled)
    PROVE  /\ IsInjective(non_atomic) /\ IsInjective(q) /\ Range(non_atomic) \cap Range(q) = {}
           /\ \A c \in Range(non_atomic) : c \in Commands /\ commands[c].ticket = 0 /\ Waits(c)
           /\ \A c \in Range(q) : c \in Commands /\ commands[c].ticket = b /\ Waits(c)
           /\ InQueues'
           /\ \A c : Waits(c)' <=> Waits(c) /\ c \notin Range(non_atomic) \cup Range(q)
           /\ non_atomic' = <<>> /\ atomic' \in [Tickets -> Seq(Commands)]
           /\ Waiting' = Waiting \ {b}
           /\ b \in Nat \ {0}
<1> USE DEF Orderly
<1>1. EachOnce /\ InQueues
  BY OnePlaceParts
<1>2. /\ MaxTickets \in Nat /\ 0 \in 0 .. MaxTickets /\ Pending(0) = non_atomic
      /\ \A t \in Tickets : t \in 0 .. MaxTickets /\ t # 0 /\ Pending(t) = atomic[t]
      /\ \A t \in 0 .. MaxTickets : t = 0 \/ t \in Tickets
  BY SharingAssumption DEF Pending, Tickets
<1>3. b \in Nat \ {0}
  BY SharingAssumption DEF EndsBlock, TypeOK, Waiting, Tickets
<1>4. \A t \in 0 .. MaxTickets :
         /\ IsInjective(Pending(t))
         /\ \A c \in Range(Pending(t)) : c \in Commands /\ commands[c].ticket = t /\ Waits(c)
  BY <1>1, PendingTypes DEF InQueues, Waits, Range
<1>5. \/ q = <<>> /\ Waiting = {} /\ atomic' = atomic /\ b = ticket_cnt + 1
      \/ q = Pending(b) /\ b \in Tickets /\ b \in Waiting /\ atomic' = [atomic EXCEPT ![b] = <<>>]
  BY <1>2 DEF EndsBlock, Waiting
<1>6. <<>> \in Seq(Commands) /\ Range(<<>>) = {} /\ IsInjective(<<>>)
  BY DEF Range, IsInjective
<1>7. /\ IsInjective(non_atomic)
      /\ \A c \in Range(non_atomic) : c \in Commands /\ commands[c].ticket = 0 /\ Waits(c)
  BY <1>2, <1>4
<1>8. IsInjective(q) /\ \A c \in Range(q) : c \in Commands /\ commands[c].ticket = b /\ Waits(c)
  BY <1>2, <1>4, <1>5, <1>6
<1>9. Range(non_atomic) \cap Range(q) = {}
  BY <1>3, <1>7, <1>8
<1>10. non_atomic' = <<>> /\ atomic \in [Tickets -> Seq(Commands)]
  BY DEF EndsBlock, TypeOK
<1>11. atomic' \in [Tickets -> Seq(Commands)]
  BY <1>5, <1>6, <1>10
<1>12. \A t \in Tickets : \/ t = b /\ q = Pending(b) /\ atomic'[t] = <<>>
                          \/ (t # b \/ (q = <<>> /\ Waiting = {})) /\ atomic'[t] = atomic[t]
  BY <1>5, <1>10
<1>13. Waiting' = Waiting \ {b}
  BY <1>12 DEF Waiting
<1>14. \A t \in 0 .. MaxTickets : Pending(t)' = <<>> \/ Pending(t)' = Pending(t)
  BY <1>2, <1>10, <1>12 DEF Pending
<1>15. InQueues'
  <2> SUFFICES ASSUME NEW t \in 0 .. MaxTickets
               PROVE  /\ IsInjective(Pending(t)')
                      /\ \A c \in Range(Pending(t)') : commands'[c].ticket = t
    BY DEF InQueues
  <2>1. commands' = commands
    BY DEF EndsBlock
  <2> QED
    BY <1>4, <1>6, <1>14, <2>1
<1>16. ASSUME NEW c PROVE Waits(c)' <=> Waits(c) /\ c \notin Range(non_atomic) \cup Range(q)
  <2>1. ASSUME NEW t \in 0 .. MaxTickets
        PROVE  c \in Range(Pending(t)')
                 <=> c \in Range(Pending(t)) /\ c \notin Range(non_atomic) \cup Range(q)
    <3>1. CASE t = 0
      <4>1. Pending(t)' = <<>> /\ Pending(t) = non_atomic
        BY <1>2, <1>10, <3>1 DEF Pending
      <4> QED
        BY <1>6, <4>1
    <3>2. CASE t \in Tickets /\ t = b /\ q = Pending(b)
      <4>1. Pending(t)' = <<>> \/ (Waiting = {} /\ q = <<>>)
        BY <1>2, <1>12, <3>2 DEF Pending
      <4>2. Pending(t)' = <<>> \/ (Pending(t)' = Pending(t) /\ Pending(t) = <<>>)
        BY <1>14, <3>2, <4>1
      <4> QED
        BY <1>6, <3>2, <4>2
    <3>3. CASE t \in Tickets /\ ~(t = b /\ q = Pending(b))
      <4>1. Pending(t)' = Pending(t) /\ (t # b \/ q = <<>>)
        BY <1>2, <1>12, <3>3 DEF Pending
      <4>2. \A d \in Range(Pending(t)) : d \notin Range(non_atomic)
        BY <1>2, <1>4, <1>7, <3>3
      <4>3. \A d \in Range(Pending(t)) : d \notin Range(q)
        BY <1>4, <1>6, <1>8, <4>1
      <4> QED
        BY <4>1, <4>2, <4>3
    <3> QED
      BY <1>2, <3>1, <3>2, <3>3
  <2> QED
    BY <2>1 DEF Waits
<1> QED
  BY <1>3, <1>7, <1>8, <1>9, <1>10, <1>11, <1>13, <1>15, <1>16

LEMMA EndBelow ==
    ASSUME Orderly, Executes("endofblock"), NEW l, l = last_atomic_cmd,
           NEW q \in Seq(Commands), NEW b, NEW end, NEW free, NEW resumed,
           Resumes(free, non_atomic, 0), Resumes(resumed, q, end),
           EndsBlock(q, b, end, free \o resumed, Append(Tail(scheduler), ToCaller(l)))
    PROVE  /\ connection' \in Seq(Answers) /\ scheduler' \in Seq(Answers)
           /\ Distinct(connection', scheduler')
           /\ Below' = (Below \ {ToEndOfBlock(l)}) \cup {ToCaller(l)}
                         \cup Resumed(Range(non_atomic) \cup Range(q), end)
<1> USE DEF Orderly
<1>1. /\ l \in Commands /\ l # 0 /\ ~Waits(l) /\ ToCaller(l) \notin Below /\ scheduler # <<>>
      /\ Head(scheduler) = ToEndOfBlock(l)
  BY EndFacts
<1>2. /\ Range(non_atomic) \cap Range(q) = {}
      /\ \A c \in Range(non_atomic) \cup Range(q) : c \in Commands /\ Waits(c)
  BY EndQueues
<1>3. EachOnce /\ Distinct(connection, scheduler)
  BY OnePlaceParts
<1>4. scheduler \in Seq(Answers) /\ connection \in Seq(Answers) /\ line \in Seq(Nat)
  BY LineNow DEF TypeOK
<1>5. PICK rest : rest = Tail(scheduler)
  OBVIOUS
<1>6. /\ rest \in Seq(Answers) /\ IsInjective(rest)
      /\ Range(rest) = Range(scheduler) \ {ToEndOfBlock(l)} /\ ToEndOfBlock(l) \in Range(scheduler)
  BY <1>1, <1>3, <1>4, <1>5, TailQueue DEF Distinct
<1>7. ToCaller(l) \in Answers /\ ToCaller(l) \notin Range(rest)
  BY <1>1, <1>6 DEF ToCaller, Answers, Below
<1>8. PICK scheduled : scheduled = Append(rest, ToCaller(l))
  OBVIOUS
<1>9. /\ scheduled \in Seq(Answers) /\ IsInjective(scheduled)
      /\ Range(scheduled) = (Range(scheduler) \ {ToEndOfBlock(l)}) \cup {ToCaller(l)}
  BY <1>6, <1>7, <1>8, AppendQueue
<1>10. Distinct(connection, scheduled)
  BY <1>1, <1>3, <1>9 DEF Distinct, Below
<1>11. /\ free \in Seq(Answers) /\ resumed \in Seq(Answers)
       /\ IsInjective(free) /\ IsInjective(resumed)
       /\ Range(free) = Resumed(Range(non_atomic), 0) /\ Range(resumed) = Resumed(Range(q), end)
  BY DEF Resumes
<1>12. end = 0 \/ end \in Range(q)
  BY DEF EndsBlock
<1>13. Range(free) \cap Range(resumed) = {}
  <2>1. \A x \in Range(free) : x.cmd \in Range(non_atomic)
    BY <1>11 DEF Resumed, Ending, ToCaller
  <2>2. \A x \in Range(resumed) : x.cmd \in Range(q)
    BY <1>11, <1>12 DEF Resumed, Ending, ToCaller, ToEndOfBlock
  <2> QED
    BY <1>2, <2>1, <2>2
<1>14. PICK entries : entries = free \o resumed
  OBVIOUS
<1>15. /\ entries \in Seq(Answers) /\ IsInjective(entries)
       /\ Range(entries) = Range(free) \cup Range(resumed)
  BY <1>11, <1>13, <1>14, ConcatQueues
<1>16. Range(entries) = Resumed(Range(non_atomic) \cup Range(q), end)
  <2>1. 0 \notin Range(non_atomic) /\ end \notin Range(non_atomic)
    BY <1>2, <1>12, SharingAssumption
  <2> QED
    BY <1>11, <1>15, <2>1 DEF Resumed, Ending
<1>17. Range(entries) \cap (Range(connection) \cup Range(scheduled)) = {}
  <2> SUFFICES ASSUME NEW x \in Range(entries) PROVE x \notin Range(connection) \cup Range(scheduled)
    OBVIOUS
  <2>1. PICK c \in Range(non_atomic) \cup Range(q) : x = ToCaller(c) \/ x = ToEndOfBlock(c)
    BY <1>12, <1>16 DEF Resumed, Ending
  <2>2. c \in Commands /\ Waits(c) /\ c # l
    BY <1>1, <1>2
  <2>3. ToCaller(c) \notin Below
    BY <1>3, <2>2 DEF EachOnce, Once
  <2>4. ToEndOfBlock(c) \notin Below
    BY <2>2 DEF EndOfBlockExpected, ToEndOfBlock
  <2>5. x # ToCaller(l) /\ x \notin Below
    BY <2>1, <2>2, <2>3, <2>4 DEF ToCaller, ToEndOfBlock
  <2> QED
    BY <1>9, <2>5 DEF Below
<1>18. Issue(commands, entries, scheduled) /\ TicketNumbers(commands)
  BY <1>5, <1>8, <1>14, Numbered DEF EndsBlock
<1>19. AllIssued(entries, scheduled)
  BY <1>4, <1>9, <1>10, <1>15, <1>17, <1>18, IssueQueues
<1>20. ToEndOfBlock(l) \notin Range(connection)
  BY <1>3, <1>6 DEF Distinct
<1> QED
  BY <1>9, <1>16, <1>19, <1>20 DEF AllIssued, Below

Concatenates(r, S, p, q) ==
    /\ r \in Seq(S) /\ Len(r) = Len(p) + Len(q) /\ Len(q) \in Nat
    /\ DOMAIN r = 1 .. Len(p) + Len(q)
    /\ \A i \in 1 .. Len(p) + Len(q) : r[i] = IF i <= Len(p) THEN p[i] ELSE q[i - Len(p)]

LEMMA ConcatItems ==
    ASSUME NEW S, NEW p \in Seq(S), NEW q \in Seq(S) PROVE Concatenates(p \o q, S, p, q)
  BY DEF Concatenates

LEMMA EndLine ==
    ASSUME Orderly, Executes("endofblock"), NEW scheduled \in Seq(Answers),
           NEW q \in Seq(Commands), NEW b, NEW end, NEW free, NEW resumed,
           Resumes(free, non_atomic, 0), Resumes(resumed, q, end),
           EndsBlock(q, b, end, free \o resumed, scheduled)
    PROVE  /\ line' \in Seq(0 .. ticket_cnt) /\ Increasing(line')
           /\ Waiting # {} => UpTo(line', b)
<1> USE DEF Orderly
<1>1. /\ line \in Seq(Nat) /\ Increasing(line) /\ Under(line, ticket_cnt + 1)
      /\ active_ticket \in 1 .. ticket_cnt /\ ticket_cnt \in Nat
  BY LineNow, EndFacts
<1>2. /\ b \in Nat \ {0}
      /\ \A c \in Range(non_atomic) : c \in Commands /\ commands[c].ticket = 0
      /\ \A c \in Range(q) : c \in Commands /\ commands[c].ticket = b
  BY EndQueues
<1>3. \/ Waiting = {} /\ b = ticket_cnt + 1 /\ q = <<>>
      \/ Waiting # {} /\ b \in Waiting
  BY DEF EndsBlock
<1>4. InOrder(line, b, TRUE)
  <2>1. Under(line, b)
    <3>1. CASE Waiting # {} /\ b \in Waiting
      <4>1. active_ticket < b /\ \A i \in DOMAIN line : line[i] < active_ticket \/ line[i] = active_ticket
        BY <1>1, <3>1 DEF BlocksToCome
      <4>2. \A i \in DOMAIN line : line[i] \in Nat
        BY <1>1
      <4>3. active_ticket \in Nat /\ b \in Nat
        BY <1>1, <1>2
      <4>4. \A i \in DOMAIN line : line[i] < b
        BY ONLY <4>1, <4>2, <4>3
      <4> QED
        BY <4>4 DEF Under
    <3> QED
      BY <1>1, <1>3, <3>1
  <2> QED
    BY <1>1, <2>1 DEF InOrder, Under, UpTo
<1>5. /\ free \in Seq(Answers) /\ resumed \in Seq(Answers) /\ non_atomic \in Seq(Commands)
      /\ Len(free) = Len(non_atomic) /\ Len(resumed) = Len(q)
      /\ \A i \in DOMAIN non_atomic : free[i].cmd = non_atomic[i]
      /\ \A i \in DOMAIN q : resumed[i].cmd = q[i]
  BY DEF Resumes, TypeOK
<1>6. PICK k \in Nat : k = Len(free)
  BY <1>5
<1>7. PICK entries : entries = free \o resumed
  OBVIOUS
<1>8. /\ entries \in Seq(Answers) /\ Len(entries) = k + Len(q) /\ Len(q) \in Nat
      /\ DOMAIN entries = 1 .. k + Len(q)
      /\ \A i \in 1 .. k + Len(q) : entries[i] = IF i <= k THEN free[i] ELSE resumed[i - k]
  <2>1. Concatenates(entries, Answers, free, resumed)
    BY <1>5, <1>7, ConcatItems
  <2> QED
    BY ONLY <1>5, <1>6, <2>1 DEF Concatenates
<1>9. Ranked(commands, entries, k, b)
  <2> SUFFICES ASSUME NEW i \in DOMAIN entries
               PROVE  commands[entries[i].cmd].ticket = IF i <= k THEN 0 ELSE b
    BY DEF Ranked
  <2>1. i \in 1 .. k + Len(q)
    BY <1>8
  <2>2. CASE i <= k
    <3>1. i \in DOMAIN non_atomic
      BY <1>5, <1>6, <2>1, <2>2
    <3>2. entries[i].cmd = non_atomic[i]
      BY <1>5, <1>8, <2>1, <2>2, <3>1
    <3>3. non_atomic[i] \in Range(non_atomic)
      BY <3>1 DEF Range
    <3> QED
      BY <1>2, <2>2, <3>2, <3>3
  <2>3. CASE ~(i <= k)
    <3>1. i - k \in DOMAIN q
      BY <1>8, <2>1, <2>3
    <3>2. entries[i].cmd = q[i - k]
      BY <1>5, <1>8, <2>1, <2>3, <3>1
    <3>3. q[i - k] \in Range(q)
      BY <3>1 DEF Range
    <3> QED
      BY <1>2, <2>3, <3>2, <3>3
  <2> QED
    BY <2>2, <2>3
<1>10. /\ Issue(commands, entries, scheduled) /\ TicketNumbers(commands)
       /\ connection \in Seq(Answers)
  BY <1>7, Numbered DEF EndsBlock, TypeOK
<1>11. PICK fresh \in BOOLEAN : fresh
  BY TRUE \in BOOLEAN
<1>12. InOrder(line, b, fresh)
  BY <1>4, <1>11 DEF InOrder
<1>13. InOrder(line', b, fresh /\ Len(entries) <= k)
  BY <1>2, <1>8, <1>9, <1>10, <1>11, <1>12, IssueLine
<1>14. /\ line' \in Seq(Nat) /\ Increasing(line') /\ UpTo(line', b)
       /\ Len(entries) <= k => Under(line', b)
  BY <1>11, <1>13 DEF InOrder
<1>15. PICK l \in Seq(Nat) : l = line'
  BY <1>14
<1>16. \A i \in DOMAIN l : l[i] \in Nat
  OBVIOUS
<1>17. \A i \in DOMAIN l : l[i] <= ticket_cnt
  <2>1. CASE Waiting # {} /\ b \in Waiting
    <3>1. b <= ticket_cnt
      <4>1. EachOnce /\ InQueues
        BY OnePlaceParts
      <4>2. q \in Seq(Commands) /\ q # <<>>
        BY <2>1 DEF EndsBlock, Waiting
      <4>3. PICK c : c \in Range(q)
        <5>1. 1 \in DOMAIN q
          BY <4>2
        <5> QED
          BY <5>1 DEF Range
      <4>4. Waits(c) /\ c \in Commands /\ commands[c].ticket = b
        BY <4>3, EndQueues
      <4>5. c \in InUse
        BY <4>1, <4>4 DEF EachOnce, Once
      <4> QED
        BY <4>4, <4>5 DEF BlocksBegun
    <3>2. \A i \in DOMAIN l : l[i] < b \/ l[i] = b
      BY <1>14, <1>15 DEF UpTo
    <3>3. ticket_cnt \in Nat /\ b \in Nat
      BY <1>1, <1>2
    <3>4. ASSUME NEW i \in DOMAIN l PROVE l[i] <= ticket_cnt
      <4>1. l[i] \in Nat /\ (l[i] < b \/ l[i] = b)
        BY <1>16, <3>2
      <4> QED
        BY ONLY <3>1, <3>3, <4>1
    <3> QED
      BY <3>4
  <2>2. CASE Waiting = {}
    <3>1. b = ticket_cnt + 1 /\ q = <<>>
      BY <1>3, <2>2
    <3>2. Len(entries) <= k
      BY <1>8, <3>1
    <3>3. \A i \in DOMAIN l : l[i] < ticket_cnt + 1
      BY <1>14, <1>15, <3>1, <3>2 DEF Under
    <3> QED
      BY <1>1, <1>16, <3>3
  <2> QED
    BY <1>3, <2>1, <2>2
<1> QED
  BY <1>1, <1>14, <1>15, <1>17, LineTypes

LEMMA EndOfBlockStep ==
    ASSUME Orderly, HandleEndOfBlock PROVE Orderly'
<1> USE DEF Orderly
<1>1. PICK l : l = last_atomic_cmd
  OBVIOUS
<1>2. PICK q, b, end, free, resumed :
         /\ q \in Seq(Commands)
         /\ Resumes(free, non_atomic, 0) /\ Resumes(resumed, q, end)
         /\ EndsBlock(q, b, end, free \o resumed, Append(Tail(scheduler), ToCaller(l)))
  BY <1>1, EndOfBlockUnfolds
<1>3. Executes("endofblock")
  BY DEF HandleEndOfBlock
<1>4. /\ l \in Commands /\ l # 0 /\ l \in InUse /\ ~Waits(l) /\ ToCaller(l) \notin Below
      /\ commands[l].cease /\ commands[l].ticket = active_ticket
      /\ active_ticket \in 1 .. ticket_cnt /\ ticket_cnt \in Nat
      /\ \A s \in InBlock : current_ticket[s] # active_ticket
  BY <1>1, <1>3, EndFacts
<1>5. PICK M : M = Range(non_atomic) \cup Range(q)
  OBVIOUS
<1>6. /\ connection' \in Seq(Answers) /\ scheduler' \in Seq(Answers)
      /\ Distinct(connection', scheduler')
      /\ Below' = (Below \ {ToEndOfBlock(l)}) \cup {ToCaller(l)} \cup Resumed(M, end)
  BY <1>1, <1>2, <1>3, <1>5, EndBelow
<1>7. /\ \A c \in M : c \in Commands /\ Waits(c)
      /\ \A c \in Range(q) : commands[c].ticket = b
      /\ InQueues' /\ \A c : Waits(c)' <=> Waits(c) /\ c \notin M
      /\ non_atomic' = <<>> /\ atomic' \in [Tickets -> Seq(Commands)]
      /\ Waiting' = Waiting \ {b} /\ b \in Nat \ {0}
  BY <1>2, <1>5, EndQueues
<1>8. /\ line' \in Seq(0 .. ticket_cnt) /\ Increasing(line')
      /\ Waiting # {} => UpTo(line', b)
  <2>1. Append(Tail(scheduler), ToCaller(l)) \in Seq(Answers)
    <3>1. scheduler \in Seq(Answers) /\ scheduler # <<>> /\ ToCaller(l) \in Answers
      BY <1>3, <1>4 DEF TypeOK, Executes, ToCaller, Answers
    <3>2. Tail(scheduler) \in Seq(Answers)
      BY <3>1
    <3> QED
      BY <3>1, <3>2
  <2> QED
    BY <1>2, <1>3, <2>1, EndLine
<1>9. /\ commands' = commands /\ current_ticket' = current_ticket /\ ticket_cnt' = ticket_cnt
      /\ last_atomic_cmd' = end /\ InUse' = InUse /\ InBlock' = InBlock /\ doubled' = doubled
  BY <1>2 DEF EndsBlock, slaveVars, InUse, InBlock
<1>10. \/ Waiting = {} /\ Waiting' = {} /\ end = 0 /\ active_ticket' = 0
       \/ /\ b \in Waiting /\ (\A u \in Waiting : b <= u) /\ active_ticket' = b
          /\ end # 0 => end \in M /\ commands[end].cease /\ commands[end].ticket = b
  BY <1>2, <1>5, <1>7 DEF EndsBlock
<1>11. EachOnce
  BY OnePlaceParts
<1>12. active_ticket' \in 0 .. ticket_cnt
  <2>1. CASE b \in Waiting /\ active_ticket' = b
    <3>1. q = atomic[b] /\ q # <<>>
      BY <1>2, <2>1 DEF EndsBlock, Waiting
    <3>2. PICK c : c \in Range(q)
      <4>1. 1 \in DOMAIN q
        BY <1>2, <3>1
      <4> QED
        BY <4>1 DEF Range
    <3>3. c \in Commands /\ Waits(c) /\ commands[c].ticket = b
      BY <1>5, <1>7, <3>2
    <3>4. b <= ticket_cnt
      BY <1>11, <3>3 DEF EachOnce, Once, BlocksBegun
    <3> QED
      BY <1>4, <1>7, <2>1, <3>4
  <2> QED
    BY <1>4, <1>10, <2>1
<1>13. end \in Commands \cup {0}
  BY <1>7, <1>10
<1>14. TypeOK'
  <2>1. <<>> \in Seq(Commands)
    OBVIOUS
  <2> QED
    BY <1>6, <1>7, <1>8, <1>9, <1>12, <1>13, <2>1 DEF TypeOK
<1>15. EachOnce'
  <2> SUFFICES ASSUME NEW d \in Commands
               PROVE  Once(d \in InUse', Waits(d)', last_atomic_cmd' = d, ToCaller(d) \in Below')
    BY DEF EachOnce, ToCaller
  <2>1. Once(d \in InUse, Waits(d), l = d, ToCaller(d) \in Below)
    BY <1>1, <1>11 DEF EachOnce
  <2>2. d # 0 /\ l \notin M /\ end # l
    BY <1>4, <1>7, <1>10, SharingAssumption
  <2>3. ToCaller(d) \in Below' <=> ToCaller(d) \in Below \/ d = l \/ (d \in M /\ d # end)
    BY <1>6 DEF Resumed, Ending, ToCaller, ToEndOfBlock
  <2>4. CASE d = l
    BY <1>4, <1>7, <1>9, <2>2, <2>3, <2>4 DEF Once
  <2>5. CASE d # l /\ d \in M
    <3>1. Waits(d) /\ ~Waits(d)' /\ d \in InUse' /\ ToCaller(d) \notin Below
      BY <1>7, <1>9, <2>1, <2>5 DEF Once
    <3> QED
      BY <1>9, <2>3, <2>5, <3>1 DEF Once
  <2>6. CASE d # l /\ d \notin M
    <3>1. end # d
      BY <1>10, <2>2, <2>6
    <3>2. (Waits(d)' <=> Waits(d)) /\ (d \in InUse' <=> d \in InUse)
      BY <1>7, <1>9, <2>6
    <3>3. (last_atomic_cmd' = d <=> l = d) /\ (ToCaller(d) \in Below' <=> ToCaller(d) \in Below)
      BY <1>9, <2>3, <2>6, <3>1
    <3> QED
      BY <2>1, <3>2, <3>3 DEF Once
  <2> QED
    BY <2>4, <2>5, <2>6
<1>16. EndOfBlockExpected'
  <2>1. \A x \in Below : x.to = "endofblock" => x = ToEndOfBlock(l)
    BY <1>1 DEF EndOfBlockExpected
  <2>2. { x \in Below' : x.to = "endofblock" } = Ending(end)
    BY <1>6, <2>1 DEF Resumed, Ending, ToCaller, ToEndOfBlock
  <2>3. active_ticket' = 0 => last_atomic_cmd' = 0 /\ non_atomic' = <<>> /\ Waiting' = {}
    BY <1>7, <1>9, <1>10
  <2> QED
    BY <1>9, <2>2, <2>3 DEF EndOfBlockExpected, Ending, ToEndOfBlock
<1>17. BlocksBegun'
  <2>1. ASSUME NEW s \in InBlock
        PROVE  current_ticket[s] = active_ticket' \/ current_ticket[s] \in Waiting'
    <3>1. current_ticket[s] \in Waiting
      BY <1>4 DEF BlocksBegun
    <3> QED
      BY <1>7, <1>10, <3>1
  <2> QED
    BY <1>9, <2>1 DEF BlocksBegun
<1>18. BlocksToCome'
  <2>1. \A t \in Waiting' : active_ticket' < t
    <3>1. \A t \in Waiting : t \in Nat
      BY SharingAssumption DEF Waiting, Tickets
    <3> QED
      BY <1>7, <1>10, <3>1
  <2>2. last_atomic_cmd' # 0 => /\ commands'[last_atomic_cmd'].cease
                                /\ commands'[last_atomic_cmd'].ticket = active_ticket'
    BY <1>9, <1>10
  <2>3. active_ticket' # 0 => UpTo(line', active_ticket')
    BY <1>8, <1>10
  <2> QED
    BY <2>1, <2>2, <2>3 DEF BlocksToCome, UpTo
<1>19. Increasing(line')
  BY <1>8
<1> QED
  BY <1>6, <1>7, <1>14, <1>15, <1>16, <1>17, <1>18, <1>19, OnePlaceParts

-----------------------------------------------------------------------------
(* From an abort on: the commands are answered twice, the types are kept.  *)
Twice == TypeOK /\ doubled /\ TicketsIssued

LEMMA TicketsBegun ==
    ASSUME Orderly PROVE TicketsIssued
<1> USE DEF Orderly
<1>1. EachOnce /\ InQueues
  BY OnePlaceParts
<1>2. ticket_cnt \in Nat
  BY SharingAssumption DEF TypeOK
<1>3. ASSUME NEW t \in Waiting PROVE t <= ticket_cnt
  <2>1. t \in 0 .. MaxTickets /\ t # 0 /\ Pending(t) = atomic[t] /\ atomic[t] # <<>>
    BY SharingAssumption DEF Waiting, Tickets, Pending
  <2>2. PICK q \in Seq(Commands) : q = Pending(t) /\ q # <<>>
    BY <2>1, PendingTypes
  <2>3. PICK c : c \in Range(q) /\ c \in Commands
    <3>1. 1 \in DOMAIN q /\ q[1] \in Commands
      BY <2>2
    <3> QED
      BY <3>1 DEF Range
  <2>4. Waits(c) /\ commands[c].ticket = t
    BY <1>1, <2>1, <2>2, <2>3 DEF Waits, InQueues
  <2>5. c \in InUse
    BY <1>1, <2>3, <2>4 DEF EachOnce, Once
  <2> QED
    BY <2>4, <2>5 DEF BlocksBegun
<1>4. ASSUME NEW c \in Commands PROVE commands[c].ticket <= ticket_cnt
  <2>1. CASE c \in InUse
    BY <2>1 DEF BlocksBegun
  <2>2. CASE c \notin InUse
    <3>1. commands[c].ticket = 0
      BY <2>2 DEF InUse, Free
    <3> QED
      BY <1>2, <3>1
  <2> QED
    BY <2>1, <2>2
<1> QED
  BY <1>3, <1>4 DEF TicketsIssued

LEMMA AbortStep ==
    ASSUME Orderly, AbortAll PROVE Twice'
<1>1. connection \in Seq(Answers) /\ scheduler \in Seq(Answers)
  BY DEF Orderly, TypeOK
<1>2. PICK taken \in {0, 1} :
         scheduler' = scheduler \o SubSeq(connection, taken + 1, Len(connection))
  BY DEF AbortAll
<1>3. scheduler' \in Seq(Answers)
  <2>1. SubSeq(connection, taken + 1, Len(connection)) \in Seq(Answers)
    BY <1>1
  <2> QED
    BY <1>1, <1>2, <2>1
<1>4. TypeOK'
  BY <1>3 DEF Orderly, TypeOK, AbortAll, slaveVars, masterVars
<1>5. TicketsIssued'
  BY TicketsBegun DEF TicketsIssued, Waiting, AbortAll, slaveVars, masterVars
<1> QED
  BY <1>4, <1>5 DEF Twice, AbortAll

LEMMA TwiceCaller ==
    ASSUME Twice, CallerAnswered PROVE Twice'
<1> USE DEF Twice
<1>1. scheduler \in Seq(Answers) /\ scheduler # <<>>
  BY DEF TypeOK, CallerAnswered, Executes
<1>2. scheduler' \in Seq(Answers) /\ Head(scheduler) \in Answers
  BY <1>1 DEF CallerAnswered
<1>3. PICK c \in Commands : c = Head(scheduler).cmd
  BY <1>2 DEF Answers
<1>4. commands' = [commands EXCEPT ![c] = Free]
  BY <1>3 DEF CallerAnswered
<1>5. PICK V : V = {Free} \cup [api : Apis \cup {"NOOP"}, ticket : 0 .. MaxTickets, cease : BOOLEAN]
  OBVIOUS
<1>6. /\ commands' \in [Commands -> V] /\ commands'[c] = Free
      /\ \A d \in Commands : d # c => commands'[d] = commands[d]
  <2>1. commands \in [Commands -> V] /\ Free \in V
    BY <1>5 DEF TypeOK
  <2> QED
    BY <1>4, <2>1
<1>7. TypeOK'
  BY <1>2, <1>5, <1>6 DEF TypeOK, Free, CallerAnswered, slaveVars, masterVars
<1>8. ASSUME NEW d \in Commands PROVE commands'[d].ticket <= ticket_cnt
  <2>1. 0 <= ticket_cnt
    BY SharingAssumption DEF TypeOK
  <2> QED
    BY <1>6, <2>1 DEF TicketsIssued, Free
<1>9. TicketsIssued'
  BY <1>8 DEF TicketsIssued, Waiting, CallerAnswered, slaveVars, masterVars
<1> QED
  BY <1>7, <1>9 DEF CallerAnswered

LEMMA TwiceAnswered ==
    ASSUME Twice, ConnectionAnswers PROVE Twice'
<1> USE DEF Twice
<1>1. connection \in Seq(Answers) /\ scheduler \in Seq(Answers) /\ connection # <<>>
  BY DEF TypeOK, ConnectionAnswers
<1>2. PICK e \in Answers : e = Head(connection)
  BY <1>1
<1>3. connection' \in Seq(Answers) /\ scheduler' \in Seq(Answers)
  <2>1. Tail(connection) \in Seq(Answers) /\ Append(scheduler, e) \in Seq(Answers)
    BY <1>1
  <2> QED
    BY <1>2, <2>1 DEF ConnectionAnswers
<1>4. TypeOK'
  BY <1>3 DEF TypeOK, ConnectionAnswers, slaveVars, masterVars
<1>5. TicketsIssued'
  BY DEF TicketsIssued, Waiting, ConnectionAnswers, slaveVars, masterVars
<1> QED
  BY <1>4, <1>5 DEF ConnectionAnswers

LEMMA TwiceEnded ==
    ASSUME Twice, HandleEndOfBlock PROVE Twice'
<1> DEFINE block == IF Waiting = {} THEN <<>> ELSE atomic[NextTicket]
<1> USE DEF Twice
<1>1. PICK free : free = [i \in DOMAIN non_atomic |-> ToCaller(non_atomic[i])]
  OBVIOUS
<1>2. PICK q : q = block
  OBVIOUS
<1>3. PICK resumed : resumed = [i \in DOMAIN q |->
                       IF i = Len(q) THEN Diverted(commands, q[i]) ELSE ToCaller(q[i])]
  OBVIOUS
<1>4. Issue(commands, free \o resumed, Append(Tail(scheduler), ToCaller(last_atomic_cmd)))
  BY <1>1, <1>2, <1>3 DEF HandleEndOfBlock
<1>5. ticket_cnt \in 0 .. MaxTickets /\ ticket_cnt \in Nat
  BY SharingAssumption DEF TypeOK
<1>6. Waiting # {} => NextTicket \in Tickets /\ NextTicket \in 0 .. ticket_cnt
  <2>1. \A t \in Waiting : t \in Tickets /\ t \in Nat /\ t <= ticket_cnt
    BY SharingAssumption DEF TicketsIssued, Waiting, Tickets
  <2> QED
    BY <1>5, <2>1, NextTicketIsLeast
<1>7. q \in Seq(Commands) /\ (Waiting # {} => q # <<>>)
  <2>1. <<>> \in Seq(Commands)
    OBVIOUS
  <2> QED
    BY <1>2, <1>6, <2>1, NextTicketIsLeast DEF TypeOK, Waiting
<1>8. \A c \in Commands : ToCaller(c) \in Answers /\ Diverted(commands, c) \in Answers
  BY DEF ToCaller, ToEndOfBlock, Answers, Diverted
<1>9. PICK entries \in Seq(Answers) : entries = free \o resumed
  <2>1. free \in Seq(Answers)
    <3>1. non_atomic \in Seq(Commands)
      BY DEF TypeOK
    <3> QED
      BY <1>1, <1>8, <3>1
  <2>2. resumed \in Seq(Answers)
    BY <1>3, <1>7, <1>8
  <2>3. free \o resumed \in Seq(Answers)
    BY <2>1, <2>2
  <2> QED
    BY <2>3
<1>10. PICK scheduled \in Seq(Answers) : scheduled = Append(Tail(scheduler), ToCaller(last_atomic_cmd))
  <2>1. scheduler \in Seq(Answers) /\ scheduler # <<>> /\ last_atomic_cmd \in Commands
    BY DEF TypeOK, HandleEndOfBlock, Executes
  <2>2. Tail(scheduler) \in Seq(Answers) /\ ToCaller(last_atomic_cmd) \in Answers
    BY <1>8, <2>1
  <2>3. Append(Tail(scheduler), ToCaller(last_atomic_cmd)) \in Seq(Answers)
    BY <2>2
  <2> QED
    BY <2>3
<1>11. /\ connection' \in Seq(Answers) /\ scheduler' \in Seq(Answers)
       /\ line' \in Seq(0 .. ticket_cnt)
  <2>1. \A c \in Commands : commands[c].ticket \in 0 .. ticket_cnt
    <3>1. \A c \in Commands : commands[c].ticket \in Nat
      BY Numbered DEF TicketNumbers
    <3> QED
      BY <1>5, <3>1 DEF TicketsIssued
  <2>2. connection \in Seq(Answers) /\ line \in Seq(0 .. ticket_cnt)
    BY DEF TypeOK
  <2> QED
    BY <1>4, <1>5, <1>9, <1>10, <2>1, <2>2, IssueNumbers
<1>12. active_ticket' \in 0 .. ticket_cnt
  <2>1. active_ticket' = IF Waiting = {} THEN 0 ELSE NextTicket
    BY DEF HandleEndOfBlock, NextActive
  <2> QED
    BY <1>5, <1>6, <2>1
<1>13. last_atomic_cmd' \in Commands \cup {0}
  <2>1. Waiting # {} => Last(q) \in Commands
    <3>1. Waiting # {} => Len(q) \in 1 .. Len(q) /\ q[Len(q)] \in Commands
      BY <1>7
    <3> QED
      BY <3>1 DEF Last
  <2> QED
    BY <1>2, <2>1 DEF HandleEndOfBlock
<1>14. /\ non_atomic' \in Seq(Commands) /\ atomic' \in [Tickets -> Seq(Commands)]
       /\ Waiting' \subseteq Waiting
  <2>1. <<>> \in Seq(Commands)
    OBVIOUS
  <2>2. non_atomic' = <<>> /\ atomic \in [Tickets -> Seq(Commands)]
    BY DEF HandleEndOfBlock, TypeOK
  <2>3. atomic' = atomic \/ atomic' = [atomic EXCEPT ![NextTicket] = <<>>]
    BY DEF HandleEndOfBlock
  <2>4. atomic' \in [Tickets -> Seq(Commands)] /\ \A t \in Tickets : atomic'[t] \in {atomic[t], <<>>}
    BY <2>1, <2>2, <2>3
  <2> QED
    BY <2>1, <2>2, <2>4 DEF Waiting
<1>15. /\ commands' = commands /\ current_ticket' = current_ticket
       /\ ticket_cnt' = ticket_cnt /\ doubled' = doubled
  BY DEF HandleEndOfBlock, slaveVars
<1>16. TypeOK'
  BY <1>11, <1>12, <1>13, <1>14, <1>15 DEF TypeOK
<1>17. TicketsIssued'
  BY <1>14, <1>15 DEF TicketsIssued
<1> QED
  BY <1>15, <1>16, <1>17

-----------------------------------------------------------------------------
LEMMA InvParts == SharedIInv <=> TypeOK /\ IF doubled THEN Twice ELSE Orderly
  BY DEF SharedIInv, SharedInv, BlocksInTurn, Twice, Orderly, Increasing

LEMMA InvPartsNext == SharedIInv' <=> TypeOK' /\ IF doubled' THEN Twice' ELSE Orderly'
  BY DEF SharedIInv, SharedInv, BlocksInTurn, Twice, Orderly, Increasing

LEMMA InitShared == Init => SharedIInv
<1> SUFFICES ASSUME Init PROVE SharedIInv
  OBVIOUS
<1>1. /\ commands = [c \in Commands |-> Free] /\ current_ticket = [s \in Slaves |-> 0]
      /\ ticket_cnt = 0 /\ active_ticket = 0 /\ last_atomic_cmd = 0
      /\ non_atomic = <<>> /\ atomic = [t \in Tickets |-> <<>>]
      /\ connection = <<>> /\ scheduler = <<>> /\ line = <<>> /\ doubled = FALSE
  BY DEF Init
<1>2. InUse = {} /\ InBlock = {} /\ Waiting = {} /\ \A t \in 0 .. MaxTickets : Pending(t) = <<>>
  BY <1>1 DEF InUse, InBlock, Waiting, Pending, Tickets
<1>3. Range(<<>>) = {} /\ IsInjective(<<>>)
  BY DEF Range, IsInjective
<1>4. Below = {}
  BY <1>1, <1>3 DEF Below
<1>5. TypeOK
  <2>1. <<>> \in Seq(Commands) /\ <<>> \in Seq(Answers) /\ <<>> \in Seq(0 .. 0)
    OBVIOUS
  <2>a. /\ commands \in [Commands ->
              {Free} \cup [api : Apis \cup {"NOOP"}, ticket : 0 .. MaxTickets, cease : BOOLEAN]]
        /\ current_ticket \in [Slaves -> 0 .. ticket_cnt] /\ ticket_cnt \in 0 .. MaxTickets
    BY <1>1, SharingAssumption
  <2>b. /\ active_ticket \in 0 .. ticket_cnt /\ last_atomic_cmd \in Commands \cup {0}
        /\ non_atomic \in Seq(Commands) /\ atomic \in [Tickets -> Seq(Commands)]
    BY <1>1, <2>1
  <2>c. /\ connection \in Seq(Answers) /\ scheduler \in Seq(Answers)
        /\ line \in Seq(0 .. ticket_cnt) /\ doubled \in BOOLEAN
    BY <1>1, <2>1
  <2> QED
    BY <2>a, <2>b, <2>c DEF TypeOK
<1>6. EachOnce
  <2>1. \A c \in Commands : c # 0
    BY SharingAssumption
  <2> QED
    BY <1>1, <1>2, <1>3, <1>4, <2>1 DEF EachOnce, Once, Waits
<1>7. InQueues /\ Distinct(connection, scheduler)
  BY <1>1, <1>2, <1>3 DEF InQueues, Distinct
<1>8. EndOfBlockExpected
  BY <1>1, <1>2, <1>4 DEF EndOfBlockExpected
<1>9. BlocksBegun /\ BlocksToCome /\ Increasing(line)
  BY <1>1, <1>2 DEF BlocksBegun, BlocksToCome, Increasing
<1> QED
  BY <1>1, <1>5, <1>6, <1>7, <1>8, <1>9, OnePlaceParts, InvParts DEF Orderly

LEMMA SharedStep == SharedIInv /\ [Next]_vars => SharedIInv'
<1> SUFFICES ASSUME SharedIInv, [Next]_vars PROVE SharedIInv'
  OBVIOUS
<1>1. (doubled => Twice) /\ (~doubled => Orderly)
  BY InvParts
<1>2. ASSUME Twice' PROVE SharedIInv'
  BY <1>2, InvPartsNext DEF Twice
<1>3. ASSUME Orderly', doubled' = doubled, ~doubled PROVE SharedIInv'
  BY <1>3, InvPartsNext DEF Orderly
<1>4. CASE \E s \in Slaves, api \in Apis, token \in {"none", "request", "cease"} :
             Call(s, api, token)
  <2>1. ~doubled /\ doubled' = doubled
    BY <1>4 DEF Call, Bounded
  <2>2. Orderly'
    BY <1>1, <1>4, <2>1, CallStep
  <2> QED
    BY <1>3, <2>1, <2>2
<1>5. CASE CallerAnswered
  <2>1. doubled' = doubled
    BY <1>5 DEF CallerAnswered
  <2> QED
    BY <1>1, <1>2, <1>3, <1>5, <2>1, CallerStep, TwiceCaller
<1>6. CASE HandleEndOfBlock
  <2>1. doubled' = doubled
    BY <1>6 DEF HandleEndOfBlock
  <2> QED
    BY <1>1, <1>2, <1>3, <1>6, <2>1, EndOfBlockStep, TwiceEnded
<1>7. CASE ConnectionAnswers
  <2>1. doubled' = doubled
    BY <1>7 DEF ConnectionAnswers
  <2> QED
    BY <1>1, <1>2, <1>3, <1>7, <2>1, AnswerStep, TwiceAnswered
<1>8. CASE AbortAll
  <2>1. Orderly
    BY <1>1, <1>8 DEF AbortAll
  <2> QED
    BY <1>2, <1>8, <2>1, AbortStep
<1>9. CASE UNCHANGED vars
  <2>1. /\ UNCHANGED <<commands, slaveVars, masterVars, line, doubled>>
        /\ connection' = connection /\ scheduler' = scheduler
    BY <1>9 DEF vars, lowerVars
  <2>2. ASSUME Orderly PROVE Orderly'
    BY <2>1, <2>2, HandedOver, OnePlaceParts DEF Orderly, TypeOK, Below
  <2>3. ASSUME Twice PROVE Twice'
    BY <2>1, <2>3 DEF Twice, TypeOK, TicketsIssued, Waiting, slaveVars, masterVars
  <2> QED
    BY <1>1, <1>2, <1>3, <2>1, <2>2, <2>3
<1> QED
  BY <1>4, <1>5, <1>6, <1>7, <1>8, <1>9 DEF Next, ExecuteCommand

(* The inductive invariant: who is in a block has the line or waits for    *)
(* it, and blocks wait in the order of their tickets; until an abort finds *)
(* commands queued at the real connection (AbortAll answers those and      *)
(* leaves them to be answered again).                                      *)
THEOREM SharedInvariance == Spec => []SharedIInv
  BY InitShared, SharedStep, PTL DEF Spec

(* Until an abort finds commands queued at the real connection, none is    *)
(* forgotten or held twice, and the end of a block is announced exactly    *)
(* while the master waits for it, with any number of inverters, commands   *)
(* and blocks (CSharedConnectionMaster).                                   *)
THEOREM SharedSound == Spec => []SharedInv
<1>1. SharedIInv => SharedInv
  BY DEF SharedIInv
<1> QED
  BY <1>1, SharedInvariance, PTL

(* The operations of a block are not interrupted on the line, and blocks   *)
(* get it in the order of their tickets, until such an abort               *)
(* (HandleAtomicBlock and CMD_HANDLEENDOFBLOCK).                           *)
THEOREM BlocksKeepTurn == Spec => []BlocksInTurn
<1>1. SharedIInv => BlocksInTurn
  BY DEF SharedIInv
<1> QED
  BY <1>1, SharedInvariance, PTL

-----------------------------------------------------------------------------
(* The reads outside of atomic blocks.                                     *)

(* What is counted in a queue.                                             *)

LEMMA CountTypes ==
    ASSUME NEW E, NEW q \in Seq(E), NEW S
    PROVE  /\ IsFiniteSet({ i \in DOMAIN q : q[i] \in S })
           /\ Count(q, S) \in Nat
           /\ Count(q, S) = 0 <=> \A i \in DOMAIN q : q[i] \notin S
<1>1. IsFiniteSet(1 .. Len(q)) /\ DOMAIN q = 1 .. Len(q)
  BY FS_Interval
<1>2. IsFiniteSet({ i \in DOMAIN q : q[i] \in S })
  BY <1>1, FS_Subset
<1> QED
  BY <1>2, FS_CardinalityType, FS_EmptySet DEF Count

LEMMA CountAppend ==
    ASSUME NEW E, NEW q \in Seq(E), NEW e \in E, NEW S
    PROVE  Count(Append(q, e), S) = Count(q, S) + IF e \in S THEN 1 ELSE 0
<1> DEFINE At == { i \in DOMAIN q : q[i] \in S }
           Now == { i \in DOMAIN Append(q, e) : Append(q, e)[i] \in S }
<1>1. IsFiniteSet(At) /\ Cardinality(At) \in Nat
  BY CountTypes, FS_CardinalityType
<1>2. Now = IF e \in S THEN At \cup {Len(q) + 1} ELSE At
  OBVIOUS
<1>3. Len(q) + 1 \notin At
  OBVIOUS
<1> HIDE DEF At, Now
<1>4. Cardinality(At \cup {Len(q) + 1}) = Cardinality(At) + 1
  BY <1>1, <1>3, FS_AddElement, Zenon
<1>5. Cardinality(Now) = Cardinality(At) + IF e \in S THEN 1 ELSE 0
  BY <1>1, <1>2, <1>4
<1> QED
  BY <1>5 DEF Count, At, Now

LEMMA CountTail ==
    ASSUME NEW E, NEW q \in Seq(E), q # <<>>, NEW S
    PROVE  Count(Tail(q), S) = Count(q, S) - IF Head(q) \in S THEN 1 ELSE 0
<1> DEFINE At == { i \in DOMAIN q : q[i] \in S }
           Now == { i \in DOMAIN Tail(q) : Tail(q)[i] \in S }
           Next1 == [i \in Now |-> i + 1]
<1>1. IsFiniteSet(At) /\ Cardinality(At) \in Nat
  BY CountTypes, FS_CardinalityType
<1>2. IsFiniteSet(Now)
  <2>1. Tail(q) \in Seq(E)
    OBVIOUS
  <2> QED
    BY <2>1, CountTypes, Zenon
<1>3. 1 \in At <=> Head(q) \in S
  OBVIOUS
<1>4. Next1 \in Bijection(Now, At \ {1})
  <2>1. \A i \in Now : i \in Nat /\ i + 1 \in At \ {1}
    OBVIOUS
  <2>2. \A j \in At \ {1} : j - 1 \in Now /\ j \in Nat
    OBVIOUS
  <2> HIDE DEF At, Now
  <2>3. Next1 \in [Now -> At \ {1}]
    BY <2>1
  <2>4. \A i, j \in Now : Next1[i] = Next1[j] => i = j
    BY <2>1
  <2>5. \A j \in At \ {1} : \E i \in Now : Next1[i] = j
    BY <2>2
  <2> QED
    BY <2>3, <2>4, <2>5 DEF Bijection, Injection, Surjection, IsInjective
<1> HIDE DEF At, Now, Next1
<1>5. Cardinality(At \ {1}) = Cardinality(Now)
  BY <1>2, <1>4, FS_Bijection DEF ExistsBijection
<1>6. Cardinality(Now) = Cardinality(At) - IF 1 \in At THEN 1 ELSE 0
  <2>1. Cardinality(At \ {1}) = IF 1 \in At THEN Cardinality(At) - 1 ELSE Cardinality(At)
    BY <1>1, FS_RemoveElement, Zenon
  <2> QED
    BY <1>1, <1>5, <2>1
<1> QED
  BY <1>3, <1>6 DEF Count, At, Now

LEMMA CountConcat ==
    ASSUME NEW E, NEW q \in Seq(E), NEW r \in Seq(E), NEW S
    PROVE  /\ (\A i \in DOMAIN r : r[i] \notin S) => Count(q \o r, S) = Count(q, S)
           /\ (\E i \in DOMAIN r : r[i] \in S) => Count(q \o r, S) > 0
           /\ Count(q, S) > 0 => Count(q \o r, S) > 0
<1>1. q \o r \in Seq(E)
  OBVIOUS
<1>2. /\ DOMAIN (q \o r) = 1 .. Len(q) + Len(r)
      /\ \A i \in DOMAIN q : (q \o r)[i] = q[i] /\ i \in DOMAIN (q \o r)
      /\ \A i \in DOMAIN r : (q \o r)[Len(q) + i] = r[i] /\ Len(q) + i \in DOMAIN (q \o r)
  OBVIOUS
<1>3. ASSUME \A i \in DOMAIN r : r[i] \notin S
      PROVE  { i \in DOMAIN (q \o r) : (q \o r)[i] \in S } = { i \in DOMAIN q : q[i] \in S }
  <2>1. \A i \in DOMAIN (q \o r) : i \in DOMAIN q \/ (i - Len(q) \in DOMAIN r /\ (q \o r)[i] = r[i - Len(q)])
    OBVIOUS
  <2> QED
    BY <1>2, <1>3, <2>1
<1>4. Count(q \o r, S) \in Nat /\ (Count(q \o r, S) = 0 <=> \A i \in DOMAIN (q \o r) : (q \o r)[i] \notin S)
  BY <1>1, CountTypes
<1>5. Count(q, S) \in Nat /\ (Count(q, S) = 0 <=> \A i \in DOMAIN q : q[i] \notin S)
  BY CountTypes
<1>6. (\A i \in DOMAIN r : r[i] \notin S) => Count(q \o r, S) = Count(q, S)
  BY <1>3 DEF Count
<1>7. (\E i \in DOMAIN (q \o r) : (q \o r)[i] \in S) => Count(q \o r, S) > 0
  BY <1>4
<1>8. (\E i \in DOMAIN r : r[i] \in S) => Count(q \o r, S) > 0
  BY <1>2, <1>7
<1>9. Count(q, S) > 0 => Count(q \o r, S) > 0
  BY <1>2, <1>5, <1>7
<1> QED
  BY <1>6, <1>8, <1>9

-----------------------------------------------------------------------------
(* The commands and the list of the subscribed.                            *)

ReadCommands == Completions \cup UNION { ForSlave(s) : s \in Readers }

LEMMA CommandTypes ==
    /\ \A o \in Outcomes : Completion(o) \in ReadCommands
    /\ \A s \in Readers : /\ Answer(s) \in ReadCommands /\ HandleTimeouts(s) \in ReadCommands
                         /\ \A data \in BOOLEAN : HandleRead(s, data) \in ReadCommands
BY DEF ReadCommands, Completions, ForSlave, HandleReads

LEMMA Kinds ==
    ASSUME NEW c \in ReadCommands
    PROVE  /\ c \in Completions <=> c.to = "master"
           /\ c.to = "master" => c.outcome \in Outcomes
           /\ c.to # "master" => c.slave \in Readers
           /\ c.to = "slave" => c.data \in BOOLEAN
           /\ \A s \in Readers : c \in HandleReads(s) <=> c.to = "slave" /\ c.slave = s
           /\ \A s \in Readers : c \in {Answer(s)} <=> c.to = "caller" /\ c.slave = s
<1>1. CASE c \in Completions
  BY <1>1 DEF Completions, Completion, HandleReads, HandleRead, Answer
<1>2. ASSUME NEW t \in Readers, c \in ForSlave(t)
      PROVE  /\ c \notin Completions /\ c.to # "master" /\ c.slave = t
             /\ c.to = "slave" => c.data \in BOOLEAN
             /\ \A s \in Readers : c \in HandleReads(s) <=> c.to = "slave" /\ c.slave = s
             /\ \A s \in Readers : c \in {Answer(s)} <=> c.to = "caller" /\ c.slave = s
  <2>1. CASE c = HandleTimeouts(t)
    BY <2>1 DEF HandleTimeouts, Completions, Completion, HandleReads, HandleRead, Answer
  <2>2. CASE c = Answer(t)
    BY <2>2 DEF Completions, Completion, HandleReads, HandleRead, Answer
  <2>3. CASE c \in HandleReads(t)
    BY <2>3 DEF Completions, Completion, HandleReads, HandleRead, Answer
  <2> QED
    BY <1>2, <2>1, <2>2, <2>3 DEF ForSlave
<1> QED
  BY <1>1, <1>2 DEF ReadCommands

LEMMA Unsubscribed ==
    ASSUME NEW E, NEW q \in Seq(E), NEW i \in DOMAIN q, IsInjective(q)
    PROVE  /\ RemoveAt(q, i) \in Seq(E) /\ IsInjective(RemoveAt(q, i))
           /\ Range(RemoveAt(q, i)) \subseteq Range(q)
<1> DEFINE r == RemoveAt(q, i)
<1>1. /\ r \in Seq(E) /\ Len(r) = Len(q) - 1 /\ DOMAIN r = 1 .. Len(q) - 1
      /\ \A j \in DOMAIN r : r[j] = IF j < i THEN q[j] ELSE q[j + 1]
  <2> DEFINE before == SubSeq(q, 1, i - 1)
             after == SubSeq(q, i + 1, Len(q))
  <2>1. /\ before \in Seq(E) /\ Len(before) = i - 1
        /\ \A j \in 1 .. i - 1 : before[j] = q[j]
    OBVIOUS
  <2>2. /\ after \in Seq(E) /\ Len(after) = Len(q) - i
        /\ \A j \in 1 .. Len(q) - i : after[j] = q[i + j]
    OBVIOUS
  <2>3. r = before \o after
    BY DEF RemoveAt
  <2>4. i \in 1 .. Len(q) /\ Len(q) \in Nat
    OBVIOUS
  <2> HIDE DEF before, after, r
  <2>5. r \in Seq(E) /\ Len(r) = Len(q) - 1 /\ DOMAIN r = 1 .. Len(q) - 1
    BY <2>1, <2>2, <2>3, <2>4
  <2>6. \A j \in 1 .. Len(q) - 1 : r[j] = IF j < i THEN before[j] ELSE after[j - (i - 1)]
    <3>1. ASSUME NEW x \in Seq(E), NEW y \in Seq(E)
          PROVE  \A j \in 1 .. Len(x) + Len(y) :
                     (x \o y)[j] = IF j <= Len(x) THEN x[j] ELSE y[j - Len(x)]
      OBVIOUS
    <3>2. \A j \in 1 .. Len(before) + Len(after) :
              r[j] = IF j <= Len(before) THEN before[j] ELSE after[j - Len(before)]
      BY <2>1, <2>2, <2>3, <3>1
    <3>3. ASSUME NEW j \in 1 .. Len(q) - 1
          PROVE  j \in 1 .. (i - 1) + (Len(q) - i) /\ (j <= i - 1 <=> j < i)
      BY <2>4, <3>3
    <3> QED
      BY <2>1, <2>2, <3>2, <3>3
  <2>7. \A j \in 1 .. Len(q) - 1 : r[j] = IF j < i THEN q[j] ELSE q[j + 1]
    <3> SUFFICES ASSUME NEW j \in 1 .. Len(q) - 1
                 PROVE  r[j] = IF j < i THEN q[j] ELSE q[j + 1]
      OBVIOUS
    <3>1. CASE j < i
      BY <2>1, <2>4, <2>6, <3>1
    <3>2. CASE ~(j < i)
      <4>1. j - (i - 1) \in 1 .. Len(q) - i /\ i + (j - (i - 1)) = j + 1
        BY <2>4, <3>2
      <4> QED
        BY <2>2, <2>6, <3>2, <4>1
    <3> QED
      BY <3>1, <3>2
  <2> QED
    BY <2>5, <2>7
<1> HIDE DEF r
<1>2. \A j \in DOMAIN r : j \in Nat /\ j \in DOMAIN q /\ j + 1 \in DOMAIN q
  BY <1>1
<1> QED
  BY <1>1, <1>2 DEF r, IsInjective, Range

LEMMA InitSharedReads == ReadsInit => SharedReadsInv
<1> SUFFICES ASSUME ReadsInit PROVE SharedReadsInv
  OBVIOUS
<1>1. ReadsTypeOK
  <2>1. MaxTime \in Nat
    BY ReadsAssumption
  <2>2. <<>> \in Seq(Nat) /\ <<>> \in Seq(Readers) /\ <<>> \in Seq(ReadCommands)
    OBVIOUS
  <2>3. 0 \in 0 .. MaxTime
    BY <2>1
  <2> QED
    BY <2>2, <2>3 DEF ReadsInit, ReadsTypeOK, NoDate, ReadCommands
<1>2. \A S : Count(queue, S) = 0
  BY FS_EmptySet DEF ReadsInit, Count
<1> QED
  BY <1>1, <1>2 DEF ReadsInit, SharedReadsInv, AnsweredAtMostOnce, OneReader, UnderWay, Listened,
                    SubscribedOnce, IsInjective, Range

-----------------------------------------------------------------------------
(* The queue after a command is added or taken.                            *)

LEMMA Counted ==
    ASSUME ReadsTypeOK
    PROVE  /\ Count(queue, Completions) \in Nat
           /\ \A s \in Readers : /\ Count(queue, {Answer(s)}) \in Nat
                                /\ Count(queue, HandleReads(s)) \in Nat
BY CountTypes DEF ReadsTypeOK

LEMMA Added ==
    ASSUME ReadsTypeOK, NEW c \in ReadCommands, queue' = Append(queue, c)
    PROVE  /\ queue' \in Seq(ReadCommands)
           /\ c.to = "master" => Count(queue', Completions) = Count(queue, Completions) + 1
           /\ c.to # "master" => Count(queue', Completions) = Count(queue, Completions)
           /\ \A s \in Readers :
                /\ c.to = "caller" /\ c.slave = s =>
                       Count(queue', {Answer(s)}) = Count(queue, {Answer(s)}) + 1
                /\ ~(c.to = "caller" /\ c.slave = s) =>
                       Count(queue', {Answer(s)}) = Count(queue, {Answer(s)})
                /\ Count(queue, HandleReads(s)) > 0 => Count(queue', HandleReads(s)) > 0
<1>1. queue \in Seq(ReadCommands)
  BY DEF ReadsTypeOK, ReadCommands
<1>2. queue' \in Seq(ReadCommands)
  BY <1>1
<1>3. Count(queue', Completions) = Count(queue, Completions) + IF c \in Completions THEN 1 ELSE 0
  BY <1>1, CountAppend
<1>4. /\ c.to = "master" => Count(queue', Completions) = Count(queue, Completions) + 1
      /\ c.to # "master" => Count(queue', Completions) = Count(queue, Completions)
  BY <1>3, Kinds, Counted
<1>5. ASSUME NEW s \in Readers
      PROVE  /\ c.to = "caller" /\ c.slave = s =>
                    Count(queue', {Answer(s)}) = Count(queue, {Answer(s)}) + 1
             /\ ~(c.to = "caller" /\ c.slave = s) =>
                    Count(queue', {Answer(s)}) = Count(queue, {Answer(s)})
             /\ Count(queue, HandleReads(s)) > 0 => Count(queue', HandleReads(s)) > 0
  <2>1. /\ Count(queue', {Answer(s)}) =
               Count(queue, {Answer(s)}) + IF c \in {Answer(s)} THEN 1 ELSE 0
        /\ Count(queue', HandleReads(s)) =
               Count(queue, HandleReads(s)) + IF c \in HandleReads(s) THEN 1 ELSE 0
    BY <1>1, CountAppend
  <2>2. Count(queue, {Answer(s)}) \in Nat /\ Count(queue, HandleReads(s)) \in Nat
    BY Counted
  <2>3. c \in {Answer(s)} <=> c.to = "caller" /\ c.slave = s
    BY Kinds
  <2> QED
    BY <2>1, <2>2, <2>3
<1> QED
  BY <1>2, <1>4, <1>5

LEMMA Taken ==
    ASSUME ReadsTypeOK, queue # <<>>
    PROVE  /\ Head(queue) \in ReadCommands /\ Tail(queue) \in Seq(ReadCommands)
           /\ Head(queue).to = "master" =>
                  Count(Tail(queue), Completions) = Count(queue, Completions) - 1
           /\ Head(queue).to # "master" =>
                  Count(Tail(queue), Completions) = Count(queue, Completions)
           /\ \A s \in Readers :
                /\ Count(Tail(queue), {Answer(s)}) \in Nat
                /\ Count(Tail(queue), {Answer(s)}) <= Count(queue, {Answer(s)})
                /\ Head(queue).to # "caller" =>
                       Count(Tail(queue), {Answer(s)}) = Count(queue, {Answer(s)})
                /\ ~(Head(queue).to = "slave" /\ Head(queue).slave = s) =>
                       Count(Tail(queue), HandleReads(s)) = Count(queue, HandleReads(s))
<1>1. queue \in Seq(ReadCommands)
  BY DEF ReadsTypeOK, ReadCommands
<1>2. Head(queue) \in ReadCommands /\ Tail(queue) \in Seq(ReadCommands)
  BY <1>1
<1> DEFINE Less(S) == Count(Tail(queue), S) = Count(queue, S) - IF Head(queue) \in S THEN 1 ELSE 0
<1>3. Less(Completions)
  BY <1>1, CountTail
<1>4. /\ Head(queue).to = "master" =>
             Count(Tail(queue), Completions) = Count(queue, Completions) - 1
      /\ Head(queue).to # "master" =>
             Count(Tail(queue), Completions) = Count(queue, Completions)
  BY <1>2, <1>3, Kinds, Counted
<1>5. ASSUME NEW s \in Readers
      PROVE  /\ Count(Tail(queue), {Answer(s)}) \in Nat
             /\ Count(Tail(queue), {Answer(s)}) <= Count(queue, {Answer(s)})
             /\ Head(queue).to # "caller" =>
                    Count(Tail(queue), {Answer(s)}) = Count(queue, {Answer(s)})
             /\ ~(Head(queue).to = "slave" /\ Head(queue).slave = s) =>
                    Count(Tail(queue), HandleReads(s)) = Count(queue, HandleReads(s))
  <2>1. Less({Answer(s)}) /\ Less(HandleReads(s))
    BY <1>1, CountTail
  <2>2. /\ Count(queue, {Answer(s)}) \in Nat /\ Count(queue, HandleReads(s)) \in Nat
        /\ Count(Tail(queue), {Answer(s)}) \in Nat
    BY <1>2, CountTypes, Counted
  <2>3. /\ Head(queue) \in {Answer(s)} <=> Head(queue).to = "caller" /\ Head(queue).slave = s
        /\ Head(queue) \in HandleReads(s) <=> Head(queue).to = "slave" /\ Head(queue).slave = s
    BY <1>2, Kinds
  <2> QED
    BY <2>1, <2>2, <2>3
<1> QED
  BY <1>2, <1>4, <1>5

-----------------------------------------------------------------------------
(* The actions.                                                            *)

LEMMA ReceiveBufferedStep ==
    ASSUME SharedReadsInv, NEW s \in Readers, Receive(s), ReceiveBuffered(s)
    PROVE  SharedReadsInv'
<1> USE DEF SharedReadsInv
<1>1. /\ queue' = Append(queue, Answer(s)) /\ Answer(s) \in ReadCommands
      /\ Answer(s).to = "caller" /\ Answer(s).slave = s
      /\ read_buffer' = [read_buffer EXCEPT ![s] = FALSE]
      /\ UNCHANGED <<pending_reads, timers, reading_slaves, readtimeout, reads, now, aborted>>
  BY CommandTypes DEF Receive, ReceiveBuffered, readingVars, Answer
<1>2. /\ queue' \in Seq(ReadCommands) /\ Count(queue', Completions) = Count(queue, Completions)
      /\ \A t \in Readers :
            /\ Count(queue', {Answer(t)}) = Count(queue, {Answer(t)}) + IF s = t THEN 1 ELSE 0
            /\ Count(queue, HandleReads(t)) > 0 => Count(queue', HandleReads(t)) > 0
  BY <1>1, Added, Counted
<1>3. ReadsTypeOK'
  BY <1>1, <1>2 DEF ReadsTypeOK, ReadCommands
<1>4. Count(queue, {Answer(s)}) = 0 /\ pending_reads[s] = <<>>
  BY CountTypes DEF Receive, Answered, ReadsTypeOK
<1>5. AnsweredAtMostOnce'
  <2> SUFFICES ASSUME NEW t \in Readers
               PROVE  Len(pending_reads[t]) + Count(queue', {Answer(t)}) <= 1
    BY <1>1 DEF AnsweredAtMostOnce
  <2>1. Len(pending_reads[t]) + Count(queue, {Answer(t)}) <= 1
    BY DEF AnsweredAtMostOnce
  <2>2. CASE t = s
    <3>1. Count(queue', {Answer(s)}) = 0 + 1 /\ Len(pending_reads[s]) = 0
      BY <1>2, <1>4
    <3> QED
      BY <2>2, <3>1
  <2>3. CASE t # s
    <3>1. Count(queue', {Answer(t)}) = Count(queue, {Answer(t)}) + 0
      BY <1>2, <2>3
    <3> QED
      BY <2>1, <3>1, Counted
  <2> QED
    BY <2>2, <2>3
<1>6. UnderWay' = UnderWay
  BY <1>1, <1>2 DEF UnderWay
<1>7. OneReader' /\ Listened'
  <2>1. Range(reading_slaves) \subseteq Readers
    BY DEF ReadsTypeOK, Range
  <2> QED
    BY <1>1, <1>2, <1>6, <2>1 DEF OneReader, Listened
<1>8. SubscribedOnce'
  BY <1>1 DEF SubscribedOnce
<1> QED
  BY <1>3, <1>5, <1>7, <1>8

LEMMA ReceiveLaterStep ==
    ASSUME SharedReadsInv, NEW s \in Readers, Receive(s),
           NEW timeout \in Timeouts, ReceiveLater(s, timeout)
    PROVE  SharedReadsInv'
<1> USE DEF SharedReadsInv
<1> DEFINE due == now + timeout
<1>1. /\ pending_reads' = [pending_reads EXCEPT ![s] = Append(@, due)]
      /\ timers' = timers \cup {[slave |-> s, due |-> due]}
      /\ reading_slaves' = IF s \in Range(reading_slaves) THEN reading_slaves
                           ELSE Append(reading_slaves, s)
      /\ MasterReceive(due)
      /\ UNCHANGED <<read_buffer, queue, now, aborted>>
  BY DEF Receive, ReceiveLater
<1>2. due \in Nat /\ due > now /\ now \in Nat
  BY ReadsAssumption DEF ReadsTypeOK
<1> HIDE DEF due
<1>3. pending_reads[s] = <<>> /\ Count(queue, {Answer(s)}) = 0
  BY CountTypes DEF Receive, Answered, ReadsTypeOK
<1>4. /\ pending_reads' \in [Readers -> Seq(Nat)]
      /\ pending_reads'[s] = <<due>>
      /\ \A t \in Readers : t # s => pending_reads'[t] = pending_reads[t]
  BY <1>1, <1>2, <1>3 DEF ReadsTypeOK
<1>5. /\ reading_slaves' \in Seq(Readers)
      /\ Range(reading_slaves') = Range(reading_slaves) \cup {s}
      /\ SubscribedOnce'
  <2>1. CASE s \in Range(reading_slaves)
    BY <1>1, <2>1 DEF ReadsTypeOK, SubscribedOnce
  <2>2. CASE s \notin Range(reading_slaves)
    <3>1. reading_slaves' = Append(reading_slaves, s) /\ reading_slaves \in Seq(Readers)
      BY <1>1, <2>2 DEF ReadsTypeOK
    <3>2. /\ DOMAIN reading_slaves' = 1 .. Len(reading_slaves) + 1
          /\ DOMAIN reading_slaves = 1 .. Len(reading_slaves)
          /\ \A i \in DOMAIN reading_slaves : reading_slaves'[i] = reading_slaves[i]
          /\ reading_slaves'[Len(reading_slaves) + 1] = s
          /\ Len(reading_slaves) \in Nat
      BY <3>1
    <3>3. reading_slaves' \in Seq(Readers)
      BY <3>1
    <3>4. Range(reading_slaves') = Range(reading_slaves) \cup {s}
      BY <3>2 DEF Range
    <3>5. IsInjective(reading_slaves')
      BY <2>2, <3>2 DEF SubscribedOnce, IsInjective, Range
    <3> QED
      BY <3>3, <3>4, <3>5 DEF SubscribedOnce
  <2> QED
    BY <2>1, <2>2
<1>6. /\ reads' \in Nat /\ readtimeout' \in Nat /\ readtimeout' >= due
      /\ readtimeout = NoDate => reads' = reads + 1
      /\ readtimeout # NoDate => reads' = reads /\ readtimeout' >= readtimeout
  BY <1>1, <1>2 DEF MasterReceive, ReadsTypeOK, NoDate
<1>7. ReadsTypeOK'
  BY <1>1, <1>2, <1>4, <1>5, <1>6 DEF ReadsTypeOK
<1>8. AnsweredAtMostOnce'
  <2> SUFFICES ASSUME NEW t \in Readers
               PROVE  Len(pending_reads'[t]) + Count(queue, {Answer(t)}) <= 1
    BY <1>1 DEF AnsweredAtMostOnce
  <2>1. Len(pending_reads[t]) + Count(queue, {Answer(t)}) <= 1
    BY DEF AnsweredAtMostOnce
  <2>2. CASE t = s
    <3>1. Len(pending_reads'[s]) = 1 /\ Count(queue, {Answer(s)}) = 0
      BY <1>3, <1>4
    <3> QED
      BY <2>2, <3>1
  <2>3. CASE t # s
    BY <1>4, <2>1, <2>3
  <2> QED
    BY <2>2, <2>3
<1>9. ~aborted => UnderWay' = 1 /\ (readtimeout = NoDate => UnderWay = 0)
  BY <1>1, <1>6, Counted DEF OneReader, UnderWay, ReadsTypeOK
<1>10. OneReader'
  BY <1>1, <1>6, <1>9 DEF OneReader, NoDate
<1>11. Listened'
  <2> SUFFICES ASSUME ~aborted, NEW t \in Range(reading_slaves'),
                      NEW i \in DOMAIN pending_reads'[t], pending_reads'[t][i] > now
               PROVE  \/ UnderWay' > 0 /\ readtimeout' >= pending_reads'[t][i]
                      \/ Count(queue', HandleReads(t)) > 0
    BY <1>1 DEF Listened
  <2>1. CASE t = s
    BY <1>2, <1>4, <1>6, <1>9, <2>1
  <2>2. CASE t # s
    <3>1. t \in Range(reading_slaves) /\ Range(reading_slaves) \subseteq Readers
      <4>1. Range(reading_slaves) \subseteq Readers
        BY DEF ReadsTypeOK, Range
      <4> QED
        BY <1>5, <2>2, <4>1
    <3>2. pending_reads'[t] = pending_reads[t] /\ pending_reads[t] \in Seq(Nat)
      BY <1>4, <2>2, <3>1 DEF ReadsTypeOK
    <3>3. pending_reads[t][i] \in Nat
      BY <3>2
    <3>4. \/ UnderWay > 0 /\ readtimeout >= pending_reads[t][i]
          \/ Count(queue, HandleReads(t)) > 0
      BY <3>1, <3>2 DEF Listened
    <3> QED
      BY <1>1, <1>6, <1>9, <3>2, <3>3, <3>4 DEF ReadsTypeOK, NoDate
  <2> QED
    BY <2>1, <2>2
<1> QED
  BY <1>5, <1>7, <1>8, <1>10, <1>11

LEMMA ConnectStep ==
    ASSUME SharedReadsInv, NEW s \in Readers, Connect(s)
    PROVE  SharedReadsInv'
<1> USE DEF SharedReadsInv
<1>1. /\ read_buffer' = [read_buffer EXCEPT ![s] = FALSE]
      /\ UNCHANGED <<pending_reads, timers, readingVars, reads, queue, now, aborted>>
  BY DEF Connect
<1> QED
  BY <1>1 DEF readingVars, ReadsTypeOK, AnsweredAtMostOnce, OneReader, UnderWay, Listened, SubscribedOnce

LEMMA DisconnectStep ==
    ASSUME SharedReadsInv, NEW s \in Readers, Disconnect(s)
    PROVE  SharedReadsInv'
<1> USE DEF SharedReadsInv
<1>1. PICK i \in DOMAIN reading_slaves : reading_slaves' = RemoveAt(reading_slaves, i)
  BY DEF Disconnect
<1>2. /\ read_buffer' = [read_buffer EXCEPT ![s] = FALSE]
      /\ UNCHANGED <<pending_reads, timers, readtimeout, reads, queue, now, aborted>>
  BY DEF Disconnect
<1>3. /\ reading_slaves' \in Seq(Readers) /\ SubscribedOnce'
      /\ Range(reading_slaves') \subseteq Range(reading_slaves)
  BY <1>1, Unsubscribed DEF ReadsTypeOK, SubscribedOnce
<1> QED
  BY <1>2, <1>3 DEF ReadsTypeOK, AnsweredAtMostOnce, OneReader, UnderWay, Listened

LEMMA SlaveAbortAllStep ==
    ASSUME SharedReadsInv, NEW s \in Readers, SlaveAbortAll(s)
    PROVE  SharedReadsInv'
<1> USE DEF SharedReadsInv
<1>1. /\ queue' = Append(queue, Answer(s)) /\ Answer(s) \in ReadCommands
      /\ Answer(s).to = "caller" /\ Answer(s).slave = s
      /\ pending_reads[s] # <<>> /\ pending_reads' = [pending_reads EXCEPT ![s] = <<>>]
      /\ UNCHANGED <<read_buffer, timers, reading_slaves, readtimeout, reads, now, aborted>>
  BY CommandTypes DEF SlaveAbortAll, readingVars, Answer
<1>2. /\ queue' \in Seq(ReadCommands) /\ Count(queue', Completions) = Count(queue, Completions)
      /\ \A t \in Readers :
            /\ Count(queue', {Answer(t)}) = Count(queue, {Answer(t)}) + IF s = t THEN 1 ELSE 0
            /\ Count(queue, HandleReads(t)) > 0 => Count(queue', HandleReads(t)) > 0
  BY <1>1, Added, Counted
<1>3. /\ pending_reads' \in [Readers -> Seq(Nat)] /\ pending_reads'[s] = <<>>
      /\ \A t \in Readers : t # s => pending_reads'[t] = pending_reads[t]
      /\ Len(pending_reads[s]) \in Nat \ {0}
  BY <1>1 DEF ReadsTypeOK
<1>4. ReadsTypeOK'
  BY <1>1, <1>2, <1>3 DEF ReadsTypeOK, ReadCommands
<1>5. AnsweredAtMostOnce'
  <2> SUFFICES ASSUME NEW t \in Readers
               PROVE  Len(pending_reads'[t]) + Count(queue', {Answer(t)}) <= 1
    BY DEF AnsweredAtMostOnce
  <2>1. /\ Len(pending_reads[t]) + Count(queue, {Answer(t)}) <= 1
        /\ Count(queue, {Answer(t)}) \in Nat
    BY Counted DEF AnsweredAtMostOnce
  <2>2. CASE t = s
    <3>1. Count(queue', {Answer(s)}) = Count(queue, {Answer(s)}) + 1
      BY <1>2
    <3>2. Len(pending_reads'[s]) = 0 /\ Len(pending_reads[s]) \in Nat \ {0}
      BY <1>3
    <3> QED
      BY <2>1, <2>2, <3>1, <3>2
  <2>3. CASE t # s
    <3>1. Count(queue', {Answer(t)}) = Count(queue, {Answer(t)}) + 0
      BY <1>2, <2>3
    <3> QED
      BY <1>3, <2>1, <2>3, <3>1
  <2> QED
    BY <2>2, <2>3
<1>6. UnderWay' = UnderWay
  BY <1>1, <1>2 DEF UnderWay
<1>7. OneReader' /\ SubscribedOnce'
  BY <1>1, <1>6 DEF OneReader, SubscribedOnce
<1>8. Listened'
  <2> SUFFICES ASSUME ~aborted, NEW t \in Range(reading_slaves),
                      NEW i \in DOMAIN pending_reads'[t], pending_reads'[t][i] > now
               PROVE  \/ UnderWay > 0 /\ readtimeout >= pending_reads'[t][i]
                      \/ Count(queue', HandleReads(t)) > 0
    BY <1>1, <1>6 DEF Listened
  <2>1. t \in Readers
    BY DEF ReadsTypeOK, Range
  <2>2. t # s
    BY <1>3
  <2>3. pending_reads'[t] = pending_reads[t]
    BY <1>3, <2>1, <2>2
  <2> QED
    BY <1>2, <2>1, <2>3 DEF Listened
<1> QED
  BY <1>4, <1>5, <1>7, <1>8

\* The slaves are as before, and so are the answers in the queue.
LEMMA SlavesKept ==
    ASSUME SharedReadsInv, UNCHANGED <<pending_reads, reading_slaves>>,
           \A s \in Readers : Count(queue', {Answer(s)}) = Count(queue, {Answer(s)})
    PROVE  AnsweredAtMostOnce' /\ SubscribedOnce'
BY DEF AnsweredAtMostOnce, SubscribedOnce, SharedReadsInv

LEMMA MasterAbortAllStep ==
    ASSUME SharedReadsInv, MasterAbortAll
    PROVE  SharedReadsInv'
<1> USE DEF SharedReadsInv
<1>0. PICK queued \in 0 .. reads :
         queue' = queue \o [i \in 1 .. queued |-> Completion("canceled")]
  BY DEF MasterAbortAll
<1> DEFINE given == [i \in 1 .. queued |-> Completion("canceled")]
<1>1. /\ aborted' = TRUE /\ readtimeout' = NoDate /\ reads' = reads /\ queue' = queue \o given
      /\ UNCHANGED <<pending_reads, read_buffer, timers, reading_slaves, now>>
  BY <1>0 DEF MasterAbortAll, pendingVars
<1>2. queue \in Seq(ReadCommands) /\ reads \in Nat /\ Completion("canceled") \in ReadCommands
  BY CommandTypes DEF ReadsTypeOK, ReadCommands, Outcomes
<1>3. given \in Seq(ReadCommands) /\ \A i \in DOMAIN given : given[i] = Completion("canceled")
  <2>1. queued \in Nat
    BY <1>2
  <2> QED
    BY <1>2, <2>1
<1> HIDE DEF given
<1>4. queue' \in Seq(ReadCommands)
  BY <1>1, <1>2, <1>3
<1>5. ASSUME NEW s \in Readers
      PROVE  Count(queue', {Answer(s)}) = Count(queue, {Answer(s)})
  <2>1. Completion("canceled") \notin {Answer(s)}
    BY DEF Completion, Answer
  <2> QED
    BY <1>1, <1>2, <1>3, <2>1, CountConcat
<1>6. ReadsTypeOK'
  BY <1>1, <1>4 DEF ReadsTypeOK, ReadCommands
<1>7. AnsweredAtMostOnce' /\ SubscribedOnce'
  BY <1>1, <1>5, SlavesKept
<1>8. OneReader' /\ Listened'
  BY <1>1 DEF OneReader, Listened
<1> QED
  BY <1>6, <1>7, <1>8

LEMMA ConnectionAnswersStep ==
    ASSUME SharedReadsInv, LineAnswers
    PROVE  SharedReadsInv'
<1> USE DEF SharedReadsInv
<1>1. PICK o \in Outcomes : queue' = Append(queue, Completion(o))
  BY DEF LineAnswers
<1>2. /\ reads > 0 /\ reads' = reads - 1 /\ Completion(o) \in ReadCommands /\ Completion(o).to = "master"
      /\ UNCHANGED <<pending_reads, read_buffer, timers, reading_slaves, readtimeout, now, aborted>>
  BY CommandTypes DEF LineAnswers, pendingVars, readingVars, Completion
<1>3. /\ queue' \in Seq(ReadCommands) /\ Count(queue', Completions) = Count(queue, Completions) + 1
      /\ \A t \in Readers :
            /\ Count(queue', {Answer(t)}) = Count(queue, {Answer(t)})
            /\ Count(queue, HandleReads(t)) > 0 => Count(queue', HandleReads(t)) > 0
  BY <1>1, <1>2, Added, Counted
<1>4. ReadsTypeOK'
  BY <1>2, <1>3 DEF ReadsTypeOK, ReadCommands
<1>5. AnsweredAtMostOnce' /\ SubscribedOnce'
  BY <1>2, <1>3, SlavesKept
<1>6. UnderWay' = UnderWay
  BY <1>2, <1>3, Counted DEF UnderWay, ReadsTypeOK
<1>7. OneReader' /\ Listened'
  <2>1. Range(reading_slaves) \subseteq Readers
    BY DEF ReadsTypeOK, Range
  <2> QED
    BY <1>2, <1>3, <1>6, <2>1 DEF OneReader, Listened
<1> QED
  BY <1>4, <1>5, <1>7

LEMMA TimerExpiresStep ==
    ASSUME SharedReadsInv, TimerExpires
    PROVE  SharedReadsInv'
<1> USE DEF SharedReadsInv
<1>1. PICK t \in timers : timers' = timers \ {t} /\ queue' = Append(queue, HandleTimeouts(t.slave))
  BY DEF TimerExpires
<1>2. /\ HandleTimeouts(t.slave) \in ReadCommands /\ HandleTimeouts(t.slave).to = "timeouts"
      /\ UNCHANGED <<pending_reads, read_buffer, reading_slaves, readtimeout, reads, now, aborted>>
  BY CommandTypes DEF TimerExpires, readingVars, HandleTimeouts, ReadsTypeOK
<1>3. /\ queue' \in Seq(ReadCommands) /\ Count(queue', Completions) = Count(queue, Completions)
      /\ \A s \in Readers :
            /\ Count(queue', {Answer(s)}) = Count(queue, {Answer(s)})
            /\ Count(queue, HandleReads(s)) > 0 => Count(queue', HandleReads(s)) > 0
  BY <1>1, <1>2, Added, Counted
<1>4. ReadsTypeOK'
  BY <1>1, <1>2, <1>3 DEF ReadsTypeOK, ReadCommands
<1>5. AnsweredAtMostOnce' /\ SubscribedOnce'
  BY <1>2, <1>3, SlavesKept
<1>6. UnderWay' = UnderWay
  BY <1>2, <1>3 DEF UnderWay
<1>7. OneReader' /\ Listened'
  <2>1. Range(reading_slaves) \subseteq Readers
    BY DEF ReadsTypeOK, Range
  <2> QED
    BY <1>2, <1>3, <1>6, <2>1 DEF OneReader, Listened
<1> QED
  BY <1>4, <1>5, <1>7

LEMMA TickStep ==
    ASSUME SharedReadsInv, Tick
    PROVE  SharedReadsInv'
<1> USE DEF SharedReadsInv
<1>1. /\ now' = now + 1 /\ now \in Nat /\ now' \in 0 .. MaxTime
      /\ UNCHANGED <<pending_reads, read_buffer, timers, reading_slaves, readtimeout, reads,
                     queue, aborted>>
  BY ReadsAssumption DEF Tick, pendingVars, readingVars, ReadsTypeOK
<1>2. ReadsTypeOK' /\ AnsweredAtMostOnce' /\ OneReader' /\ SubscribedOnce'
  BY <1>1 DEF ReadsTypeOK, AnsweredAtMostOnce, OneReader, UnderWay, SubscribedOnce
<1>3. Listened'
  <2> SUFFICES ASSUME ~aborted, NEW s \in Range(reading_slaves),
                      NEW i \in DOMAIN pending_reads[s], pending_reads[s][i] > now + 1
               PROVE  \/ UnderWay > 0 /\ readtimeout >= pending_reads[s][i]
                      \/ Count(queue, HandleReads(s)) > 0
    BY <1>1 DEF Listened, UnderWay
  <2>1. s \in Readers
    BY DEF ReadsTypeOK, Range
  <2>2. pending_reads[s][i] \in Nat
    BY <2>1 DEF ReadsTypeOK
  <2>3. pending_reads[s][i] > now
    BY <1>1, <2>2
  <2> QED
    BY <2>3 DEF Listened
<1> QED
  BY <1>2, <1>3

LEMMA CallerAnsweredStep ==
    ASSUME SharedReadsInv, CallerReads
    PROVE  SharedReadsInv'
<1> USE DEF SharedReadsInv
<1>1. /\ queue # <<>> /\ Head(queue).to = "caller" /\ queue' = Tail(queue)
      /\ UNCHANGED <<pending_reads, read_buffer, timers, reading_slaves, readtimeout, reads, now, aborted>>
  BY DEF CallerReads, Runs, pendingVars, readingVars
<1>2. /\ queue' \in Seq(ReadCommands) /\ Count(queue', Completions) = Count(queue, Completions)
      /\ \A s \in Readers :
            /\ Count(queue', {Answer(s)}) <= Count(queue, {Answer(s)})
            /\ Count(queue', HandleReads(s)) = Count(queue, HandleReads(s))
  BY <1>1, Taken, Counted
<1>3. ReadsTypeOK'
  BY <1>1, <1>2 DEF ReadsTypeOK, ReadCommands
<1>5. AnsweredAtMostOnce' /\ SubscribedOnce'
  <2> SUFFICES ASSUME NEW s \in Readers
               PROVE  Len(pending_reads[s]) + Count(queue', {Answer(s)}) <= 1
    BY <1>1 DEF AnsweredAtMostOnce, SubscribedOnce
  <2>1. /\ Len(pending_reads[s]) + Count(queue, {Answer(s)}) <= 1
        /\ Len(pending_reads[s]) \in Nat /\ Count(queue, {Answer(s)}) \in Nat
    BY Counted DEF AnsweredAtMostOnce, ReadsTypeOK
  <2>2. Count(queue', {Answer(s)}) <= Count(queue, {Answer(s)}) /\ Count(queue', {Answer(s)}) \in Nat
    BY <1>1, Taken
  <2> QED
    BY <2>1, <2>2
<1>6. UnderWay' = UnderWay
  BY <1>1, <1>2 DEF UnderWay
<1>7. OneReader' /\ Listened'
  <2>1. Range(reading_slaves) \subseteq Readers
    BY DEF ReadsTypeOK, Range
  <2> QED
    BY <1>1, <1>2, <1>6, <2>1 DEF OneReader, Listened
<1> QED
  BY <1>3, <1>5, <1>7

LEMMA DistributeStep ==
    ASSUME SharedReadsInv, HandleReadCompletion, Distribute
    PROVE  SharedReadsInv'
<1> USE DEF SharedReadsInv
<1> DEFINE data == Head(queue).outcome = "data"
           given == [i \in DOMAIN reading_slaves |-> HandleRead(reading_slaves[i], data)]
<1>1. /\ queue # <<>> /\ Head(queue).to = "master" /\ queue' = Tail(queue) \o given
      /\ readtimeout' = NoDate /\ reads' = reads
      /\ UNCHANGED <<pending_reads, read_buffer, timers, reading_slaves, now, aborted>>
  BY DEF HandleReadCompletion, Distribute, Runs, pendingVars
<1>2. /\ Head(queue) \in ReadCommands /\ Tail(queue) \in Seq(ReadCommands)
      /\ Count(Tail(queue), Completions) = Count(queue, Completions) - 1
      /\ \A s \in Readers : Count(Tail(queue), {Answer(s)}) = Count(queue, {Answer(s)})
  BY <1>1, Taken, Counted
<1>3. /\ DOMAIN given = DOMAIN reading_slaves
      /\ \A i \in DOMAIN given : /\ given[i] \in ReadCommands /\ given[i].to = "slave"
                                 /\ given[i].slave = reading_slaves[i]
  <2>1. \A i \in DOMAIN reading_slaves : reading_slaves[i] \in Readers
    BY DEF ReadsTypeOK
  <2>2. data \in BOOLEAN
    OBVIOUS
  <2> HIDE DEF data
  <2> QED
    BY <2>1, <2>2, CommandTypes DEF HandleRead
<1>4. given \in Seq(ReadCommands)
  <2>1. DOMAIN reading_slaves = 1 .. Len(reading_slaves) /\ Len(reading_slaves) \in Nat
    BY DEF ReadsTypeOK
  <2> HIDE DEF data
  <2>2. given = [i \in 1 .. Len(reading_slaves) |-> given[i]]
    BY <2>1
  <2> HIDE DEF given
  <2> QED
    BY <1>3, <2>1, <2>2
<1> HIDE DEF given
<1>5. queue' \in Seq(ReadCommands)
  BY <1>1, <1>2, <1>4
<1>6. Count(queue', Completions) = Count(queue, Completions) - 1
  <2>1. \A i \in DOMAIN given : given[i] \notin Completions
    BY <1>3, Kinds
  <2> QED
    BY <1>1, <1>2, <1>4, <2>1, CountConcat
<1>7. ASSUME NEW s \in Readers
      PROVE  Count(queue', {Answer(s)}) = Count(queue, {Answer(s)})
  <2>1. \A i \in DOMAIN given : given[i] \notin {Answer(s)}
    BY <1>3, Kinds
  <2> QED
    BY <1>1, <1>2, <1>4, <2>1, CountConcat
<1>8. ASSUME NEW s \in Range(reading_slaves)
      PROVE  Count(queue', HandleReads(s)) > 0
  <2>1. PICK i \in DOMAIN reading_slaves : reading_slaves[i] = s
    BY DEF Range
  <2>2. s \in Readers
    BY <2>1 DEF ReadsTypeOK
  <2>3. i \in DOMAIN given /\ given[i] \in HandleReads(s)
    BY <1>3, <2>1, <2>2, Kinds
  <2> QED
    BY <1>1, <1>2, <1>4, <2>3, CountConcat
<1>9. ReadsTypeOK'
  BY <1>1, <1>5 DEF ReadsTypeOK, ReadCommands
<1>10. AnsweredAtMostOnce' /\ SubscribedOnce'
  BY <1>1, <1>7, SlavesKept
<1>11. OneReader'
  <2>1. /\ ~aborted => UnderWay \in 0 .. 1
        /\ UnderWay' = UnderWay - 1 /\ UnderWay' \in Nat /\ UnderWay \in Nat
    <3>1. /\ Count(queue', Completions) \in Nat /\ Count(queue, Completions) \in Nat
          /\ reads \in Nat
      BY <1>5, CountTypes, Counted DEF ReadsTypeOK
    <3>2. UnderWay' = UnderWay - 1 /\ UnderWay' \in Nat /\ UnderWay \in Nat
      BY <1>1, <1>6, <3>1 DEF UnderWay
    <3> QED
      BY <3>2 DEF OneReader
  <2> QED
    BY <1>1, <2>1 DEF OneReader
<1>12. Listened'
  BY <1>1, <1>8 DEF Listened
<1> QED
  BY <1>9, <1>10, <1>11, <1>12

LEMMA ReadOnStep ==
    ASSUME SharedReadsInv, HandleReadCompletion, ReadOn
    PROVE  SharedReadsInv'
<1> USE DEF SharedReadsInv
<1> DEFINE on == reading_slaves # <<>> /\ readtimeout # NoDate /\ now < readtimeout
<1>1. /\ queue # <<>> /\ Head(queue).to = "master" /\ queue' = Tail(queue)
      /\ reads' = IF on THEN reads + 1 ELSE reads
      /\ readtimeout' = IF on THEN readtimeout ELSE NoDate
      /\ UNCHANGED <<pending_reads, read_buffer, timers, reading_slaves, now, aborted>>
  BY DEF HandleReadCompletion, ReadOn, Runs, pendingVars
<1>2. /\ queue' \in Seq(ReadCommands)
      /\ Count(queue', Completions) = Count(queue, Completions) - 1
      /\ \A s \in Readers : /\ Count(queue', {Answer(s)}) = Count(queue, {Answer(s)})
                           /\ Count(queue', HandleReads(s)) = Count(queue, HandleReads(s))
  BY <1>1, Taken, Counted
<1>3. ReadsTypeOK'
  BY <1>1, <1>2 DEF ReadsTypeOK, ReadCommands
<1>4. AnsweredAtMostOnce' /\ SubscribedOnce'
  BY <1>1, <1>2, SlavesKept
<1>5. /\ UnderWay \in Nat \ {0}
      /\ on => UnderWay' = UnderWay
      /\ ~on => UnderWay' = UnderWay - 1
  <2>1. Count(queue', Completions) \in Nat
    BY <1>2, CountTypes
  <2>2. /\ reads \in Nat /\ Count(queue, Completions) \in Nat
        /\ on => reads' = reads + 1
        /\ ~on => reads' = reads
    BY <1>1, Counted DEF ReadsTypeOK
  <2> HIDE DEF on
  <2> QED
    BY <1>2, <2>1, <2>2 DEF UnderWay
<1>6. ~aborted => readtimeout # NoDate /\ UnderWay = 1
  BY <1>5 DEF OneReader
<1>7. OneReader'
  BY <1>1, <1>5, <1>6 DEF OneReader
<1>8. Listened'
  <2> SUFFICES ASSUME ~aborted, NEW s \in Range(reading_slaves),
                      NEW i \in DOMAIN pending_reads[s], pending_reads[s][i] > now
               PROVE  \/ UnderWay' > 0 /\ readtimeout' >= pending_reads[s][i]
                      \/ Count(queue', HandleReads(s)) > 0
    BY <1>1 DEF Listened
  <2>1. s \in Readers /\ reading_slaves # <<>>
    BY DEF ReadsTypeOK, Range
  <2>2. \/ UnderWay > 0 /\ readtimeout >= pending_reads[s][i]
        \/ Count(queue, HandleReads(s)) > 0
    BY DEF Listened
  <2>3. CASE on
    BY <1>1, <1>2, <1>5, <2>1, <2>2, <2>3
  <2>4. CASE ~on
    <3>1. /\ ~(now < readtimeout) /\ now \in Nat /\ readtimeout \in Nat
          /\ pending_reads[s][i] \in Nat
      BY <1>6, <2>1, <2>4, ReadsAssumption DEF ReadsTypeOK
    <3>2. ~(readtimeout >= pending_reads[s][i])
      BY <3>1
    <3>3. Count(queue, HandleReads(s)) > 0
      BY <2>2, <3>2
    <3> QED
      BY <1>2, <2>1, <3>3
  <2> QED
    BY <2>3, <2>4
<1> QED
  BY <1>3, <1>4, <1>7, <1>8

\* One slave has no read pending any more, and its answers in the queue are
\* as many as the reads that were pending, or fewer.
LEMMA OneSlaveDone ==
    ASSUME SharedReadsInv, NEW s \in Readers,
           pending_reads' = [pending_reads EXCEPT ![s] = <<>>],
           UNCHANGED <<reading_slaves, readtimeout, reads, now, aborted>>,
           queue' \in Seq(ReadCommands), Count(queue', Completions) = Count(queue, Completions),
           Count(queue', {Answer(s)}) <= Len(pending_reads[s]) + Count(queue, {Answer(s)}),
           \A t \in Readers \ {s} :
               /\ Count(queue', {Answer(t)}) = Count(queue, {Answer(t)})
               /\ Count(queue', HandleReads(t)) = Count(queue, HandleReads(t))
    PROVE  AnsweredAtMostOnce' /\ OneReader' /\ Listened' /\ SubscribedOnce'
<1> USE DEF SharedReadsInv
<1>1. /\ pending_reads'[s] = <<>>
      /\ \A t \in Readers : t # s => pending_reads'[t] = pending_reads[t]
  BY DEF ReadsTypeOK
<1>2. AnsweredAtMostOnce'
  <2> SUFFICES ASSUME NEW t \in Readers
               PROVE  Len(pending_reads'[t]) + Count(queue', {Answer(t)}) <= 1
    BY DEF AnsweredAtMostOnce
  <2>1. Len(pending_reads[t]) + Count(queue, {Answer(t)}) <= 1
    BY DEF AnsweredAtMostOnce
  <2>2. CASE t = s
    <3>1. Len(pending_reads[s]) \in Nat /\ Len(pending_reads'[s]) = 0
      BY <1>1 DEF ReadsTypeOK
    <3>2. Count(queue, {Answer(s)}) \in Nat /\ Count(queue', {Answer(s)}) \in Nat
      BY Counted, CountTypes
    <3> QED
      BY <2>1, <2>2, <3>1, <3>2
  <2>3. CASE t # s
    BY <1>1, <2>1, <2>3
  <2> QED
    BY <2>2, <2>3
<1>3. UnderWay' = UnderWay
  BY DEF UnderWay
<1>4. OneReader' /\ SubscribedOnce'
  BY <1>3 DEF OneReader, SubscribedOnce
<1>5. Listened'
  <2> SUFFICES ASSUME ~aborted, NEW t \in Range(reading_slaves),
                      NEW i \in DOMAIN pending_reads'[t], pending_reads'[t][i] > now
               PROVE  \/ UnderWay > 0 /\ readtimeout >= pending_reads'[t][i]
                      \/ Count(queue', HandleReads(t)) > 0
    BY <1>3 DEF Listened
  <2>1. t \in Readers
    BY DEF ReadsTypeOK, Range
  <2>2. t # s
    BY <1>1
  <2> QED
    BY <1>1, <2>1, <2>2 DEF Listened
<1> QED
  BY <1>2, <1>4, <1>5

LEMMA SlaveHandleReadStep ==
    ASSUME SharedReadsInv, SlaveHandleRead
    PROVE  SharedReadsInv'
<1> USE DEF SharedReadsInv
<1> DEFINE s == Head(queue).slave
           given == [i \in DOMAIN pending_reads[s] |-> Answer(s)]
<1>1. /\ queue # <<>> /\ Head(queue).to = "slave" /\ queue' = Tail(queue) \o given
      /\ pending_reads' = [pending_reads EXCEPT ![s] = <<>>]
      /\ read_buffer' = [read_buffer EXCEPT
             ![s] = @ \/ (pending_reads[s] = <<>> /\ Head(queue).data)]
      /\ UNCHANGED <<timers, reading_slaves, readtimeout, reads, now, aborted>>
  BY DEF SlaveHandleRead, Runs, readingVars
<1>2. /\ Head(queue) \in ReadCommands /\ Tail(queue) \in Seq(ReadCommands)
      /\ Count(Tail(queue), Completions) = Count(queue, Completions)
      /\ \A t \in Readers :
            /\ Count(Tail(queue), {Answer(t)}) = Count(queue, {Answer(t)})
            /\ t # s => Count(Tail(queue), HandleReads(t)) = Count(queue, HandleReads(t))
  BY <1>1, Taken
<1>3. s \in Readers /\ Head(queue).data \in BOOLEAN
  BY <1>1, <1>2, Kinds
<1> HIDE DEF s
<1>4. /\ Answer(s) \in ReadCommands /\ Answer(s).to = "caller" /\ Answer(s).slave = s
  BY <1>3, CommandTypes DEF Answer
<1>5. pending_reads[s] \in Seq(Nat) /\ Len(pending_reads[s]) \in 0 .. 1
  <2>1. /\ Len(pending_reads[s]) + Count(queue, {Answer(s)}) <= 1
        /\ pending_reads[s] \in Seq(Nat) /\ Len(pending_reads[s]) \in Nat
        /\ Count(queue, {Answer(s)}) \in Nat
    BY <1>3, Counted DEF AnsweredAtMostOnce, ReadsTypeOK
  <2>2. ASSUME NEW n \in Nat, NEW m \in Nat, n + m <= 1
        PROVE  n \in 0 .. 1
    BY <2>2
  <2> QED
    BY <2>1, <2>2
<1>6. /\ given \in Seq(ReadCommands) /\ Len(given) = Len(pending_reads[s])
      /\ \A i \in DOMAIN given : given[i] = Answer(s)
  BY <1>4, <1>5
<1> HIDE DEF given
<1>7. queue' \in Seq(ReadCommands)
  BY <1>1, <1>2, <1>6
<1>8. Count(queue', Completions) = Count(queue, Completions)
  <2>1. \A i \in DOMAIN given : given[i] \notin Completions
    BY <1>4, <1>6, Kinds
  <2> QED
    BY <1>1, <1>2, <1>6, <2>1, CountConcat
<1>9. Count(queue', {Answer(s)}) <= Len(pending_reads[s]) + Count(queue, {Answer(s)})
  <2>1. Count(queue, {Answer(s)}) \in Nat
    BY <1>3, Counted
  <2>2. CASE Len(given) = 0
    <3>1. \A i \in DOMAIN given : given[i] \notin {Answer(s)}
      BY <1>6, <2>2
    <3>2. Count(queue', {Answer(s)}) = Count(Tail(queue), {Answer(s)})
      BY <1>1, <1>2, <1>6, <3>1, CountConcat
    <3> QED
      BY <1>2, <1>3, <1>6, <2>1, <2>2, <3>2
  <2>3. CASE Len(given) = 1
    <3>1. queue' = Append(Tail(queue), Answer(s))
      <4>1. given = <<Answer(s)>>
        BY <1>6, <2>3
      <4> QED
        BY <1>1, <1>2, <1>4, <4>1
    <3>2. Count(queue', {Answer(s)}) =
              Count(Tail(queue), {Answer(s)}) + IF Answer(s) \in {Answer(s)} THEN 1 ELSE 0
      <4>1. Tail(queue) \in Seq(ReadCommands) /\ Answer(s) \in ReadCommands
        BY <1>2, <1>4
      <4> QED
        BY <3>1, <4>1, CountAppend
    <3> QED
      BY <1>2, <1>3, <1>6, <2>1, <2>3, <3>2
  <2> QED
    BY <1>5, <1>6, <2>2, <2>3
<1>10. ASSUME NEW t \in Readers, t # s
       PROVE  /\ Count(queue', {Answer(t)}) = Count(queue, {Answer(t)})
              /\ Count(queue', HandleReads(t)) = Count(queue, HandleReads(t))
  <2>1. /\ \A i \in DOMAIN given : given[i] \notin {Answer(t)}
        /\ \A i \in DOMAIN given : given[i] \notin HandleReads(t)
    BY <1>4, <1>6, <1>10, Kinds
  <2> QED
    <3>1. Count(queue', {Answer(t)}) = Count(Tail(queue), {Answer(t)})
      BY <1>1, <1>2, <1>6, <2>1, CountConcat
    <3>2. Count(queue', HandleReads(t)) = Count(Tail(queue), HandleReads(t))
      <4>1. Tail(queue) \in Seq(ReadCommands) /\ given \in Seq(ReadCommands) /\ queue' = Tail(queue) \o given
        BY <1>1, <1>2, <1>6
      <4> QED
        BY <2>1, <4>1, CountConcat
    <3> QED
      BY <1>2, <1>10, <3>1, <3>2
<1>11. ReadsTypeOK'
  <2>1. read_buffer' \in [Readers -> BOOLEAN]
    BY <1>1 DEF ReadsTypeOK
  <2>2. pending_reads' \in [Readers -> Seq(Nat)]
    BY <1>1, <1>3 DEF ReadsTypeOK
  <2> QED
    BY <1>1, <1>7, <2>1, <2>2 DEF ReadsTypeOK, ReadCommands
<1> QED
  BY <1>1, <1>3, <1>7, <1>8, <1>9, <1>10, <1>11, OneSlaveDone

LEMMA SlaveHandleTimeoutsStep ==
    ASSUME SharedReadsInv, SlaveHandleTimeouts
    PROVE  SharedReadsInv'
<1> USE DEF SharedReadsInv
<1> DEFINE s == Head(queue).slave
<1>1. /\ queue # <<>> /\ Head(queue).to = "timeouts" /\ queue' = Tail(queue)
      /\ pending_reads' = [pending_reads EXCEPT ![s] = <<>>]
      /\ UNCHANGED <<read_buffer, timers, reading_slaves, readtimeout, reads, now, aborted>>
  BY DEF SlaveHandleTimeouts, Runs, readingVars
<1>2. /\ s \in Readers /\ queue' \in Seq(ReadCommands)
      /\ Count(queue', Completions) = Count(queue, Completions)
      /\ \A t \in Readers : /\ Count(queue', {Answer(t)}) = Count(queue, {Answer(t)})
                           /\ Count(queue', HandleReads(t)) = Count(queue, HandleReads(t))
  BY <1>1, Taken, Kinds
<1>3. ReadsTypeOK'
  <2>1. pending_reads' \in [Readers -> Seq(Nat)]
    BY <1>1, <1>2 DEF ReadsTypeOK
  <2> QED
    BY <1>1, <1>2, <2>1 DEF ReadsTypeOK, ReadCommands
<1>4. Count(queue', {Answer(s)}) <= Len(pending_reads[s]) + Count(queue, {Answer(s)})
  <2> HIDE DEF s
  <2>1. Len(pending_reads[s]) \in Nat
    BY <1>2 DEF ReadsTypeOK
  <2>2. Count(queue, {Answer(s)}) \in Nat
    BY <1>2, Counted
  <2>3. Count(queue', {Answer(s)}) = Count(queue, {Answer(s)})
    BY <1>2
  <2> QED
    BY <2>1, <2>2, <2>3
<1> HIDE DEF s
<1> QED
  BY <1>1, <1>2, <1>3, <1>4, OneSlaveDone

-----------------------------------------------------------------------------

LEMMA NextSharedReads ==
    ASSUME SharedReadsInv, [ReadsNext]_readsVars
    PROVE  SharedReadsInv'
<1>1. ASSUME NEW s \in Readers, Receive(s)
      PROVE  SharedReadsInv'
  BY <1>1, ReceiveBufferedStep, ReceiveLaterStep DEF Receive
<1>2. ASSUME NEW s \in Readers, Connect(s) \/ Disconnect(s) \/ SlaveAbortAll(s)
      PROVE  SharedReadsInv'
  BY <1>2, ConnectStep, DisconnectStep, SlaveAbortAllStep
<1>3. CASE MasterAbortAll \/ LineAnswers \/ TimerExpires \/ Tick
  BY <1>3, MasterAbortAllStep, ConnectionAnswersStep, TimerExpiresStep, TickStep
<1>4. CASE HandleReadCompletion
  BY <1>4, DistributeStep, ReadOnStep DEF HandleReadCompletion
<1>5. CASE CallerReads \/ SlaveHandleRead \/ SlaveHandleTimeouts
  BY <1>5, CallerAnsweredStep, SlaveHandleReadStep, SlaveHandleTimeoutsStep
<1>6. CASE UNCHANGED readsVars
  BY <1>6 DEF readsVars, pendingVars, readingVars, SharedReadsInv, ReadsTypeOK, AnsweredAtMostOnce, OneReader,
              UnderWay, Listened, SubscribedOnce
<1> QED
  BY <1>1, <1>2, <1>3, <1>4, <1>5, <1>6 DEF ReadsNext

(* For any number of slaves and any time-outs: however calls, answers,     *)
(* timers and aborts follow each other, a read of a slave is answered at   *)
(* most once, the master has one read at the line exactly while it has a   *)
(* time until which it reads, and a subscribed slave that waits is         *)
(* listened for until its time-out or has something in the queue.          *)
THEOREM ReadsAreShared == ReadsSpec => []SharedReadsInv
<1> QED
  BY InitSharedReads, NextSharedReads, PTL DEF ReadsSpec
=============================================================================
