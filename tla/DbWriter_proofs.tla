--------------------------- MODULE DbWriter_proofs ---------------------------
(* The database writer for any jobs, capabilities and failing statements:  *)
(* its copies are current, the rows it writes are complete, and it wipes   *)
(* nothing that it has written.                                            *)
EXTENDS DbWriter, TLAPS

LEMMA Columns == ASSUME job \in Jobs PROVE Wanted \subseteq Data
  BY DbAssumption DEF Wanted

LEMMA JobKinds ==
    ASSUME job \in Jobs PROVE job.create \in {"no", "yes", "wipe", "print"}
  BY DbAssumption

(* The days that have begun by now.                                        *)
LEMMA DivTypes ==
    ASSUME NEW a \in Nat, NEW b \in Nat, a <= b, NEW d \in Nat \ {0}
    PROVE  a \div d \in 0 .. b \div d
<1>1. a \div d \in Nat /\ b \div d \in Nat
  BY Z3
<1>2. a \div d <= b \div d
  BY Z3
<1> QED
  BY <1>1, <1>2

LEMMA DayTypes == ASSUME now \in 1 .. MaxTime PROVE Day \in Keys /\ 0 \in Keys
<1>1. DayLength \in Nat \ {0} /\ MaxTime \in Nat /\ now \in Nat /\ now <= MaxTime /\ 0 <= MaxTime
  BY DbAssumption
<1>2. Day \in Keys
  BY <1>1, DivTypes DEF Day, Keys
<1>3. MaxTime \div DayLength \in Nat
  BY <1>1, Z3
<1> QED
  BY <1>2, <1>3 DEF Keys

-----------------------------------------------------------------------------
(* What a cycle does to the table and the statement it keeps: t is the     *)
(* table after CREATE and DROP, a row is written into it or not.           *)
RowWritten(t) ==
    t.ok /\ ~Skipped /\ \E row \in {Row, Updated(t)} : rows' = With(t, row)

Outcome(t) ==
    /\ create' = CreateMode(t.ok)
    /\ rows' = t.rows \/ RowWritten(t)
    /\ cache' = cache \/ (~Skipped /\ cache' = Statement)
    /\ lastlogged' \in {lastlogged, now}

LEMMA Tables ==
    ASSUME DbIInv, NEW t \in CreateTable
    PROVE  /\ t.rows \in {rows, Nothing}
           /\ t.rows # rows => create = "wipe"
<1>1. create \in {"no", "yes", "wipe", "print"}
  BY JobKinds DEF DbIInv, DbInv, TypeOK
<1>2. CASE create \in {"no", "print"}
  BY <1>2 DEF CreateTable
<1>3. CASE create = "yes"
  BY <1>3 DEF CreateTable
<1>4. CASE create = "wipe"
  BY <1>4 DEF CreateTable
<1> QED
  BY <1>1, <1>2, <1>3, <1>4

LEMMA Executes ==
    ASSUME DbIInv, ExecuteQuery
    PROVE  /\ \/ UNCHANGED <<create, cache, lastlogged, rows>>
              \/ \E t \in CreateTable : Outcome(t)
           /\ token' = Day /\ failures' \in 0 .. MaxFailures
<1>1. failures \in 0 .. MaxFailures /\ MaxFailures \in Nat
  BY DbAssumption DEF DbIInv, DbInv, TypeOK
<1>2. Working \/ Failing \/ UNCHANGED failures => failures' \in 0 .. MaxFailures
  BY <1>1 DEF Working, Failing
<1>3. CASE Working /\ UNCHANGED <<create, cache, lastlogged, exists, rows>> /\ token' = Day
  BY <1>2, <1>3
<1>4. CASE /\ token' = Day
           /\ \E t \in CreateTable :
                /\ create' = CreateMode(t.ok) /\ exists' = t.exists
                /\ CASE ~t.ok -> Failing /\ rows' = t.rows /\ UNCHANGED <<cache, lastlogged>>
                     [] t.ok /\ (Skipped \/ Unknown) ->
                          Working /\ rows' = t.rows /\ UNCHANGED <<cache, lastlogged>>
                     [] OTHER -> IF job.mode = "continuous" THEN Insert(t) ELSE UpdateOrInsert(t)
  <2>1. PICK t \in CreateTable :
              /\ create' = CreateMode(t.ok)
              /\ CASE ~t.ok -> Failing /\ rows' = t.rows /\ UNCHANGED <<cache, lastlogged>>
                   [] t.ok /\ (Skipped \/ Unknown) ->
                        Working /\ rows' = t.rows /\ UNCHANGED <<cache, lastlogged>>
                   [] OTHER -> IF job.mode = "continuous" THEN Insert(t) ELSE UpdateOrInsert(t)
    BY <1>4
  <2>2. CASE (Failing \/ Working) /\ rows' = t.rows /\ UNCHANGED <<cache, lastlogged>>
    BY <1>2, <1>4, <2>1, <2>2 DEF Outcome
  <2>3. CASE t.ok /\ ~Skipped /\ Insert(t)
    <3>1. /\ rows' = t.rows \/ rows' = With(t, Row)
          /\ cache' = Statement /\ lastlogged' \in {lastlogged, now}
          /\ Working \/ Failing \/ UNCHANGED failures
      BY <2>3 DEF Insert, LastLogged
    <3> QED
      BY <1>2, <1>4, <2>1, <2>3, <3>1 DEF Outcome, RowWritten
  <2>4. CASE t.ok /\ ~Skipped /\ UpdateOrInsert(t)
    <3>1. /\ rows' = t.rows \/ \E row \in {Row, Updated(t)} : rows' = With(t, row)
          /\ cache' = cache /\ lastlogged' \in {lastlogged, now}
          /\ Working \/ Failing \/ UNCHANGED failures
      BY <2>4 DEF UpdateOrInsert
    <3> QED
      BY <1>2, <1>4, <2>1, <2>4, <3>1 DEF Outcome, RowWritten
  <2> QED
    BY <2>1, <2>2, <2>3, <2>4
<1> QED
  BY <1>3, <1>4 DEF ExecuteQuery

(* A row has the columns whose values are valid, and those it had before;  *)
(* without allow_sparse one is written, and a statement prepared, only     *)
(* when all of them are.                                                   *)
LEMMA RowColumns ==
    ASSUME NEW t, \A k \in DOMAIN t.rows : DOMAIN t.rows[k] \subseteq Wanted,
           NEW row \in {Row, Updated(t)}, NEW k \in DOMAIN With(t, row)
    PROVE  \/ Available \subseteq DOMAIN With(t, row)[k] /\ DOMAIN With(t, row)[k] \subseteq Wanted
           \/ k \in DOMAIN t.rows /\ With(t, row)[k] = t.rows[k]
<1>1. Available \subseteq DOMAIN row /\ DOMAIN row \subseteq Wanted
  <2>1. DOMAIN Row = Available /\ Available \subseteq Wanted
    BY DEF Row, Available
  <2>2. DOMAIN Updated(t) =
            Available \cup DOMAIN (IF Key \in DOMAIN t.rows THEN t.rows[Key] ELSE Nothing)
    BY DEF Updated
  <2>3. DOMAIN (IF Key \in DOMAIN t.rows THEN t.rows[Key] ELSE Nothing) \subseteq Wanted
    BY DEF Nothing
  <2> QED
    BY <2>1, <2>2, <2>3
<1>2. With(t, row)[k] = IF k = Key THEN row ELSE t.rows[k]
  BY DEF With
<1>3. k # Key => k \in DOMAIN t.rows
  BY DEF With
<1> QED
  BY <1>1, <1>2, <1>3

LEMMA Complete ==
    ASSUME KeptStatement
    PROVE  ~Skipped /\ ~job.allow_sparse => Available = Wanted /\ Statement \in {cache, Wanted}
  BY DEF KeptStatement, Skipped, AllAvailable, Statement

(* A cycle of the filter.                                                  *)
LEMMA CyclicStep == ASSUME DbIInv, CmdCyclic PROVE DbIInv'
<1>0. UNCHANGED <<job, now, published, data, subscribed, copy, datavalid>>
  BY DEF CmdCyclic, clockVars, inverterVars, copyVars
<1>a. /\ TypeOK /\ CopyIsCurrent /\ CopiesObserved /\ KeptStatement /\ OnlyOldRows
      /\ job \in Jobs /\ now \in 1 .. MaxTime
  BY DEF DbIInv, DbInv
<1>1. /\ \/ UNCHANGED <<create, cache, lastlogged, rows>>
         \/ \E t \in CreateTable : Outcome(t)
      /\ token' \in Keys /\ failures' \in 0 .. MaxFailures
  <2>1. CASE (Working \/ Failing) /\ Untouched
    <3>1. failures \in 0 .. MaxFailures /\ token \in Keys /\ MaxFailures \in Nat
      BY <1>a, DbAssumption DEF TypeOK
    <3>2. failures' \in 0 .. MaxFailures
      BY <2>1, <3>1 DEF Working, Failing
    <3> QED
      BY <2>1, <3>1, <3>2 DEF Untouched
  <2>2. CASE ExecuteQuery
    BY <1>a, <2>2, Executes, DayTypes
  <2> QED
    BY <2>1, <2>2 DEF CmdCyclic
<1>2. /\ UNCHANGED <<Wanted, Available, Keys>>
      /\ CopyIsCurrent' /\ CopiesObserved'
  BY <1>0, <1>a DEF Wanted, Available, CopyIsCurrent, CopiesObserved
<1>3. /\ cache' = NoStatement \/ cache' \subseteq Wanted
      /\ KeptStatement' /\ lastlogged' \in 0 .. MaxTime
  <2>1. cache' = cache \/ (~Skipped /\ cache' = Statement)
    BY <1>1 DEF Outcome
  <2>2. cache' = NoStatement \/ cache' \subseteq Wanted
    BY <1>a, <2>1 DEF TypeOK, Statement, Available
  <2>3. KeptStatement'
    BY <1>0, <1>2, <1>a, <2>1, Complete DEF KeptStatement
  <2>4. lastlogged' \in {lastlogged, now} /\ lastlogged \in 0 .. MaxTime /\ now \in 1 .. MaxTime
    BY <1>1, <1>a, DbAssumption DEF Outcome, TypeOK
  <2> QED
    BY <1>0, <2>2, <2>3, <2>4
<1>4. /\ create' \in {"no", job.create} /\ OnlyOldRows'
      /\ DOMAIN rows' \subseteq Keys
      /\ \A k \in DOMAIN rows' : DOMAIN rows'[k] \subseteq Wanted
  <2>0. /\ create \in {"no", job.create} /\ DOMAIN rows \subseteq Keys
        /\ \A k \in DOMAIN rows : DOMAIN rows[k] \subseteq Wanted
    BY <1>a DEF TypeOK
  <2>1. CASE UNCHANGED <<create, rows>>
    BY <1>a, <2>0, <2>1 DEF OnlyOldRows
  <2>2. ASSUME NEW t \in CreateTable, Outcome(t)
        PROVE  /\ create' \in {"no", job.create} /\ OnlyOldRows'
               /\ DOMAIN rows' \subseteq Keys
               /\ \A k \in DOMAIN rows' : DOMAIN rows'[k] \subseteq Wanted
    <3>1. /\ create' = IF t.ok THEN "no" ELSE create
          /\ rows' = t.rows \/ RowWritten(t)
      BY <2>2 DEF Outcome, CreateMode
    <3>2. t.rows \in {rows, Nothing} /\ DOMAIN Nothing = {}
      BY <2>2, Tables DEF Nothing
    <3>3. CASE rows' = t.rows
      BY <1>a, <2>0, <3>1, <3>2, <3>3 DEF OnlyOldRows
    <3>4. CASE RowWritten(t)
      <4>1. PICK row \in {Row, Updated(t)} : rows' = With(t, row) /\ create' = "no"
        BY <3>1, <3>4 DEF RowWritten
      <4>0. \A k \in DOMAIN t.rows : DOMAIN t.rows[k] \subseteq Wanted
        BY <2>0, <3>2
      <4>2. Key \in Keys
        BY <1>a, DayTypes DEF Key
      <4>3. DOMAIN rows' \subseteq Keys
        BY <2>0, <3>2, <4>1, <4>2 DEF With
      <4>4. \A k \in DOMAIN rows' : DOMAIN rows'[k] \subseteq Wanted
        <5> SUFFICES ASSUME NEW k \in DOMAIN rows' PROVE DOMAIN rows'[k] \subseteq Wanted
          OBVIOUS
        <5>1. \/ DOMAIN rows'[k] \subseteq Wanted
              \/ k \in DOMAIN t.rows /\ rows'[k] = t.rows[k]
          BY <4>0, <4>1, RowColumns
        <5> QED
          BY <4>0, <5>1
      <4> QED
        BY <4>1, <4>3, <4>4 DEF OnlyOldRows
    <3> QED
      BY <3>1, <3>3, <3>4
  <2> QED
    BY <1>1, <2>1, <2>2
<1>5. TypeOK'
  BY <1>0, <1>1, <1>2, <1>3, <1>4, <1>a DEF TypeOK
<1> QED
  BY <1>0, <1>2, <1>3, <1>4, <1>5, <1>a DEF DbIInv, DbInv

-----------------------------------------------------------------------------
(* What the inverter says, and the copies of it.                           *)
InverterStep ==
    \/ \E n \in Data, v \in 0 .. 1 : NewCapability(n, v) \/ NewValue(n, v)
    \/ NewDataState \/ Disconnected

LEMMA ReadingTypes ==
    ASSUME NEW v \in 0 .. 1, now \in 1 .. MaxTime
    PROVE  [val |-> v, valid |-> TRUE, stamp |-> now] \in Readings
  BY DEF Readings

(* Update copies what is observed of the news, and nothing else.           *)
LEMMA NotifiedCopies ==
    ASSUME NEW news, NEW who, Notified(news, who), NEW n \in Data
    PROVE  copy'[n] = IF n \in DOMAIN news /\ n \in who /\ n \in Wanted THEN news[n]
                      ELSE copy[n]
  BY DEF Notified, Taken

(* The copies after news which are what the inverter says from now on.     *)
Copied ==
    /\ published \subseteq published' /\ published' \subseteq Data
    /\ subscribed \subseteq subscribed' /\ subscribed' \subseteq published'
    /\ data' \in [Data -> Readings] /\ copy' \in [Data -> Readings \cup {NoCopy}]
    /\ \A n \in Wanted : \/ copy'[n] = data'[n] /\ n \in subscribed'
                         \/ copy'[n] = copy[n] /\ (copy[n] # NoCopy => data'[n] = data[n])

LEMMA InverterCopies == ASSUME DbIInv, InverterStep PROVE Copied
<1>0. /\ published \subseteq Data /\ subscribed \subseteq published
      /\ data \in [Data -> Readings] /\ copy \in [Data -> Readings \cup {NoCopy}]
      /\ CopiesObserved /\ now \in 1 .. MaxTime /\ Wanted \subseteq Data
  BY Columns DEF DbIInv, DbInv, TypeOK
<1>1. ASSUME NEW n \in Data, NEW v \in 0 .. 1, NewCapability(n, v) PROVE Copied
  <2>1. PICK new : new = [val |-> v, valid |-> TRUE, stamp |-> now]
    OBVIOUS
  <2>2. PICK news : news = [m \in {n} |-> new]
    OBVIOUS
  <2>3. new \in Readings /\ DOMAIN news = {n} /\ news[n] = new
    BY <1>0, <2>1, <2>2, ReadingTypes
  <2>4. /\ published' = published \cup {n} /\ n \notin published
        /\ data' = [data EXCEPT ![n] = new]
        /\ subscribed' = subscribed \cup (Wanted \cap published')
        /\ Notified(news, subscribed \cup published')
    BY <1>1, <2>1, <2>2 DEF NewCapability, Observed
  <2>5. \A m \in Data : copy'[m] = IF m = n /\ m \in Wanted THEN new ELSE copy[m]
    BY <2>3, <2>4, NotifiedCopies
  <2>6. copy' \in [Data -> Readings \cup {NoCopy}]
    <3>1. copy' = [m \in Data |-> copy'[m]]
      BY <2>4 DEF Notified
    <3>2. \A m \in Data : copy'[m] \in Readings \cup {NoCopy}
      BY <1>0, <2>3, <2>5
    <3> QED
      BY <3>1, <3>2
  <2>7. data' \in [Data -> Readings] /\ data'[n] = new /\ \A m \in Data \ {n} : data'[m] = data[m]
    BY <1>0, <2>3, <2>4
  <2> QED
    BY <1>0, <2>4, <2>5, <2>6, <2>7 DEF Copied
<1>2. ASSUME NEW n \in Data, NEW v \in 0 .. 1, NewValue(n, v) PROVE Copied
  <2>1. PICK new : new = [val |-> v, valid |-> TRUE, stamp |-> now]
    OBVIOUS
  <2>2. PICK news : news = [m \in {n} |-> new]
    OBVIOUS
  <2>3. new \in Readings /\ DOMAIN news = {n} /\ news[n] = new
    BY <1>0, <2>1, <2>2, ReadingTypes
  <2>4. /\ data' = [data EXCEPT ![n] = new] /\ Notified(news, subscribed)
        /\ UNCHANGED <<published, subscribed>>
    BY <1>2, <2>1, <2>2 DEF NewValue
  <2>5. \A m \in Data : copy'[m] = IF m = n /\ m \in subscribed /\ m \in Wanted THEN new
                                  ELSE copy[m]
    BY <2>3, <2>4, NotifiedCopies
  <2>6. copy' \in [Data -> Readings \cup {NoCopy}]
    <3>1. copy' = [m \in Data |-> copy'[m]]
      BY <2>4 DEF Notified
    <3>2. \A m \in Data : copy'[m] \in Readings \cup {NoCopy}
      BY <1>0, <2>3, <2>5
    <3> QED
      BY <3>1, <3>2
  <2>7. data' \in [Data -> Readings] /\ data'[n] = new /\ \A m \in Data \ {n} : data'[m] = data[m]
    BY <1>0, <2>3, <2>4
  <2>8. \A m \in Wanted : copy[m] # NoCopy => m \in subscribed
    BY <1>0 DEF CopiesObserved
  <2> QED
    BY <1>0, <2>4, <2>5, <2>6, <2>7, <2>8 DEF Copied
<1>3. ASSUME Disconnected PROVE Copied
  <2>1. PICK lost : lost = [n \in published \ Early |-> [data[n] EXCEPT !.valid = FALSE]]
    OBVIOUS
  <2>2. /\ data' = [n \in Data |-> IF n \in DOMAIN lost THEN lost[n] ELSE data[n]]
        /\ Notified(lost, subscribed) /\ UNCHANGED <<published, subscribed>>
    BY <1>3, <2>1 DEF Disconnected
  <2>3. \A n \in DOMAIN lost : lost[n] \in Readings /\ n \in Data
    <3> SUFFICES ASSUME NEW n \in DOMAIN lost PROVE lost[n] \in Readings /\ n \in Data
      OBVIOUS
    <3>1. n \in Data /\ data[n] \in Readings /\ lost[n] = [data[n] EXCEPT !.valid = FALSE]
      BY <1>0, <2>1
    <3> QED
      BY <3>1 DEF Readings
  <2>4. \A m \in Data : copy'[m] = IF m \in DOMAIN lost /\ m \in subscribed /\ m \in Wanted
                                  THEN lost[m] ELSE copy[m]
    BY <2>2, NotifiedCopies
  <2>5. copy' \in [Data -> Readings \cup {NoCopy}]
    <3>1. copy' = [m \in Data |-> copy'[m]]
      BY <2>2 DEF Notified
    <3>2. \A m \in Data : copy'[m] \in Readings \cup {NoCopy}
      BY <1>0, <2>3, <2>4
    <3> QED
      BY <3>1, <3>2
  <2>6. data' \in [Data -> Readings]
    BY <1>0, <2>2, <2>3
  <2>7. \A m \in Wanted : copy[m] # NoCopy => m \in subscribed
    BY <1>0 DEF CopiesObserved
  <2> QED
    BY <1>0, <2>2, <2>4, <2>5, <2>6, <2>7 DEF Copied
<1>4. ASSUME NewDataState PROVE Copied
  BY <1>0, <1>4 DEF NewDataState, Copied
<1> QED
  BY <1>1, <1>2, <1>3, <1>4 DEF InverterStep

LEMMA InverterKeeps == ASSUME DbIInv, InverterStep PROVE DbIInv'
<1>1. UNCHANGED <<job, now, queryVars>>
  BY DEF InverterStep, NewCapability, NewValue, NewDataState, Disconnected, clockVars
<1>2. UNCHANGED <<token, create, cache, lastlogged, rows, failures>>
  BY <1>1 DEF queryVars
<1>3. Copied
  BY InverterCopies
<1>a. /\ TypeOK /\ CopyIsCurrent /\ CopiesObserved /\ KeptStatement /\ OnlyOldRows
      /\ job \in Jobs /\ now \in 1 .. MaxTime
  BY DEF DbIInv, DbInv
<1>4. Wanted' = Wanted
  BY <1>1 DEF Wanted
<1>5. CopyIsCurrent'
  BY <1>3, <1>4, <1>a DEF Copied, CopyIsCurrent
<1>6. CopiesObserved'
  BY <1>3, <1>4, <1>a DEF Copied, CopiesObserved
<1>7. TypeOK'
  BY <1>1, <1>2, <1>3, <1>4, <1>a DEF Copied, TypeOK
<1>8. KeptStatement' /\ OnlyOldRows'
  BY <1>1, <1>2, <1>4, <1>a DEF KeptStatement, OnlyOldRows
<1> QED
  BY <1>1, <1>5, <1>6, <1>7, <1>8, <1>a DEF DbIInv, DbInv

LEMMA OtherKeeps == ASSUME DbIInv, Tick \/ ClockSetBack \/ Shutdown \/ UNCHANGED vars
    PROVE DbIInv'
<1>1. /\ UNCHANGED <<job, published, data, subscribed, copy>>
      /\ UNCHANGED <<token, create, cache, lastlogged, rows, failures>>
  BY DEF Tick, ClockSetBack, Shutdown, inverterVars, copyVars, queryVars, vars
<1>a. /\ TypeOK /\ CopyIsCurrent /\ CopiesObserved /\ KeptStatement /\ OnlyOldRows
      /\ job \in Jobs /\ now \in 1 .. MaxTime
  BY DEF DbIInv, DbInv
<1>2. now' \in 1 .. MaxTime
  BY <1>a, DbAssumption DEF Tick, ClockSetBack, Shutdown, clockVars, vars
<1>3. Wanted' = Wanted
  BY <1>1 DEF Wanted
<1>4. lastlogged' \in 0 .. MaxTime
  <2>1. lastlogged \in 0 .. MaxTime /\ now \in 1 .. MaxTime
    BY <1>a, DbAssumption DEF TypeOK
  <2> QED
    BY <1>1, <1>2, <2>1
<1>5. TypeOK'
  BY <1>1, <1>3, <1>4, <1>a DEF TypeOK
<1>6. CopyIsCurrent' /\ CopiesObserved' /\ KeptStatement' /\ OnlyOldRows'
  BY <1>1, <1>3, <1>a DEF CopyIsCurrent, CopiesObserved, KeptStatement, OnlyOldRows
<1> QED
  BY <1>1, <1>2, <1>5, <1>6, <1>a DEF DbIInv, DbInv

LEMMA InitIInv == Init => DbIInv
<1> SUFFICES ASSUME Init PROVE DbIInv
  OBVIOUS
<1>1. job \in Jobs /\ now = 1 /\ MaxTime \in Nat \ {0} /\ MaxFailures \in Nat /\ Early \subseteq Data
  BY DbAssumption DEF Init
<1>2. now \in 1 .. MaxTime /\ 0 \in 0 .. MaxTime /\ 0 \in 0 .. MaxFailures
  BY <1>1
<1>3. 0 \in Keys
  BY <1>2, DayTypes
<1>4. data \in [Data -> Readings]
  <2>1. [val |-> 0, valid |-> TRUE, stamp |-> 1] \in Readings
    BY <1>1 DEF Readings
  <2> QED
    BY <2>1 DEF Init
<1>5. DOMAIN rows \subseteq {0} /\ \A k \in DOMAIN rows : DOMAIN rows[k] = {}
  BY DEF Init, Nothing
<1>6. TypeOK
  BY <1>1, <1>2, <1>3, <1>4, <1>5 DEF Init, TypeOK
<1>7. CopyIsCurrent /\ CopiesObserved
  BY <1>1, Columns DEF Init, CopyIsCurrent, CopiesObserved
<1>8. KeptStatement /\ OnlyOldRows
  BY <1>5 DEF Init, KeptStatement, OnlyOldRows
<1> QED
  BY <1>1, <1>2, <1>6, <1>7, <1>8 DEF DbIInv, DbInv

LEMMA NextIInv == DbIInv /\ [Next]_vars => DbIInv'
  BY CyclicStep, InverterKeeps, OtherKeeps DEF Next, InverterStep

LEMMA Invariance == Spec => []DbIInv
  BY InitIInv, NextIInv, PTL DEF Spec

(* Whatever the inverter announces, changes and loses: each copy the       *)
(* writer holds is what the inverter says at the moment, so that no stale  *)
(* value is ever written as a fresh one.                                   *)
THEOREM DbSound == Spec => []DbInv
<1>1. DbIInv => DbInv
  BY DEF DbIInv
<1> QED
  BY <1>1, Invariance, PTL

-----------------------------------------------------------------------------
(* Only a cycle of the filter touches the table.                           *)
LEMMA RowsStep ==
    ASSUME [Next]_vars
    PROVE  UNCHANGED <<cache, rows>> \/ (CmdCyclic /\ ExecuteQuery)
  BY DEF Next, NewCapability, NewValue, NewDataState, Disconnected, Tick, ClockSetBack, Shutdown, CmdCyclic,
         Untouched, queryVars, vars

(* In a job without allow_sparse every row that is written has all its     *)
(* columns, and so has the statement that is kept for the next one.        *)
THEOREM RowsComplete == Spec => CompleteRows
<1>1. ASSUME DbIInv, [Next]_vars
      PROVE  [~job.allow_sparse =>
                /\ cache' \in {NoStatement, Wanted}
                /\ \A k \in DOMAIN rows' :
                     DOMAIN rows'[k] = Wanted \/ (k \in DOMAIN rows /\ rows'[k] = rows[k])]_vars
  <2> SUFFICES ASSUME ~job.allow_sparse
               PROVE  /\ cache' \in {NoStatement, Wanted}
                      /\ \A k \in DOMAIN rows' : \/ DOMAIN rows'[k] = Wanted
                                                 \/ k \in DOMAIN rows /\ rows'[k] = rows[k]
    OBVIOUS
  <2>1. KeptStatement
    BY <1>1 DEF DbIInv
  <2>2. CASE UNCHANGED <<cache, rows>>
    BY <2>1, <2>2 DEF KeptStatement
  <2>3. CASE ExecuteQuery
    <3>1. UNCHANGED <<cache, rows>> \/ \E t \in CreateTable : Outcome(t)
      BY <1>1, <2>3, Executes
    <3>2. ASSUME NEW t \in CreateTable, Outcome(t)
          PROVE  /\ cache' \in {NoStatement, Wanted}
                 /\ \A k \in DOMAIN rows' : \/ DOMAIN rows'[k] = Wanted
                                            \/ k \in DOMAIN rows /\ rows'[k] = rows[k]
      <4>1. cache' \in {NoStatement, Wanted}
        BY <2>1, <3>2, Complete DEF Outcome, KeptStatement
      <4>2. t.rows \in {rows, Nothing} /\ DOMAIN Nothing = {}
        BY <1>1, <3>2, Tables DEF Nothing
      <4>3. CASE rows' = t.rows
        BY <4>1, <4>2, <4>3
      <4>4. CASE RowWritten(t)
        <5>1. Available = Wanted
          BY <2>1, <4>4, Complete DEF RowWritten
        <5>2. PICK row \in {Row, Updated(t)} : rows' = With(t, row)
          BY <4>4 DEF RowWritten
        <5>3. \A k \in DOMAIN t.rows : DOMAIN t.rows[k] \subseteq Wanted
          BY <1>1, <4>2 DEF DbIInv, DbInv, TypeOK
        <5> SUFFICES ASSUME NEW k \in DOMAIN rows'
                     PROVE  \/ DOMAIN rows'[k] = Wanted
                            \/ k \in DOMAIN rows /\ rows'[k] = rows[k]
          BY <4>1
        <5>4. \/ Available \subseteq DOMAIN rows'[k] /\ DOMAIN rows'[k] \subseteq Wanted
              \/ k \in DOMAIN t.rows /\ rows'[k] = t.rows[k]
          BY <5>2, <5>3, RowColumns
        <5> QED
          BY <4>2, <5>1, <5>4
      <4> QED
        BY <3>2, <4>3, <4>4 DEF Outcome
    <3> QED
      BY <2>2, <3>1, <3>2
  <2> QED
    BY <1>1, <2>2, <2>3, RowsStep
<1> QED
  BY <1>1, Invariance, PTL DEF Spec, CompleteRows

(* A row disappears only from a table that has still to be wiped, and then *)
(* it is one the writer has found there.                                   *)
THEOREM OnlyOldRowsWiped == Spec => WipesOnlyOldRows
<1>1. ASSUME DbIInv, [Next]_vars
      PROVE  [\A k \in DOMAIN rows \ DOMAIN rows' :
                job.create = "wipe" /\ DOMAIN rows[k] = {}]_vars
  <2> SUFFICES ASSUME NEW k \in DOMAIN rows \ DOMAIN rows'
               PROVE  job.create = "wipe" /\ DOMAIN rows[k] = {}
    OBVIOUS
  <2>1. PICK t \in CreateTable : Outcome(t)
    <3>1. ExecuteQuery
      BY <1>1, RowsStep
    <3> QED
      BY <1>1, <3>1, Executes
  <2>2. k \notin DOMAIN t.rows
    BY <2>1 DEF Outcome, RowWritten, With
  <2>3. create = "wipe"
    BY <1>1, <2>1, <2>2, Tables
  <2> QED
    BY <1>1, <2>3 DEF DbIInv, DbInv, TypeOK, OnlyOldRows
<1> QED
  BY <1>1, Invariance, PTL DEF Spec, WipesOnlyOldRows
=============================================================================
