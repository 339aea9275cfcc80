------------------------------ MODULE DbWriter ------------------------------
(***************************************************************************)
(* The database writer: CDBWriterFilter with one job, its CDBWriterHelper. *)
(* The helper copies the values it observes; in each cycle it decides      *)
(* whether there is something to log, creates the table if it was told to, *)
(* and executes the statements of its mode.  Every access to the database  *)
(* can fail: the exception ends the cycle, the filter closes the session   *)
(* and the next cycle opens it again.                                      *)
(***************************************************************************)
EXTENDS Naturals, Sequences, FiniteSets, SequencesExt

CONSTANTS
    Data,       \* the inverter's capabilities
    Early,      \* those its constructor publishes; their value never changes
    Jobs,       \* the configurations of the job
    DayLength,  \* seconds between two changes of the !DAY token
    MaxTime, MaxFailures    \* bounds

ASSUME DbAssumption ==
    /\ Early \subseteq Data /\ IsFiniteSet(Data)
    /\ DayLength \in Nat \ {0} /\ MaxTime \in Nat \ {0} /\ MaxFailures \in Nat
    /\ \A j \in Jobs :
        /\ j.mode \in {"continuous", "single", "cumulative"}
        /\ j.create \in {"no", "yes", "wipe", "print"}
        /\ Range(j.columns) \subseteq Data /\ IsInjective(j.columns)
        /\ {j.logchangedonly, j.allow_sparse, j.token, j.selector} \subseteq BOOLEAN

VARIABLES
    job,                    \* the configuration
    published, data, dataState, now,    \* of the inverter; the clock
    subscribed, copy, datavalid,    \* previously_subscribed, Value, _datavalid
    token,                  \* the value of the !DAY token
    create, cache, lastlogged,  \* _createtable_mode, _insert_cache, _lastlogged
    session,                \* is _sqlsession open
    exists, rows,           \* the table: is it there, its rows by their key
    failures, down,
    setback     \* history: has the local clock been set back

inverterVars == <<published, data, dataState>>
copyVars == <<subscribed, copy, datavalid>>
queryVars == <<token, create, cache, lastlogged, session, exists, rows, failures>>
clockVars == <<now, setback>>
vars == <<job, clockVars, inverterVars, copyVars, queryVars, down>>

NoCopy == [val |-> 2, valid |-> FALSE, stamp |-> 0]
NoStatement == {"no statement"}
Wanted == Range(job.columns)
Day == now \div DayLength
Keys == 0 .. MaxTime \div DayLength
Nothing == [x \in {} |-> 0]    \* a row of others, or a table without rows

\* Selectors tell the row: in cumulative mode one per value of the token.
Key == IF job.mode = "cumulative" /\ job.token THEN Day ELSE 0

\* The filters are created after the inverter and before it starts to work.
Init ==
    /\ job \in Jobs
    /\ published = Early /\ now = 1 /\ dataState = FALSE
    /\ data = [n \in Data |-> [val |-> 0, valid |-> TRUE, stamp |-> 1]]
    /\ subscribed = {} /\ copy = [n \in Data |-> NoCopy] /\ datavalid = FALSE
    /\ token = 0 /\ create = job.create /\ cache = NoStatement /\ lastlogged = 0
    /\ session = FALSE /\ failures = 0 /\ down = FALSE /\ setback = FALSE
    /\ exists \in { e \in BOOLEAN : job.create \in {"no", "print"} => e }
    /\ rows \in {Nothing} \cup (IF exists THEN [{0} -> {Nothing}] ELSE {})

Readings == [val : 0 .. 1, valid : BOOLEAN, stamp : 1 .. MaxTime]

TypeOK ==
    /\ published \subseteq Data /\ data \in [Data -> Readings]
    /\ subscribed \subseteq published /\ copy \in [Data -> Readings \cup {NoCopy}]
    /\ create \in {"no", job.create}
    /\ cache = NoStatement \/ cache \subseteq Wanted
    /\ lastlogged \in 0 .. MaxTime /\ token \in Keys
    /\ DOMAIN rows \subseteq Keys
    /\ \A k \in DOMAIN rows : DOMAIN rows[k] \subseteq Wanted
    /\ failures \in 0 .. MaxFailures

-----------------------------------------------------------------------------
(* The inverter, and Update of the helper, which it calls at once.         *)

\* Update of a subscribed capability: the copy takes value and validity over.
Taken_IfValid(n, v) == IF v.valid THEN v ELSE copy[n]

Taken(n, v) == v

Notified(news, who) ==
    copy' = [n \in Data |-> IF n \in DOMAIN news \cap who \cap Wanted THEN Taken(n, news[n])
                            ELSE copy[n]]

\* What CAPAS_UPDATED subscribes to.
Observed(known) == Wanted \cap known

\* CAPAS_UPDATED: subscribe to every wanted capability that is there by now.
\* The new capability is notified after that, the others are not.
NewCapability(n, v) ==
    LET known == published \cup {n}
        new == [val |-> v, valid |-> TRUE, stamp |-> now]
    IN  /\ n \notin published
        /\ published' = known
        /\ data' = [data EXCEPT ![n] = new]
        /\ subscribed' = subscribed \cup Observed(known)
        /\ Notified([m \in {n} |-> new], subscribed \cup known)
        /\ UNCHANGED <<job, clockVars, dataState, datavalid, queryVars, down>>

NewValue(n, v) ==
    LET new == [val |-> v, valid |-> TRUE, stamp |-> now]
    IN  /\ n \in published \ Early
        /\ ~data[n].valid \/ data[n].val # v
        /\ data' = [data EXCEPT ![n] = new]
        /\ Notified([m \in {n} |-> new], subscribed)
        /\ UNCHANGED <<job, clockVars, published, dataState, subscribed, datavalid, queryVars, down>>

NewDataState ==
    /\ ~dataState
    /\ dataState' = TRUE /\ datavalid' = TRUE
    /\ UNCHANGED <<job, clockVars, published, data, subscribed, copy, queryVars, down>>

\* The data state turns invalid, and so does every value that was queried.
Disconnected ==
    LET lost == [n \in published \ Early |-> [data[n] EXCEPT !.valid = FALSE]]
    IN  /\ dataState
        /\ dataState' = FALSE /\ datavalid' = FALSE
        /\ data' = [n \in Data |-> IF n \in DOMAIN lost THEN lost[n] ELSE data[n]]
        /\ Notified(lost, subscribed)
        /\ UNCHANGED <<job, clockVars, published, subscribed, queryVars, down>>

Tick ==
    /\ now < MaxTime
    /\ now' = now + 1
    /\ UNCHANGED <<job, inverterVars, copyVars, queryVars, down, setback>>

\* The stamps are local time, which is set back, also by the end of the summer
\* time.  Bound: once.
ClockSetBack ==
    /\ now > 1 /\ ~setback
    /\ now' = now - 1 /\ setback' = TRUE
    /\ UNCHANGED <<job, inverterVars, copyVars, queryVars, down>>

-----------------------------------------------------------------------------
(* ExecuteQuery.                                                           *)

Available == { n \in Wanted : copy[n] # NoCopy /\ copy[n].valid }
AllAvailable == Available = Wanted

\* Has something been updated since the last row?  Both have whole seconds.
Newer_Strictly(n) == copy[n].stamp > lastlogged

Newer(n) == copy[n].stamp >= lastlogged

AnyUpdated == \E n \in Available : Newer(n)
SpecialUpdated == job.token /\ token # Day

Skipped_Unchanged ==
    job.logchangedonly /\ ~AnyUpdated /\ (job.mode = "cumulative" => ~SpecialUpdated)

Skipped ==
    \/ ~job.allow_sparse /\ ~AllAvailable
    \/ /\ job.logchangedonly /\ ~AnyUpdated
       /\ job.mode = "cumulative" => ~SpecialUpdated

Failing == failures < MaxFailures /\ failures' = failures + 1 /\ session' = FALSE
Working == session' = TRUE /\ UNCHANGED failures

\* Part 1, the table: what there is when it has been done or has failed.  A
\* CREATE can fail after the DROP; `print` only shows the statement.  Every
\* capability and token has one of the datatypes that are known.
CreateTable ==
    LET is(ok, e, r) == [ok |-> ok, exists |-> e, rows |-> r]
    IN  CASE create \in {"no", "print"} -> {is(TRUE, exists, rows)}
          [] create = "yes" -> {is(TRUE, TRUE, rows), is(FALSE, exists, rows)}
          [] create = "wipe" ->
                {is(TRUE, TRUE, Nothing), is(FALSE, FALSE, Nothing), is(FALSE, exists, rows)}

CreateMode_Kept(ok) == create

CreateMode(ok) == IF ok THEN "no" ELSE create

Row == [n \in Available |-> copy[n].val]
With(t, row) == [k \in {Key} \cup DOMAIN t.rows |-> IF k = Key THEN row ELSE t.rows[k]]

\* The insert statement of the continuous mode is kept, unless values miss.
\* It can be executed when it has one place for each value that gets bound.
Statement == IF cache = NoStatement \/ ~AllAvailable THEN Available ELSE cache

LastLogged(ok) == IF ok THEN now ELSE lastlogged

Insert(t) ==
    LET possible == t.exists /\ Statement = Available
    IN  /\ cache' = Statement
        /\ \/ possible /\ Working /\ rows' = With(t, Row) /\ lastlogged' = LastLogged(TRUE)
           \/ /\ IF possible THEN Failing ELSE session' = FALSE /\ UNCHANGED failures
              /\ rows' = t.rows /\ lastlogged' = LastLogged(FALSE)

\* The SET list gets a comma also for a column that is left out, unless no
\* column came before it.  The token's column, if there is one, comes first.
Malformed ==
    \E j \in DOMAIN job.columns :
        /\ job.columns[j] \notin Available
        /\ job.token \/ \E i \in 1 .. j - 1 : job.columns[i] \in Available

\* UPDATE leaves the columns that it does not name.
Updated(t) ==
    LET old == IF Key \in DOMAIN t.rows THEN t.rows[Key] ELSE Nothing
    IN  [n \in Available \cup DOMAIN old |-> IF n \in Available THEN copy[n].val ELSE old[n]]

\* UPDATE, and INSERT if it affects no row.  _lastlogged is set after each, so
\* a failing INSERT leaves the values unlogged and counted as logged.
UpdateOrInsert(t) ==
    LET possible == t.exists /\ ~Malformed
    IN  /\ UNCHANGED cache
        /\ \/ possible /\ Working /\ rows' = With(t, Updated(t)) /\ lastlogged' = now
           \/ /\ IF possible THEN Failing ELSE session' = FALSE /\ UNCHANGED failures
              /\ rows' = t.rows /\ UNCHANGED lastlogged
           \/ possible /\ Key \notin DOMAIN t.rows /\ Failing /\ rows' = t.rows /\ lastlogged' = now

\* Without a column to set, or a selector that tells the row, nothing is done.
NoColumns == ~job.token /\ Available = {}
NoSelector == ~(job.selector \/ (job.mode = "cumulative" /\ job.token))
Unknown == job.mode # "continuous" /\ (NoColumns \/ NoSelector)

ExecuteQuery ==
    /\ token' = Day
    /\ \/ /\ create # "no" /\ ~AllAvailable
          /\ Working /\ UNCHANGED <<create, cache, lastlogged, exists, rows>>
       \/ /\ create = "no" \/ AllAvailable
          /\ \E t \in CreateTable :
              /\ create' = CreateMode(t.ok) /\ exists' = t.exists
              /\ CASE ~t.ok -> Failing /\ rows' = t.rows /\ UNCHANGED <<cache, lastlogged>>
                   [] t.ok /\ (Skipped \/ Unknown) ->
                        Working /\ rows' = t.rows /\ UNCHANGED <<cache, lastlogged>>
                   [] OTHER -> IF job.mode = "continuous" THEN Insert(t) ELSE UpdateOrInsert(t)

-----------------------------------------------------------------------------
(* The filter.  It always schedules the next CMD_CYCLIC.                   *)

Untouched == UNCHANGED <<token, create, cache, lastlogged, exists, rows>>

CmdCyclic ==
    /\ \/ ~session /\ Failing /\ Untouched
       \/ ~datavalid /\ Working /\ Untouched
       \/ datavalid /\ ExecuteQuery
    /\ UNCHANGED <<job, clockVars, inverterVars, copyVars, down>>

\* CMD_BRC_SHUTDOWN.  A CMD_CYCLIC behind it opens the session again.
Shutdown ==
    /\ ~down
    /\ down' = TRUE /\ session' = FALSE
    /\ UNCHANGED <<job, clockVars, inverterVars, copyVars, token, create, cache, lastlogged, exists,
                   rows, failures>>

Next ==
    \/ \E n \in Data, v \in 0 .. 1 : NewCapability(n, v) \/ NewValue(n, v)
    \/ NewDataState \/ Disconnected \/ Tick \/ ClockSetBack
    \/ CmdCyclic \/ Shutdown

Spec == Init /\ [][Next]_vars

\* The timer expires and the main loop serves its queue.
FairSpec == Spec /\ WF_vars(CmdCyclic)

-----------------------------------------------------------------------------
(* What the writer promises.                                               *)

\* A copy is what the inverter says now, also after it was disconnected:
\* otherwise a stale value would be logged as a fresh one.
CopyIsCurrent ==
    \A n \in Wanted : copy[n] # NoCopy => copy[n] = data[n]

\* No stale value is ever taken for a fresh one.
DbInv == TypeOK /\ CopyIsCurrent

\* Why it stays so: what has been copied is observed; a statement that is kept
\* has all its places; as long as the table is to be wiped nothing is in it.
CopiesObserved == \A n \in Wanted : copy[n] # NoCopy => n \in subscribed
KeptStatement == ~job.allow_sparse => cache \in {NoStatement, Wanted}
OnlyOldRows == create = "wipe" => \A k \in DOMAIN rows : DOMAIN rows[k] = {}

\* The inductive invariant.
DbIInv ==
    /\ DbInv /\ CopiesObserved /\ KeptStatement /\ OnlyOldRows
    /\ job \in Jobs /\ now \in 1 .. MaxTime

\* Unless sparse rows are allowed, each row that is written is complete, and
\* the statement that is kept has a place for every column.
CompleteRows ==
    [][~job.allow_sparse =>
        /\ cache' \in {NoStatement, Wanted}
        /\ \A k \in DOMAIN rows' :
            DOMAIN rows'[k] = Wanted \/ (k \in DOMAIN rows /\ rows'[k] = rows[k])]_vars

\* The writer never wipes what it has written itself, and what others have
\* written only when it is told to.
WipesOnlyOldRows ==
    [][\A k \in DOMAIN rows \ DOMAIN rows' :
        job.create = "wipe" /\ DOMAIN rows[k] = {}]_vars

\* With the inverter connected and the database working again in the end, a
\* value that stays gets into the table, though statements fail before.  If the
\* clock is set back a job with logchangedonly takes it for an old one.
Logging ==
    /\ ~down /\ datavalid /\ AllAvailable
    /\ job.mode = "continuous" /\ ~job.allow_sparse /\ job.create # "print"
    /\ ~(job.logchangedonly /\ setback)

ValueLogged ==
    \A n \in Data, v \in 0 .. 1 :
        <>[](Logging /\ n \in Wanted /\ data[n].val = v)
            => <>[](0 \in DOMAIN rows /\ n \in DOMAIN rows[0] /\ rows[0][n] = v)
=============================================================================
