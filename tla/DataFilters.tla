---------------------------- MODULE DataFilters -----------------------------
(***************************************************************************)
(* The CSV, HTML and dump filters, stacked on an inverter in any order.    *)
(* The inverter publishes capabilities, changes values and the validity of *)
(* its data, and notifies its observers at once; the filters work when the *)
(* main queue or one of their timers gives them a command.  Everything     *)
(* runs on the main thread, so a step is a whole handler.  A timer's       *)
(* command is executed at any time after it is set: nothing else can tell  *)
(* an expired timer from a command that waits in the queue.                *)
(* No inverter ever notifies CAPAS_REMOVEALL, and nobody subscribes to     *)
(* the capabilities a CSV filter publishes.                                *)
(***************************************************************************)
EXTENDS Capabilities

CONSTANTS
    Loggers,    \* the filters in the order of the configuration file
    Chains,     \* the configurations: a sequence of [kind, base, rotate, ...]
    Listed,     \* the data2log array of a CSV filter that does not log all
    Searched,   \* the parameter of the searchcvsentry formatter
    Containing, \* the names whose text contains that of Searched
    MaxDay      \* bound: midnights

Filename == "CSVDUMPER_FILENAME"
Logged == "CSVDUMPER_LOGGEDCAPABILITES"
Data == Names \ (Mandatory \cup {Filename, Logged})

ASSUME FiltersAssumption ==
    /\ {Filename, Logged} \subseteq Names
    /\ Loggers \in Seq(Filters) /\ Filters = Range(Loggers) /\ IsInjective(Loggers)
    /\ \A c \in Chains : \A i \in DOMAIN Loggers :
        /\ c[Loggers[i]].kind \in {"csv", "html", "dump"}
        /\ c[Loggers[i]].base \in {Inverter} \cup { Loggers[j] : j \in 1 .. i - 1 }
    /\ Listed \in Seq(Names)
    /\ Searched \in Containing
    /\ MaxDay \in Nat \ {0}

VARIABLES
    kind, cfg,      \* the configuration of each filter
    dataState, value,   \* of the inverter: Data Validity, the data
    day,            \* the local date
    queue,          \* the filters' commands in the main queue
    cyclic,         \* filters whose CMD_CYCLIC is scheduled
    datavalid, capsupdated, headerwritten, found_all_capas,
    columns,        \* CSVCapas
    file,           \* the day the open file is named after, or NotOpen
    last_line, logged,  \* last_line and the value of LOGGEDCAPABILITES
    rotation,       \* the days the scheduled CMD_ROTATEs are due
    AddedCaps,
    written,        \* history: the last header and row of the open file
    page            \* history: the column the last HTML page gives

configuration == <<kind, cfg, base>>
inverterVars == <<dataState, value, owned>>
csvVars == <<headerwritten, found_all_capas, columns, file, last_line, logged, rotation, written>>
filterVars == <<configuration, inverterVars, observers, day, queue, cyclic, datavalid,
                capsupdated, csvVars, AddedCaps, page>>

NotOpen == 0
NoText == MaxDay + 1   \* the empty text of a capability that is not there
Empty == [header |-> <<>>, row |-> <<>>, line |-> <<>>]
Csv(f) == kind[f] = "csv"

Published(k) ==
    CASE k = "csv" -> {Updated, Filename, Logged}
      [] k = "html" -> {Updated}
      [] k = "dump" -> {Updated, RemoveAll}

FiltersInit ==
    /\ \E c \in Chains :
        /\ kind = [f \in Filters |-> c[f].kind] /\ base = [f \in Filters |-> c[f].base]
        /\ cfg = [f \in Filters |-> [all |-> c[f].all, rotate |-> c[f].rotate, compact |-> c[f].compact]]
    /\ owned = [o \in Objects |-> IF o = Inverter THEN Mandatory ELSE Published(kind[o])]
    /\ observers = [c \in AllCaps |-> <<>>]
    /\ dataState = FALSE /\ value = [n \in Data |-> 0] /\ day = 1
    /\ queue = [i \in DOMAIN Loggers |-> [to |-> Loggers[i], cmd |-> "INIT"]]
    /\ cyclic = {}
    /\ LET none == [f \in Filters |-> FALSE]
       IN  datavalid = none /\ capsupdated = none /\ headerwritten = none
           /\ found_all_capas = none /\ AddedCaps = none
    /\ LET empty == [f \in Filters |-> <<>>]
       IN  columns = empty /\ last_line = empty /\ logged = empty
    /\ file = [f \in Filters |-> NotOpen] /\ rotation = [f \in Filters |-> <<>>]
    /\ written = [f \in Filters |-> Empty] /\ page = [f \in Filters |-> 0]

Days == 1 .. MaxDay

FiltersTypeOK ==
    /\ owned \in [Objects -> SUBSET Names]
    /\ \A c \in AllCaps : IsInjective(observers[c]) /\ Range(observers[c]) \subseteq Filters
    /\ dataState \in BOOLEAN /\ value \in [Data -> 0 .. 1] /\ day \in Days
    /\ IsInjective(queue) /\ cyclic \subseteq Filters
    /\ Range(queue) \subseteq [to : Filters, cmd : {"INIT", "ADDED_CAPAS"}]
    /\ \A f \in Filters :
        /\ file[f] \in Days \cup {NotOpen}
        /\ IsInjective(columns[f]) /\ Range(columns[f]) \subseteq Names
        /\ Len(rotation[f]) <= 1
        /\ page[f] \in 0 .. Len(NameOrder)
        /\ AddedCaps[f] <=> [to |-> f, cmd |-> "ADDED_CAPAS"] \in Range(queue)

-----------------------------------------------------------------------------
(* Notify(CAPAS_UPDATED): Update of the observers, in turn.  CSV and HTML  *)
(* filters notify their own observers at once, a dump filter puts it off.  *)

\* The filters whose Update is called, in the order of the calls.
Told(o) ==
    LET told[x \in Objects] ==
            LET obs == observers[<<x, Updated>>]
            IN  FlattenSeq([i \in 1 .. Len(obs) |->
                    <<obs[i]>> \o (IF kind[obs[i]] = "dump" THEN <<>> ELSE told[obs[i]])])
    IN  told[o]

Deferring(told) == Only(told, { f \in Filters : kind[f] = "dump" /\ ~AddedCaps[f] })

NotifyUpdated(o, q, flags) ==
    LET told == Told(o)
        deferred == Deferring(told)
    IN  /\ capsupdated' = [f \in Filters |-> capsupdated[f] \/ (f \in Range(told) /\ Csv(f))]
        /\ AddedCaps' = [f \in Filters |-> flags[f] \/ f \in Range(deferred)]
        /\ queue' = q \o [i \in DOMAIN deferred |-> [to |-> deferred[i], cmd |-> "ADDED_CAPAS"]]

-----------------------------------------------------------------------------
(* The inverter.                                                           *)

\* A filter's CMD_INIT is queued before the inverter can get its first answer.
Started == cyclic = Filters

\* CapabilityHandling with a name the inverter has not published yet.
NewCapability(n) ==
    /\ Started
    /\ n \in Data \ owned[Inverter]
    /\ AddCapability(Inverter, n)
    /\ NotifyUpdated(Inverter, queue, AddedCaps)
    /\ UNCHANGED <<configuration, observers, dataState, value, day, cyclic, datavalid, csvVars, page>>

\* CapabilityHandling with a changed value; no filter here observes it.
NewValue(n) ==
    /\ Started
    /\ n \in Data \cap owned[Inverter]
    /\ value' = [value EXCEPT ![n] = 1 - @]
    /\ UNCHANGED <<configuration, owned, observers, dataState, day, queue, cyclic, datavalid,
                   capsupdated, csvVars, AddedCaps, page>>

Informed_WhenValid(f) ==
    ~dataState /\ f \in Range(observers[<<Inverter, DataState>>])

\* Data Validity: CSV and HTML filters keep a copy.
Informed(f) == kind[f] \in {"csv", "html"} /\ f \in Range(observers[<<Inverter, DataState>>])

NewDataState ==
    /\ Started
    /\ dataState' = ~dataState
    /\ datavalid' = [f \in Filters |-> IF Informed(f) THEN ~dataState ELSE datavalid[f]]
    /\ UNCHANGED <<configuration, owned, observers, value, day, queue, cyclic, capsupdated, csvVars,
                   AddedCaps, page>>

Midnight ==
    /\ day < MaxDay
    /\ day' = day + 1
    /\ UNCHANGED <<configuration, inverterVars, observers, queue, cyclic, datavalid, capsupdated,
                   csvVars, AddedCaps, page>>

-----------------------------------------------------------------------------
(* The CSV filter.                                                         *)

\* The file DoINITCmd opens: the one of the day.  Without `rotate` the name
\* it opens is the empty string; opening can fail for other reasons as well.
CanOpen(f) == IF cfg[f].rotate THEN {day, NotOpen} ELSE {NotOpen}

DoINITCmd(f, rotations) ==
    /\ file' \in { [file EXCEPT ![f] = d] : d \in CanOpen(f) }
    /\ headerwritten' = [headerwritten EXCEPT ![f] = FALSE]
    /\ rotation' = [rotation EXCEPT ![f] = Append(rotations, day + 1)]
    /\ written' = [written EXCEPT ![f] = Empty]
    /\ UNCHANGED <<found_all_capas, columns, last_line, logged>>

\* CMDCyclic_CheckCapas: the new columns go to the end of the list.
Wanted(f) ==
    IF ~cfg[f].all /\ ~found_all_capas[f] THEN Listed ELSE Iterate(base[f])

Extended_InFront(cols, w) == SelectSeq(w, LAMBDA n : n \notin Range(cols)) \o cols

\* The i-th name of w has no column, and it is not one before it in w.
Missing(cols, w, i) == w[i] \notin Range(cols) /\ \A j \in 1 .. i - 1 : w[j] # w[i]

Extended(cols, w) ==
    LET added[i \in 0 .. Len(w)] ==
            IF i = 0 THEN cols
            ELSE IF Missing(cols, w, i) THEN Append(added[i - 1], w[i]) ELSE added[i - 1]
    IN  added[Len(w)]

\* What a row says of the capability; equal numbers stand for equal texts.
Text(o, n) ==
    LET c == Concrete(o, n)
    IN  IF c = NoCap THEN NoText
        ELSE IF n \in Data THEN value[n]
        ELSE IF n = Filename THEN file[c[1]]
        ELSE IF n = Logged THEN Len(logged[c[1]])
        ELSE 1

\* compact_csv leaves a line out that equals the one before it.
Suppressed(f, line, last) == cfg[f].compact /\ line = last

\* The line that a new header does away with as the one to compare with.
LineBefore(f, headed) == IF headed THEN last_line[f] ELSE <<>>

Check_WithHeader(f) == ~headerwritten[f]

\* CheckCapas is called after news and for a file without a header.
Check(f) == capsupdated[f] \/ ~headerwritten[f]

Columns(f) == { IF Check(f) THEN Extended(columns[f], w) ELSE columns[f] : w \in {Wanted(f)} }

DoCYCLICmd(f) ==
    \E cols \in Columns(f) :
        LET headed == headerwritten[f] /\ cols = columns[f]
            line == [i \in DOMAIN cols |-> Text(base[f], cols[i])]
            header == IF headed THEN written[f].header ELSE cols
        IN  /\ columns' = [columns EXCEPT ![f] = cols]
            /\ capsupdated' = [capsupdated EXCEPT ![f] = @ /\ ~Check(f)]
            /\ found_all_capas' = [found_all_capas EXCEPT ![f] = @ \/ (Check(f) /\ ~cfg[f].all)]
            /\ headerwritten' = [headerwritten EXCEPT ![f] = file[f] # NotOpen \/ headed]
            /\ IF file[f] = NotOpen
               THEN UNCHANGED <<logged, last_line, written>>
               ELSE /\ logged' = [logged EXCEPT ![f] = IF headed THEN @ ELSE cols]
                    /\ last_line' = [last_line EXCEPT ![f] = line]
                    /\ written' = [written EXCEPT ![f] =
                           IF Suppressed(f, line, LineBefore(f, headed))
                           THEN [@ EXCEPT !.header = header]
                           ELSE [header |-> header, row |-> cols, line |-> line]]
            /\ UNCHANGED <<file, rotation>>

-----------------------------------------------------------------------------
(* The HTML filter: a page of all capabilities, with the formatter         *)
(* searchcvsentry telling in which column of the CSV file Searched is.     *)

SearchCSVEntry(header) ==
    LET found == { i \in DOMAIN header : header[i] \in Containing }
    IN  IF found = {} THEN 0 ELSE CHOOSE i \in found : \A j \in found : i <= j

ColumnShown(f) ==
    LET c == Concrete(f, Logged)
    IN  IF c = NoCap THEN 0 ELSE SearchCSVEntry(logged[c[1]])

\* The output file cannot always be opened; the page before it then stays.
DoCyclicCmd(f) ==
    page' \in {page, [page EXCEPT ![f] = ColumnShown(f)]}

-----------------------------------------------------------------------------
(* ExecuteCommand.                                                         *)

Take(f, cmd) == queue # <<>> /\ Head(queue) = [to |-> f, cmd |-> cmd]

CmdInit(f) ==
    /\ Take(f, "INIT")
    /\ queue' = Tail(queue)
    /\ observers' = SubscribeMandatory(observers, f)
    /\ cyclic' = cyclic \cup {f}
    /\ IF Csv(f) THEN DoINITCmd(f, <<>>) ELSE UNCHANGED csvVars
    /\ UNCHANGED <<configuration, inverterVars, day, datavalid, capsupdated, AddedCaps, page>>

\* Without valid data a CSV or HTML filter only schedules the next round.
Cyclic(f) ==
    /\ f \in cyclic
    /\ IF Csv(f) /\ datavalid[f] THEN DoCYCLICmd(f) ELSE UNCHANGED <<csvVars, capsupdated>>
    /\ IF kind[f] = "html" /\ datavalid[f] THEN DoCyclicCmd(f) ELSE UNCHANGED page
    /\ UNCHANGED <<configuration, inverterVars, observers, day, queue, cyclic, datavalid, AddedCaps>>

CmdRotate(f) ==
    /\ rotation[f] # <<>> /\ Head(rotation[f]) <= day
    /\ DoINITCmd(f, Tail(rotation[f]))
    /\ UNCHANGED <<configuration, inverterVars, observers, day, queue, cyclic, datavalid,
                   capsupdated, AddedCaps, page>>

CmdAddedCapas_NotPassedOn(f) ==
    /\ Take(f, "ADDED_CAPAS")
    /\ queue' = Tail(queue) /\ AddedCaps' = [AddedCaps EXCEPT ![f] = FALSE]
    /\ UNCHANGED <<configuration, inverterVars, observers, day, cyclic, datavalid, capsupdated,
                   csvVars, page>>

CmdAddedCapas(f) ==
    /\ Take(f, "ADDED_CAPAS")
    /\ NotifyUpdated(f, Tail(queue), [AddedCaps EXCEPT ![f] = FALSE])
    /\ observers' = Subscribe(observers, f, Concrete(base[f], DataState))
    /\ UNCHANGED <<configuration, inverterVars, day, cyclic, datavalid, csvVars, page>>

Handlers(f) == CmdInit(f) \/ CmdAddedCapas(f) \/ Cyclic(f) \/ CmdRotate(f)

FiltersNext ==
    \/ \E f \in Filters : Handlers(f)
    \/ \E n \in Data : NewCapability(n) \/ NewValue(n)
    \/ NewDataState
    \/ Midnight

FiltersSpec == FiltersInit /\ [][FiltersNext]_filterVars

\* The main loop serves its queue and the timers expire.
FiltersFairness ==
    \A f \in Filters :
        /\ WF_filterVars(CmdInit(f)) /\ WF_filterVars(CmdAddedCapas(f))
        /\ WF_filterVars(Cyclic(f)) /\ WF_filterVars(CmdRotate(f))

FiltersFairSpec == FiltersSpec /\ FiltersFairness

-----------------------------------------------------------------------------
(* What the filters promise.                                               *)

\* The iterator of an object visits every capability its look-up finds,
\* whatever the objects of the chain override.
IterationComplete ==
    \A o \in Objects : Range(Iterate(o)) = Visible(o)

\* Below a header there is at least one row, with the columns of that header:
\* neither new capabilities, nor a rotation, nor the suppression of equal
\* lines leave a file in which header and rows disagree.
RowBelowHeader ==
    \A f \in Filters :
        Csv(f) /\ headerwritten[f] =>
            /\ written[f].header = columns[f] /\ written[f].row = columns[f]
            /\ written[f].line = last_line[f]

\* A filter writes only while the inverter says that its data is valid.
OnlyValidData ==
    [][dataState \/ \A f \in Filters :
            (page'[f] = page[f]) /\ (written'[f] \in {written[f], Empty})]_filterVars

\* Has a dump filter between the inverter and f still to pass on news.
Delayed(f) ==
    LET delayed[x \in Objects] == x # Inverter /\ (AddedCaps[x] \/ delayed[base[x]])
    IN  delayed[f]

\* A new capability is never forgotten on its way through the chain: a CSV
\* filter that logs all has a column for it, will look for new ones, or is
\* behind a dump filter that still has to pass the news on.
NewsOnTheWay ==
    \A f \in cyclic :
        Csv(f) /\ cfg[f].all =>
            \/ Visible(base[f]) \subseteq Range(columns[f])
            \/ capsupdated[f] \/ ~headerwritten[f] \/ Delayed(f)

\* The column an HTML page names for a capability is that capability's column
\* in the CSV file, also after the file has grown or has been rotated.
ColumnNumberRight ==
    \A f \in Filters :
        page[f] # 0 =>
            columns[Concrete(f, Logged)[1]][page[f]] = Searched

\* While a file of an earlier day is open, its rotation is scheduled and due.
RotatesDaily ==
    \A f \in cyclic :
        Csv(f) => /\ Len(rotation[f]) = 1
                  /\ file[f] \notin {NotOpen, day} => Head(rotation[f]) <= day

\* News reach every filter, and what a file says agrees with itself.
FilterInv ==
    FiltersTypeOK /\ IterationComplete /\ RowBelowHeader /\ RotatesDaily /\ NewsOnTheWay

\* With valid data and an open file, every capability of the inverter gets
\* into the header of a CSV file that logs all of them.
CapabilityLogged ==
    \A f \in Filters, n \in Data :
        (/\ Csv(f) /\ cfg[f].all
         /\ <>[](datavalid[f] /\ file[f] # NotOpen))
        => (n \in owned[Inverter] ~> n \in Range(written[f].header))

=============================================================================
