------------------------------ MODULE Startup ------------------------------
(***************************************************************************)
(* main() of solarpowerlog.cpp from the loaded configuration to the main   *)
(* loop: the sections are looked for, the inverters and then the loggers   *)
(* are constructed, checked and registered in the order of the file, and   *)
(* the first commands of the objects are executed.  Only a missing setting *)
(* is caught; a setting of a wrong type ends in terminate().               *)
(* One logger of the objects is followed (module Logger).                  *)
(***************************************************************************)
EXTENDS Settings, Logger

CONSTANT Files  \* a sequence of configurations: records [readable, sections,
                \* application, inverters, loggers, xml]

IsList(q) == q \in Seq({q[i] : i \in DOMAIN q})

ASSUME FilesAssumption ==
    \A i \in DOMAIN Files : IsList(Files[i].inverters) /\ IsList(Files[i].loggers)

VARIABLES
    file,           \* the configuration file
    phase,          \* how far main() is
    registry,       \* the objects of the Registry, in order
    queue,          \* the CMD_INITs in the main queue: names
    initialised     \* the objects that have executed theirs

startupVars == <<file, phase, registry, queue, initialised>>
programVars == <<startupVars, loggerVars>>

required_sections == {"application", "inverter", "inverter.inverters", "logger", "logger.loggers"}

Names == {registry[i].name : i \in DOMAIN registry}
GetInverter(n) == CHOOSE i \in DOMAIN registry : registry[i].name = n

StartupInit ==
    /\ \E i \in DOMAIN Files : file = Files[i]
    /\ phase = "load"
    /\ registry = <<>> /\ queue = <<>> /\ initialised = {}
    /\ LoggerInit

Outcome(verdict, next) ==
    CASE verdict = "ok" -> next [] verdict = "fail" -> "exited" [] OTHER -> "aborted"

LoadConfig ==
    /\ phase = "load"
    /\ phase' = Outcome(Verdict(file.readable /\ required_sections \subseteq file.sections),
                        "inverters")
    /\ UNCHANGED <<file, registry, queue, initialised, loggerVars>>

\* The strings that main() reads itself, up to the first that is no string.
Reads(g, names) ==
    LET bad == {i \in DOMAIN names : ~IsString(g, names[i])} IN
    IF bad = {} THEN "ok"
    ELSE IF Has(g, names[CHOOSE i \in bad : \A j \in bad : i <= j]) THEN "abort" ELSE "fail"

InverterReads(g) ==
    Reads(g, << IF Has(g, "manufacturer") THEN "manufacturer" ELSE "manufactor", "name", "model" >>)

\* The constructor has put its CMD_INIT into the queue when the
\* configuration of the object is checked.
Construct(g, class, verdict, base, line, settings, next) ==
    /\ phase' = Outcome(verdict, next)
    /\ queue' = Append(queue, g["name"].is)
    /\ registry' = IF verdict = "ok"
                   THEN Append(registry, [name |-> g["name"].is, class |-> class, group |-> g,
                                          base |-> base, line |-> line, settings |-> settings])
                   ELSE registry

Refuse(verdict) == phase' = Outcome(verdict, phase) /\ UNCHANGED <<queue, registry>>

InverterSettings(g) ==
    IF InverterClass(g) = "S-Series" THEN Stored(SputnikTable, g) ELSE <<>>

CreateInverter ==
    LET i == Len(registry) + 1
        g == file.inverters[i] IN
    /\ phase = "inverters" /\ i \in DOMAIN file.inverters
    /\ IF InverterReads(g) # "ok" THEN Refuse(InverterReads(g))
       ELSE IF g["name"].is \in Names \/ InverterClass(g) = "none" THEN Refuse("fail")
       ELSE Construct(g, InverterClass(g), InverterCheck(g, registry), "", RealOf(g, registry),
                      InverterSettings(g), phase)
    /\ UNCHANGED <<file, initialised, loggerVars>>

\* A filter finds its data source in the constructor, among the objects that
\* are registered before it.
CreateFilter ==
    LET i == Len(registry) - Len(file.inverters) + 1
        g == file.loggers[i]
        base == IF g["datasource"].is \in Names THEN g["datasource"].is ELSE "" IN
    /\ phase = "loggers" /\ i \in DOMAIN file.loggers
    /\ IF Reads(g, <<"name", "datasource", "type">>) # "ok"
       THEN Refuse(Reads(g, <<"name", "datasource", "type">>))
       ELSE IF g["name"].is \in Names \/ g["type"].is \notin FilterClasses THEN Refuse("fail")
       ELSE Construct(g, g["type"].is, FilterCheck(g, base # ""), base, <<>>, <<>>, phase)
    /\ UNCHANGED <<file, initialised, loggerVars>>

InvertersDone ==
    /\ phase = "inverters" /\ Len(registry) = Len(file.inverters)
    /\ phase' = "loggers"
    /\ UNCHANGED <<file, registry, queue, initialised, loggerVars>>

-----------------------------------------------------------------------------
(* Setup of a logger: a level of its own in the XML file leaves the one of *)
(* the root logger in currentloggerlevel_; then its dbglevel and the one   *)
(* of the application count.                                               *)

Level(s) ==
    CASE s = "ALL" -> LL_ALL [] s = "ERROR" -> LL_ERROR [] s = "OFF" -> LL_OFF
      [] OTHER -> LL_DEBUG

Root == Level(GetConfig(file.application, "dbglevel", "string", "ERROR"))

Setup(g) ==
    IF file.xml THEN Root ELSE IF IsString(g, "dbglevel") THEN Level(g["dbglevel"].is) ELSE Root

\* The main loop begins; from here on the logger of object i is followed.
LoggersDone ==
    /\ phase = "loggers" /\ Len(registry) = Len(file.inverters) + Len(file.loggers)
    /\ phase' = "running"
    /\ currentlevel' = Root
    /\ \/ currentloggerlevel' = Root /\ registry = <<>>
       \/ \E i \in DOMAIN registry : currentloggerlevel' = Setup(registry[i].group)
    /\ UNCHANGED <<file, registry, queue, initialised, sa_info, clock, thread, said, printed>>

\* The main loop takes the first CMD_INIT; that of a filter asserts that
\* there is a data source.
ExecuteInit ==
    /\ phase = "running" /\ queue # <<>>
    /\ LET o == registry[GetInverter(Head(queue))] IN
       /\ phase' = IF o.class \in FilterClasses /\ o.base = "" THEN "aborted" ELSE phase
       /\ initialised' = initialised \cup {o.name}
    /\ queue' = Tail(queue)
    /\ UNCHANGED <<file, registry, loggerVars>>

\* The logger is followed once the objects are initialised.
Log == phase = "running" /\ queue = <<>> /\ LoggerNext /\ UNCHANGED startupVars

StartupNext ==
    \/ LoadConfig \/ CreateInverter \/ InvertersDone \/ CreateFilter \/ LoggersDone
    \/ ExecuteInit \/ Log

StartupSpec == StartupInit /\ [][StartupNext]_programVars

-----------------------------------------------------------------------------
StartupTypeOK ==
    /\ phase \in {"load", "inverters", "loggers", "running", "exited", "aborted"}
    /\ initialised \subseteq Names
    /\ Len(registry) <= Len(file.inverters) + Len(file.loggers)
    /\ LoggerTypeOK

\* Two objects never have the same name: a data source is one object.
NamesUnique == \A i, j \in DOMAIN registry : registry[i].name = registry[j].name => i = j

\* The source of a filter is what its configuration names; it is registered
\* before the filter and has executed its CMD_INIT before the filter does.
SourcesFirst ==
    \A i \in DOMAIN registry : registry[i].class \in FilterClasses =>
        /\ registry[i].base = registry[i].group["datasource"].is
        /\ \E j \in 1 .. i - 1 : /\ registry[j].name = registry[i].base
                                 /\ registry[i].name \in initialised => registry[j].name \in initialised

\* Every registered inverter has a checked TCP or serial connection at the
\* end of its line, also a slave whose line leads over another inverter and a
\* master over another shared connection; that of a simulator accepts clients.
LinesExist ==
    \A i \in DOMAIN registry : registry[i].class \notin FilterClasses =>
        /\ RealOk(registry[i].line)
        /\ registry[i].class = "Simulator" => CanAccept(registry[i].line)

\* An S-Series inverter works with addresses and times in their ranges,
\* whether they come from the file or from the table.
SettingsInRange ==
    \A i \in DOMAIN registry : registry[i].class = "S-Series" =>
        LET s == registry[i].settings IN
        /\ s["commadr"] \in 0 .. 255 /\ s["ownadr"] \in 0 .. 255
        /\ \A t \in {"queryinterval", "response_timeout", "connection_timeout", "send_timeout",
                     "reconnect_delay"} : s[t] >= 0

\* The parts above, for what main() has built from any of the files.
StartupInv == StartupTypeOK /\ NamesUnique /\ SourcesFirst /\ LinesExist /\ SettingsInRange

\* The log: nothing enabled is lost, neither to another thread nor to the
\* suppression of repetitions, and repetitions come back.
LogInv == NothingEnabledIsDropped /\ LastSaidIsLogged /\ RepeatedInTime

\* What the checks of the configuration let through does not hit an
\* assertion when the objects initialise themselves.
InitFindsItsSource == [][phase = "running" => phase' # "aborted"]_programVars
=============================================================================
