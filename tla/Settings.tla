------------------------------ MODULE Settings ------------------------------
(***************************************************************************)
(* The configuration: how a setting is looked up and type-checked          *)
(* (CConfigHelper), the tables of a component's settings (CConfigCentral), *)
(* and what CheckConfig of every connection, inverter and filter accepts.  *)
(* A setting is a record [type, is]; a group is a function from the names  *)
(* of the settings it has to the settings.                                 *)
(***************************************************************************)
EXTENDS Integers, Sequences, FiniteSets

CONSTANTS
    FLT_MAX,        \* the upper limit of a setting that has only a lower one
    MaxNesting      \* bound: masters between an inverter and its real connection

ASSUME SettingsAssumption == FLT_MAX \in Nat /\ FLT_MAX >= 255 /\ MaxNesting \in Nat

Setting(t, v) == [type |-> t, is |-> v]

-----------------------------------------------------------------------------
(* CConfigHelper.                                                          *)

Has(g, s) == s \in DOMAIN g

\* The numbers are converted into each other, nothing else is.
Fits(v, t) == v.type = t \/ {v.type, t} \subseteq {"int", "float"}

CheckConfig(g, s, t, optional) == IF Has(g, s) THEN Fits(g[s], t) ELSE optional

GetConfig(g, s, t, default) == IF Has(g, s) /\ Fits(g[s], t) THEN g[s].is ELSE default

IsString(g, s) == CheckConfig(g, s, "string", FALSE)
Is(g, s, v) == IsString(g, s) /\ g[s].is = v

\* The group of that name below g; the empty group when there is none.
Below(g, s) == GetConfig(g, s, "group", <<>>)
Listed(g, s) == GetConfig(g, s, "list", <<>>)

-----------------------------------------------------------------------------
(* CConfigCentral: a table of entries, each of them mandatory or with a    *)
(* default, some with a range.                                             *)

Mandatory(s, t) == [setting |-> s, type |-> t, optional |-> FALSE, range |-> <<>>]
Optional(s, t, d) ==
    [setting |-> s, type |-> t, optional |-> TRUE, default |-> Setting(t, d), range |-> <<>>]
Ranged(s, d, lo, hi) ==
    [setting |-> s, type |-> "float", optional |-> TRUE, default |-> Setting("float", d),
     range |-> <<lo, hi>>]

Found(e, g) == IF Has(g, e.setting) THEN g[e.setting] ELSE e.default

Accepts(e, g) ==
    /\ Has(g, e.setting) \/ e.optional
    /\ Fits(Found(e, g), e.type)
    /\ e.range # <<>> => Found(e, g).is \in e.range[1] .. e.range[2]

\* Every entry is looked at, and all of them must be accepted.
CheckCentral(table, g) == \A i \in DOMAIN table : Accepts(table[i], g)

\* What the members that the entries refer to hold after that.
Stored(table, g) ==
    [s \in {table[i].setting : i \in DOMAIN table} |->
        Found(table[CHOOSE i \in DOMAIN table : table[i].setting = s], g).is]

SputnikTable ==
    << Mandatory("comms", "string"),
       Ranged("queryinterval", 5, 0, FLT_MAX),
       Ranged("commadr", 1, 0, 255), Ranged("ownadr", 251, 0, 255),
       Ranged("response_timeout", 3, 0, FLT_MAX), Ranged("connection_timeout", 3, 0, FLT_MAX),
       Ranged("send_timeout", 3, 0, FLT_MAX), Ranged("reconnect_delay", 15, 0, FLT_MAX),
       Optional("disable_3phase_commands", "bool", FALSE) >>

FilterTable ==
    << Mandatory("name", "string"), Mandatory("type", "string"), Mandatory("datasource", "string") >>

CsvTable == FilterTable \o
    << Mandatory("logfile", "string"), Optional("rotate", "bool", FALSE),
       Optional("compact_csv", "bool", FALSE),
       Optional("flush_file_buffer_immediatly", "bool", FALSE),
       Optional("format_timestamp", "string", "%Y-%m-%d %T") >>

HtmlTable == FilterTable \o
    << Ranged("writevery", 0, 0, FLT_MAX), Mandatory("htmlfile", "string"),
       Optional("generate_template", "bool", FALSE),
       Optional("templatefile", "string", "htmltemplate"),
       Optional("generate_template_dir", "string", "/tmp/") >>

DbTable == FilterTable \o
    << Mandatory("db_type", "string"),
       Optional("db_host", "string", ""), Optional("db_port", "string", ""),
       Optional("db_unixsocket", "string", ""), Optional("db_mode", "string", ""),
       Optional("db_user", "string", ""), Optional("db_password", "string", ""),
       Optional("db_database", "string", ""), Optional("db_cppdb_options", "string", "") >>

-----------------------------------------------------------------------------
(* The connections.  `known` are the inverters that are registered         *)
(* already: records with their name, their group and their line, the group *)
(* of the connection that transports their data.                           *)

Comms(g) == GetConfig(g, "comms", "string", "")
SharedType(g) == GetConfig(g, "sharedconnection_type", "string", "")

TcpServer(g) ==
    /\ Is(g, "tcpmode", "server")
    /\ CheckConfig(g, "tcpadr", "string", TRUE) /\ CheckConfig(g, "tcpport", "int", FALSE)

TcpClient(g) ==
    /\ ~Is(g, "tcpmode", "server")
    /\ IsString(g, "tcpadr") /\ IsString(g, "tcpport")
    /\ CheckConfig(g, "tcptimeout", "int", TRUE)

EightN1 == [size |-> 3, bits |-> 8, parity |-> "N", stopbits |-> 1]

\* Port parameters that are not three characters are complained about, and accepted.
SerialOk(g) ==
    LET p == GetConfig(g, "serial_portparameters", "string", EightN1) IN
    /\ IsString(g, "serial_serialportname") /\ CheckConfig(g, "serial_baudrate", "int", FALSE)
    /\ \A s \in {"serial_portparameters", "serial_flowcontrol"} : CheckConfig(g, s, "string", TRUE)
    /\ \A s \in {"serial_timeout", "serial_interbytetimeout"} : CheckConfig(g, s, "int", TRUE)
    /\ p.size = 3 => p.bits <= 8 /\ p.parity \in {"E", "O", "N"} /\ p.stopbits \in {1, 2}

\* Any other `comms` makes a dummy connection, which accepts no configuration.
RealOk(g) ==
    \/ Comms(g) = "TCP/IP" /\ (TcpServer(g) \/ TcpClient(g))
    \/ Comms(g) = "RS2xx" /\ SerialOk(g)

IsMaster(g) == Comms(g) = "SharedConnection" /\ SharedType(g) = "master"
IsSlave(g) == Comms(g) = "SharedConnection" /\ SharedType(g) = "slave"

\* A slave that does not look whether the other inverter is a master.
MastersOf_AnyInverter(g, known) ==
    {i \in DOMAIN known : Is(g, "useconnection", known[i].name)}

\* The registered inverter whose connection a slave shares.
MastersOf(g, known) ==
    {i \in DOMAIN known : Is(g, "useconnection", known[i].name) /\ IsMaster(known[i].group)}

\* The real connection of a master is made like any other: it may be shared
\* again, by a master of its own or as a slave of another inverter.
HasReal(g) == IsMaster(g) /\ IsString(Below(g, "realcomms"), "comms")

\* The real connection of the real connection and so on, d masters below g.
RealComms(g) ==
    LET r[d \in 0 .. MaxNesting] == IF d = 0 THEN g ELSE Below(r[d - 1], "realcomms") IN r

\* The depths down to which the connections of g are made.
Made(g) == {d \in 0 .. MaxNesting : \A i \in 0 .. d - 1 : HasReal(RealComms(g)[i])}

\* The last of them passes its own check, which is then that of all.
EndsWell(r, known) == RealOk(r) \/ (IsSlave(r) /\ MastersOf(r, known) # {})

ConnectionOk(g, known) == \E d \in Made(g) : EndsWell(RealComms(g)[d], known)

\* The line of an inverter that passes: a slave uses that of its master.
RealOf(g, known) ==
    LET r == RealComms(g)[CHOOSE d \in Made(g) : EndsWell(RealComms(g)[d], known)]
        other == known[CHOOSE i \in MastersOf(r, known) : TRUE] IN
    IF ~IsSlave(r) THEN r ELSE IF IsMaster(other.group) THEN other.line ELSE <<>>

CanAccept(line) ==
    \/ Comms(line) = "TCP/IP" /\ TcpServer(line)
    \/ Comms(line) = "RS2xx"

\* CanAccept follows a pointer that is not set, or an assertion says so.
AcceptAborts(g, known) ==
    \E d \in Made(g) :
        LET r == RealComms(g)[d] IN
        /\ Comms(r) = "SharedConnection"
        /\ \/ ~(IsMaster(r) \/ IsSlave(r))
           \/ IsMaster(r) /\ ~HasReal(r)
           \/ IsSlave(r) /\ MastersOf(r, known) = {}

-----------------------------------------------------------------------------
(* The inverters and the filters.  A check ends with "ok", "fail" or       *)
(* "abort", when an assertion ends the program.                            *)

Verdict(ok) == IF ok THEN "ok" ELSE "fail"

\* The class the factories make: `manufactor` is the old name of `manufacturer`.
Manufacturer(g) ==
    GetConfig(g, IF Has(g, "manufacturer") THEN "manufacturer" ELSE "manufactor", "string", "")
InverterClass(g) ==
    CASE Manufacturer(g) = "SPUTNIK_ENGINEERING" ->
            IF Is(g, "model", "S-Series") THEN "S-Series"
            ELSE IF Is(g, "model", "Simulator") THEN "Simulator" ELSE "none"
      [] Manufacturer(g) = "DUMMY_INVERTER" -> "Dummy"
      [] OTHER -> "none"

FilterClasses == {"DumpDumper", "CVSWriter", "HTMLWriter", "DBWriter"}

SputnikCheck(g, known) == Verdict(CheckCentral(SputnikTable, g) /\ ConnectionOk(g, known))

SimulatorCheck(g, known) ==
    LET c == Below(g, "ctrl_comms")
        Serves(x) == ConnectionOk(x, known) /\ CanAccept(RealOf(x, known)) IN
    IF AcceptAborts(g, known) THEN "abort"
    ELSE IF IsString(c, "comms") /\ ~Serves(c) THEN "fail"
    ELSE Verdict(/\ IsString(g, "comms") /\ CheckConfig(g, "queryinterval", "float", TRUE)
                 /\ CheckConfig(g, "commadr", "int", FALSE) /\ Serves(g))

InverterCheck(g, known) ==
    CASE InverterClass(g) = "S-Series" -> SputnikCheck(g, known)
      [] InverterClass(g) = "Simulator" -> SimulatorCheck(g, known)
      [] OTHER -> Verdict(ConnectionOk(g, known))

\* A check that leaves the data source to the constructor.
DumpCheck_WithoutBase(g, hasbase) == Verdict(CheckConfig(g, "clearscreen", "bool", TRUE))

\* hasbase: the data source is registered.
DumpCheck(g, hasbase) == Verdict(hasbase /\ CheckConfig(g, "clearscreen", "bool", TRUE))

CsvCheck(g, hasbase) ==
    Verdict(/\ CheckCentral(CsvTable, g) /\ hasbase
            /\ Is(g, "data2log", "all") \/ CheckConfig(g, "data2log", "array", FALSE))

HtmlCheck(g, hasbase) == Verdict(CheckCentral(HtmlTable, g) /\ hasbase)

DbStrings == {"db_host", "db_port", "db_unixsocket", "db_mode", "db_user", "db_password",
              "db_database", "db_cppdb_options"}

\* What a database backend requires and what it forbids.
Backends ==
    [mysql |-> [required |-> {"db_user", "db_password", "db_database"}, forbidden |-> {"db_mode"}],
     postgresql |-> [required |-> {"db_host", "db_user", "db_password", "db_database"},
                     forbidden |-> {"db_mode", "db_unixsocket"}],
     sqlite3 |-> [required |-> {"db_database"},
                  forbidden |-> {"db_host", "db_port", "db_user", "db_password", "db_unixsocket"}],
     custom |-> [required |-> {"db_cppdb_options"}, forbidden |-> DbStrings \ {"db_cppdb_options"}],
     _cfg_cache_odbc |-> [required |-> {"db_cppdb_options"},
                          forbidden |-> DbStrings \ {"db_cppdb_options"}]]

BackendOk(g) ==
    LET type == GetConfig(g, "db_type", "string", "")
        given == {s \in DbStrings : GetConfig(g, s, "string", "") # ""} IN
    /\ type \in DOMAIN Backends
    /\ Backends[type].required \subseteq given /\ Backends[type].forbidden \cap given = {}
    /\ type = "mysql" => /\ {"db_host", "db_unixsocket"} \cap given # {}
                         /\ ~({"db_port", "db_unixsocket"} \subseteq given)

\* An entry of a layout begins with a capability and a column, both not
\* empty; no column is written to twice.
LayoutOk(q) ==
    /\ q # <<>>
    /\ \A i \in DOMAIN q : /\ Len(q[i]) >= 2 /\ "" \notin {q[i][1], q[i][2]}
                           /\ \A j \in 1 .. i - 1 : q[j][2] # q[i][2]

ModeOk(job) ==
    GetConfig(job, "db_operation_mode", "string", "") \in {"continuous", "single", "cumulative"}

\* A table without a layout is complained about, and accepted.
JobOk(job) ==
    /\ IsString(job, "db_table") /\ CheckConfig(job, "db_create_table", "string", TRUE)
    /\ ModeOk(job) /\ CheckConfig(job, "db_logevery", "float", FALSE)
    /\ \A s \in {"db_logchangedonly", "db_allowsparse"} : CheckConfig(job, s, "bool", TRUE)
    /\ Has(job, "db_layout") => LayoutOk(Listed(job, "db_layout"))

\* The constructor of the helper asserts that the mode is one of the three.
JobAborts(job) == IsString(job, "db_table") /\ Has(job, "db_layout") /\ ~ModeOk(job)

DbCheck(g, hasbase) ==
    LET jobs == Listed(g, "db_jobs") IN
    IF ~(CheckCentral(DbTable, g) /\ BackendOk(g) /\ hasbase) THEN "fail"
    ELSE IF \E i \in DOMAIN jobs : JobAborts(jobs[i]) THEN "abort"
    ELSE Verdict(\A i \in DOMAIN jobs : JobOk(jobs[i]))

FilterCheck(g, hasbase) ==
    CASE g["type"].is = "DumpDumper" -> DumpCheck(g, hasbase)
      [] g["type"].is = "CVSWriter" -> CsvCheck(g, hasbase)
      [] g["type"].is = "HTMLWriter" -> HtmlCheck(g, hasbase)
      [] OTHER -> DbCheck(g, hasbase)
=============================================================================
