----------------------------- MODULE MCStartup -----------------------------
(* A good configuration with a master, its slave, a simulator and a chain  *)
(* of the four filters, and configurations that differ from it in one      *)
(* object.                                                                 *)
EXTENDS Startup, TLC

CONSTANTS t1, t2, a, b, none

Both == {t1, t2}
TwoTexts == {a, b}

Str(v) == Setting("string", v)
Num(v) == Setting("int", v)
Bool(v) == Setting("bool", v)
Group(g) == Setting("group", g)
List(q) == Setting("list", q)

Without(g, s) == [x \in DOMAIN g \ {s} |-> g[x]]
Client == "comms" :> Str("TCP/IP") @@ "tcpadr" :> Str("h") @@ "tcpport" :> Str("p")
Server == "comms" :> Str("TCP/IP") @@ "tcpmode" :> Str("server") @@ "tcpport" :> Num(1)
Serial == "comms" :> Str("RS2xx") @@ "serial_serialportname" :> Str("d")
          @@ "serial_baudrate" :> Num(9600)
Bits(n) == "serial_portparameters" :> Setting("string", [EightN1 EXCEPT !.bits = n])
Shared(t) == "comms" :> Str("SharedConnection") @@ "sharedconnection_type" :> Str(t)
SlaveOf(n) == Shared("slave") @@ "useconnection" :> Str(n)
Over(real) == Shared("master") @@ "realcomms" :> Group(real)

Named(n, model) ==
    "name" :> Str(n) @@ "model" :> Str(model) @@ "manufacturer" :> Str("SPUTNIK_ENGINEERING")
A == Named("A", "S-Series") @@ Shared("master") @@ "realcomms" :> Group(Client)
     @@ "dbglevel" :> Str("DEBUG")
B == Named("B", "S-Series") @@ SlaveOf("A") @@ "commadr" :> Num(3)
S == Named("S", "Simulator") @@ Server @@ "commadr" :> Num(1) @@ "ctrl_comms" :> Group(Server)
Dummy == "manufactor" :> Str("DUMMY_INVERTER") @@ Without(Named("D", "any"), "manufacturer") @@ Serial

Filter(n, type, from) == "name" :> Str(n) @@ "type" :> Str(type) @@ "datasource" :> Str(from)
Csv == Filter("csv", "CVSWriter", "A") @@ "logfile" :> Str("f") @@ "data2log" :> Str("all")
Html == Filter("html", "HTMLWriter", "csv") @@ "htmlfile" :> Str("f")
Job == "db_table" :> Str("t") @@ "db_operation_mode" :> Str("single")
       @@ "db_logevery" :> Num(60) @@ "db_layout" :> List(<< <<"PAC", "p">>, <<"KDY", "k">> >>)
Db == Filter("db", "DBWriter", "html") @@ "db_type" :> Str("sqlite3") @@ "db_database" :> Str("f")
      @@ "db_jobs" :> List(<<Job>>)
Dump == Filter("dump", "DumpDumper", "B") @@ "clearscreen" :> Bool(TRUE)
MySql == ("db_type" :> Str("mysql") @@ "db_host" :> Str("h") @@ "db_user" :> Str("u")
          @@ "db_password" :> Str("w")) @@ Db
WithJob(job) == ("db_jobs" :> List(<<job>>)) @@ Db

Good == [readable |-> TRUE, sections |-> required_sections, application |-> <<>>, xml |-> FALSE,
         inverters |-> <<A, B, S>>, loggers |-> <<Csv, Html, Db, Dump>>]
Inverters(q) == [Good EXCEPT !.inverters = q, !.loggers = <<Csv>>]
Loggers(q) == [Good EXCEPT !.inverters = <<A>>, !.loggers = q]

\* What main() reads itself, and the factories.
Refused ==
    << Inverters(<<Without(A, "manufacturer")>>), Inverters(<<Without(A, "name")>>),
       Inverters(<<("model" :> Num(1)) @@ A>>), Inverters(<<A, A>>),
       Inverters(<<("manufacturer" :> Str("other")) @@ A>>),
       Inverters(<<("model" :> Str("other")) @@ A>>),
       Loggers(<<Filter("A", "DumpDumper", "A")>>), Loggers(<<Filter("x", "other", "A")>>),
       Loggers(<<Without(Csv, "datasource")>>), Loggers(<<("type" :> Num(1)) @@ Csv>>) >>

\* What the connections and the inverters check.
Lines ==
    << Inverters(<<A, Dummy>>), Inverters(<<B, A>>), Inverters(<<A, SlaveOf("S") @@ B>>),
       Inverters(<<A, B, SlaveOf("B") @@ Named("E", "S-Series")>>),
       Inverters(<<("realcomms" :> Group(Without(Client, "tcpadr"))) @@ A>>),
       Inverters(<<Without(A, "realcomms")>>), Inverters(<<Shared("other") @@ A>>),
       Inverters(<<("commadr" :> Num(256)) @@ A>>), Inverters(<<("ownadr" :> Str("x")) @@ A>>),
       Inverters(<<A, ("comms" :> Str("none")) @@ B>>),
       Inverters(<<Bits(9) @@ Dummy>>), Inverters(<<A, Bits(7) @@ Dummy>>),
       Inverters(<<A, Client @@ ("tcpmode" :> Str("client")) @@ S>>),
       Inverters(<<A, SlaveOf("A") @@ S>>), Inverters(<<A, SlaveOf("X") @@ S>>),
       Inverters(<<A, Serial @@ S>>), Inverters(<<A, ("ctrl_comms" :> Group(Client)) @@ S>>) >>

\* Shared connections over shared connections.
Nested ==
    << Inverters(<<Over(Over(Client)) @@ A, B>>),
       Inverters(<<A, Over(SlaveOf("A")) @@ Named("E", "S-Series"),
                   SlaveOf("E") @@ Named("F", "S-Series")>>),
       Inverters(<<Over(SlaveOf("X")) @@ A>>), Inverters(<<A, Over(SlaveOf("B")) @@ B>>),
       Inverters(<<A, Over(Over(Server)) @@ S, SlaveOf("S") @@ B>>),
       Inverters(<<A, Over(SlaveOf("A")) @@ S>>), Inverters(<<A, Over(Shared("other")) @@ S>>),
       Inverters(<<Over(Over(Without(Client, "comms"))) @@ A>>) >>

\* What the filters check.
Checks ==
    << Loggers(<<("datasource" :> Str("X")) @@ Csv>>), Loggers(<<Html, Csv>>),
       Loggers(<<("data2log" :> Str("some")) @@ Csv>>), Loggers(<<Without(Csv, "logfile")>>),
       Loggers(<<Csv, ("writevery" :> Num(-1)) @@ Html>>),
       Loggers(<<("clearscreen" :> Num(1)) @@ Dump>>), Loggers(<<Filter("d", "DumpDumper", "X")>>),
       Loggers(<<Csv, Html, MySql>>), Loggers(<<Csv, Html, ("db_mode" :> Str("m")) @@ MySql>>),
       Loggers(<<Csv, Html, ("db_port" :> Str("p") @@ "db_unixsocket" :> Str("s")) @@ MySql>>),
       Loggers(<<Csv, Html, ("db_type" :> Str("odbc")) @@ Db>>),
       Loggers(<<Csv, Html, ("db_host" :> Str("h")) @@ Db>>),
       Loggers(<<Csv, Html, WithJob(("db_operation_mode" :> Str("other")) @@ Job)>>),
       Loggers(<<Csv, Html, WithJob(Without(Job, "db_layout"))>>),
       Loggers(<<Csv, Html, WithJob(Without(Job, "db_logevery"))>>),
       Loggers(<<Csv, Html, WithJob(("db_layout" :> List(<< <<"PAC", "p">>, <<"KDY", "p">> >>)) @@ Job)>>) >>

AllFiles ==
    << Good, [Good EXCEPT !.xml = TRUE], [Good EXCEPT !.readable = FALSE],
       [Good EXCEPT !.sections = required_sections \ {"logger.loggers"}],
       [Inverters(<<A>>) EXCEPT !.application = "dbglevel" :> Str("OFF"),
                                !.inverters[1]["dbglevel"] = Str("ALL")],
       [Good EXCEPT !.inverters = <<>>, !.loggers = <<>>] >>
    \o Refused \o Lines \o Nested \o Checks
=============================================================================
