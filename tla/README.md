# TLA+ models of solarpowerlog

solarpowerlog reads solar inverters over TCP or serial lines and passes the
values through a chain of data filters to files, web pages and databases. This
directory holds TLA+ models of it, from the start of the program over its concurrent
core to the filters, the TLC configurations that check them, and proofs for the TLA+
proof system. Paths are relative to
`src/src` of the repository, line numbers as `file:line`.

Contents: [inventory](#inventory), [modules](#modules), [runs](#runs),
[fairness](#fairness), [proofs](#proofs), [disagreements found](#disagreements-found),
[not modelled](#what-is-not-modelled), [plan](#plan), [how to run](#how-to-run).

## Inventory

Threads: the **main thread** executes every `ICommand`; one **timer thread**
belongs to `CTimedWork`; each TCP or serial connection has a **worker thread**;
a **terminator thread** exists if SIGTERM met a locked mutex. The **SIGTERM
handler** runs on top of the main thread. All threads talk to the main thread in
one way only: `CWorkScheduler::ScheduleWork(ICommand*)`.

| component | state | operations | talks to | hard about it | correct when |
|---|---|---|---|---|---|
| `CWorkScheduler` | list, mutex, semaphore, broadcast subscribers | `ScheduleWork` (blocking, try-only, timed), `DoWork(block)`, `RegisterBroadcasts` | called by everybody; calls `ExecuteCommand` of the targets | list and semaphore change in two steps; the signal handler interrupts the mutex holder | every accepted command is executed once by each of its recipients, oldest first, then deleted; non-blocking calls return |
| `CTimedWork` | multimap date to command, thread, terminate flag | `ScheduleWork(cmd, ts)`, the thread, the destructor | hands over to the scheduler | sleep against insertion, interrupts disabled for a part of the loop, wall-clock dates | each command is handed over once, when due; the destructor ends the thread |
| main loop, signals, `Registry` | `killsignal`, terminator thread, the objects | `main`, `SignalHandler`, `Registry::Shutdown` | all of them | a signal at any instruction; order of the deletions | SIGTERM ends the program, everybody has been told to shut down before, nothing is used after its deletion |
| asio connections (`CConnectTCPAsio`, `CConnectSerialAsio`) | command list, semaphore, `io_service` with timer and I/O handlers, `_connected` | `Connect`, `Disconnect`, `Send`, `Receive`, `Accept`, `AbortAll`, destructor | complete a command by scheduling its callback | abort, timeout and answer race; handlers point into the worker's stack | one operation, one answer; an abort ends what it finds; the destructor returns |
| shared connection (`CSharedConnectionMaster`, `-Slave`) | tickets, pending reads with time stamps, atomic block owner | as above, for several inverters on one line | a real connection below, inverters above | atomic blocks, expiring reads, out-of-order completion | tickets are served in order, every read is answered or times out |
| Sputnik inverter | `nextcommand` state, query list with back-off strategies, pending answers | the states of `ExecuteCommand` | connection below, filters above | late answers, disconnect and shutdown in the middle | always comes back to the next query or reconnect; what is read is what was asked |
| Sputnik simulator | two such state machines, what the control server was told | `ExecuteCommand` | two connections | a handler that starts two operations; the two machines share flags | both conversations go on after every failure; an answer goes to the client that asked |
| capabilities and observers | one map per object, a list of observers per capability | `GetConcreteCapability`, iterators, `Subscribe`, `Notify` | inverters notify filters, filters look through to their source | maps that override each other along a chain; capabilities that appear late | the iterator visits what the look-up finds; news reach every filter |
| CSV, dump and HTML filters | `datavalid`, `capsupdated`, columns, open file, deferred-update flag | `Update`, `ExecuteCommand` | their data source, the scheduler | updates against cyclic work, file rotation, news passed on late | rows belong to their header; nothing is written from invalid data; every capability is logged in the end |
| database writer | session; per job: copies of the values, create mode, kept statement, `_lastlogged` | `Update`, `ExecuteQuery`, cyclic work | the inverter, cppdb | exceptions between two statements; state kept from cycle to cycle | complete rows, no row of its own wiped, a value that stays gets into the table |
| logger | level, level of the next message, last text and count per place | `IsEnabled`, `operator<<`, `Log_sa` | log4cxx | shared by threads without a lock for the level; suppression by count, time and change | nothing enabled is dropped; a change is never suppressed |
| configuration, factories, start-up | the settings, the registry | `GetConfig`, `CheckConfig`, `main` | everything is built from it | an object refers to others that must exist already; checks after the constructor | what the checks let through starts |
| dummies, tools | | | | no state, or separate programs | |

The hazards, each at its line and with the properties that watch it, are in
`PROJECT.json`.

## Modules

| module | models | abstraction of |
|---|---|---|
| `WorkQueue` | what the scheduler promises: a queue with one consumer | |
| `WorkScheduler` | `interfaces/CWorkScheduler.cpp`, statement by statement as far as threads can tell | `WorkQueue` (`ImplementsWorkQueue`) |
| `DelayQueue` | what timed work promises | |
| `TimedWork` | `interfaces/CTimedWork.cpp` | `DelayQueue` (`ImplementsDelayQueue`) |
| `MainLoop` | `solarpowerlog.cpp`, `daemon.cpp`, `Registry::Shutdown`, composed with `WorkScheduler` and with the interfaces of timed work and of a connection | |
| `AsioWorker` | what the two asio connections share: list, semaphore, worker loop, abort, destructor | |
| `IoService` | the `io_service` of both connections: handlers, timers, `run_one()` and `poll()`, on top of `AsioWorker` | |
| `ConnectTCPAsio` | `Connections/CConnectTCPAsio.cpp` on top of `IoService` | `AsioWorker!BaseSpec` (theorem `ImplementsAsioWorker`) |
| `ConnectSerialAsio` | `Connections/CConnectSerialAsio.cpp` on top of `IoService` | `AsioWorker!BaseSpec` (theorem `ImplementsAsioWorker`) |
| `SharedConnection` | `Connections/sharedconnection/`, operations in and outside of atomic blocks, over a connection that answers in turn | |
| `SharedReads` | the same directory, reads outside of atomic blocks | |
| `SputnikBackoff` | the queries of `SputnikCommand/` and their back-off strategies | |
| `SputnikInverter` | `CInverterSputnikSSeries::ExecuteCommand`, over a connection that answers each operation once | |
| `Simulator` | `CInverterSputnikSSeriesSimulator::ExecuteCommand`, over two such connections | |
| `Capabilities` | `Inverters/interfaces/`, `patterns/IObserverSubject.cpp`: maps, look-up, iterators, observers | |
| `DataFilters` | the CSV, HTML and dump filters in a chain, on top of `Capabilities` | |
| `DbWriter` | `DataFilters/DBWriter/`: one job, its session and its helper | |
| `Settings` | `configuration/CConfigHelper`, `configuration/ConfigCentral/` and each `CheckConfig`, as operators | |
| `Logger` | `configuration/ILogger`: levels and suppression | |
| `Startup` | `main` from the configuration file to the first commands, composed with `Settings` and `Logger` | |
| `Main_proofs` | theorems and proofs about `WorkScheduler`, `MainLoop`, `Logger` and `Startup` | |
| `Shared_proofs` | the same for `SharedConnection` and `SharedReads` | |
| `Sputnik_proofs` | the same for `SputnikInverter` and `Simulator` | |
| `TimedWorkAndFilters_proofs` | the same for `TimedWork`, and for `Capabilities` and `DataFilters` | |
| the other `*_proofs` | the same for the module of that name | |
| `MC*` | constants for TLC | |

How state and actions correspond to the code:

* **WorkScheduler.** `CommandsDue`, `mut`, `semaphore` and
  `broadcast_subscribers` are the members. A *context* is a thread or the signal
  handler; `spc[x]`, `scmd[x]` are its place in `ScheduleWork` and its argument,
  `mpc`, `mcmd`, `todo` those of the main thread in `DoWork`. A step ends where
  another context can see a difference: lock, push and unlock, post; check, wait,
  lock, pop; one step per executed recipient. `Runs(x)` says that the main thread
  stands still while the handler is on its stack. The handler calls
  `ScheduleWork(cmd, true)` and nothing else. `ImplementsWorkQueue` maps the list
  to the queue, so the push is the moment of acceptance.
* **TimedWork.** One caller step for reading the clock, one for everything
  between lock and unlock, one for the interrupt. The thread's loop is `Top`,
  `ScanDue` or `ScanWait`, `Deliver`, `EnterSleep` and the two ways to wake.
  `interrupted` is boost's interruption request, seen only at the interruption
  point. Time is a counter; `offset` is the difference between the local clock and
  elapsed time and can change while `Offsets` has more than one value. `Tick`
  waits for the thread when it has work it can do now: the scheduling latency
  counts as zero, so that what `OnTimeBySteadyClock` measures is the sleeping.
* **MainLoop.** `lpc` is the place in `main()`. Timed work is the set `timed`
  from which the timer thread may hand over anything (that is what `DelayQueue`
  allows when nothing is said about time); the connection is a thread that owes a
  completion per operation. `TerminatorCrashes` is the wild pointer read by the
  terminator thread (`daemon.cpp:207`).
* **AsioWorker, IoService, ConnectTCPAsio, ConnectSerialAsio.** `cmds`, `cmdsemaphore`,
  `term_request` and `stopped` (of the `io_service`) are the members; `wpc` is the
  place of the worker in `_main` or in a handler function, `local` its stack
  variables. `handlers` are the completion handlers the `io_service` still knows, each
  with the command that started it. Running a handler of an operation that is over
  writes through a pointer into a dead stack frame; whether that hits a variable of
  the present operation is left open. Bytes are abstracted to the outcome of a
  read or write. `async_write` is composed: one run handler may be an intermediate one
  (outcome `more`), after which the write goes on in the service (`GoingOn`); `in_parts`
  remembers that. `Throw` is an exception that leaves the worker thread and ends the process. The serial `Receive` has two phases: the first byte, bounded by
  the time-out of the operation, and the rest until a pause of the inter-byte
  time-out.
* **SharedConnection.** `commands` are the `ICommand` objects in use with the tokens they
  carry; `current_ticket` belongs to the slaves, `active_ticket`, `last_atomic_cmd`,
  `non_atomic` and `atomic` to the master. An entry of `connection` or `scheduler` says
  who is called back: the caller, or the master for the end of a block. `line` is a
  history of the tickets in the order in which the real connection got them, with
  repetitions merged. `AbortAll` answers what is queued in the connection and leaves it
  there to be answered again, as the connections do; `doubled` remembers that it did. All calls come from the main thread, which also executes the
  answers, so a call is one step.
* **SputnikInverter.** `queue`, `timed` and `ops` say where the object's next command is:
  in the main queue, with timed work, or with the connection. A telegram is the set
  of tokens it answers; `Fits` is the room `assemblequerystring` computes. The answer
  of an operation may be an error at any time, so `AbortAll` needs no step; that a
  command may be answered twice after an abort (`AbortAll`, see below) is left out of this
  interface. `block` is the atomic block as another inverter on a shared line sees it.
* **SharedReads.** A slave's `pending_reads` are the due times of its reads (one at a time,
  as the simulator has), `reads` counts the operations at the real connection, and
  `queue` is the main scheduler with what the master and the slaves send each other.
  `TimerExpires` puts a `CMD_HANDLETIMEOUTS` there; `SlaveHandleTimeouts` erases the
  read without an answer, as the code does. The master's slices of a second are one
  read each.
* **Simulator.** `commands` holds those of the object in the main queue, `later` the control
  server's retry with timed work, `pending` the operations at each connection. `session`
  numbers the clients, and a telegram remembers who sent it, which is how `misdirected` can
  be told. `forks` counts the steps that make two conversations of one: a telegram that
  arrives while `disconnect` is in force, the `connect` that wakes the simulator up, and an
  error that comes with data, after which `CMD_SIM_INIT` is scheduled twice (`CutOff` is such
  an answer, `Restarts` what it leads to). `CutOff` is possible while there is one conversation.
* **Capabilities, DataFilters.** A chain is a function from a filter to its data source;
  `owned` is each `CapabilityMap`, `Concrete` the look-up. A notification runs all observers
  at once, as `Notify` does, so `NewCapability`, `NewValue` and `NewDataState` change every
  filter in one step; `CmdInit`, `Cyclic`, `CmdAddedCapas` and `CmdRotate` are the commands.
  `columns` is `CSVCapas`, `file` names the open file by its day, `written` keeps the last
  header and row of it, `page` the column an HTML page shows.
* **DbWriter.** `copy` is the `Value` of each `Cdbinfo`, `create`, `cache`, `lastlogged` the members.
  `ExecuteQuery` is one step with the outcome of each access to the database chosen;
  an exception leaves what had been assigned before it. `rows` is the table, with one
  row per value of the selectors; an UPDATE merges its columns into the row. `ClockSetBack`
  sets the local time of the stamps back, once.
* **Settings, Startup.** A setting is a typed value, a group a function. Every
  `CheckConfig` is an operator that says `ok`, `fail` or `abort`, from the look-ups the code
  makes; `Startup` takes a file and builds the registry object by object, with the
  `CMD_INIT` each constructor puts into the queue, and then executes these. A registered
  inverter carries its `line`, the group of the TCP or serial connection at the end of its
  connection: a master's real connection may be shared again (`RealComms`, to the depth
  `MaxNesting`), and a slave takes the line of the master it finds.
* **Logger.** `IsEnabled` leaves `currentlevel` behind and `operator<<` takes it: two steps,
  between which other threads log. `Log_sa` keeps `sa_info` per place.

## Runs

| run | instance | shows |
|---|---|---|
| `work_scheduler` | one thread, the handler and the main thread; a broadcast, the boundary codes of the broadcasts, `CMD_INVALID` with a target, a user command; two targets | mutual exclusion, and `front()` is never called on an empty list (`SchedulerInv`); semaphore and list differ by exactly the posts and the pop under way; one owner per command; the handler's and `DoWork(false)`'s calls return; refinement of `WorkQueue` |
| `timed_work` | two callers, three commands, delays of one and two ticks, an "hour" of three, a clock that may be set back by one | no lost wakeup, nothing early, one owner per command (`TimedInv`); nothing late while the clock is steady; the destructor returns; refinement of `DelayQueue` |
| `main_loop` | the shutdown event and two commands, two targets, timer, connection and terminator threads | the shutdown broadcast reaches every subscriber before the objects are deleted, no use after deletion (`MainInv`); SIGTERM ends the program |
| `tcp_connection` | a command of each kind, three of them pushed, one abort, two rounds of the receive loop, resolvers with none and with two endpoints | the worker never sleeps on a filled list; an abort is seen by the operation it hits; an operation that was neither aborted nor wrote in parts leaves no handler behind (`TcpInv`); every command is answered without help of the peer (accept excepted) and the destructor returns, or an exception ends the process (`NothingHangs`) |
| `serial_connection` | the same for the serial port | success of `Connect` means that the port is open with its options set; an operation leaves no handler behind, as above (`SerialInv`); every command is answered unless the other end never pauses, and the destructor returns even then |
| `shared_connection` | two inverters, three commands in use at once, three blocks; operations that go to the line and a `Noop`; aborts at any time | the operations of a block stay together on the line and blocks come in ticket order; no operation is lost or answered twice, the assertions of the end of a block hold (`SharedInv`); everybody is answered; all of this until an abort finds commands queued in the connection |
| `shared_reads` | two slaves with a short and a long time-out, two units of time, at most two commands in the queue when a caller acts | a read is answered at most once; the master has one read under way exactly while it reads for somebody, and as long as a subscribed slave waits; nobody is subscribed twice (`SharedReadsInv`) |
| `sputnik_inverter` | a query of each strategy, one of them with two tokens; telegrams with room for some of them; two retries, three units of time | the object always waits for exactly one thing; nothing is left over from a lost connection or the last poll; each query that was asked is settled (`SputnikInv`); what a telegram has no room for stays pending (`NoQueryDropped`); a requested block ceases; the object always comes back to a poll or a new connection |
| `simulator` | two clients one after the other, a known and an unknown token, one `disconnect`, errors with and without data, with a control server and without | each of the two machines is at exactly one place until a `disconnect` or an error with data, and no answer reaches another client unless one conversation has become three (`SimulatorInv`); the simulator waits for a client or a telegram again and again, unless it has become two conversations |
| `data_filters` | four stacks of two filters, two ordinary capabilities, two days | the iterator visits what the look-up finds, a row has the columns of the header above it, the rotation is due while an old file is open, news are under way until a filter has them (`FilterInv`); the column a page names is the right one; nothing is written from invalid data; every capability gets into the header |
| `database_writer` | six jobs: each mode and each way to create the table; a value that is never notified; two failures at any statement; the clock set back once | the copies are what the inverter says (`DbInv`); rows are complete; the writer wipes nothing it has written; a value that stays is logged, by continuous jobs without sparse rows |
| `startup` | 57 configuration files, then two threads, two texts | names are unique, a filter's source comes before it, a line ends at a checked connection that suits its inverter, settings are in their ranges (`StartupInv`); nothing enabled is dropped and no change suppressed (`LogInv`); the first commands hit no assertion (`InitFindsItsSource`) |

The composed invariants (`...Inv`) are conjunctions of named parts, each with its own
comment; TLC and the proofs name the part.

Why the bounds are enough. The scheduler's queue has no capacity, so two
commands in it already give every relation between list, semaphore and pops; the
instance has four, with one of each kind that `ScheduleWork` and `DoWork` tell apart. In
`TimedWork` three entries give a head, one in front of it and one behind it, and
two callers race for the insertion; `Horizon` exceeds the latest date by the
clock's offset. `MaxCalls = 3` lets one command be in progress, one queued and
one be pushed, which is all AbortAll distinguishes; a second abort does not add
a kind of state but a multiple of the states. `MaxSleep` replaces the constant
of `HandleReceive` by 2 because the rounds are all alike. Three commands and two slaves of
`SharedConnection` give an active block with a whole block and an operation behind
it, and three tickets two blocks that wait; the other operations of `IConnect` differ from
`Send` in nothing the master looks at. In `SharedReads` a second slave is enough to be
served or forgotten with the first, and a second time unit to outlive it; the slaves
are interchangeable, hence the symmetry (the run has no liveness property). The Sputnik
table has one query for each strategy, which is all `SputnikInverter` knows about a query
besides its length. Two clients of the simulator are one that may have left and one that
has come in its place. (With three, and three conversations, an answer can go to a client that
came later, see below; `AnswersItsClient` is proved for any number of clients.) A filter knows its data source
and what that looks up, so chains of two show every relation between neighbours, and
both orders of a dump and a CSV filter; two days are one midnight, which is all a
rotation needs to be due while a file is open. Two failures of the database hit two
cycles or two places of one. The 57 files differ from a good one in one setting or
one object, a file for each kind of check, and some nest shared connections.
`MaxNesting = 2` lets a master stand over a master over a real connection or a slave. `CHECK_DEADLOCK FALSE` in all configurations:
the program may end, and the inputs of the models are finite.

## Fairness

* `WorkScheduler!FairSpec`: a thread that is inside a function goes on. Strong
  fairness where the main thread or the mutex is shared: the operating system
  gives a mutex to a waiter in the end, and signals leave the main thread time.
  Nothing says that anybody calls `ScheduleWork`.
* `TimedWork!FairSpec`: callers and the thread go on, the destructor goes on once
  it is called, time passes.
* `MainLoop!MSpec`: as the scheduler; not assumed: that SIGTERM comes, that a
  timer expires or that a peer answers.
* `ConnectTCPAsio!FairSpec`: the main thread finishes its call, the worker goes on,
  timers expire. Nothing is assumed of the peer: `AcceptEnds` and `IoCompletes` have
  no fairness. `ConnectSerialAsio!FairSpec` is the same; opening a port does not wait.
* `SharedConnection!FairSpec`: the main loop executes, the connection answers
  (`NothingHangs` of the transports), and an inverter that has begun a block
  ends it (`BlockCeased` of the inverter).
* `SputnikInverter!FairSpec`: the main loop executes, timed work hands over, the
  connection answers. Nothing is assumed of what it answers.
* `Simulator!FairSimulator`: the main loop executes, the timer of the control server expires,
  and an operation that does not wait for a peer (`Send`, `Disconnect`) ends. Not
  assumed: that a client connects or sends.
* `DataFilters!FiltersFairSpec`: the main loop executes each filter's commands and the timers of
  its cyclic work and its rotation expire. Not assumed: that the inverter does anything.
* `DbWriter!FairSpec`: the timer of the cyclic work expires and the main loop executes it.
  Not assumed: that the database works; `MaxFailures` only bounds how often it does not.
* `SharedReads` and `Startup` have safety properties only.

## Proofs

For all values of the constants under the named assumptions (`ASSUME` of each
module, evaluated by TLC in every run). Each inductive invariant is a conjunction of named
parts about the component, and the proof of its step has one case per action.

* **WorkScheduler** (`CommandAssumption`, `ContextAssumption`: codes are naturals, NULL is
  no command). `IInv` adds `Frames` (what each call frame holds, and that queue,
  frames and deleted commands are disjoint) and `Addressed` to the checked
  invariants. `SemaphoreCountsQueue` alone is not inductive: a pop needs that the
  popper has waited, and the count of posting contexts changes by exactly one only
  if a context posts a command of its own. From `IInv` follow `SchedulerSound` (all of
  `SchedulerInv`, by way of `TypeCorrect`, `MutexHolds`, `FrontAlwaysExists`),
  `SemaphoreExact` and `Ownership`. `QueueImplemented` is the safety part of
  `ImplementsWorkQueue`: the push under the lock is the step that accepts a command, the
  pop the one that takes it, and every other step stutters.
* **MainLoop** (`ProcessAssumption`), in `Main_proofs`. `UsesScheduler`: each step
  of the program is a step of the scheduler or leaves it alone, so the theorems above hold
  in the composition. `MIInv` adds to the types `Phases` (what has happened at each place of
  `main()`), `ShutdownOnItsWay` (from the signal on the handler, the terminator thread or the
  scheduler has the event, and nobody before) and `ShutdownTold` (it has reached or is to reach
  each subscriber); `MainSound` is all of `MainInv`.
* **TimedWork** (`TimeAssumption`, `CommandAssumption`: `"none"` is no command). `IInv` adds
  `Frames` (the entries of callers and thread) and `Steady` (while nobody sets the clock, due
  and wanted dates agree and the sleep ends when it was meant to). From it `TimedWorkSound`
  (all of `TimedInv`, by way of `TypeCorrect`, `WakeupsArrive`, `DeliveredNotBefore` and
  `Ownership`, for which `OneOwner` is inductive given `IInv`), `DeliveredOnTime`, and `DelayQueueImplemented`, the safety part of
  `ImplementsDelayQueue`.
* **AsioWorker** (`NullAssumption`, `BoundAssumption`). `Inv` adds `HoldsCommand` (the
  worker has a command exactly inside a handler). It is proved once for any
  transport that moves the worker with the steps of `BaseNext`. The module also holds the
  lemmas on `IoService` that both transports cite: what `run_one()` and `poll()` do to
  the handlers of the present operation and to those of the others.
* **ConnectTCPAsio** (`ResolutionAssumption`, `OpAssumption`). Each step is a `BaseNext` step
  or leaves the worker alone, so `Spec => BaseSpec` and the invariants of the worker follow.
  `TcpSound` (all of `TcpInv`) needs `TcpIInv`: `Frames` and `FrameHandlers` say which handlers
  the service may know at each place of the worker (`HandlersAt`), as long as it is
  `Undisturbed`: no abort, no destructor and no message in parts; and `RoundsLeft` bounds the rounds of the receive loop.
* **ConnectSerialAsio**. The same refinement; `SerialSound` from `SerialIInv`, whose
  `HandlersAt` knows the two phases of `Receive`; and `TruthfulConnect` from `TruthInv`,
  which adds `Told`: bytes are received only within a `Receive`, and the destructor closes
  the port only after it has asked the thread to end.
* **SharedConnection** (`SharingAssumption`: finitely many slaves and commands). `SharedSound`
  is all of `SharedInv`, `BlocksKeepTurn` is `BlocksInTurn`. The release of a backlog (`Issue`)
  is a recursive function over its entries; the lemmas say what it leaves of the places of a
  command (`OnePlace`) and of the line. `BlocksInTurn` is not inductive, for the backlog of
  a block goes to the line long after it was built. `SharedIInv` adds `BlocksBegun` (whoever
  is in a block has a ticket of its own that it has not ceased, and which has the line or waits)
  and `BlocksToCome` (the tickets on the line are in order and come before all that wait). All
  of this holds until an abort finds commands in the connection (`doubled`): a second answer to
  the end of a block can then announce the end of another one. From then on the invariant
  keeps the types and `TicketsIssued`.
* **SputnikInverter** (`TelegramAssumption`, `QueryAssumption`). `IInv` has four parts. `Chain`:
  the three containers hold exactly one entry together, or none after a shutdown. `BlockHeld`
  is stronger than `BlockCeased`, because the receive that ceases the block ends it only with
  its answer: it says at which entries a block may be open. `FreshStart` and
  `QueriesSettled` are inductive given `Chain`. `SputnikSound` adds the types of everything
  the object keeps, and `NothingDropped` the action property `NoQueryDropped`: what a
  telegram has no room for stays pending. Which queries a telegram takes is a
  recursive function; that it takes only pending ones is shown by induction, what `Fits`
  decides is left open.
* **Capabilities, DataFilters** (`CapabilitiesAssumption`, `FiltersAssumption`: the source of a
  filter is the inverter or a filter registered before it, as `Startup` shows it is). The proofs
  are about any number of filters in chains of any depth. Three families of lemmas carry them:
  a function that recurs along a sequence or a chain exists and unfolds (`Recursion`,
  `RankRecursion`); a look-up finds an own capability or the source's (`LookUp`), and an
  iterator visits every name that a look-up of its top finds (`IterationFacts`); a
  notification reaches each filter below its source that no dump filter in between defers,
  once (`ToldOnce`, `HeardOnce`). `NewsOnTheWay` needs to know who observes whom and which commands are
  queued for a filter that has deferred news: `FiltersIInv` adds to it `ConfigOk`,
  `ObserversOk` (who has executed its first command observes its source), `QueueOk` (a filter has
  deferred news exactly while its command is queued), `ValidOk` (data is valid for a filter only
  while it is for the inverter), `FilesOk` (columns, header, row and rotation of a file agree)
  and `PagesOk` (a page names a column of the nearest CSV file). A step that runs all observers is shown to
  hand on what it takes: whoever loses the mark of pending news has the columns, or the
  next one in the chain has the mark. `NewsReachTheFilters` is all of `FilterInv`,
  `WritesOnlyValidData` the action property. `PagesNameTheColumn` is `ColumnNumberRight`
  for a searched text that no other name contains (`Containing = {Searched}`, as in the run):
  without that the code picks the wrong column, see below.
* **DbWriter** (`DbAssumption`). The clock may be set back, so that `_lastlogged` may be ahead of it. `DbIInv` adds to `DbInv` where copies come from
  (`CopiesObserved`), which columns the statement kept was made for (`KeptStatement`), and that
  no row has been written as long as the table is to be wiped (`OnlyOldRows`). From it `DbSound` (`DbInv`)
  and the action properties `RowsComplete` and `OnlyOldRowsWiped`.
* **SharedReads** (`ReadsAssumption`: finitely many slaves, positive time-outs). `SharedReadsInv`
  needs no strengthening: that a slave is subscribed once, that it has one read or answer
  at most, that one read is under way and that the waiting are listened for carry each other through
  every call, answer and time-out.
  `ReadsAreShared` rests on lemmas about `Count`, the number of commands of a kind in a queue:
  what appending, taking the first and handing the same thing to every subscriber do to it.
* **Logger** (`LoggerAssumption`), composed with the start. `LoggerIInv` speaks of each thread's
  place: what it has said is printed or is in its hands (`SaidOrSaying`), and the table knows what
  was printed last and not before it was (`TableIsPrinted`). `LogInv` follows; `RepeatedInTime` alone
  is not inductive, for between `Log_sa` and the writing the table is ahead of the log.
* **Startup** (`FilesAssumption`: the objects of a file are a list). `ObjectsIInv` adds to
  `StartupInv` how many objects there are in each phase (`PhaseOk`), that inverters come before
  filters and that each is what its check has let through (`RegisteredOk`), and that the commands
  in the queue are those of the objects not yet initialised, in the order of the registry
  (`InOrder`), from which a source initialises itself before its filters. `CheckedLine` is the
  lemma about connections: one that passes its check ends in a checked real one, at any depth,
  if those of the masters registered before it do. `StartsSoundly` is
  `StartupInv`, `LogsWhatIsSaid` is `LogInv`, and `AssertionHolds` the action property.
* **Simulator** (`SimulatorAssumption`: finite sets of tokens). `SimulatorGoesOn` is not inductive: a conversation
  may be a command in the queue, an operation or, for the control server, a timer, and which
  handler answers decides whether there is one afterwards. `SimulatorIInv` counts all of
  these (`ConversationsCounted`: at most one more than `forks`), says that the flag
  `_isconnected` is right before the first `disconnect` and the first error with data (`Undisturbed`), and for
  two conversations that a telegram or an answer belongs to the client that is connected,
  or that the other conversation has disconnected it and can do nothing until the answer is out
  (`TelegramsRight`, `AnswersRight`). `ConversationsGoOn` is all of `SimulatorInv`.

Induction over data. The library's induction theorems take an operator and cannot be
instantiated; for a recursive function on a set of naturals the proofs use that every non-empty
set of naturals has a least element (`WFMin`), and state the induction hypothesis as a set. The
modules with theorems have no `RECURSIVE` operators.

Only model-checked:

* liveness (all the `~>`, `[]<>` and `<>[]` properties) and with it the fairness
  of the refinements: `ENABLED` is out of the prover's reach.

Every safety invariant and every action property of the runs is stated by a theorem.

## Disagreements found

Where the code does not do what its documentation, its comments or its own other half
says. The models follow the code, and the properties are stated for what holds.

Threads and connections:

* `AbortAll` (`CConnectTCPAsio.cpp:733`, the same in `CConnectSerialAsio.cpp:674`) answers
  the queued commands but leaves them in the list; the worker performs and answers
  them again, with callbacks that the main thread deletes after the first answer.
  `IConnect.h:233` promises to "clear all other (queued) commands".
  Through a shared connection a command answered twice may be the end of a block: the
  master announces it again, which meets `assert(last_atomic_cmd)`
  (`CSharedConnectionMaster.cpp:97`) or ends the block of another inverter.
* A message that `async_write` sends in parts runs an intermediate handler first.
  `HandleSend` awaits one handler, finds too few bytes and answers `EIO` without cancelling the
  write (`CConnectTCPAsio.cpp:714-720`, `CConnectSerialAsio.cpp:791-797`): its handler is left
  with pointers into a stack frame that is gone. TLC reaches this; the invariants say
  `~in_parts`.
* `available()` is called in the form that throws (`CConnectTCPAsio.cpp:587`, `606`), as is
  `address::from_string` on the setting `tcpadr` (780): nobody catches that on the worker thread.
* With no endpoint resolved `Connect` reports success (`CConnectTCPAsio.cpp:356-413`).
* `boost::ref(cmd)` refers to a local variable of the signal handler (`daemon.cpp:207`); the
  terminator thread reads it later (`TerminatorCrashes`).
* Delays are computed on the local wall clock (`CTimedWork.cpp:105`, `189`): a clock set
  back delays what was scheduled before. `OnTimeBySteadyClock` and `NeverEarly` therefore speak
  of the runs in which nobody has set it; that a clock left alone again serves later work
  on time is not stated.
* An `AbortAll` during the rest of a serial message ends it like the pause does, and the
  cut message is answered with success (`CConnectSerialAsio.cpp:631`).
* The time-out scan of the slaves looks the time stamp up in the command being executed,
  not in the pending read (`CSharedConnectionSlave.cpp:267`): any timer erases the
  pending read without an answer.
* `CSharedConnectionMaster::AbortAll` neither answers its own slave's pending reads nor the
  operations waiting for a ticket; the completion of the read it cancels and a new
  `Receive` can start two reads, which is why `OneReader` and `Listened` end with it.

Inverter and simulator:

* The comparison in `CSputnikCmdBOTimed.cpp:41` is inverted: a query limited to once per
  interval is asked in each poll of the interval.
* `_cfg_disable_3phase` set to true *adds* the three-phase queries in
  `CInverterSputnikSSeries.cpp`, although the option is documented as disabling them. The
  table of queries is a constant here.
* After `disconnect` the simulator starts a `Disconnect` and an answer or a `Receive`, and
  both lead to an `Accept` (`CInverterSputnikSSeriesSimulator.cpp:598-617`, against the
  comment at 600 "do not send the answer"). From then on two conversations share the
  connection. A `connect` that comes before the `Disconnect` is answered adds a third
  (line 771), and so can a second `disconnect`; then an answer may go to another client
  than the one that asked. Up to two, `AnswersItsClient` is proved.
* An error that comes with data already received (`CConnectTCPAsio.cpp:624-628`) schedules
  `CMD_SIM_INIT` twice (`CInverterSputnikSSeriesSimulator.cpp:550-553` and `572-574`). The two
  conversations can end each other: one finds the client connected and sets `_isconnected`
  while the `Disconnect` of the other is on its way, and from then on `CMD_SIM_INIT` neither
  disconnects nor accepts. `SimulatorGoesOn` and `ListensAgain` hold while there was none.
* The shutdown of a simulator without a control server follows a null pointer (line 806).

Filters:

* Without `rotate` the name of a CSV file is never set, and the file never opened
  (`CCSVOutputFilter.cpp:343`, `365-399`).
* With an explicit `data2log` list the second look for new capabilities adds all of them
  (`CCSVOutputFilter.cpp:546-575`).
* The loop that doubles quotes in a text finds the quote it has just written
  (`CCSVOutputFilter.cpp:508`), and the main thread stays in it. No handler is ever executed
  again, so there is nothing to say about what follows; the values of the model have no quotes.
* The column an HTML page asks for is found as a part of a text, so a longer name in front
  of it is taken for it (`CFormatterSearchCSVEntry.cpp:53`); the instance has no such pair.
* `CAPAS_REMOVEALL` is subscribed to and never notified.

Database writer:

* What the inverter publishes in its constructor is subscribed to but never notified, so
  a job that wants such a constant never has all its values (`CDBWriterHelper.cpp:219`).
* With sparse rows a statement for some of the columns stays in `_insert_cache` and fails
  when all of them are available (line 607).
* `_lastlogged` is set after an UPDATE that changed no row, though the INSERT that follows
  may fail (726).
* Changes are told from the stamps of the local clock (`CDBWriterHelper.cpp:395`, `441`): after
  it was set back, also by the end of the summer time, a job that logs only changes takes new
  values for old ones until the clock has caught up. `ValueLogged` speaks of such a job only
  while the clock was not set back.
* The type of a column is unknown only for a capability of a type no inverter
  publishes (517-525); the model has no such capability.
* The UPDATE lacks a comma where a column is missing (757), and after the shutdown a cyclic
  command that is still on its way opens the session again (`CDBWriterFilter.cpp:612`).

Start and log:

* A logger with a level of its own in the XML file keeps the root's level in
  `currentloggerlevel_` (`ILogger.cpp:113-136`), although the XML file is documented to come
  first.
* The notes on why a suppressed message is printed again appear only for a changed one
  (`ILogger.cpp:226-232`).
* Two threads that log at once may exchange the levels of their messages (`ILogger.h:418`);
  no message is dropped by that (`NothingEnabledIsDropped`).
* A name or a type that is no string ends in an exception nobody catches (`abort` in
  `Startup`), as does an invalid `db_operation_mode` in an assertion.
* `db_type = "odbc"` is documented and compared with `"_cfg_cache_odbc"`
  (`CDBWriterFilter.cpp:287`); a job without `db_layout` passes the check.
* A `serial_portparameters` of another length than three is complained about and accepted,
  and the test of its first character is always true.

## What is not modelled

Contents of messages and numbers, the texts of log messages, HTML pages and SQL, the
command line, `daemonize()`, the rotation of the log on SIGUSR1. Locks inside libc and
log4cxx (the signal handler is not async-signal-safe, which no model of this code alone
can show). The template engine in `ctemplate/` and the statement layer (cppdb) are
vendored or external; their effect on the caller is modelled where it matters. The PHP
front end and the build automation in `tools/` are separate programs.

## Plan

1. *(done)* `WorkScheduler`, `TimedWork`, `MainLoop`, `AsioWorker`, the two transports,
   `SharedConnection` (blocks) and the Sputnik inverter, with the abstract
   specifications `WorkQueue`, `DelayQueue` and `AsioWorker`, their invariants and first
   theorems.
2. *(done)* `SharedReads`, `Capabilities` and `DataFilters`, `DbWriter`, `Simulator`,
   `Settings`, `Logger` and `Startup`; the composed invariants of the scheduler and the timed
   work proved as a whole.
3. *(done)* Theorems: the steps of the refinements to `WorkQueue` and `DelayQueue`, the
   shutdown invariant of `MainLoop`, the complete invariants of both transports, of the shared
   connection, the inverter and the database writer, and their action properties.
4. *(done)* Theorems: the start-up and the logger, the reads of the shared connection, the
   conversations of the simulator, and the filters in chains of any depth.
5. Open: the proofs of the two transports share most of their argument and can become one
   module.

## How to run

In this directory, with TLC, the community modules and TLAPS installed:

    tlc -config MCWorkScheduler.cfg MCWorkScheduler
    tlapm Main_proofs.tla
