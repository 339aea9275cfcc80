------------------------------- MODULE Logger -------------------------------
(***************************************************************************)
(* ILogger: one logger that several threads write to.  A LOGxxx macro asks *)
(* IsEnabled, which leaves the level of the message in the logger, and     *)
(* writes with operator<<, which takes it from there.  The state-aware     *)
(* messages (LOGxxx_SA) go through Log_sa, which leaves out what the same  *)
(* place has just said.                                                    *)
(* Each thread has a place of its own that says state-aware messages; the  *)
(* hashes of the places and of the texts are taken to be different.        *)
(***************************************************************************)
EXTENDS Integers

CONSTANTS
    Threads,
    Texts,
    NoText,         \* what a place has said before its first message
    sa_max_suppress_repetitions, sa_max_time_suppress,
    MaxClock        \* bound: seconds

ASSUME LoggerAssumption ==
    /\ NoText \notin Texts
    /\ sa_max_suppress_repetitions \in Nat /\ sa_max_time_suppress \in Nat /\ MaxClock \in Nat

VARIABLES
    currentloggerlevel, \* what the logger lets through
    currentlevel,       \* the level of the next message
    sa_info,            \* of each place: text, suppressed_cnt, last_seen
    clock,
    thread,             \* of each thread: where in the macro it is, and what it says
    said,               \* history: the last enabled text of each place,
    printed             \* its last text in the log and when

loggerVars == <<currentloggerlevel, currentlevel, sa_info, clock, thread, said, printed>>

\* The levels in the order of log4cxx.
LL_ALL == 0
LL_DEBUG == 1
LL_ERROR == 2
LL_OFF == 3

Nothing == [text |-> NoText, suppressed_cnt |-> 0, last_seen |-> 0]
Idle == [at |-> "idle", text |-> NoText, place |-> FALSE]

LoggerInit ==
    /\ currentloggerlevel = LL_ERROR /\ currentlevel = LL_ERROR
    /\ sa_info = [t \in Threads |-> Nothing] /\ clock = 0
    /\ thread = [t \in Threads |-> Idle]
    /\ said = [t \in Threads |-> NoText]
    /\ printed = [t \in Threads |-> [text |-> NoText, when |-> 0]]

Enabled(level) == level >= currentloggerlevel

\* The level is set for every message.
IsEnabled_SetsAlways(level) == currentlevel' = level

\* What IsEnabled leaves behind: nothing, when the level is not enabled.
IsEnabled(level) == currentlevel' = IF Enabled(level) THEN level ELSE currentlevel

\* LOGxxx and, with `place`, LOGxxx_SA.
Say(t, level, text, place) ==
    /\ thread[t] = Idle
    /\ IsEnabled(level)
    /\ thread' = IF Enabled(level)
                 THEN [thread EXCEPT ![t] = [at |-> IF place THEN "Log_sa" ELSE "<<",
                                             text |-> text, place |-> place]]
                 ELSE thread
    /\ said' = IF Enabled(level) /\ place THEN [said EXCEPT ![t] = text] ELSE said
    /\ UNCHANGED <<currentloggerlevel, sa_info, clock, printed>>

\* The reasons to print a state-aware message that has been said before.
Changed(i, text) == i.text # text
Often(i) == sa_max_suppress_repetitions > 0 /\ i.suppressed_cnt >= sa_max_suppress_repetitions
Long(i) == sa_max_time_suppress > 0 /\ i.last_seen + sa_max_time_suppress <= clock
NeedLog(i, text) == i.text = NoText \/ Changed(i, text) \/ Often(i) \/ Long(i)

\* Log_sa up to the point where it prints or returns; the part that looks
\* at the table is done under the mutex.
Log_sa(t) ==
    LET text == thread[t].text
        i == sa_info[t] IN
    /\ thread[t].at = "Log_sa"
    /\ IsEnabled(LL_ALL)
    /\ IF Enabled(LL_ALL)
       THEN thread' = [thread EXCEPT ![t].at = "<<"] /\ UNCHANGED sa_info
       ELSE IF NeedLog(i, text)
       THEN /\ thread' = [thread EXCEPT ![t].at = "<<"]
            /\ sa_info' = [sa_info EXCEPT
                   ![t] = [text |-> text, suppressed_cnt |-> 0, last_seen |-> clock]]
       ELSE /\ thread' = [thread EXCEPT ![t] = Idle]
            /\ sa_info' = [sa_info EXCEPT ![t].suppressed_cnt = @ + 1]
    /\ UNCHANGED <<currentloggerlevel, clock, said, printed>>

\* operator<<, which looks at the level that is in the logger now.
Write(t) ==
    /\ thread[t].at = "<<"
    /\ thread' = [thread EXCEPT ![t] = Idle]
    /\ printed' = IF Enabled(currentlevel) /\ thread[t].place
                  THEN [printed EXCEPT ![t] = [text |-> thread[t].text, when |-> clock]]
                  ELSE printed
    /\ UNCHANGED <<currentloggerlevel, currentlevel, sa_info, clock, said>>

\* sa_forgethistory of one place: its next message is printed.
sa_forgethistory(t) ==
    /\ thread[t] = Idle /\ sa_info[t] # Nothing
    /\ sa_info' = [sa_info EXCEPT ![t] = Nothing]
    /\ UNCHANGED <<currentloggerlevel, currentlevel, clock, thread, said, printed>>

Tick ==
    /\ clock < MaxClock /\ clock' = clock + 1
    /\ UNCHANGED <<currentloggerlevel, currentlevel, sa_info, thread, said, printed>>

LoggerNext ==
    \/ \E t \in Threads :
        \/ \E level \in {LL_DEBUG, LL_ERROR}, text \in Texts, place \in BOOLEAN :
            Say(t, level, text, place)
        \/ Log_sa(t) \/ Write(t) \/ sa_forgethistory(t)
    \/ Tick

LoggerTypeOK ==
    /\ currentloggerlevel \in LL_ALL .. LL_OFF /\ currentlevel \in LL_ALL .. LL_OFF
    /\ clock \in 0 .. MaxClock
    /\ \A t \in Threads : /\ thread[t].at \in {"idle", "Log_sa", "<<"}
                          /\ {sa_info[t].text, said[t]} \subseteq Texts \cup {NoText}
                          /\ sa_info[t].suppressed_cnt \in Nat

\* A message that was found enabled is not dropped because another thread
\* has used the logger between the question and the writing.
NothingEnabledIsDropped == \A t \in Threads : thread[t].at = "<<" => Enabled(currentlevel)

\* Suppression never hides a change: what a place said last is what it
\* printed last.
LastSaidIsLogged == \A t \in Threads : thread[t] = Idle => printed[t].text = said[t]

\* A repetition is suppressed no more often than allowed, and not any more
\* when the time since the text was printed is over: what a place says
\* regularly comes back in the log.
RepeatedInTime ==
    \A t \in Threads :
        /\ sa_max_suppress_repetitions > 0 =>
               sa_info[t].suppressed_cnt <= sa_max_suppress_repetitions
        /\ sa_info[t].text # NoText => \/ thread[t].at = "<<"
                                       \/ printed[t].when >= sa_info[t].last_seen
=============================================================================
