--------------------------- MODULE SputnikBackoff ---------------------------
(***************************************************************************)
(* The queries (ISputnikCommand) the inverter object can send to a         *)
(* Sputnik inverter, and the back-off strategy of each, which decides      *)
(* whether a poll asks for it.  A query has one token, or several: the     *)
(* software version is put together from the tokens BDN and SWV.  The      *)
(* strategies are never chained in this program.                           *)
(***************************************************************************)
EXTENDS Integers, FiniteSets

CONSTANTS
    Queries,    \* CInverterSputnikSSeries::commands
    Strategy,   \* of each query
    Token,      \* the tokens a query can handle, IsHandled()
    Needed,     \* the tokens without which it sets no value
    Retries,    \* CSputnikCmdBOIfSupported::triesleft_orig
    Interval,   \* CSputnikCmdBOTimed::interval
    MaxTime     \* bound of the clock

Tokens == UNION { Token[q] : q \in Queries }
PartTokens == UNION { Token[q] : q \in { r \in Queries : Cardinality(Token[r]) > 1 } }

ASSUME QueryAssumption ==
    /\ Strategy \in [Queries -> {"Always", "Once", "IfSupported", "Timed"}]
    /\ \A q \in Queries : Token[q] # {} /\ Needed[q] \subseteq Token[q]
    /\ \A q, r \in Queries : q # r => Token[q] \cap Token[r] = {}
    /\ Retries \in Nat /\ Interval \in Nat /\ MaxTime \in Nat

VARIABLES
    now,        \* second_clock::local_time()
    answered,   \* `issued` of BOOnce, `supported` of BOIfSupported
    triesleft,  \* of BOIfSupported
    last,       \* of BOTimed
    got,        \* got_swversion, got_buildversion
    valid       \* queries whose capability has a valid value

backoffVars == <<answered, triesleft, last, got, valid>>

NotADateTime == -1

BackoffInit ==
    /\ now = 0
    /\ answered = [q \in Queries |-> FALSE]
    /\ triesleft = [q \in Queries |-> Retries]
    /\ last = [q \in Queries |-> NotADateTime]
    /\ got = [q \in Queries |-> {}]
    /\ valid = {}

BackoffTypeOK ==
    /\ now \in 0..MaxTime
    /\ answered \in [Queries -> BOOLEAN]
    /\ triesleft \in [Queries -> 0..Retries]
    /\ last \in [Queries -> (0..MaxTime) \cup {NotADateTime}]
    /\ \A q \in Queries : got[q] \subseteq Token[q]
    /\ valid \subseteq Queries

(* BOTimed asks *until* the interval is over and never after that.         *)
ConsiderCommand(q) ==
    \/ Strategy[q] = "Always"
    \/ Strategy[q] = "Once" /\ ~answered[q]
    \/ Strategy[q] = "IfSupported" /\ (triesleft[q] > 0 \/ answered[q])
    \/ Strategy[q] = "Timed" /\ \/ last[q] = NotADateTime
                                \/ last[q] + Interval >= now

(* The queries that want to be asked for a token of `tokens`: their        *)
(* handle_token() is called for each.                                      *)
Handled(tokens) == { q \in Queries : Token[q] \cap tokens # {} }

(* handle_token() succeeds for `tokens`.  Those in `zero` came with the    *)
(* value 0, which the software version takes for "not got".                *)
HandleTokens(tokens, zero) ==
    LET gotten == [q \in Queries |->
            got[q] \cup ((Token[q] \cap tokens) \ zero)]
        complete == { q \in Handled(tokens) : gotten[q] = Token[q] }
    IN /\ got' = gotten
       /\ valid' = valid \cup { q \in Handled(tokens) : Needed[q] \subseteq gotten[q] }
       /\ answered' = [q \in Queries |-> answered[q] \/
            (q \in complete /\ Strategy[q] \in {"Once", "IfSupported"})]
       /\ last' = [q \in Queries |->
            IF q \in complete /\ Strategy[q] = "Timed" THEN now ELSE last[q]]

(* CommandNotAnswered() of each query in qs.                               *)
CommandNotAnswered(qs) ==
    triesleft' = [q \in Queries |->
        IF q \in qs /\ Strategy[q] = "IfSupported" /\ triesleft[q] > 0
        THEN triesleft[q] - 1 ELSE triesleft[q]]

(* mutant: got_swversion and got_buildversion survive the disconnect       *)
InverterDisconnected_KeepsParts ==
    /\ answered' = [q \in Queries |-> FALSE]
    /\ triesleft' = [q \in Queries |-> Retries]
    /\ last' = [q \in Queries |-> NotADateTime]
    /\ valid' = {}
    /\ UNCHANGED got

(* InverterDisconnected() of every query: values invalid, strategies Reset *)
InverterDisconnected ==
    /\ answered' = [q \in Queries |-> FALSE]
    /\ triesleft' = [q \in Queries |-> Retries]
    /\ last' = [q \in Queries |-> NotADateTime]
    /\ valid' = {}
    /\ got' = [q \in Queries |-> {}]

(* As after the constructor. *)
Reset ==
    /\ answered = [q \in Queries |-> FALSE]
    /\ triesleft = [q \in Queries |-> Retries]
    /\ last = [q \in Queries |-> NotADateTime]
    /\ got = [q \in Queries |-> {}]
    /\ valid = {}
=============================================================================
