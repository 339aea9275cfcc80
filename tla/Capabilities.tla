---------------------------- MODULE Capabilities ----------------------------
(***************************************************************************)
(* Capabilities of an inverter and of the data filters stacked on it:      *)
(* which object publishes a capability, how a name is looked up along the  *)
(* chain of data sources, in which order an iterator visits them, and who  *)
(* observes them (IInverterBase, IDataFilter, CNestedCapaIterator and      *)
(* IObserverSubject).                                                      *)
(***************************************************************************)
EXTENDS Naturals, Sequences, FiniteSets, SequencesExt

CONSTANTS
    Inverter,   \* the data source everything starts from
    Filters,    \* the data filters of the configuration
    NameOrder,  \* every capability name, in the order of the std::map
    NoCap       \* the null pointer of a failed look-up

Objects == Filters \cup {Inverter}
Names == Range(NameOrder)
Updated == "CAPAS_UPDATED"
RemoveAll == "CAPAS_REMOVEALL"
DataState == "DATASTATE"
Mandatory == {Updated, RemoveAll, DataState}

ASSUME CapabilitiesAssumption ==
    /\ Inverter \notin Filters /\ IsFiniteSet(Filters)
    /\ Mandatory \subseteq Names /\ NameOrder \in Seq(Names) /\ IsInjective(NameOrder)
    /\ NoCap \notin Objects \X Names

VARIABLES
    base,       \* the data source of each filter
    owned,      \* CapabilityMap: the names each object publishes itself
    observers   \* listobservers of each capability <<object, name>>

capabilityVars == <<base, owned, observers>>

\* GetConcreteCapability: the own map first, then the data source's.
Concrete(o, n) ==
    LET search[x \in Objects] ==
            IF n \in owned[x] THEN <<x, n>>
            ELSE IF x = Inverter THEN NoCap ELSE search[base[x]]
    IN  search[o]

Visible(o) == { n \in Names : Concrete(o, n) # NoCap }

-----------------------------------------------------------------------------
(* The iterators.  An inverter's own iterator walks its sorted map.  A     *)
(* filter's goes on with its source, leaving out what `topmost` overrides, *)
(* but looks at the first element of a source without that check, because  *)
(* HasNext returns right after it has descended.                           *)

\* The elements of s that are in S, in the order of s.  (A recursive function:
\* what SelectSeq returns cannot be expanded in a proof.)
Only(s, S) ==
    LET only[i \in 0 .. Len(s)] ==
            IF i = 0 THEN <<>>
            ELSE IF s[i] \in S THEN Append(only[i - 1], s[i]) ELSE only[i - 1]
    IN  only[Len(s)]

Map(o) == Only(NameOrder, owned[o])

Unfiltered(top, o) ==
    LET kept == { n \in Names : Concrete(top, n) = <<o, n>> }
        m == Map(o)
    IN  IF o = top \/ m = <<>> THEN Only(m, kept)
        ELSE <<Head(m)>> \o Only(Tail(m), kept)

Iterate(o) ==
    LET visit[x \in Objects] ==
            Unfiltered(o, x) \o (IF x = Inverter THEN <<>> ELSE visit[base[x]])
    IN  visit[o]

-----------------------------------------------------------------------------
(* Observers.                                                              *)

CapsOf(o) == { <<o, n>> : n \in Names }
AllCaps == UNION { CapsOf(o) : o \in Objects }

Subscribed(obs, f, cap) == f \in Range(obs[cap])

Subscribe(obs, f, cap) ==
    IF Subscribed(obs, f, cap) THEN obs ELSE [obs EXCEPT ![cap] = Append(@, f)]

\* The three capabilities every filter subscribes to at its source.
SubscribeMandatory(obs, f) ==
    LET wanted == { Concrete(base[f], n) : n \in Mandatory }
    IN  [c \in AllCaps |-> IF c \in wanted THEN Subscribe(obs, f, c)[c] ELSE obs[c]]

\* AddCapability: a name that is there already keeps its capability.
AddCapability(o, n) == owned' = [owned EXCEPT ![o] = @ \cup {n}]
=============================================================================
