------------------------------- MODULE CallId -------------------------------
(***************************************************************************)
(* The identifiers of the calls of one instance: Veigar::getNextCallId     *)
(* (veigar.cpp) joins the uuid of the instance, the name of the function   *)
(* and the decimal digits of callIndex_, an atomic counter of fixed width, *)
(* without a separator. ongoingCalls_ (resp_dispatcher.cpp) is a map from  *)
(* identifiers to promises and callbacks. The uuid is the same for all     *)
(* calls of the instance and left out; a name is a sequence of characters, *)
(* since that is what the property turns on.                               *)
(***************************************************************************)
EXTENDS Naturals, Sequences, FiniteSets

CONSTANTS
    Names,          \* the names of functions
    IndexModulus,   \* 2^32
    MaxCalls        \* bound: how many calls are under way at a time

ASSUME CallIdAssumption ==
    /\ Names \subseteq Seq(STRING)
    /\ IndexModulus \in Nat \ {0}
    /\ MaxCalls \in Nat

VARIABLES
    callIndex,     \* callIndex_
    listed,        \* the calls that no worker has entered yet
    entered,       \* the calls that a worker has entered and nobody has released
    ongoingCalls   \* ongoingCalls_: the call whose promise is kept under an identifier

vars == <<callIndex, listed, entered, ongoingCalls>>

Digits == <<"0", "1", "2", "3", "4", "5", "6", "7", "8", "9">>

\* std::to_string
Decimal[n \in 0 .. IndexModulus - 1] ==
    IF n < 10 THEN <<Digits[n + 1]>> ELSE Append(Decimal[n \div 10], Digits[(n % 10) + 1])

\* mutant: a counter of one digit.
CallIdLastDigit(c) == c.name \o <<Digits[(c.idx % 10) + 1]>>

CallIdOf(c) == c.name \o Decimal[c.idx]

Init ==
    /\ callIndex = 0
    /\ listed = {}
    /\ entered = {}
    /\ ongoingCalls = <<>>

\* mutant: a counter that does not wrap around.
GetNextCallIdWide(name) ==
    /\ Cardinality(listed \cup entered) < MaxCalls
    /\ callIndex' = callIndex + 1
    /\ listed' = listed \cup {[name |-> name, idx |-> callIndex]}
    /\ UNCHANGED <<entered, ongoingCalls>>

\* getNextCallId, on any thread. No call is under way for a whole round of the
\* counter.
GetNextCallId(name) ==
    /\ Cardinality(listed \cup entered) < MaxCalls
    /\ \A c \in listed \cup entered : c.idx # callIndex
    /\ callIndex' = (callIndex + 1) % IndexModulus
    /\ listed' = listed \cup {[name |-> name, idx |-> callIndex]}
    /\ UNCHANGED <<entered, ongoingCalls>>

\* The workers need not enter calls in the order of their indexes.
AddOngoingCall(c) ==
    /\ listed' = listed \ {c}
    /\ entered' = entered \cup {c}
    /\ ongoingCalls' = [id \in DOMAIN ongoingCalls \cup {CallIdOf(c)} |->
                           IF id = CallIdOf(c) THEN c ELSE ongoingCalls[id]]
    /\ UNCHANGED callIndex

\* The caller has its result, or the call could not be sent.
ReleaseCall(c) ==
    /\ entered' = entered \ {c}
    /\ ongoingCalls' = [id \in DOMAIN ongoingCalls \ {CallIdOf(c)} |-> ongoingCalls[id]]
    /\ UNCHANGED <<callIndex, listed>>

Next ==
    \/ \E name \in Names : GetNextCallId(name)
    \/ \E c \in listed : AddOngoingCall(c)
    \/ \E c \in entered : ReleaseCall(c)

Spec == Init /\ [][Next]_vars

-----------------------------------------------------------------------------
(* Properties *)

\* A call is a name and an index; every entry of ongoingCalls is that of a call
\* under its own identifier.
Call == [name : Names, idx : 0 .. IndexModulus - 1]

TypeOK ==
    /\ callIndex \in 0 .. IndexModulus - 1
    /\ listed \subseteq Call
    /\ entered \subseteq Call
    /\ \A id \in DOMAIN ongoingCalls : ongoingCalls[id] \in Call /\ id = CallIdOf(ongoingCalls[id])

EndsInDigit(name) == name # <<>> /\ \E n \in DOMAIN Digits : name[Len(name)] = Digits[n]

\* The response to a call, which carries its identifier, reaches the promise of
\* that call and no other, and a release takes away no other's: as long as no
\* function has a name that ends in a digit. (Otherwise call 10 of "f" and call 0
\* of "f1" have one entry between them.)
EntryIsOwn ==
    (\A name \in Names : ~EndsInDigit(name)) =>
        \A c \in entered : CallIdOf(c) \in DOMAIN ongoingCalls /\ ongoingCalls[CallIdOf(c)] = c
=============================================================================
