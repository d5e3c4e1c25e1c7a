------------------------------ MODULE SendList ------------------------------
(***************************************************************************)
(* The two lists of a Sender, calls and responses, that client threads and *)
(* dispatcher threads fill (addCall, addResp) and two pools of workers     *)
(* empty, and Sender::uninit (sender.cpp). A list is guarded by a mutex,   *)
(* so each access to it is one step. Its Event (event.cpp) is a flag with  *)
(* a condition variable: an item is first put on the list and the flag set *)
(* after that, and a worker that wakes up first clears the flag and then   *)
(* looks at the list. What a worker does with an item is Channel's matter; *)
(* here it has it in hand and frees it.                                    *)
(***************************************************************************)
EXTENDS Naturals, Sequences

CONSTANTS
    CallWorkers,      \* callWorkers_
    RespWorkers,      \* respWorkers_
    CallItems,        \* the calls, each with the client thread that adds it
    RespItems,        \* the responses, each with the thread that adds it
    Nothing

Workers == CallWorkers \cup RespWorkers
Items   == CallItems \cup RespItems
Kinds   == {"call", "resp"}

ASSUME SendListAssumption ==
    /\ CallWorkers \cap RespWorkers = {}
    /\ CallItems \cap RespItems = {}
    /\ Nothing \notin Items

KindOf(i) == IF i \in CallItems THEN "call" ELSE "resp"
PoolOf(w) == IF w \in CallWorkers THEN "call" ELSE "resp"

VARIABLES
    list,         \* callList_ and respList_
    isSet,        \* isSet_ of the two events
    isCancelled,  \* isCancelled_ of the two events
    adding,       \* where the thread that adds an item is
    pc,           \* where each worker is
    cur,          \* the item each worker has in hand
    freed,        \* the items whose buffer was freed
    owner,        \* where uninit is
    late          \* history: the items put on a list once uninit had begun

vars == <<list, isSet, isCancelled, adding, pc, cur, freed, owner, late>>

Goto(w, l) == pc' = [pc EXCEPT ![w] = l]

Init ==
    /\ list = [k \in Kinds |-> <<>>]
    /\ isSet = [k \in Kinds |-> FALSE]
    /\ isCancelled = [k \in Kinds |-> FALSE]
    /\ adding = [i \in Items |-> "begin"]
    /\ pc = [w \in Workers |-> "wait"]
    /\ cur = [w \in Workers |-> Nothing]
    /\ freed = {}
    /\ owner = "running"
    /\ late = {}

-----------------------------------------------------------------------------
(* addCall and addResp: two steps of the thread that brings the item. It   *)
(* has found sender_ set, which it is until uninit has returned.           *)

Emplace(i) ==
    /\ adding[i] = "begin"
    /\ owner # "reset"
    /\ list' = [list EXCEPT ![KindOf(i)] = Append(@, i)]
    /\ adding' = [adding EXCEPT ![i] = "emplaced"]
    /\ late' = IF owner = "running" THEN late ELSE late \cup {i}
    /\ UNCHANGED <<isSet, isCancelled, pc, cur, freed, owner>>

\* mutant: the event is set for the first item of the list only.
SetEventForFirst(i) ==
    /\ adding[i] = "emplaced"
    /\ isSet' = [isSet EXCEPT ![KindOf(i)] = @ \/ Len(list[KindOf(i)]) = 1]
    /\ adding' = [adding EXCEPT ![i] = "added"]
    /\ UNCHANGED <<list, isCancelled, pc, cur, freed, owner, late>>

SetEvent(i) ==
    /\ adding[i] = "emplaced"
    /\ isSet' = [isSet EXCEPT ![KindOf(i)] = TRUE]
    /\ adding' = [adding EXCEPT ![i] = "added"]
    /\ UNCHANGED <<list, isCancelled, pc, cur, freed, owner, late>>

-----------------------------------------------------------------------------
(* A worker: sendCallThreadProc, sendRespThreadProc. *)

Cancelled(w) == isCancelled[PoolOf(w)]

\* wait(30) returns true. When it returns false the worker waits again.
Wake(w) ==
    /\ pc[w] = "wait"
    /\ isSet[PoolOf(w)] \/ Cancelled(w)
    /\ Goto(w, "woken")
    /\ UNCHANGED <<list, isSet, isCancelled, adding, cur, freed, owner, late>>

CheckCancelled(w) ==
    /\ pc[w] = "woken"
    /\ Goto(w, IF Cancelled(w) THEN "done" ELSE "unset")
    /\ UNCHANGED <<list, isSet, isCancelled, adding, cur, freed, owner, late>>

Unset(w) ==
    /\ pc[w] = "unset"
    /\ isSet' = [isSet EXCEPT ![PoolOf(w)] = FALSE]
    /\ Goto(w, "next")
    /\ UNCHANGED <<list, isCancelled, adding, cur, freed, owner, late>>

CheckCancelledAgain(w) ==
    /\ pc[w] = "next"
    /\ Goto(w, IF Cancelled(w) THEN "wait" ELSE "take")
    /\ UNCHANGED <<list, isSet, isCancelled, adding, cur, freed, owner, late>>

\* mutant: front() without pop().
TakeOffKeeps(w) ==
    /\ pc[w] = "take"
    /\ list[PoolOf(w)] # <<>>
    /\ cur' = [cur EXCEPT ![w] = Head(list[PoolOf(w)])]
    /\ Goto(w, "send")
    /\ UNCHANGED <<list, isSet, isCancelled, adding, freed, owner, late>>

TakeOff(w) ==
    /\ pc[w] = "take"
    /\ list[PoolOf(w)] # <<>>
    /\ cur' = [cur EXCEPT ![w] = Head(list[PoolOf(w)])]
    /\ list' = [list EXCEPT ![PoolOf(w)] = Tail(@)]
    /\ Goto(w, "send")
    /\ UNCHANGED <<isSet, isCancelled, adding, freed, owner, late>>

FindEmpty(w) ==
    /\ pc[w] = "take"
    /\ list[PoolOf(w)] = <<>>
    /\ Goto(w, "wait")
    /\ UNCHANGED <<list, isSet, isCancelled, adding, cur, freed, owner, late>>

\* mutant: the inner loop is an if: one item for each wake-up.
SendOneOnly(w) ==
    /\ pc[w] = "send"
    /\ freed' = freed \cup {cur[w]}
    /\ cur' = [cur EXCEPT ![w] = Nothing]
    /\ Goto(w, "wait")
    /\ UNCHANGED <<list, isSet, isCancelled, adding, owner, late>>

\* mutant: the worker keeps the pointer it has freed.
SendKeepsPointer(w) ==
    /\ pc[w] = "send"
    /\ freed' = freed \cup {cur[w]}
    /\ Goto(w, "next")
    /\ UNCHANGED <<list, isSet, isCancelled, adding, cur, owner, late>>

\* The item is sent, or its failure reported, and its buffer freed.
SendAndFree(w) ==
    /\ pc[w] = "send"
    /\ freed' = freed \cup {cur[w]}
    /\ cur' = [cur EXCEPT ![w] = Nothing]
    /\ Goto(w, "next")
    /\ UNCHANGED <<list, isSet, isCancelled, adding, owner, late>>

WorkerStep(w) ==
    \/ Wake(w) \/ CheckCancelled(w) \/ Unset(w) \/ CheckCancelledAgain(w)
    \/ TakeOff(w) \/ FindEmpty(w) \/ SendAndFree(w)

-----------------------------------------------------------------------------
(* Sender::uninit. *)

OwnerGoto(from, to) == owner = from /\ owner' = to

Uninit ==
    /\ OwnerGoto("running", "cancelcalls")
    /\ UNCHANGED <<list, isSet, isCancelled, adding, pc, cur, freed, late>>

CancelCalls ==
    /\ OwnerGoto("cancelcalls", "cancelresps")
    /\ isCancelled' = [isCancelled EXCEPT !["call"] = TRUE]
    /\ UNCHANGED <<list, isSet, adding, pc, cur, freed, late>>

\* mutant: the first event is cancelled twice.
CancelCallsAgain ==
    /\ OwnerGoto("cancelresps", "joincalls")
    /\ isCancelled' = [isCancelled EXCEPT !["call"] = TRUE]
    /\ UNCHANGED <<list, isSet, adding, pc, cur, freed, late>>

CancelResps ==
    /\ OwnerGoto("cancelresps", "joincalls")
    /\ isCancelled' = [isCancelled EXCEPT !["resp"] = TRUE]
    /\ UNCHANGED <<list, isSet, adding, pc, cur, freed, late>>

JoinCallWorkers ==
    /\ OwnerGoto("joincalls", "joinresps")
    /\ \A w \in CallWorkers : pc[w] = "done"
    /\ UNCHANGED <<list, isSet, isCancelled, adding, pc, cur, freed, late>>

JoinRespWorkers ==
    /\ OwnerGoto("joinresps", "freecalls")
    /\ \A w \in RespWorkers : pc[w] = "done"
    /\ UNCHANGED <<list, isSet, isCancelled, adding, pc, cur, freed, late>>

Contents(k) == {list[k][n] : n \in 1 .. Len(list[k])}

\* mutant: the calls are taken off the list and not freed.
FreeCallsPopsOnly ==
    /\ OwnerGoto("freecalls", "freeresps")
    /\ list' = [list EXCEPT !["call"] = <<>>]
    /\ UNCHANGED <<isSet, isCancelled, adding, pc, cur, freed, late>>

\* One step each: the mutex of the list is held over the whole loop.
FreeCalls ==
    /\ OwnerGoto("freecalls", "freeresps")
    /\ freed' = freed \cup Contents("call")
    /\ list' = [list EXCEPT !["call"] = <<>>]
    /\ UNCHANGED <<isSet, isCancelled, adding, pc, cur, late>>

\* The loop over the responses goes on while callList_, not respList_, is not
\* empty. As a rule it is empty by then, and the responses stay.
FreeResps ==
    /\ OwnerGoto("freeresps", "closed")
    /\ list["call"] = <<>>
    /\ UNCHANGED <<list, isSet, isCancelled, adding, pc, cur, freed, late>>

\* But a call may have come in since the mutex of callList_ was left. Nothing
\* in the loop takes it off, so the loop frees the responses and then takes
\* the front of an empty queue, which is undefined: uninit ends here.
FreeRespsRunsAway ==
    /\ OwnerGoto("freeresps", "undefined")
    /\ list["call"] # <<>>
    /\ freed' = freed \cup Contents("resp")
    /\ list' = [list EXCEPT !["resp"] = <<>>]
    /\ UNCHANGED <<isSet, isCancelled, adding, pc, cur, late>>

\* Veigar::Impl::uninit resets sender_ after Sender::uninit has returned.
ResetSender ==
    /\ OwnerGoto("closed", "reset")
    /\ UNCHANGED <<list, isSet, isCancelled, adding, pc, cur, freed, late>>

OwnerStep ==
    \/ CancelCalls \/ CancelResps \/ JoinCallWorkers \/ JoinRespWorkers
    \/ FreeCalls \/ FreeResps \/ FreeRespsRunsAway \/ ResetSender

-----------------------------------------------------------------------------
Next ==
    \/ \E i \in Items : Emplace(i) \/ SetEvent(i)
    \/ \E w \in Workers : WorkerStep(w)
    \/ Uninit \/ OwnerStep

Spec == Init /\ [][Next]_vars

\* Threads that can go on do so in the end; nobody has to bring an item or to
\* call uninit. Wake is fair because wait(30) polls the flag.
FairSpec ==
    /\ Spec
    /\ \A i \in Items : WF_vars(SetEvent(i))
    /\ \A w \in Workers : WF_vars(WorkerStep(w))
    /\ WF_vars(OwnerStep)

-----------------------------------------------------------------------------
(* Properties *)

ItemsOf(k) == IF k = "call" THEN CallItems ELSE RespItems

OwnerPcs == {"running", "cancelcalls", "cancelresps", "joincalls", "joinresps",
             "freecalls", "freeresps", "closed", "reset", "undefined"}

TypeOK ==
    /\ list \in [Kinds -> Seq(Items)]
    /\ \A k \in Kinds : Contents(k) \subseteq ItemsOf(k)
    /\ isSet \in [Kinds -> BOOLEAN]
    /\ isCancelled \in [Kinds -> BOOLEAN]
    /\ adding \in [Items -> {"begin", "emplaced", "added"}]
    /\ pc \in [Workers -> {"wait", "woken", "unset", "next", "take", "send", "done"}]
    /\ cur \in [Workers -> Items \cup {Nothing}]
    /\ \A w \in Workers : cur[w] # Nothing <=> pc[w] = "send"
    /\ freed \subseteq Items
    /\ owner \in OwnerPcs
    /\ late \subseteq Items

\* An item on a list that was not cancelled is never overlooked: the flag is
\* set, or the thread that added an item is about to set it, or a worker of the
\* pool is between clearing the flag and looking at the list. A worker clears
\* the flag without the mutex of the list, and a thread sets it after it has
\* left that mutex, so an addition can fall anywhere in between.
WillLook(k) ==
    \/ isSet[k]
    \/ \E i \in ItemsOf(k) : adding[i] = "emplaced"
    \/ \E w \in Workers : PoolOf(w) = k /\ pc[w] \in {"unset", "next", "take", "send"}

NoLostWakeup == \A k \in Kinds : list[k] # <<>> => isCancelled[k] \/ WillLook(k)

\* No item is sent twice and no buffer freed twice, by two workers or by a
\* worker and uninit: an item is on its list at one place, or in the hands of
\* one worker, or freed.
Holding(i)   == {w \in Workers : cur[w] = i}
Places(i)    == {n \in 1 .. Len(list[KindOf(i)]) : list[KindOf(i)][n] = i}
OnePlaceOnly ==
    \A i \in Items :
        /\ \A m, n \in Places(i) : m = n
        /\ \A v, w \in Holding(i) : v = w
        /\ Places(i) # {} => Holding(i) = {} /\ i \notin freed
        /\ Holding(i) # {} => i \notin freed

\* Every item that was added is sent, unless uninit comes first.
EveryItemSent == \A i \in Items : (adding[i] = "added") ~> (i \in freed \/ owner # "running")

\* Sender::uninit returns, unless a call is added while it runs: veigar.h does
\* not say that nobody may call by then. That call is what the second of its
\* loops over the lists stumbles on.
UninitReturns == (owner # "running") ~> (owner = "reset" \/ late \cap CallItems # {})

\* "release all calls memory" (sender.cpp:81), "release all responses memory"
\* (sender.cpp:92): when uninit is done, so is every buffer that was on a list,
\* or in a worker's hands, when it began.
Released(items) ==
    owner = "closed" => \A i \in items \ late : adding[i] # "begin" => i \in freed
CallsReleased == Released(CallItems)
RespsReleased == Released(RespItems)
=============================================================================
