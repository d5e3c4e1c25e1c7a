------------------------------ MODULE RpcProofs ------------------------------
(***************************************************************************)
(* Proofs about Rpc, for any set of calls, any number of threads,          *)
(* whatever sends fail and messages get lost, and whichever instances are  *)
(* uninitialized: the types, how often a call is completed, what becomes   *)
(* of its entry in ongoingCalls_ and of its promise, that threads          *)
(* do not wait for each other in a circle, that every step takes something *)
(* further, and the contract of RemoteCall.                                *)
(***************************************************************************)
EXTENDS Rpc, FiniteSetTheorems, WellFoundedInduction, TLAPS

\* Where a call can be: its message is on its way only when the worker is done
\* with it; the worker completes it only when it could not push it, the
\* dispatcher only when its response came back, and uninit only when nobody
\* else can any more; a callback that runs on the caller's own thread was told
\* that nothing was sent; and an answer that is a value is that of a function
\* that ran.
InFlight == {"callqueue", "running", "resplist", "answering", "respqueue", "delivering"}

Course(c) ==
    /\ send[c] = "idle" <=> user[c] = "idle"
    /\ at[c] # "nowhere" => send[c] = "finished"
    /\ send[c] \in {"idle", "listed", "sending", "failed", "released"} => result[c] = "none"
    /\ send[c] \in {"idle", "listed"} => c \notin ongoing
    /\ SenderGone(From(c)) => send[c] \in {"idle", "finished"}
    /\ at[c] \in InFlight => result[c] = "none" \/ (result[c] = "broken" /\ life[From(c)] = "down")
    /\ at[c] \in {"respqueue", "delivering"} => life[From(c)] # "down"
    /\ completions[c] = 0 <=> result[c] = "none"
    /\ completions[c] <= 1 \/ RunAgain(c)
    /\ user[c] = "callback" => /\ send[c] = "finished" /\ at[c] = "nowhere"
                              /\ result[c] = "unsent" /\ completions[c] = 1
    /\ at[c] \in {"nowhere", "callqueue"} => c \notin ran
    /\ at[c] \in {"nowhere", "callqueue", "running"} => answer[c] = "none"
    /\ at[c] = "running" \/ answer[c] = "value" => c \in ran
    /\ at[c] \in {"resplist", "answering", "respqueue", "delivering"} => answer[c] # "none"

CallInv == TypeOK /\ \A c \in Calls : Course(c)

\* The steps of the caller, of the worker and of the two dispatchers.
CallerStep(c) ==
    \/ Begin(c) \/ BeginRefused(c) \/ BeginThrows(c)
    \/ InlineCallbackReturns(c) \/ InlineCallbackRunsAgain(c) \/ InlineCallbackThrows(c)
    \/ Get(c) \/ Release(c)
WorkerStep(c) ==
    \/ PickUp(c) \/ PushCall(c) \/ PushCallFails(c)
    \/ ReleaseFailed(c) \/ ReportFailure(c) \/ FailureCallbackReturns(c)
ResponseStep(c) ==
    \/ PopCall(c) \/ RejectCall(c) \/ Respond(c) \/ RespondError(c)
    \/ PickUpResp(c) \/ PushResp(c) \/ Lose(c)
    \/ PopResp(c) \/ Deliver(c) \/ DeliverUnread(c) \/ CallbackReturns(c)

-----------------------------------------------------------------------------
LEMMA OwnInstances == \A c \in Calls : From(c) \in Instances /\ To(c) \in Instances
  BY DEF Instances

LEMMA InitCallInv == Init => CallInv
  BY OwnInstances DEF Init, CallInv, TypeOK, Course, InFlight, SenderGone

\* A step of one call leaves the others alone.
LEMMA CallerCallInv ==
  ASSUME CallInv, NEW c \in Calls, CallerStep(c)
  PROVE  CallInv'
<1> USE RpcAssumption, OwnInstances DEF CallInv, TypeOK, Course, RunAgain, InFlight, SenderGone
<1>0. Waits(c) \in {"waiting", "holding", "done"} /\ Kind(c) \in Kinds
  BY DEF Waits, Kinds, Kind
<1>1. CASE Begin(c)
  BY <1>0, <1>1 DEF Begin, MayBegin
<1>2. CASE BeginRefused(c) \/ BeginThrows(c)
  BY <1>0, <1>2 DEF BeginRefused, BeginThrows, MayBegin, Complete
<1>3. CASE InlineCallbackReturns(c) \/ InlineCallbackThrows(c)
  BY <1>3 DEF InlineCallbackReturns, InlineCallbackThrows
<1>4. CASE InlineCallbackRunsAgain(c)
  <2>1. RunAgain(c)'
    BY <1>4 DEF InlineCallbackRunsAgain, NestedLeft, Complete
  <2>2. \A d \in Calls : d # c => (RunAgain(d) <=> RunAgain(d)')
    BY <1>4 DEF InlineCallbackRunsAgain, Complete
  <2>3. /\ result' = [result EXCEPT ![c] = "unsent"]
        /\ completions' = [completions EXCEPT ![c] = @ + 1]
        /\ user' = [user EXCEPT ![c] = "handler"]
        /\ UNCHANGED <<send, at, ongoing, answer, ran, life>>
        /\ user[c] = "callback"
    BY <1>4 DEF InlineCallbackRunsAgain, Complete
  <2> HIDE DEF RunAgain
  <2> QED BY <2>1, <2>2, <2>3
<1>5. CASE Get(c)
  BY <1>5 DEF Get
<1>6. CASE Release(c)
  BY <1>6 DEF Release
<1> QED BY <1>1, <1>2, <1>3, <1>4, <1>5, <1>6 DEF CallerStep

LEMMA WorkerCallInv ==
  ASSUME CallInv, NEW c \in Calls, WorkerStep(c)
  PROVE  CallInv'
<1> USE OwnInstances
    DEF CallInv, TypeOK, Course, RunAgain, InFlight, SenderGone, CallsClosed, RespsClosed
<1>1. CASE PickUp(c)
  BY <1>1 DEF PickUp
<1>2. CASE PushCall(c)
  BY <1>2 DEF PushCall
<1>3. CASE PushCallFails(c)
  BY <1>3 DEF PushCallFails
<1>4. CASE ReleaseFailed(c)
  BY <1>4 DEF ReleaseFailed
<1>5. CASE ReportFailure(c)
  BY <1>5 DEF ReportFailure, Complete
<1>6. CASE FailureCallbackReturns(c)
  BY <1>6 DEF FailureCallbackReturns
<1> QED BY <1>1, <1>2, <1>3, <1>4, <1>5, <1>6 DEF WorkerStep

LEMMA ResponseCallInv ==
  ASSUME CallInv, NEW c \in Calls, ResponseStep(c)
  PROVE  CallInv'
<1> USE OwnInstances
    DEF CallInv, TypeOK, Course, RunAgain, InFlight, SenderGone, CallsClosed, RespsClosed
<1>1. CASE PopCall(c)
  BY <1>1 DEF PopCall
<1>2. CASE RejectCall(c) \/ Respond(c) \/ RespondError(c)
  BY <1>2 DEF RejectCall, Respond, RespondError, SendResponse
<1>3. CASE PickUpResp(c) \/ PushResp(c)
  BY <1>3 DEF PickUpResp, PushResp
<1>4. CASE Lose(c)
  BY <1>4 DEF Lose
<1>5. CASE PopResp(c)
  BY <1>5 DEF PopResp
<1>6. CASE Deliver(c) \/ DeliverUnread(c)
  BY <1>6 DEF Deliver, DeliverUnread, HandOver, Complete
<1>7. CASE CallbackReturns(c)
  BY <1>7 DEF CallbackReturns
<1> QED BY <1>1, <1>2, <1>3, <1>4, <1>5, <1>6, <1>7 DEF ResponseStep

\* What uninit breaks is a promise nobody set.
LEMMA UninitCallInv ==
  ASSUME CallInv, NEW i \in Instances, Cancel(i) \/ Stop(i)
  PROVE  CallInv'
<1> USE OwnInstances DEF CallInv, TypeOK, Course, RunAgain, InFlight, SenderGone
<1>1. CASE Cancel(i)
  BY <1>1 DEF Cancel
<1>2. CASE ResetSender(i)
  BY <1>2 DEF ResetSender, SenderIdle, Listed, Lost, Break
<1>3. CASE StopCalls(i)
  BY <1>3 DEF StopCalls, Lost
<1>4. CASE StopResps(i)
  BY <1>4 DEF StopResps, RespsIdle, Entries, Lost, Break
<1> QED BY <1>1, <1>2, <1>3, <1>4 DEF Stop

LEMMA StepOfCall ==
  \A c \in Calls :
    Begin(c) \/ BeginRefused(c) \/ BeginThrows(c) \/ Release(c) \/ Lose(c) \/ Take(c) \/ Proceed(c)
      => CallerStep(c) \/ WorkerStep(c) \/ ResponseStep(c)
  BY DEF Take, Proceed, CallerStep, WorkerStep, ResponseStep

LEMMA NextCallInv == CallInv /\ [Next]_vars => CallInv'
<1> SUFFICES ASSUME CallInv, [Next]_vars PROVE CallInv'
  OBVIOUS
<1>1. CASE UNCHANGED vars
  BY <1>1 DEF vars, CallInv, TypeOK, Course, RunAgain, SenderGone
<1> QED BY <1>1, StepOfCall, CallerCallInv, WorkerCallInv, ResponseCallInv, UninitCallInv DEF Next

LEMMA CallInvHolds == Spec => []CallInv
  BY InitCallInv, NextCallInv, PTL DEF Spec

\* Every variable keeps to its type, and only calls with a callback ever run one.
THEOREM RpcTypes == Spec => []TypeOK
<1>1. CallInv => TypeOK
  BY DEF CallInv
<1> QED BY <1>1, CallInvHolds, PTL

\* No promise is set twice and no callback called twice, by the caller, the
\* worker that fails to send the call, the dispatcher of its response and uninit,
\* but for a callback that threw on the caller's own thread: that one calls it
\* once more, and nobody else ever does.
THEOREM CompletedOnce == Spec => []CompletedAtMostOnce
<1>1. CallInv => CompletedAtMostOnce
  BY DEF CallInv, Course, CompletedAtMostOnce
<1> QED BY <1>1, CallInvHolds, PTL

-----------------------------------------------------------------------------
(* The entry of a call in ongoingCalls_, and its promise. *)

\* There is none before the worker picks the call up and after it gave up, and
\* none once a callback has run. A call that nobody released has one as long as
\* a response may come.
Entry(c) ==
    /\ send[c] \in {"released", "callback"} => c \notin ongoing
    /\ send[c] = "finished" /\ at[c] = "nowhere" => c \notin ongoing
    /\ Kind(c) = "callback" /\ at[c] = "over" => c \notin ongoing
    /\ result[c] = "broken" => send[c] = "finished" /\ c \notin ongoing
    /\ (send[c] = "sending" \/ at[c] \in InFlight) /\ life[From(c)] # "down"
          /\ (Kind(c) = "callback" \/ user[c] # "done") => c \in ongoing

\* Who waits for a promise, and who may still set it: the worker that has the
\* call, or, by way of the entry, the dispatcher of the response or uninit.
Promise(c) ==
    /\ user[c] \in {"waiting", "got"} => Kind(c) = "sync"
    /\ user[c] = "holding" => Kind(c) = "async"
    /\ user[c] = "got" => result[c] # "none"
    /\ Kind(c) # "callback" /\ result[c] # "none" => send[c] = "finished"
    /\ Kind(c) # "callback" /\ user[c] = "done" /\ (Kind(c) = "async" => ~EarlyRelease)
          => result[c] # "none" /\ c \notin ongoing
    /\ user[c] \in {"waiting", "holding"} /\ result[c] = "none"
          => send[c] \in {"listed", "sending", "failed", "released"} \/ c \in ongoing

EntryInv == PromisesSettled /\ \A c \in Calls : Entry(c) /\ Promise(c)

LEMMA InitEntryInv == Init => EntryInv
  BY DEF Init, EntryInv, Entry, Promise, PromisesSettled, InFlight

LEMMA CallerEntryInv ==
  ASSUME CallInv, EntryInv, NEW c \in Calls, CallerStep(c)
  PROVE  EntryInv'
<1> USE RpcAssumption, OwnInstances
    DEF CallInv, TypeOK, Course, InFlight, SenderGone, EntryInv, Entry, Promise, PromisesSettled
<1>0. /\ Waits(c) \in {"waiting", "holding", "done"}
      /\ Waits(c) = "waiting" <=> Kind(c) = "sync"
      /\ Waits(c) = "holding" <=> Kind(c) = "async"
      /\ Kind(c) \in {"sync", "async", "callback"}
  BY DEF Waits, Kinds, Kind
<1>1. CASE Begin(c)
  BY <1>0, <1>1 DEF Begin, MayBegin
<1>2. CASE BeginRefused(c) \/ BeginThrows(c)
  BY <1>0, <1>2 DEF BeginRefused, BeginThrows, MayBegin, Complete
<1>3. CASE InlineCallbackReturns(c) \/ InlineCallbackThrows(c)
  BY <1>3 DEF InlineCallbackReturns, InlineCallbackThrows
<1>4. CASE InlineCallbackRunsAgain(c)
  BY <1>4 DEF InlineCallbackRunsAgain, Complete
<1>5. CASE Get(c)
  BY <1>5 DEF Get
<1>6. CASE Release(c)
  BY <1>0, <1>6 DEF Release
<1> QED BY <1>1, <1>2, <1>3, <1>4, <1>5, <1>6 DEF CallerStep

LEMMA WorkerEntryInv ==
  ASSUME CallInv, EntryInv, NEW c \in Calls, WorkerStep(c)
  PROVE  EntryInv'
<1> USE OwnInstances
    DEF CallInv, TypeOK, Course, InFlight, SenderGone, EntryInv, Entry, Promise, PromisesSettled
<1>1. CASE PickUp(c)
  BY <1>1 DEF PickUp
<1>2. CASE PushCall(c)
  BY <1>2 DEF PushCall
<1>3. CASE PushCallFails(c)
  BY <1>3 DEF PushCallFails
<1>4. CASE ReleaseFailed(c)
  BY <1>4 DEF ReleaseFailed
<1>5. CASE ReportFailure(c)
  BY <1>5 DEF ReportFailure, Complete
<1>6. CASE FailureCallbackReturns(c)
  BY <1>6 DEF FailureCallbackReturns
<1> QED BY <1>1, <1>2, <1>3, <1>4, <1>5, <1>6 DEF WorkerStep

LEMMA ResponseEntryInv ==
  ASSUME CallInv, EntryInv, NEW c \in Calls, ResponseStep(c)
  PROVE  EntryInv'
<1> USE OwnInstances
    DEF CallInv, TypeOK, Course, InFlight, SenderGone, EntryInv, Entry, Promise, PromisesSettled
<1>1. CASE PopCall(c)
  BY <1>1 DEF PopCall
<1>2. CASE RejectCall(c) \/ Respond(c) \/ RespondError(c)
  BY <1>2 DEF RejectCall, Respond, RespondError, SendResponse
<1>3. CASE PickUpResp(c) \/ PushResp(c)
  BY <1>3 DEF PickUpResp, PushResp, RespsClosed
<1>4. CASE Lose(c)
  BY <1>4 DEF Lose
<1>5. CASE PopResp(c)
  BY <1>5 DEF PopResp
<1>6. CASE Deliver(c) \/ DeliverUnread(c)
  BY <1>6 DEF Deliver, DeliverUnread, HandOver, Complete
<1>7. CASE CallbackReturns(c)
  BY <1>7 DEF CallbackReturns
<1> QED BY <1>1, <1>2, <1>3, <1>4, <1>5, <1>6, <1>7 DEF ResponseStep

LEMMA UninitEntryInv ==
  ASSUME CallInv, EntryInv, NEW i \in Instances, Cancel(i) \/ Stop(i)
  PROVE  EntryInv'
<1> USE OwnInstances
    DEF CallInv, TypeOK, Course, InFlight, SenderGone, EntryInv, Entry, Promise, PromisesSettled
<1>1. CASE Cancel(i)
  BY <1>1 DEF Cancel
<1>2. CASE ResetSender(i)
  BY <1>2 DEF ResetSender, SenderIdle, Listed, Lost, Break
<1>3. CASE StopCalls(i)
  BY <1>3 DEF StopCalls, Lost
<1>4. CASE StopResps(i)
  BY <1>4 DEF StopResps, RespsIdle, Entries, Lost, Break
<1> QED BY <1>1, <1>2, <1>3, <1>4 DEF Stop

LEMMA NextEntryInv == CallInv /\ EntryInv /\ [Next]_vars => EntryInv'
<1> SUFFICES ASSUME CallInv, EntryInv, [Next]_vars PROVE EntryInv'
  OBVIOUS
<1>1. CASE UNCHANGED vars
  BY <1>1 DEF vars, EntryInv, Entry, Promise, PromisesSettled
<1> QED BY <1>1, StepOfCall, CallerEntryInv, WorkerEntryInv, ResponseEntryInv, UninitEntryInv DEF Next

LEMMA EntryInvHolds == Spec => []EntryInv
  BY InitEntryInv, NextEntryInv, CallInvHolds, PTL DEF Spec

\* The response to a call that nobody released finds its entry.
THEOREM ResponsesFindCalls == Spec => []ResponseFindsCall
<1>1. CallInv /\ EntryInv => ResponseFindsCall
  BY DEF CallInv, Course, InFlight, EntryInv, Entry, Promise, ResponseFindsCall
<1> QED BY <1>1, CallInvHolds, EntryInvHolds, PTL

\* Nothing of a call is left in ongoingCalls_ when everybody is through with it,
\* if users release their asynchronous calls after they got the result.
THEOREM CallsDoNotLeak ==
  ASSUME EarlyRelease = FALSE
  PROVE  Spec => []NoCallLeaks
<1>1. EntryInv => NoCallLeaks
  BY DEF EntryInv, Entry, Promise, NoCallLeaks, Settled
<1> QED BY <1>1, EntryInvHolds, PTL

\* When uninit has returned, no future of the instance waits for good.
THEOREM UninitSettlesPromises == Spec => []PromisesSettled
<1>1. EntryInv => PromisesSettled
  BY DEF EntryInv
<1> QED BY <1>1, EntryInvHolds, PTL

-----------------------------------------------------------------------------
(* Threads that wait for each other. *)

\* As long as the instances of a call are up and nothing gets lost, a call that
\* is nowhere on its way has its result, or its user does not want it any more.
Answer(c) ==
    /\ send[c] = "callback" \/ at[c] = "callback" => result[c] # "none"
    /\ send[c] = "finished" /\ at[c] = "nowhere" => result[c] # "none" \/ SenderGone(From(c))
    /\ at[c] = "lost" => Losses \/ SenderGone(From(c)) \/ SenderGone(To(c))
    /\ at[c] = "over" => \/ result[c] # "none"
                         \/ Kind(c) # "callback" /\ user[c] = "done"
                         \/ SenderGone(From(c))

AnswerInv == \A c \in Calls : Answer(c)

LEMMA InitAnswerInv == Init => AnswerInv
  BY DEF Init, AnswerInv, Answer

LEMMA CallAnswerInv ==
  ASSUME CallInv, EntryInv, AnswerInv, NEW c \in Calls,
         CallerStep(c) \/ WorkerStep(c) \/ ResponseStep(c)
  PROVE  AnswerInv'
<1> USE OwnInstances
    DEF CallInv, TypeOK, Course, AnswerInv, Answer, SenderGone, CallsClosed, RespsClosed
<1>1. CASE CallerStep(c)
  <2>1. CASE Begin(c) \/ BeginRefused(c) \/ BeginThrows(c)
    BY <2>1 DEF Begin, BeginRefused, BeginThrows, MayBegin, Complete
  <2>2. CASE Get(c)
    BY <2>2 DEF Get, EntryInv, Promise
  <2>3. CASE Release(c)
    BY <2>3, RpcAssumption DEF Release, EntryInv, Promise
  <2>4. CASE InlineCallbackReturns(c) \/ InlineCallbackThrows(c)
    BY <2>4 DEF InlineCallbackReturns, InlineCallbackThrows, EntryInv, Promise
  <2>5. CASE InlineCallbackRunsAgain(c)
    BY <2>5 DEF InlineCallbackRunsAgain, Complete, EntryInv, Promise
  <2> QED BY <1>1, <2>1, <2>2, <2>3, <2>4, <2>5 DEF CallerStep
<1>2. CASE WorkerStep(c)
  <2>1. CASE PickUp(c) \/ PushCall(c) \/ PushCallFails(c) \/ ReleaseFailed(c)
    BY <2>1 DEF PickUp, PushCall, PushCallFails, ReleaseFailed
  <2>2. CASE ReportFailure(c) \/ FailureCallbackReturns(c)
    BY <2>2 DEF ReportFailure, FailureCallbackReturns, Complete
  <2> QED BY <1>2, <2>1, <2>2 DEF WorkerStep
<1>3. CASE ResponseStep(c)
  <2>1. CASE PopCall(c) \/ PickUpResp(c) \/ Lose(c)
    BY <2>1 DEF PopCall, PickUpResp, Lose
  <2>2. CASE RejectCall(c) \/ Respond(c) \/ RespondError(c) \/ PushResp(c)
    BY <2>2 DEF RejectCall, Respond, RespondError, SendResponse, PushResp
  <2>3. CASE PopResp(c)
    BY <2>3 DEF PopResp, EntryInv, Entry, InFlight
  <2>4. CASE Deliver(c) \/ DeliverUnread(c)
    BY <2>4 DEF Deliver, DeliverUnread, HandOver, Complete
  <2>5. CASE CallbackReturns(c)
    BY <2>5 DEF CallbackReturns
  <2> QED BY <1>3, <2>1, <2>2, <2>3, <2>4, <2>5 DEF ResponseStep
<1> QED BY <1>1, <1>2, <1>3

LEMMA UninitAnswerInv ==
  ASSUME CallInv, AnswerInv, NEW i \in Instances, Cancel(i) \/ Stop(i)
  PROVE  AnswerInv'
<1> USE OwnInstances DEF CallInv, TypeOK, Course, AnswerInv, Answer, SenderGone
<1>1. CASE Cancel(i)
  BY <1>1 DEF Cancel
<1>2. CASE ResetSender(i)
  BY <1>2 DEF ResetSender, SenderIdle, Listed, Lost, Break
<1>3. CASE StopCalls(i)
  BY <1>3 DEF StopCalls, Lost
<1>4. CASE StopResps(i)
  BY <1>4 DEF StopResps, RespsIdle, Entries, Lost, Break
<1> QED BY <1>1, <1>2, <1>3, <1>4 DEF Stop

LEMMA AnswerInvHolds == Spec => []AnswerInv
<1>1. CallInv /\ EntryInv /\ AnswerInv /\ [Next]_vars => AnswerInv'
  <2> SUFFICES ASSUME CallInv, EntryInv, AnswerInv, [Next]_vars PROVE AnswerInv'
    OBVIOUS
  <2>1. CASE UNCHANGED vars
    BY <2>1 DEF vars, AnswerInv, Answer, SenderGone
  <2> QED BY <2>1, StepOfCall, CallAnswerInv, UninitAnswerInv DEF Next
<1> QED BY <1>1, InitAnswerInv, CallInvHolds, EntryInvHolds, PTL DEF Spec

\* A call that holds a thread while its function or its callback makes calls.
Holds(c) == InFunction(c) \/ InCallback(c)

\* Where no thread is ready, a function or a callback is held up by a call it
\* made, which has no result, or whose own callback is held up.
LEMMA HeldByNested ==
  ASSUME CallInv, ~\E c \in Calls : Ready(c),
         NEW c \in Calls, NEW site \in {"function", "callback"},
         IF site = "function" THEN InFunction(c) ELSE InCallback(c)
  PROVE  \E d \in Calls : Parent(d) = c /\ Site(d) = site /\ (Unanswered(d) \/ InCallback(d))
<1>1. PICK d \in Calls : Parent(d) = c /\ Site(d) = site /\ user[d] # "done"
  BY DEF Ready, InFunction, NestedDone
<1>2. user[d] # "idle"
  BY <1>1 DEF Ready, MayBegin
<1>3. user[d] \in {"callback", "handler", "waiting", "holding", "got"}
  BY <1>1, <1>2 DEF CallInv, TypeOK
<1>4. user[d] \in {"waiting", "holding"} => result[d] = "none"
  BY DEF Ready
<1> QED BY <1>1, <1>3, <1>4 DEF Ready, Unanswered, InCallback

\* Then no pool is full: who holds a thread of it makes calls, and there are
\* more threads than such calls.
LEMMA FewerAreFew ==
  ASSUME NEW S \in SUBSET Calls, NEW T \in SUBSET S, NEW n \in Nat, Few(S, n)
  PROVE  Few(T, n)
<1>1. IsFiniteSet(S)
  BY NestingAssumption, FS_Subset
<1>2. IsFiniteSet(T) /\ Cardinality(T) \in Nat /\ Cardinality(S) \in Nat /\ Cardinality(T) <= Cardinality(S)
  BY <1>1, FS_Subset, FS_CardinalityType
<1> QED BY <1>2 DEF Few

LEMMA ThreadsAreFree ==
  ASSUME CallInv, PoolsSuffice, ~\E c \in Calls : Ready(c), NEW i \in Instances
  PROVE  FreeCallDispatcher(i) /\ FreeRespDispatcher(i) /\ FreeCallWorker(i) /\ FreeRespWorker(i)
<1> DEFINE functions == {c \in Callers("function") : To(c) = i}
           callbacks == {c \in Callers("callback") : From(c) = i}
<1>1. functions \in SUBSET Calls /\ callbacks \in SUBSET Calls
  BY RpcAssumption DEF Callers, Parent, Site
<1>2. /\ Few(functions, DispatcherThreads)
      /\ Few(callbacks, DispatcherThreads)
      /\ Few(callbacks, SenderThreads)
  BY DEF PoolsSuffice
<1>3. \A c \in Calls : at[c] = "running" => c \in Callers("function")
  BY HeldByNested DEF InFunction, Callers
<1>4. \A c \in Calls : InCallback(c) => c \in Callers("callback")
  BY HeldByNested DEF Callers
<1>5. FreeCallDispatcher(i)
  <2>1. {c \in Calls : To(c) = i /\ at[c] = "running"} \in SUBSET functions
    BY <1>3
  <2> HIDE DEF functions
  <2> QED BY <1>1, <1>2, <2>1, FewerAreFew, RpcAssumption DEF FreeCallDispatcher
<1>6. FreeRespDispatcher(i)
  <2>1. {c \in Calls : From(c) = i /\ at[c] \in {"delivering", "callback"}} \in SUBSET callbacks
    BY <1>4 DEF Ready, InCallback
  <2> HIDE DEF callbacks
  <2> QED BY <1>1, <1>2, <2>1, FewerAreFew, RpcAssumption DEF FreeRespDispatcher
<1>7. FreeCallWorker(i)
  <2>1. {c \in Calls : From(c) = i /\ send[c] \in {"sending", "failed", "released", "callback"}}
           \in SUBSET callbacks
    BY <1>4 DEF Ready, InCallback
  <2> HIDE DEF callbacks
  <2> QED BY <1>1, <1>2, <2>1, FewerAreFew, RpcAssumption DEF FreeCallWorker
<1>8. FreeRespWorker(i)
  <2>1. {c \in Calls : To(c) = i /\ at[c] = "answering"} = {}
    BY DEF Ready
  <2> QED BY <2>1, FS_EmptySet, RpcAssumption DEF FreeRespWorker, Few
<1> QED BY <1>5, <1>6, <1>7, <1>8

\* So whoever waits waits for a function that runs.
LEMMA WaitsForFunction ==
  ASSUME CallInv, AnswerInv, PoolsSuffice, ~Losses, \A i \in Instances : life[i] = "up",
         ~\E c \in Calls : Ready(c), NEW c \in Calls, Unanswered(c)
  PROVE  InFunction(c)
<1>1. user[c] # "idle" /\ result[c] = "none" /\ (user[c] # "done" \/ Kind(c) = "callback")
  BY DEF Unanswered
<1>2. ~SenderGone(From(c)) /\ ~SenderGone(To(c))
  BY OwnInstances DEF SenderGone
<1>3. send[c] = "finished"
  BY <1>1, OwnInstances, ThreadsAreFree DEF CallInv, TypeOK, Course, AnswerInv, Answer, Ready
<1>4. at[c] \notin {"nowhere", "callback", "over", "lost"}
  BY <1>1, <1>2, <1>3 DEF AnswerInv, Answer
<1>5. at[c] \notin {"callqueue", "resplist", "answering", "respqueue", "delivering"}
  BY OwnInstances, ThreadsAreFree DEF Ready
<1> QED BY <1>4, <1>5 DEF CallInv, TypeOK, InFunction

LEMMA LeastNumber ==
  ASSUME NEW T, T \subseteq Nat, T # {}
  PROVE  \E x \in T : \A y \in T : x <= y
<1> DEFINE R == OpToRel(<, Nat)
<1>1. \A x, y \in Nat : <<y, x>> \in R <=> y < x
  BY DEF OpToRel
<1>2. IsWellFoundedOn(R, Nat)
  BY NatLessThanWellFounded, Zenon
<1> HIDE DEF R
<1>3. PICK x \in T : \A y \in T : ~(<<y, x>> \in R)
  BY <1>2, WFMin
<1>4. \A y \in T : ~(y < x)
  BY <1>1, <1>3
<1>5. \A y \in T : x <= y
  BY <1>4
<1> QED BY <1>5

\* Threads never wait for each other in a circle: of the calls that hold threads
\* the most deeply nested one would be held up by a deeper one.
THEOREM NobodyWaitsInACircle == Spec => []NoStandstill
<1>1. CallInv /\ AnswerInv => NoStandstill
  <2> SUFFICES ASSUME CallInv, AnswerInv, PoolsSuffice, ~Losses,
                      \A i \in Instances : life[i] = "up",
                      NEW w \in Calls, Unanswered(w), ~\E c \in Calls : Ready(c)
               PROVE  FALSE
    BY DEF NoStandstill
  <2> DEFINE N == Cardinality(Calls)
             H == {c \in Calls : Holds(c)}
  <2>1. PICK depth \in [Calls -> 0 .. N] :
           \A c \in Calls : Info[c].site # "client" => depth[Info[c].parent] < depth[c]
    BY NestingAssumption
  <2>2. N \in Nat
    BY NestingAssumption, FS_CardinalityType
  <2>3. w \in H
    BY WaitsForFunction DEF Holds
  <2>4. \A c \in H : \E d \in H : depth[c] < depth[d]
    <3> SUFFICES ASSUME NEW c \in H PROVE \E d \in H : depth[c] < depth[d]
      OBVIOUS
    <3>1. PICK d \in Calls : Parent(d) = c /\ Site(d) # "client" /\ (Unanswered(d) \/ InCallback(d))
      BY HeldByNested DEF Holds
    <3>2. d \in H
      BY <3>1, WaitsForFunction DEF Holds
    <3> QED BY <2>1, <3>1, <3>2 DEF Parent, Site
  <2> DEFINE P == {N - depth[c] : c \in H}
  <2> HIDE DEF N
  <2>5. P \in SUBSET Nat /\ P # {}
    BY <2>1, <2>2, <2>3
  <2>6. PICK m \in P : \A n \in P : m <= n
    <3> HIDE DEF P
    <3> QED BY <2>5, LeastNumber
  <2>7. PICK c \in H : m = N - depth[c]
    BY <2>6
  <2>8. PICK d \in H : depth[c] < depth[d]
    BY <2>4
  <2>9. N - depth[d] \in P /\ depth[c] \in Nat /\ depth[d] \in Nat
    BY <2>1, <2>2, <2>8
  <2>10. m <= N - depth[d]
    <3> HIDE DEF P
    <3> QED BY <2>6, <2>9
  <2> QED BY <2>2, <2>7, <2>8, <2>9, <2>10
<1> QED BY <1>1, CallInvHolds, AnswerInvHolds, PTL

-----------------------------------------------------------------------------
(* Nothing goes back: why the program comes to rest. *)

UserRank(u) == CASE u = "idle" -> 0
                 [] u \in {"callback", "waiting", "holding"} -> 1
                 [] u \in {"got", "handler"} -> 2
                 [] u = "done" -> 3
SendRank(s) == CASE s = "idle" -> 0
                 [] s = "listed" -> 1
                 [] s = "sending" -> 2
                 [] s = "failed" -> 3
                 [] s = "released" -> 4
                 [] s = "callback" -> 5
                 [] s = "finished" -> 6
AtRank(a) == CASE a = "nowhere" -> 0
               [] a = "callqueue" -> 1
               [] a = "running" -> 2
               [] a = "resplist" -> 3
               [] a = "answering" -> 4
               [] a = "respqueue" -> 5
               [] a = "delivering" -> 6
               [] a = "callback" -> 7
               [] a \in {"over", "lost"} -> 8
LifeRank(l) == CASE l = "up" -> 0
                 [] l = "cancelled" -> 1
                 [] l = "nosender" -> 2
                 [] l = "nocalls" -> 3
                 [] l = "down" -> 4

\* How far a call is, of the 17 steps that there are for it at most.
Progress(c) == UserRank(user[c]) + SendRank(send[c]) + AtRank(at[c])

\* A step takes no call and no uninit back, and one of them further.
Advance ==
    /\ \A c \in Calls : Progress(c) <= Progress(c)'
    /\ \A i \in Instances : LifeRank(life[i]) <= LifeRank(life[i])'
    /\ \/ \E c \in Calls : Progress(c) < Progress(c)'
       \/ \E i \in Instances : LifeRank(life[i]) < LifeRank(life[i])'

LEMMA ProgressIsBounded ==
  TypeOK => /\ \A c \in Calls : Progress(c) \in 0 .. 17
            /\ \A i \in Instances : LifeRank(life[i]) \in 0 .. 4
<1> SUFFICES ASSUME TypeOK PROVE /\ \A c \in Calls : Progress(c) \in 0 .. 17
                                 /\ \A i \in Instances : LifeRank(life[i]) \in 0 .. 4
  OBVIOUS
<1>1. ASSUME NEW c \in Calls PROVE Progress(c) \in 0 .. 17
  <2>1. UserRank(user[c]) \in 0 .. 3
    BY DEF TypeOK, UserRank
  <2>2. SendRank(send[c]) \in 0 .. 6
    BY DEF TypeOK, SendRank
  <2>3. AtRank(at[c]) \in 0 .. 8
    BY DEF TypeOK, AtRank
  <2> QED BY <2>1, <2>2, <2>3 DEF Progress
<1>2. ASSUME NEW i \in Instances PROVE LifeRank(life[i]) \in 0 .. 4
  BY DEF TypeOK, LifeRank
<1> QED BY <1>1, <1>2

\* A step of a call takes that call further and leaves the others alone.
LEMMA CallAdvances ==
  ASSUME TypeOK, TypeOK', NEW c \in Calls, UNCHANGED life,
         \A d \in Calls : d # c => user'[d] = user[d] /\ send'[d] = send[d] /\ at'[d] = at[d],
         Progress(c) < Progress(c)'
  PROVE  Advance
<1>1. \A d \in Calls : Progress(d) \in Nat
  BY ProgressIsBounded
<1>2. \A d \in Calls : d # c => Progress(d)' = Progress(d)
  BY DEF Progress, UserRank, SendRank, AtRank
<1>3. \A i \in Instances : LifeRank(life[i]) <= LifeRank(life[i])'
  <2>1. \A i \in Instances : LifeRank(life[i]) \in Nat
    BY ProgressIsBounded
  <2>2. \A i \in Instances : LifeRank(life[i])' = LifeRank(life[i])
    BY DEF LifeRank
  <2> QED BY <2>1, <2>2
<1>4. Progress(c)' \in Nat
  <2>1. UserRank(user[c])' \in Nat /\ SendRank(send[c])' \in Nat
    BY DEF TypeOK, UserRank, SendRank
  <2>2. AtRank(at[c])' \in Nat
    BY DEF TypeOK, AtRank
  <2> QED BY <2>1, <2>2 DEF Progress
<1>5. \A d \in Calls : Progress(d) <= Progress(d)'
  BY <1>1, <1>2, <1>4
<1> QED BY <1>3, <1>5 DEF Advance

LEMMA CallerAdvances ==
  ASSUME CallInv, TypeOK', NEW c \in Calls, CallerStep(c)
  PROVE  Advance
<1> USE DEF CallInv, TypeOK, Progress, UserRank, SendRank, AtRank
<1>1. UNCHANGED life /\ \A d \in Calls : d # c => user'[d] = user[d] /\ send'[d] = send[d] /\ at'[d] = at[d]
  BY DEF CallerStep, Begin, BeginRefused, BeginThrows, InlineCallbackReturns,
         InlineCallbackRunsAgain, InlineCallbackThrows, Get, Release
<1>2. Progress(c) < Progress(c)'
  <2>1. CASE Begin(c) \/ BeginRefused(c) \/ BeginThrows(c)
    <3>1. Waits(c) \in {"waiting", "holding", "done"}
      BY RpcAssumption DEF Waits, Kinds, Kind
    <3>2. user[c] = "idle" /\ send[c] = "idle" /\ at[c] = "nowhere" /\ UNCHANGED at
      BY <2>1 DEF Begin, BeginRefused, BeginThrows, MayBegin, Course
    <3>3. /\ user'[c] \in {"waiting", "holding", "done", "callback", "handler"}
          /\ send'[c] \in {"listed", "finished"}
      BY <2>1, <3>1 DEF Begin, BeginRefused, BeginThrows
    <3> QED BY <3>2, <3>3
  <2>2. CASE InlineCallbackReturns(c) \/ InlineCallbackThrows(c)
    BY <2>2 DEF InlineCallbackReturns, InlineCallbackThrows
  <2>3. CASE InlineCallbackRunsAgain(c)
    BY <2>3 DEF InlineCallbackRunsAgain
  <2>4. CASE Get(c)
    BY <2>4 DEF Get
  <2>5. CASE Release(c)
    BY <2>5 DEF Release
  <2> QED BY <2>1, <2>2, <2>3, <2>4, <2>5 DEF CallerStep
<1> QED BY <1>1, <1>2, CallAdvances DEF CallInv

LEMMA WorkerAdvances ==
  ASSUME CallInv, TypeOK', NEW c \in Calls, WorkerStep(c)
  PROVE  Advance
<1> USE DEF CallInv, TypeOK, Progress, UserRank, SendRank, AtRank
<1>1. UNCHANGED life /\ \A d \in Calls : d # c => user'[d] = user[d] /\ send'[d] = send[d] /\ at'[d] = at[d]
  BY DEF WorkerStep, PickUp, PushCall, PushCallFails, ReleaseFailed, ReportFailure, FailureCallbackReturns
<1>2. Progress(c) < Progress(c)'
  <2>1. CASE PickUp(c) \/ PushCallFails(c) \/ ReleaseFailed(c)
    BY <2>1 DEF PickUp, PushCallFails, ReleaseFailed
  <2>2. CASE PushCall(c)
    <3>1. at[c] = "nowhere" /\ at'[c] \in {"lost", "callqueue"}
      BY <2>2 DEF PushCall, Course
    <3> QED BY <2>2, <3>1 DEF PushCall
  <2>3. CASE ReportFailure(c) \/ FailureCallbackReturns(c)
    BY <2>3 DEF ReportFailure, FailureCallbackReturns
  <2> QED BY <2>1, <2>2, <2>3 DEF WorkerStep
<1> QED BY <1>1, <1>2, CallAdvances DEF CallInv

LEMMA ResponseAdvances ==
  ASSUME CallInv, TypeOK', NEW c \in Calls, ResponseStep(c)
  PROVE  Advance
<1> USE DEF CallInv, TypeOK, Progress, UserRank, SendRank, AtRank
<1>1. UNCHANGED life /\ \A d \in Calls : d # c => user'[d] = user[d] /\ send'[d] = send[d] /\ at'[d] = at[d]
  BY DEF ResponseStep, PopCall, RejectCall, Respond, RespondError, SendResponse, PickUpResp,
         PushResp, Lose, PopResp, Deliver, DeliverUnread, HandOver, CallbackReturns
<1>2. UNCHANGED <<user, send>>
  BY DEF ResponseStep, PopCall, RejectCall, Respond, RespondError, SendResponse, PickUpResp,
         PushResp, Lose, PopResp, Deliver, DeliverUnread, HandOver, CallbackReturns
<1>3. Progress(c) < Progress(c)'
  <2>1. CASE PopCall(c)
    BY <1>2, <2>1 DEF PopCall
  <2>2. CASE RejectCall(c) \/ Respond(c) \/ RespondError(c)
    BY <1>2, <2>2 DEF RejectCall, Respond, RespondError, SendResponse
  <2>3. CASE PickUpResp(c) \/ PushResp(c) \/ Lose(c)
    BY <1>2, <2>3 DEF PickUpResp, PushResp, Lose
  <2>4. CASE PopResp(c) \/ CallbackReturns(c)
    BY <1>2, <2>4 DEF PopResp, CallbackReturns
  <2>5. CASE Deliver(c) \/ DeliverUnread(c)
    BY <1>2, <2>5 DEF Deliver, DeliverUnread, HandOver
  <2> QED BY <2>1, <2>2, <2>3, <2>4, <2>5 DEF ResponseStep
<1> QED BY <1>1, <1>3, CallAdvances DEF CallInv

\* A step of uninit takes several calls to their end.
LEMMA UninitAdvances ==
  ASSUME CallInv, NEW i \in Instances, Cancel(i) \/ Stop(i)
  PROVE  Advance
<1> USE DEF CallInv, TypeOK
<1>1. UNCHANGED user
  BY DEF Cancel, Stop, ResetSender, StopCalls, StopResps
<1>2. \A c \in Calls : /\ send'[c] = send[c] \/ (send[c] = "listed" /\ send'[c] = "finished")
                       /\ at'[c] = at[c]
                            \/ (at[c] \in {"resplist", "callqueue", "respqueue"} /\ at'[c] = "lost")
  BY DEF Cancel, Stop, ResetSender, StopCalls, StopResps, Listed, Lost
<1>3. \A c \in Calls : Progress(c) <= Progress(c)'
  BY <1>1, <1>2 DEF Progress, UserRank, SendRank, AtRank
<1>4. \A j \in Instances : j # i => life'[j] = life[j]
  BY DEF Cancel, Stop, ResetSender, StopCalls, StopResps
<1>5. LifeRank(life[i]) < LifeRank(life[i])'
  BY DEF Cancel, Stop, ResetSender, StopCalls, StopResps, LifeRank
<1>6. ASSUME NEW j \in Instances PROVE LifeRank(life[j]) <= LifeRank(life[j])'
  <2>1. CASE j = i
    BY <2>1 DEF Cancel, Stop, ResetSender, StopCalls, StopResps, LifeRank
  <2>2. CASE j # i
    <3>1. LifeRank(life[j])' = LifeRank(life[j])
      BY <1>4, <2>2 DEF LifeRank
    <3>2. LifeRank(life[j]) \in Nat
      BY ProgressIsBounded
    <3> QED BY <3>1, <3>2
  <2> QED BY <2>1, <2>2
<1>7. \E j \in Instances : LifeRank(life[j]) < LifeRank(life[j])'
  BY <1>5
<1> QED BY <1>3, <1>6, <1>7 DEF Advance

\* No call is taken up, sent or answered again: every step is one of at most 17
\* that there are for each call and four for each instance. So the program
\* comes to rest, and where it rests without a loss and without uninit, with
\* pools that suffice, nobody waits (NobodyWaitsInACircle).
THEOREM EveryStepAdvances == Spec => [][Advance]_vars
<1>1. CallInv /\ CallInv' /\ [Next]_vars => [Advance]_vars
  <2> SUFFICES ASSUME CallInv, TypeOK', Next PROVE Advance
    BY DEF CallInv
  <2> QED BY StepOfCall, CallerAdvances, WorkerAdvances, ResponseAdvances, UninitAdvances DEF Next
<1> QED BY <1>1, CallInvHolds, PTL DEF Spec

-----------------------------------------------------------------------------
(* Every step is one of RemoteCall, or none. *)

\* What a step of call c does to what the callers know.
LEMMA PhaseMoves ==
  ASSUME CallInv, NEW c \in Calls, NEW p,
         \A d \in Calls : d # c => user'[d] = user[d] /\ result'[d] = result[d],
         p = (IF result'[c] # "none" THEN result'[c] ELSE IF user'[c] = "idle" THEN "idle" ELSE "open")
  PROVE  Phase' = [Phase EXCEPT ![c] = p]
  BY DEF Phase

LEMMA PhaseStays ==
  ASSUME CallInv, UNCHANGED result, \A c \in Calls : user'[c] = "idle" <=> user[c] = "idle"
  PROVE  Phase' = Phase
  BY DEF Phase

LEMMA InitMapped == Init => Contract!Init
  BY DEF Init, Contract!Init, Phase

LEMMA CallerMapped ==
  ASSUME CallInv, NEW c \in Calls, CallerStep(c)
  PROVE  [Contract!Next]_(Contract!vars)
<1>0. Waits(c) \in {"waiting", "holding", "done"}
  BY RpcAssumption DEF Waits, Kinds, Kind
<1>1. CASE Begin(c)
  <2>1. Phase' = [Phase EXCEPT ![c] = "open"]
    BY <1>0, <1>1, PhaseMoves DEF Begin, MayBegin, CallInv, Course, TypeOK
  <2>2. Phase[c] = "idle" /\ ran' = ran
    BY <1>1 DEF Begin, MayBegin, CallInv, Course, Phase
  <2> QED BY <2>1, <2>2 DEF Contract!Next, Contract!Open, Contract!Become
<1>2. CASE BeginRefused(c) \/ BeginThrows(c)
  <2>1. Phase' = [Phase EXCEPT ![c] = "unsent"]
    BY <1>2, PhaseMoves DEF BeginRefused, BeginThrows, Complete, CallInv, TypeOK
  <2>2. Phase[c] = "idle" /\ ran' = ran
    BY <1>2 DEF BeginRefused, BeginThrows, MayBegin, CallInv, Course, Phase
  <2> QED BY <2>1, <2>2 DEF Contract!Next, Contract!Refuse, Contract!Become
<1>3. CASE InlineCallbackRunsAgain(c)
  <2>1. UNCHANGED result /\ \A d \in Calls : user'[d] = "idle" <=> user[d] = "idle"
    BY <1>3 DEF InlineCallbackRunsAgain, Complete, CallInv, Course, TypeOK
  <2>2. Phase' = Phase /\ ran' = ran
    BY <1>3, <2>1, PhaseStays DEF InlineCallbackRunsAgain
  <2> QED BY <2>2 DEF Contract!vars
<1>4. CASE InlineCallbackReturns(c) \/ InlineCallbackThrows(c) \/ Get(c) \/ Release(c)
  <2>1. Phase' = Phase /\ ran' = ran
    BY <1>4, PhaseStays DEF InlineCallbackReturns, InlineCallbackThrows, Get, Release, CallInv, TypeOK
  <2> QED BY <2>1 DEF Contract!vars
<1> QED BY <1>1, <1>2, <1>3, <1>4 DEF CallerStep

LEMMA WorkerMapped ==
  ASSUME CallInv, NEW c \in Calls, WorkerStep(c)
  PROVE  [Contract!Next]_(Contract!vars)
<1>1. CASE ReportFailure(c)
  <2>1. Phase' = [Phase EXCEPT ![c] = "unsent"]
    BY <1>1, PhaseMoves DEF ReportFailure, Complete, CallInv, TypeOK
  <2>2. Phase[c] = "open" /\ c \notin ran /\ ran' = ran
    BY <1>1 DEF ReportFailure, CallInv, Course, Phase
  <2> QED BY <2>1, <2>2 DEF Contract!Next, Contract!Fail, Contract!Become
<1>2. CASE ~ReportFailure(c)
  <2>1. Phase' = Phase /\ ran' = ran
    BY <1>2, PhaseStays
       DEF WorkerStep, PickUp, PushCall, PushCallFails, ReleaseFailed, FailureCallbackReturns
  <2> QED BY <2>1 DEF Contract!vars
<1> QED BY <1>1, <1>2

LEMMA ResponseMapped ==
  ASSUME CallInv, NEW c \in Calls, ResponseStep(c)
  PROVE  [Contract!Next]_(Contract!vars)
<1>1. CASE PopCall(c)
  <2>1. Phase' = Phase /\ ran' = ran \cup {c}
    BY <1>1, PhaseStays DEF PopCall
  <2>2. Phase[c] \in {"open", "broken"} /\ c \notin ran
    BY <1>1 DEF PopCall, CallInv, Course, InFlight, Phase
  <2> QED BY <2>1, <2>2 DEF Contract!Next, Contract!Run
<1>2. CASE Deliver(c) \/ DeliverUnread(c)
  <2>1. PICK r \in {"value", "remote", "unread"} : HandOver(c, r) /\ (r = "value" => answer[c] = "value")
    BY <1>2 DEF Deliver, DeliverUnread, HandOver, CallInv, TypeOK, Course
  <2>2. Phase' = [Phase EXCEPT ![c] = r]
    BY <2>1, PhaseMoves DEF HandOver, Complete, CallInv, TypeOK
  <2>3. Phase[c] = "open" /\ ran' = ran /\ (r = "value" => c \in ran)
    BY <2>1 DEF HandOver, CallInv, Course, InFlight, Phase
  <2> QED BY <2>1, <2>2, <2>3
          DEF Contract!Next, Contract!Return, Contract!ReturnError, Contract!LoseAnswer, Contract!Become
<1>3. CASE ~PopCall(c) /\ ~Deliver(c) /\ ~DeliverUnread(c)
  <2>1. Phase' = Phase /\ ran' = ran
    BY <1>3, PhaseStays
       DEF ResponseStep, RejectCall, Respond, RespondError, SendResponse, PickUpResp, PushResp, Lose,
           PopResp, CallbackReturns
  <2> QED BY <2>1 DEF Contract!vars
<1> QED BY <1>1, <1>2, <1>3

\* uninit breaks the promises of open calls, several at a time.
LEMMA UninitMapped ==
  ASSUME CallInv, NEW i \in Instances, Cancel(i) \/ Stop(i)
  PROVE  [Contract!Next]_(Contract!vars)
<1>1. CASE Cancel(i) \/ StopCalls(i)
  BY <1>1 DEF Cancel, StopCalls, Contract!vars, Phase
<1>2. ASSUME NEW S \in SUBSET Calls, Break(S), UNCHANGED <<user, ran>>, \A c \in S : user[c] # "idle"
      PROVE  [Contract!Next]_(Contract!vars)
  <2> DEFINE broken == {c \in S : Kind(c) # "callback" /\ result[c] = "none"}
  <2>1. \A c \in broken : Phase[c] = "open"
    BY <1>2 DEF Phase
  <2>2. Phase' = [c \in Calls |-> IF c \in broken THEN "broken" ELSE Phase[c]]
    BY <1>2 DEF Phase, Break
  <2>3. Contract!Break(broken)
    BY <1>2, <2>1, <2>2 DEF Contract!Break
  <2> QED BY <2>3 DEF Contract!Next
<1>3. CASE ResetSender(i)
  BY <1>2, <1>3 DEF ResetSender, Listed, CallInv, Course
<1>4. CASE StopResps(i)
  BY <1>2, <1>4 DEF StopResps, Entries, CallInv, Course, TypeOK
<1> QED BY <1>1, <1>3, <1>4 DEF Stop

LEMMA NextMapped == CallInv /\ [Next]_vars => [Contract!Next]_(Contract!vars)
<1> SUFFICES ASSUME CallInv, [Next]_vars PROVE [Contract!Next]_(Contract!vars)
  OBVIOUS
<1>1. CASE UNCHANGED vars
  BY <1>1 DEF vars, Contract!vars, Phase
<1> QED BY <1>1, StepOfCall, CallerMapped, WorkerMapped, ResponseMapped, UninitMapped DEF Next

\* The function of a call runs at most once, and not after its caller was
\* answered. A caller gets a value only of a function that ran, and is told that
\* the call was not sent only when the function did not run and never will. An
\* error of the target, an answer that cannot be unpacked and the broken promise of
\* an instance that went away say nothing of that; and what a caller got never
\* changes.
THEOREM RpcImplementsRemoteCall == Spec => ImplementsRemoteCall
  BY InitMapped, NextMapped, CallInvHolds, PTL
     DEF Spec, ImplementsRemoteCall, Contract!Spec
=============================================================================
