--------------------------- MODULE SendListProofs ---------------------------
(***************************************************************************)
(* Proofs about SendList, for any number of workers, calls and responses,  *)
(* wherever additions and uninit fall: the types, that no item is          *)
(* overlooked, that each item is in one place, and that uninit frees every *)
(* call that was there when it began.                                      *)
(***************************************************************************)
EXTENDS SendList, TLAPS

-----------------------------------------------------------------------------
(* Types *)

LEMMA KindsAndPools ==
  /\ \A i \in Items : KindOf(i) \in Kinds /\ i \in ItemsOf(KindOf(i))
  /\ \A w \in Workers : PoolOf(w) \in Kinds
  /\ \A k \in Kinds : ItemsOf(k) \subseteq Items
  BY DEF KindOf, PoolOf, Kinds, Items, ItemsOf

LEMMA InitTypeOK == Init => TypeOK
<1> SUFFICES ASSUME Init PROVE TypeOK
  OBVIOUS
<1>1. list \in [Kinds -> Seq(Items)] /\ \A k \in Kinds : Contents(k) \subseteq ItemsOf(k)
  BY DEF Init, Contents
<1>2. Nothing \notin Items
  BY SendListAssumption
<1> QED BY <1>1, <1>2 DEF Init, TypeOK, OwnerPcs

\* What is on the list after an item has been put on it, or taken off it.
LEMMA AppendContents ==
  ASSUME TypeOK, NEW k \in Kinds, NEW i \in ItemsOf(k), list' = [list EXCEPT ![k] = Append(@, i)]
  PROVE  /\ list' \in [Kinds -> Seq(Items)]
         /\ \A j \in Kinds : Contents(j)' \subseteq ItemsOf(j)
<1>1. i \in Items /\ list[k] \in Seq(Items)
  BY KindsAndPools DEF TypeOK
<1>2. Append(list[k], i) \in Seq(Items)
  BY <1>1
<1>3. list' \in [Kinds -> Seq(Items)]
  BY <1>2 DEF TypeOK
<1>4. Contents(k)' \subseteq ItemsOf(k)
  <2>1. list'[k] = Append(list[k], i)
    BY DEF TypeOK
  <2>2. \A n \in 1 .. Len(list[k]) : list[k][n] \in ItemsOf(k)
    BY DEF TypeOK, Contents
  <2>3. \A n \in 1 .. Len(list'[k]) : list'[k][n] \in ItemsOf(k)
    BY <1>1, <2>1, <2>2
  <2> QED BY <2>3 DEF Contents
<1>5. \A j \in Kinds : j # k => Contents(j)' = Contents(j)
  BY DEF TypeOK, Contents
<1> QED BY <1>3, <1>4, <1>5 DEF TypeOK

LEMMA TailContents ==
  ASSUME TypeOK, NEW k \in Kinds, list[k] # <<>>, list' = [list EXCEPT ![k] = Tail(@)]
  PROVE  /\ list' \in [Kinds -> Seq(Items)]
         /\ \A j \in Kinds : Contents(j)' \subseteq ItemsOf(j)
         /\ Head(list[k]) \in ItemsOf(k)
<1>1. list[k] \in Seq(Items) /\ Len(list[k]) \in Nat \ {0}
  BY DEF TypeOK
<1>2. Tail(list[k]) \in Seq(Items)
  BY <1>1
<1>3. list' \in [Kinds -> Seq(Items)]
  BY <1>2 DEF TypeOK
<1>4. \A n \in 1 .. Len(list[k]) : list[k][n] \in ItemsOf(k)
  BY DEF TypeOK, Contents
<1>5. Contents(k)' \subseteq ItemsOf(k)
  <2>1. list'[k] = Tail(list[k])
    BY DEF TypeOK
  <2>2. \A n \in 1 .. Len(list'[k]) : list'[k][n] \in ItemsOf(k)
    BY <1>1, <1>4, <2>1
  <2> QED BY <2>2 DEF Contents
<1>6. \A j \in Kinds : j # k => Contents(j)' = Contents(j)
  BY DEF TypeOK, Contents
<1>7. Head(list[k]) \in ItemsOf(k)
  BY <1>1, <1>4
<1> QED BY <1>3, <1>5, <1>6, <1>7 DEF TypeOK

LEMMA EmptyContents ==
  ASSUME TypeOK, NEW k \in Kinds, list' = [list EXCEPT ![k] = <<>>]
  PROVE  /\ list' \in [Kinds -> Seq(Items)]
         /\ \A j \in Kinds : Contents(j)' \subseteq ItemsOf(j)
<1>1. list' \in [Kinds -> Seq(Items)]
  BY DEF TypeOK
<1>2. Contents(k)' = {}
  BY DEF TypeOK, Contents
<1>3. \A j \in Kinds : j # k => Contents(j)' = Contents(j)
  BY DEF TypeOK, Contents
<1> QED BY <1>1, <1>2, <1>3 DEF TypeOK

LEMMA AdderTypeOK ==
  ASSUME TypeOK, NEW i \in Items, Emplace(i) \/ SetEvent(i)
  PROVE  TypeOK'
<1>1. CASE Emplace(i)
  <2>1. /\ list' \in [Kinds -> Seq(Items)]
        /\ \A k \in Kinds : Contents(k)' \subseteq ItemsOf(k)
    BY <1>1, KindsAndPools, AppendContents DEF Emplace
  <2> QED BY <1>1, <2>1 DEF Emplace, TypeOK, OwnerPcs, ItemsOf
<1>2. CASE SetEvent(i)
  BY <1>2, KindsAndPools DEF SetEvent, TypeOK, OwnerPcs, Contents
<1> QED BY <1>1, <1>2

LEMMA WorkerTypeOK ==
  ASSUME TypeOK, NEW w \in Workers, WorkerStep(w)
  PROVE  TypeOK'
<1>1. UNCHANGED list => \A k \in Kinds : Contents(k)' = Contents(k)
  BY DEF Contents
<1>2. CASE Wake(w) \/ CheckCancelled(w) \/ CheckCancelledAgain(w) \/ FindEmpty(w)
  BY <1>1, <1>2 DEF Wake, CheckCancelled, CheckCancelledAgain, FindEmpty, Goto, TypeOK, OwnerPcs
<1>3. CASE Unset(w)
  BY <1>1, <1>3, KindsAndPools DEF Unset, Goto, TypeOK, OwnerPcs
<1>4. CASE TakeOff(w)
  <2>1. /\ list' \in [Kinds -> Seq(Items)]
        /\ \A k \in Kinds : Contents(k)' \subseteq ItemsOf(k)
        /\ Head(list[PoolOf(w)]) \in ItemsOf(PoolOf(w))
    BY <1>4, KindsAndPools, TailContents DEF TakeOff
  <2>2. PICK h \in Items : h = Head(list[PoolOf(w)]) /\ h # Nothing
    BY <2>1, KindsAndPools, SendListAssumption
  <2>3. cur' = [cur EXCEPT ![w] = h]
    BY <1>4, <2>2 DEF TakeOff
  <2>4. UNCHANGED <<isSet, isCancelled, adding, freed, owner, late>> /\ pc' = [pc EXCEPT ![w] = "send"]
    BY <1>4 DEF TakeOff, Goto
  <2> QED BY <2>1, <2>2, <2>3, <2>4 DEF TypeOK, ItemsOf
<1>5. CASE SendAndFree(w)
  <2>1. cur[w] \in Items
    BY <1>5 DEF SendAndFree, TypeOK
  <2> QED BY <1>1, <1>5, <2>1 DEF SendAndFree, Goto, TypeOK, OwnerPcs
<1> QED BY <1>2, <1>3, <1>4, <1>5 DEF WorkerStep

LEMMA OwnerTypeOK ==
  ASSUME TypeOK, Uninit \/ OwnerStep
  PROVE  TypeOK'
<1>1. UNCHANGED list => \A k \in Kinds : Contents(k)' = Contents(k)
  BY DEF Contents
<1>2. \A k \in Kinds : Contents(k) \subseteq Items
  BY KindsAndPools DEF TypeOK
<1>3. CASE Uninit \/ JoinCallWorkers \/ JoinRespWorkers \/ FreeResps \/ ResetSender
  BY <1>1, <1>3 DEF Uninit, JoinCallWorkers, JoinRespWorkers, FreeResps, ResetSender,
                    OwnerGoto, TypeOK, OwnerPcs
<1>4. CASE CancelCalls \/ CancelResps
  BY <1>1, <1>4 DEF CancelCalls, CancelResps, OwnerGoto, TypeOK, OwnerPcs
<1>5. CASE FreeCalls \/ FreeRespsRunsAway
  <2>1. /\ list' \in [Kinds -> Seq(Items)]
        /\ \A k \in Kinds : Contents(k)' \subseteq ItemsOf(k)
    BY <1>5, EmptyContents DEF FreeCalls, FreeRespsRunsAway, Kinds
  <2> QED BY <1>2, <1>5, <2>1 DEF FreeCalls, FreeRespsRunsAway, OwnerGoto, TypeOK, OwnerPcs, Kinds
<1> QED BY <1>3, <1>4, <1>5 DEF OwnerStep

LEMMA NextTypeOK == TypeOK /\ [Next]_vars => TypeOK'
<1> SUFFICES ASSUME TypeOK, [Next]_vars PROVE TypeOK'
  OBVIOUS
<1>1. CASE UNCHANGED vars
  BY <1>1 DEF vars, TypeOK, Contents
<1> QED BY <1>1, AdderTypeOK, WorkerTypeOK, OwnerTypeOK DEF Next

\* Every variable keeps to its type: a worker has an item in hand exactly while
\* it sends, and each list holds items of its own kind.
THEOREM SendListTypes == Spec => []TypeOK
  BY InitTypeOK, NextTypeOK, PTL DEF Spec

-----------------------------------------------------------------------------
(* No item is overlooked. *)

LEMMA AdderWakeup ==
  ASSUME TypeOK, NoLostWakeup, NEW i \in Items, Emplace(i) \/ SetEvent(i)
  PROVE  NoLostWakeup'
<1> SUFFICES ASSUME NEW k \in Kinds, list'[k] # <<>> PROVE isCancelled'[k] \/ WillLook(k)'
  BY DEF NoLostWakeup
<1>1. CASE KindOf(i) = k
  <2>1. i \in ItemsOf(k)
    BY <1>1, KindsAndPools
  <2>2. CASE Emplace(i)
    <3>1. adding'[i] = "emplaced"
      BY <2>2 DEF Emplace, TypeOK
    <3> QED BY <2>1, <3>1 DEF WillLook
  <2>3. CASE SetEvent(i)
    <3>1. isSet'[k] = TRUE
      BY <1>1, <2>3 DEF SetEvent, TypeOK
    <3> QED BY <3>1 DEF WillLook
  <2> QED BY <2>2, <2>3
<1>2. CASE KindOf(i) # k
  <2>1. /\ list'[k] = list[k] /\ isSet'[k] = isSet[k]
        /\ UNCHANGED <<isCancelled, pc>>
    BY <1>2 DEF Emplace, SetEvent, TypeOK
  <2>2. \A j \in ItemsOf(k) : adding'[j] = adding[j]
    BY <1>2, SendListAssumption DEF Emplace, SetEvent, TypeOK, ItemsOf, KindOf, Kinds, Items
  <2> QED BY <2>1, <2>2 DEF NoLostWakeup, WillLook
<1> QED BY <1>1, <1>2

\* A worker that still looks, or leaves when its event is cancelled.
LEMMA WorkerWakeup ==
  ASSUME TypeOK, NoLostWakeup, NEW w \in Workers, WorkerStep(w)
  PROVE  NoLostWakeup'
<1> SUFFICES ASSUME NEW k \in Kinds, list'[k] # <<>> PROVE isCancelled'[k] \/ WillLook(k)'
  BY DEF NoLostWakeup
<1>0. PoolOf(w) \in Kinds /\ UNCHANGED <<isCancelled, adding>>
  BY KindsAndPools
     DEF WorkerStep, Wake, CheckCancelled, Unset, CheckCancelledAgain, TakeOff, FindEmpty, SendAndFree
<1>1. \A v \in Workers : v # w => pc'[v] = pc[v]
  BY DEF TypeOK, Goto, WorkerStep, Wake, CheckCancelled, Unset, CheckCancelledAgain,
         TakeOff, FindEmpty, SendAndFree
<1>2. CASE PoolOf(w) # k
  <2>1. list'[k] = list[k] /\ isSet'[k] = isSet[k]
    BY <1>0, <1>2 DEF TypeOK, WorkerStep, Wake, CheckCancelled, Unset, CheckCancelledAgain,
                      TakeOff, FindEmpty, SendAndFree
  <2> QED BY <1>0, <1>1, <1>2, <2>1 DEF NoLostWakeup, WillLook
<1>3. CASE PoolOf(w) = k
  <2>1. CASE pc'[w] \in {"unset", "next", "take", "send"}
    BY <1>3, <2>1 DEF WillLook
  <2>2. CASE pc'[w] \notin {"unset", "next", "take", "send"}
    <3>1. CASE Wake(w)
      <4>1. UNCHANGED <<list, isSet>> /\ pc[w] = "wait"
        BY <3>1 DEF Wake
      <4> QED BY <1>0, <1>1, <4>1 DEF NoLostWakeup, WillLook
    <3>2. CASE CheckCancelled(w) \/ CheckCancelledAgain(w)
      BY <1>0, <1>3, <2>2, <3>2 DEF CheckCancelled, CheckCancelledAgain, Cancelled, Goto, TypeOK
    <3>3. CASE FindEmpty(w)
      BY <1>3, <3>3 DEF FindEmpty
    <3>4. CASE Unset(w) \/ TakeOff(w) \/ SendAndFree(w)
      BY <2>2, <3>4 DEF Unset, TakeOff, SendAndFree, Goto, TypeOK
    <3> QED BY <3>1, <3>2, <3>3, <3>4 DEF WorkerStep
  <2> QED BY <2>1, <2>2
<1> QED BY <1>2, <1>3

LEMMA OwnerWakeup ==
  ASSUME TypeOK, NoLostWakeup, Uninit \/ OwnerStep
  PROVE  NoLostWakeup'
<1>1. /\ UNCHANGED <<isSet, adding, pc>>
      /\ \A k \in Kinds : /\ isCancelled[k] => isCancelled'[k]
                          /\ list'[k] = list[k] \/ list'[k] = <<>>
  BY DEF TypeOK, Kinds, Uninit, OwnerStep, CancelCalls, CancelResps, JoinCallWorkers, JoinRespWorkers,
         FreeCalls, FreeResps, FreeRespsRunsAway, ResetSender
<1> QED BY <1>1 DEF NoLostWakeup, WillLook

\* An item on a list that was not cancelled is never overlooked, however the
\* additions fall between the clearing of the flag and the look at the list.
THEOREM NothingOverlooked == Spec => []NoLostWakeup
<1>1. Init => NoLostWakeup
  BY DEF Init, NoLostWakeup
<1>2. TypeOK /\ NoLostWakeup /\ [Next]_vars => NoLostWakeup'
  <2> SUFFICES ASSUME TypeOK, NoLostWakeup, [Next]_vars PROVE NoLostWakeup'
    OBVIOUS
  <2>1. CASE UNCHANGED vars
    BY <2>1 DEF vars, NoLostWakeup, WillLook
  <2> QED BY <2>1, AdderWakeup, WorkerWakeup, OwnerWakeup DEF Next
<1> QED BY <1>1, <1>2, SendListTypes, PTL DEF Spec

-----------------------------------------------------------------------------
(* Each item is in one place. An item that nobody has added is in none.    *)

NewInv ==
    \A i \in Items : adding[i] = "begin" => Places(i) = {} /\ Holding(i) = {} /\ i \notin freed

PlaceInv == OnePlaceOnly /\ NewInv

\* What the invariant says of one item.
InOnePlace(i) ==
    /\ \A m, n \in Places(i) : m = n
    /\ \A v, w \in Holding(i) : v = w
    /\ Places(i) # {} => Holding(i) = {} /\ i \notin freed
    /\ Holding(i) # {} => i \notin freed
    /\ adding[i] = "begin" => Places(i) = {} /\ Holding(i) = {} /\ i \notin freed

LEMMA PlaceByItem == PlaceInv <=> \A i \in Items : InOnePlace(i)
  BY DEF PlaceInv, NewInv, OnePlaceOnly, InOnePlace

LEMMA AdderPlace ==
  ASSUME TypeOK, NEW i \in Items, Emplace(i) \/ SetEvent(i), NEW j \in Items, InOnePlace(j)
  PROVE  InOnePlace(j)'
<1>1. CASE SetEvent(i)
  BY <1>1 DEF SetEvent, InOnePlace, Places, Holding, TypeOK
<1>2. CASE Emplace(i) /\ j # i
  <2>1. Places(j)' = Places(j)
    <3>1. CASE KindOf(j) = KindOf(i)
      <4>1. list'[KindOf(j)] = Append(list[KindOf(j)], i) /\ list[KindOf(j)] \in Seq(Items)
        BY <1>2, <3>1, KindsAndPools DEF Emplace, TypeOK
      <4> QED BY <1>2, <4>1 DEF Places
    <3>2. CASE KindOf(j) # KindOf(i)
      <4>1. list'[KindOf(j)] = list[KindOf(j)]
        BY <1>2, <3>2, KindsAndPools DEF Emplace, TypeOK
      <4> QED BY <4>1 DEF Places
    <3> QED BY <3>1, <3>2
  <2> QED BY <1>2, <2>1 DEF Emplace, InOnePlace, Holding, TypeOK
<1>3. CASE Emplace(i) /\ j = i
  <2>1. list'[KindOf(i)] = Append(list[KindOf(i)], i) /\ list[KindOf(i)] \in Seq(Items)
    BY <1>3, KindsAndPools DEF Emplace, TypeOK
  <2>2. Places(i) = {} /\ Holding(i) = {} /\ i \notin freed
    BY <1>3 DEF Emplace, InOnePlace
  <2>3. Places(i)' = {Len(list[KindOf(i)]) + 1}
    BY <2>1, <2>2 DEF Places
  <2> QED BY <1>3, <2>2, <2>3 DEF Emplace, InOnePlace, Holding, TypeOK
<1> QED BY <1>1, <1>2, <1>3

LEMMA KindOfListed ==
  ASSUME NEW k \in Kinds, NEW i \in ItemsOf(k)
  PROVE  i \in Items /\ KindOf(i) = k /\ i # Nothing
  BY SendListAssumption DEF Kinds, ItemsOf, KindOf, Items

LEMMA TakeOffPlace ==
  ASSUME TypeOK, NEW w \in Workers, TakeOff(w),
         \A i \in Items : InOnePlace(i), NEW j \in Items
  PROVE  InOnePlace(j)'
<1> DEFINE k == PoolOf(w)
           h == Head(list[k])
<1>1. /\ k \in Kinds /\ list[k] \in Seq(Items) /\ list[k] # <<>>
      /\ list' = [list EXCEPT ![k] = Tail(@)]
      /\ cur[w] = Nothing /\ cur' = [cur EXCEPT ![w] = h]
      /\ UNCHANGED <<adding, freed>>
  BY KindsAndPools DEF TakeOff, TypeOK
<1>2. h \in Items /\ KindOf(h) = k /\ h # Nothing
  BY <1>1, TailContents, KindOfListed
<1>3. j # h => Holding(j)' = Holding(j)
  BY <1>1, SendListAssumption DEF Holding, TypeOK
<1>4. /\ Len(list[k]) \in Nat \ {0} /\ list[k][1] = h
      /\ list'[k] = Tail(list[k]) /\ Len(list'[k]) = Len(list[k]) - 1
      /\ \A n \in 1 .. Len(list[k]) - 1 : list'[k][n] = list[k][n + 1]
  BY <1>1 DEF TypeOK
<1>5. CASE KindOf(j) # k
  <2>1. Places(j)' = Places(j)
    BY <1>1, <1>5, KindsAndPools DEF Places, TypeOK
  <2> QED BY <1>1, <1>2, <1>3, <1>5, <2>1 DEF InOnePlace
<1> HIDE DEF h, k
<1>6. CASE KindOf(j) = k
  <2>1. ASSUME NEW n \in Places(j)' PROVE n \in Nat /\ n + 1 \in Places(j) /\ n + 1 # 1
    <3>1. n \in 1 .. Len(list'[k]) /\ list'[k][n] = j
      BY <1>6 DEF Places
    <3>2. n \in 1 .. Len(list[k]) - 1 /\ n + 1 \in 1 .. Len(list[k])
      BY <1>4, <3>1
    <3>3. list[k][n + 1] = j
      BY <1>4, <3>1, <3>2
    <3> QED BY <1>6, <3>2, <3>3 DEF Places
  <2>2. CASE j # h
    <3>1. Places(j)' # {} => Places(j) # {}
      BY <2>1
    <3>2. \A m, n \in Places(j)' : m = n
      BY <2>1 DEF InOnePlace
    <3> QED BY <1>1, <1>3, <2>2, <3>1, <3>2 DEF InOnePlace
  <2>3. CASE j = h
    <3>1. 1 \in Places(j)
      BY <1>2, <1>4, <2>3 DEF Places
    <3>2. Places(j)' = {}
      BY <2>1, <3>1 DEF InOnePlace
    <3>3. Holding(j) = {} /\ j \notin freed /\ adding[j] # "begin"
      BY <3>1 DEF InOnePlace
    <3>4. Holding(j)' \subseteq {w}
      BY <1>1, <2>3, <3>3 DEF Holding, TypeOK
    <3> QED BY <1>1, <3>2, <3>3, <3>4 DEF InOnePlace
  <2> QED BY <2>2, <2>3
<1> QED BY <1>5, <1>6

LEMMA WorkerPlace ==
  ASSUME TypeOK, NEW w \in Workers, WorkerStep(w),
         \A i \in Items : InOnePlace(i), NEW j \in Items
  PROVE  InOnePlace(j)'
<1>1. CASE Wake(w) \/ CheckCancelled(w) \/ Unset(w) \/ CheckCancelledAgain(w) \/ FindEmpty(w)
  BY <1>1 DEF Wake, CheckCancelled, Unset, CheckCancelledAgain, FindEmpty, InOnePlace, Places, Holding
<1>2. CASE SendAndFree(w)
  <2>1. cur[w] \in Items /\ w \in Holding(cur[w])
    BY <1>2 DEF SendAndFree, TypeOK, Holding
  <2>2. /\ freed' = freed \cup {cur[w]} /\ cur' = [cur EXCEPT ![w] = Nothing]
        /\ Places(j)' = Places(j) /\ adding' = adding
    BY <1>2 DEF SendAndFree, Places
  <2>3. CASE j = cur[w]
    <3>1. Places(j) = {} /\ adding[j] # "begin" /\ Holding(j) = {w}
      BY <2>1, <2>3 DEF InOnePlace
    <3>2. Holding(j)' = {}
      BY <2>1, <2>2, <2>3, <3>1, SendListAssumption DEF Holding, TypeOK
    <3> QED BY <2>2, <3>1, <3>2 DEF InOnePlace
  <2>4. CASE j # cur[w]
    <3>1. Holding(j)' = Holding(j)
      BY <2>2, <2>4, SendListAssumption DEF Holding, TypeOK
    <3> QED BY <2>2, <2>4, <3>1 DEF InOnePlace
  <2> QED BY <2>3, <2>4
<1> QED BY <1>1, <1>2, TakeOffPlace DEF WorkerStep

LEMMA OwnerPlace ==
  ASSUME TypeOK, Uninit \/ OwnerStep, NEW j \in Items, InOnePlace(j)
  PROVE  InOnePlace(j)'
<1>1. UNCHANGED <<adding, cur>> /\ Holding(j)' = Holding(j)
  BY DEF Uninit, OwnerStep, CancelCalls, CancelResps, JoinCallWorkers, JoinRespWorkers,
         FreeCalls, FreeResps, FreeRespsRunsAway, ResetSender, Holding
<1>2. CASE UNCHANGED <<list, freed>>
  BY <1>1, <1>2 DEF InOnePlace, Places
<1>3. ASSUME NEW k \in Kinds, list' = [list EXCEPT ![k] = <<>>], freed' = freed \cup Contents(k)
      PROVE  InOnePlace(j)'
  <2>1. CASE KindOf(j) = k
    <3>1. Places(j)' = {}
      BY <1>3, <2>1 DEF Places, TypeOK
    <3>2. j \in Contents(k) => Places(j) # {}
      BY <2>1 DEF Contents, Places
    <3> QED BY <1>1, <1>3, <3>1, <3>2 DEF InOnePlace
  <2>2. CASE KindOf(j) # k
    <3>1. Places(j)' = Places(j)
      BY <1>3, <2>2, KindsAndPools DEF Places, TypeOK
    <3>2. j \notin Contents(k)
      BY <2>2, KindOfListed DEF TypeOK
    <3> QED BY <1>1, <1>3, <3>1, <3>2 DEF InOnePlace
  <2> QED BY <2>1, <2>2
<1>4. CASE FreeCalls \/ FreeRespsRunsAway
  BY <1>3, <1>4 DEF FreeCalls, FreeRespsRunsAway, Kinds
<1> QED BY <1>2, <1>4 DEF Uninit, OwnerStep, CancelCalls, CancelResps, JoinCallWorkers,
                         JoinRespWorkers, FreeResps, ResetSender

\* No item is sent twice and no buffer freed twice, by whatever workers and
\* whenever uninit comes.
THEOREM EachInOnePlace == Spec => []OnePlaceOnly
<1>1. Init => PlaceInv
  <2> SUFFICES ASSUME Init, NEW i \in Items PROVE InOnePlace(i)
    BY PlaceByItem
  <2>1. list[KindOf(i)] = <<>>
    BY KindsAndPools DEF Init
  <2>2. Places(i) = {}
    BY <2>1 DEF Places
  <2>3. Holding(i) = {}
    BY SendListAssumption DEF Init, Holding
  <2> QED BY <2>2, <2>3 DEF Init, InOnePlace
<1>2. TypeOK /\ PlaceInv /\ [Next]_vars => PlaceInv'
  <2>1. SUFFICES ASSUME TypeOK, PlaceInv, [Next]_vars, NEW j \in Items PROVE InOnePlace(j)'
    BY DEF PlaceInv, NewInv, OnePlaceOnly, InOnePlace
  <2>2. \A i \in Items : InOnePlace(i)
    BY <2>1, PlaceByItem
  <2>3. CASE UNCHANGED vars
    BY <2>2, <2>3 DEF vars, InOnePlace, Places, Holding
  <2> QED BY <2>1, <2>2, <2>3, AdderPlace, WorkerPlace, OwnerPlace DEF Next
<1>3. PlaceInv => OnePlaceOnly
  BY DEF PlaceInv
<1> QED BY <1>1, <1>2, <1>3, SendListTypes, PTL DEF Spec

-----------------------------------------------------------------------------
(* uninit frees the calls: until it does, a call is on the list or in the  *)
(* hands of a worker of the calls, and it joins those first.               *)

HandsMatch == \A w \in Workers : cur[w] # Nothing => KindOf(cur[w]) = PoolOf(w)

CallWorkersJoined ==
    owner \in {"joinresps", "freecalls", "freeresps", "closed", "reset", "undefined"} =>
        \A w \in CallWorkers : pc[w] = "done"

CallsSwept == owner \in {"freeresps", "closed", "reset", "undefined"}

\* Where a call is that was there when uninit began.
Tracked(i) ==
    adding[i] # "begin" =>
        \/ i \in freed
        \/ i \in Contents("call") /\ ~CallsSwept
        \/ Holding(i) # {}

ReleaseInv ==
    /\ HandsMatch
    /\ CallWorkersJoined
    /\ \A i \in CallItems \ late : Tracked(i)

LEMMA ReleaseInvReleases == TypeOK /\ ReleaseInv => CallsReleased
<1> SUFFICES ASSUME TypeOK, ReleaseInv, owner = "closed",
                    NEW i \in CallItems \ late, adding[i] # "begin"
             PROVE  i \in freed
  BY DEF CallsReleased, Released
<1>1. i \in Items /\ i # Nothing /\ KindOf(i) = "call"
  BY SendListAssumption DEF Items, KindOf
<1>2. ASSUME NEW w \in Holding(i) PROVE FALSE
  <2>1. w \in Workers /\ cur[w] = i /\ pc[w] = "send"
    BY <1>1, <1>2 DEF Holding, TypeOK
  <2>2. w \in CallWorkers
    BY <1>1, <2>1 DEF ReleaseInv, HandsMatch, PoolOf
  <2> QED BY <2>1, <2>2 DEF ReleaseInv, CallWorkersJoined
<1> QED BY <1>2 DEF ReleaseInv, Tracked, CallsSwept

LEMMA AdderRelease ==
  ASSUME TypeOK, ReleaseInv, NEW j \in Items, Emplace(j) \/ SetEvent(j)
  PROVE  ReleaseInv'
<1>1. UNCHANGED <<cur, pc, owner, freed>> /\ late \subseteq late'
  BY DEF Emplace, SetEvent
<1>2. HandsMatch' /\ CallWorkersJoined'
  BY <1>1 DEF ReleaseInv, HandsMatch, CallWorkersJoined
<1>3. ASSUME NEW i \in CallItems \ late', adding'[i] # "begin"
      PROVE  \/ i \in freed
             \/ i \in Contents("call")' /\ ~CallsSwept
             \/ Holding(i) # {}
  <2>1. i \in Items /\ KindOf(i) = "call" /\ i \notin late
    BY <1>1, <1>3 DEF Items, KindOf
  <2>2. CASE SetEvent(j)
    <3>1. adding[i] # "begin" /\ Contents("call")' = Contents("call")
      BY <1>3, <2>1, <2>2 DEF SetEvent, TypeOK, Contents
    <3> QED BY <1>3, <2>1, <3>1 DEF ReleaseInv, Tracked
  <2>3. CASE Emplace(j) /\ i # j
    <3>1. adding[i] # "begin"
      BY <1>3, <2>1, <2>3 DEF Emplace, TypeOK
    <3>2. Contents("call") \subseteq Contents("call")'
      <4>1. list["call"] \in Seq(Items) /\ "call" \in Kinds
        BY DEF TypeOK, Kinds
      <4>2. \/ list'["call"] = list["call"]
            \/ list'["call"] = Append(list["call"], j)
        BY <2>3, KindsAndPools, <4>1 DEF Emplace, TypeOK
      <4> QED BY <4>1, <4>2 DEF Contents
    <3> QED BY <1>3, <2>1, <3>1, <3>2 DEF ReleaseInv, Tracked
  <2>4. CASE Emplace(j) /\ i = j
    <3>1. owner = "running"
      BY <1>3, <2>4 DEF Emplace
    <3>2. list["call"] \in Seq(Items) /\ list'["call"] = Append(list["call"], i)
      BY <2>1, <2>4 DEF Emplace, TypeOK, Kinds
    <3>3. i \in Contents("call")'
      <4>1. Len(list'["call"]) = Len(list["call"]) + 1 /\ Len(list["call"]) \in Nat
        BY <2>1, <3>2
      <4>2. list'["call"][Len(list["call"]) + 1] = i
        BY <2>1, <3>2
      <4> QED BY <4>1, <4>2 DEF Contents
    <3> QED BY <3>1, <3>3 DEF CallsSwept
  <2> QED BY <2>2, <2>3, <2>4
<1>4. CallsSwept' = CallsSwept /\ \A i : Holding(i)' = Holding(i)
  BY <1>1 DEF CallsSwept, Holding
<1>5. \A i \in (CallItems \ late)' : Tracked(i)'
  BY <1>1, <1>3, <1>4 DEF Tracked
<1> QED BY <1>2, <1>5 DEF ReleaseInv

LEMMA WorkerRelease ==
  ASSUME TypeOK, ReleaseInv, NEW w \in Workers, WorkerStep(w)
  PROVE  ReleaseInv'
<1>1. /\ UNCHANGED <<adding, owner, late>> /\ freed \subseteq freed' /\ pc[w] # "done"
      /\ \A v \in Workers : v # w => pc'[v] = pc[v] /\ cur'[v] = cur[v]
  BY DEF TypeOK, Goto, WorkerStep, Wake, CheckCancelled, Unset, CheckCancelledAgain, TakeOff,
         FindEmpty, SendAndFree
<1>2. CallWorkersJoined'
  BY <1>1 DEF ReleaseInv, CallWorkersJoined, Workers
<1>3. CASE UNCHANGED <<list, cur, freed>>
  BY <1>1, <1>2, <1>3 DEF ReleaseInv, HandsMatch, Tracked, Contents, CallsSwept, Holding
<1>4. CASE SendAndFree(w)
  <2>1. /\ UNCHANGED list /\ cur' = [cur EXCEPT ![w] = Nothing]
        /\ freed' = freed \cup {cur[w]}
    BY <1>4 DEF SendAndFree
  <2>2. HandsMatch'
    BY <1>1, <2>1 DEF ReleaseInv, HandsMatch, TypeOK
  <2>3. ASSUME NEW i \in CallItems \ late, Tracked(i) PROVE Tracked(i)'
    <3>1. Holding(i) # {} => i \in freed' \/ Holding(i)' # {}
      BY <2>1 DEF Holding, TypeOK
    <3> QED BY <1>1, <2>1, <2>3, <3>1 DEF Tracked, Contents, CallsSwept
  <2> QED BY <1>1, <1>2, <2>2, <2>3 DEF ReleaseInv
<1>5. CASE TakeOff(w)
  <2> DEFINE k == PoolOf(w)
             h == Head(list[k])
  <2>1. /\ k \in Kinds /\ list[k] \in Seq(Items) /\ list[k] # <<>>
        /\ list' = [list EXCEPT ![k] = Tail(@)]
        /\ cur[w] = Nothing /\ cur' = [cur EXCEPT ![w] = h]
        /\ UNCHANGED freed
    BY <1>5, KindsAndPools DEF TakeOff, TypeOK
  <2>2. h \in Items /\ KindOf(h) = k /\ h # Nothing
    BY <2>1, TailContents, KindOfListed
  <2>3. HandsMatch'
    BY <1>1, <2>1, <2>2 DEF ReleaseInv, HandsMatch, TypeOK
  <2>4. ASSUME NEW i \in CallItems \ late, Tracked(i) PROVE Tracked(i)'
    <3>1. i \in Items /\ i # Nothing
      BY SendListAssumption DEF Items
    <3>2. Holding(i) # {} => Holding(i)' # {}
      BY <1>1, <2>1, <3>1 DEF Holding, TypeOK
    <3>3. i \in Contents("call") => i \in Contents("call")' \/ Holding(i)' # {}
      <4>1. CASE k # "call"
        BY <2>1, <4>1 DEF Contents, TypeOK, Kinds
      <4>2. CASE k = "call" /\ i = h
        BY <2>1, <4>2 DEF Holding, TypeOK
      <4>3. CASE k = "call" /\ i # h
        <5>1. SUFFICES ASSUME NEW n \in 1 .. Len(list["call"]), list["call"][n] = i
                       PROVE  i \in Contents("call")'
          BY DEF Contents
        <5>2. list["call"] \in Seq(Items) /\ list["call"] # <<>> /\ list'["call"] = Tail(list["call"])
          BY <2>1, <4>3 DEF TypeOK
        <5>3. n # 1
          BY <4>3, <5>1, <5>2
        <5>4. n - 1 \in 1 .. Len(list'["call"]) /\ list'["call"][n - 1] = i
          BY <5>1, <5>2, <5>3
        <5> QED BY <5>4 DEF Contents
      <4> QED BY <4>1, <4>2, <4>3
    <3> QED BY <1>1, <2>1, <2>4, <3>2, <3>3 DEF Tracked, CallsSwept
  <2> QED BY <1>1, <1>2, <2>3, <2>4 DEF ReleaseInv
<1>6. \/ UNCHANGED <<list, cur, freed>>
      \/ SendAndFree(w) \/ TakeOff(w)
  BY DEF WorkerStep, Wake, CheckCancelled, Unset, CheckCancelledAgain, FindEmpty
<1> QED BY <1>3, <1>4, <1>5, <1>6

LEMMA OwnerRelease ==
  ASSUME TypeOK, ReleaseInv, Uninit \/ OwnerStep
  PROVE  ReleaseInv'
<1>1. UNCHANGED <<adding, cur, pc, late>> /\ \A i : Holding(i)' = Holding(i)
  BY DEF Uninit, OwnerStep, CancelCalls, CancelResps, JoinCallWorkers, JoinRespWorkers,
         FreeCalls, FreeResps, FreeRespsRunsAway, ResetSender, Holding
<1>2. HandsMatch'
  BY <1>1 DEF ReleaseInv, HandsMatch
<1>3. CallWorkersJoined'
  BY <1>1 DEF ReleaseInv, CallWorkersJoined, OwnerGoto, Uninit, OwnerStep, CancelCalls, CancelResps,
              JoinCallWorkers, JoinRespWorkers, FreeCalls, FreeResps, FreeRespsRunsAway, ResetSender
<1>4. ASSUME NEW i \in CallItems \ late, Tracked(i) PROVE Tracked(i)'
  <2>1. CASE FreeCalls
    BY <1>1, <1>4, <2>1 DEF FreeCalls, Tracked
  <2>2. CASE FreeResps \/ FreeRespsRunsAway \/ ResetSender
    BY <1>1, <1>4, <2>2 DEF FreeResps, FreeRespsRunsAway, ResetSender, OwnerGoto, Tracked, CallsSwept
  <2>3. CASE Uninit \/ CancelCalls \/ CancelResps \/ JoinCallWorkers \/ JoinRespWorkers
    BY <1>1, <1>4, <2>3 DEF Uninit, CancelCalls, CancelResps, JoinCallWorkers, JoinRespWorkers,
                            OwnerGoto, Tracked, CallsSwept, Contents
  <2> QED BY <2>1, <2>2, <2>3 DEF OwnerStep
<1> QED BY <1>1, <1>2, <1>3, <1>4 DEF ReleaseInv

\* When uninit has emptied the lists, every call that was there when it began
\* is freed, whichever worker had it in hand.
THEOREM UninitFreesCalls == Spec => []CallsReleased
<1>1. Init => ReleaseInv
  BY DEF Init, ReleaseInv, HandsMatch, CallWorkersJoined, Tracked, Items
<1>2. TypeOK /\ ReleaseInv /\ [Next]_vars => ReleaseInv'
  <2> SUFFICES ASSUME TypeOK, ReleaseInv, [Next]_vars PROVE ReleaseInv'
    OBVIOUS
  <2>1. CASE UNCHANGED vars
    BY <2>1 DEF vars, ReleaseInv, HandsMatch, CallWorkersJoined, Tracked, CallsSwept, Contents, Holding
  <2> QED BY <2>1, AdderRelease, WorkerRelease, OwnerRelease DEF Next
<1>3. TypeOK /\ ReleaseInv => CallsReleased
  BY ReleaseInvReleases
<1> QED BY <1>1, <1>2, <1>3, SendListTypes, PTL DEF Spec
=============================================================================
