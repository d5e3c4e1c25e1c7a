---------------------------- MODULE CallIdProofs ----------------------------
(***************************************************************************)
(* Proofs about CallId, for any names, any number of calls and a counter   *)
(* of any width: different calls have different identifiers when no name   *)
(* ends in a digit, and then every entry of ongoingCalls_ is that of its   *)
(* own call. A statement about every number is proved by its least         *)
(* counterexample.                                                         *)
(***************************************************************************)
EXTENDS CallId, SequenceTheorems, WellFoundedInduction, TLAPS

\* A set of numbers with a member has a least one.
LEMMA LeastNumber ==
  ASSUME NEW T, T \subseteq Nat, T # {}
  PROVE  \E x \in T : \A y \in T : x <= y
<1> DEFINE R == OpToRel(<, Nat)
<1>1. \A x, y \in Nat : <<y, x>> \in R <=> y < x
  BY DEF OpToRel
<1>2. IsWellFoundedOn(R, Nat)
  BY NatLessThanWellFounded, Zenon
<1> HIDE DEF R
<1>3. PICK x \in T : \A y \in T : ~(<<y, x>> \in R)
  BY <1>2, WFMin
<1>4. \A y \in T : ~(y < x)
  BY <1>1, <1>3
<1>5. \A y \in T : x <= y
  BY <1>4
<1> QED BY <1>5

DigitSet == {Digits[i] : i \in 1 .. 10}

\* The step of std::to_string, over a table g of what shorter numbers give.
Step(g, n) ==
    IF n < 10 THEN <<Digits[n + 1]>> ELSE Append(g[n \div 10], Digits[(n % 10) + 1])

\* g is a table of the numbers below k.
IsTable(g, k) == g = [n \in 0 .. k - 1 |-> Step(g, n)]

LEMMA Quotient ==
  ASSUME NEW n \in Nat
  PROVE  /\ n \div 10 \in Nat /\ n % 10 \in 0 .. 9
         /\ n = 10 * (n \div 10) + (n % 10)
         /\ n >= 10 => n \div 10 < n
  OBVIOUS

\* A recursive function is a choice of a table, so that there is one must be shown.
LEMMA TableExists == \A k \in Nat : \E g : IsTable(g, k)
<1> DEFINE T == {k \in Nat : ~ \E g : IsTable(g, k)}
<1> SUFFICES ASSUME T # {} PROVE FALSE
  OBVIOUS
<1>1. PICK k \in T : \A y \in T : k <= y
  BY LeastNumber
<1>2. k # 0
  <2>1. IsTable([n \in 0 .. 0 - 1 |-> <<>>], 0)
    BY DEF IsTable
  <2> QED BY <2>1
<1>3. k \in Nat /\ k - 1 \in Nat
  BY <1>2
<1>4. PICK g : IsTable(g, k - 1)
  BY <1>1, <1>3
<1> DEFINE h == [n \in 0 .. k - 1 |-> Step(g, n)]
<1>5. \A n \in 0 .. k - 1 : n >= 10 => n \div 10 \in 0 .. k - 2 /\ n \div 10 \in 0 .. k - 1
  BY <1>3, Quotient
<1>6. \A n \in 0 .. k - 2 : g[n] = Step(g, n)
  BY <1>3, <1>4 DEF IsTable
<1>7. \A n \in 0 .. k - 1 : Step(h, n) = Step(g, n)
  BY <1>3, <1>5, <1>6 DEF Step
<1>8. IsTable(h, k)
  BY <1>7 DEF IsTable
<1> QED BY <1>8

LEMMA DecimalDef ==
  ASSUME NEW n \in 0 .. IndexModulus - 1
  PROVE  Decimal[n] = Step(Decimal, n)
<1>1. IndexModulus \in Nat
  BY CallIdAssumption
<1>2. \E g : IsTable(g, IndexModulus)
  BY <1>1, TableExists
<1>3. IsTable(Decimal, IndexModulus)
  BY <1>2 DEF Decimal, IsTable, Step
<1> QED BY <1>3 DEF IsTable

LEMMA OneDigit ==
  ASSUME NEW n \in 0 .. IndexModulus - 1, n < 10
  PROVE  Decimal[n] = <<Digits[n + 1]>>
  BY DecimalDef DEF Step

LEMMA MoreDigits ==
  ASSUME NEW n \in 0 .. IndexModulus - 1, n >= 10
  PROVE  Decimal[n] = Append(Decimal[n \div 10], Digits[(n % 10) + 1])
<1>1. n \in Nat /\ ~(n < 10)
  BY CallIdAssumption
<1> QED BY <1>1, DecimalDef DEF Step

LEMMA DigitsDiffer ==
  ASSUME NEW i \in 1 .. 10, NEW j \in 1 .. 10, Digits[i] = Digits[j]
  PROVE  i = j
  BY DEF Digits

\* Every number has at least one digit, and is written in digits only.
LEMMA DecimalShape ==
  \A n \in 0 .. IndexModulus - 1 :
      /\ Decimal[n] \in Seq(DigitSet)
      /\ Len(Decimal[n]) >= 1
      /\ n >= 10 => Len(Decimal[n]) >= 2
<1> DEFINE Shape(n) == /\ Decimal[n] \in Seq(DigitSet)
                       /\ Len(Decimal[n]) >= 1
                       /\ n >= 10 => Len(Decimal[n]) >= 2
           T == {n \in 0 .. IndexModulus - 1 : ~Shape(n)}
<1> SUFFICES ASSUME T # {} PROVE FALSE
  OBVIOUS
<1>0. IndexModulus \in Nat
  BY CallIdAssumption
<1>1. T \subseteq Nat
  BY <1>0
<1>2. PICK n \in T : \A y \in T : n <= y
  BY <1>1, LeastNumber
<1>3. n \in 0 .. IndexModulus - 1 /\ n \in Nat /\ ~Shape(n)
  BY <1>0
<1> HIDE DEF T
<1>4. \A i \in 0 .. 9 : Digits[i + 1] \in DigitSet
  BY DEF DigitSet
<1>5. CASE n < 10
  <2>1. Decimal[n] = <<Digits[n + 1]>>
    BY <1>3, <1>5, OneDigit
  <2>2. Digits[n + 1] \in DigitSet
    BY <1>3, <1>4, <1>5
  <2> HIDE DEF DigitSet
  <2> QED BY <1>3, <1>5, <2>1, <2>2
<1>6. CASE n >= 10
  <2> DEFINE s == Decimal[n \div 10]
             d == Digits[(n % 10) + 1]
  <2>1. Decimal[n] = Append(s, d)
    BY <1>3, <1>6, MoreDigits
  <2>2. n \div 10 \in 0 .. IndexModulus - 1 /\ n \div 10 < n /\ n \div 10 \in Nat
    BY <1>0, <1>3, <1>6, Quotient
  <2>3. n \div 10 \notin T
    BY <1>2, <1>3, <2>2
  <2>4. Shape(n \div 10)
    BY <2>2, <2>3 DEF T
  <2>5. d \in DigitSet
    BY <1>3, <1>4, Quotient
  <2>6. s \in Seq(DigitSet) /\ Len(s) >= 1
    BY <2>4
  <2> HIDE DEF s, d
  <2>7. Append(s, d) \in Seq(DigitSet) /\ Len(Append(s, d)) = Len(s) + 1
    BY <2>5, <2>6, AppendProperties
  <2>8. Len(s) \in Nat
    BY <2>6
  <2> QED BY <1>3, <2>1, <2>6, <2>7, <2>8
<1> QED BY <1>3, <1>5, <1>6

\* Different numbers are written differently.
LEMMA DecimalInjective ==
  \A n, m \in 0 .. IndexModulus - 1 : Decimal[n] = Decimal[m] => n = m
<1> DEFINE T == {n \in 0 .. IndexModulus - 1 :
                     \E m \in 0 .. IndexModulus - 1 : Decimal[n] = Decimal[m] /\ n # m}
<1> SUFFICES ASSUME T # {} PROVE FALSE
  OBVIOUS
<1>0. IndexModulus \in Nat
  BY CallIdAssumption
<1>1. T \subseteq Nat
  BY <1>0
<1>2. PICK n \in T : \A y \in T : n <= y
  BY <1>1, LeastNumber
<1>3. n \in 0 .. IndexModulus - 1 /\ n \in Nat
  BY <1>0
<1>4. PICK m \in 0 .. IndexModulus - 1 : Decimal[n] = Decimal[m] /\ n # m
  OBVIOUS
<1>4a. m \in Nat
  BY <1>0
<1>4b. \A k \in 0 .. IndexModulus - 1 : k < n => k \notin T
  BY <1>0, <1>2, <1>3
<1>4c. \A k, l \in 0 .. IndexModulus - 1 : k < n /\ Decimal[k] = Decimal[l] => k = l
  BY <1>4b
<1>4d. \A i \in 0 .. 9 : Digits[i + 1] \in DigitSet
  BY DEF DigitSet
<1> HIDE DEF T
<1>5. CASE n < 10 /\ m < 10
  <2>1. <<Digits[n + 1]>> = <<Digits[m + 1]>>
    BY <1>3, <1>4, <1>4a, <1>5, OneDigit
  <2>2. Digits[n + 1] = Digits[m + 1]
    BY <2>1
  <2>3. n + 1 \in 1 .. 10 /\ m + 1 \in 1 .. 10
    BY <1>3, <1>4a, <1>5
  <2>4. n + 1 = m + 1
    BY <2>2, <2>3, DigitsDiffer
  <2> QED BY <1>3, <1>4, <1>4a, <2>4
<1>6. CASE n < 10 /\ m >= 10
  <2>1. Decimal[n] = <<Digits[n + 1]>>
    BY <1>3, <1>6, OneDigit
  <2>2. Len(Decimal[m]) >= 2
    BY <1>6, DecimalShape
  <2> QED BY <1>4, <2>1, <2>2
<1>7. CASE n >= 10 /\ m < 10
  <2>1. Decimal[m] = <<Digits[m + 1]>>
    BY <1>4a, <1>7, OneDigit
  <2>2. Len(Decimal[n]) >= 2
    BY <1>3, <1>7, DecimalShape
  <2> QED BY <1>4, <2>1, <2>2
<1>8. CASE n >= 10 /\ m >= 10
  <2> DEFINE s == Decimal[n \div 10]
             t == Decimal[m \div 10]
             d == Digits[(n % 10) + 1]
             e == Digits[(m % 10) + 1]
  <2>1. Append(s, d) = Append(t, e)
    <3>1. Decimal[n] = Append(s, d)
      BY <1>3, <1>8, MoreDigits
    <3>2. Decimal[m] = Append(t, e)
      BY <1>8, MoreDigits
    <3> QED BY <1>4, <3>1, <3>2
  <2>2. n \div 10 \in 0 .. IndexModulus - 1 /\ n \div 10 < n
    BY <1>0, <1>3, <1>8, Quotient
  <2>3. m \div 10 \in 0 .. IndexModulus - 1
    BY <1>0, <1>4a, <1>8, Quotient
  <2>4. s \in Seq(DigitSet) /\ t \in Seq(DigitSet)
    BY <2>2, <2>3, DecimalShape
  <2>5. d \in DigitSet /\ e \in DigitSet
    BY <1>3, <1>4a, <1>4d, Quotient
  <2>6. s = t /\ d = e
    <3> HIDE DEF s, t, d, e
    <3> QED BY <2>1, <2>4, <2>5, AppendInjective
  <2>7. n \div 10 = m \div 10
    BY <1>4c, <2>2, <2>3, <2>6
  <2>8. (n % 10) + 1 \in 1 .. 10 /\ (m % 10) + 1 \in 1 .. 10
    BY <1>3, <1>4a, Quotient
  <2>9. (n % 10) + 1 = (m % 10) + 1
    BY <2>6, <2>8, DigitsDiffer
  <2>10. n % 10 = m % 10
    BY <1>3, <1>4a, <2>9, Quotient
  <2>11. n = 10 * (n \div 10) + (n % 10) /\ m = 10 * (m \div 10) + (m % 10)
    BY <1>3, <1>4a, Quotient
  <2> QED BY <1>4, <2>7, <2>10, <2>11
<1> QED BY <1>3, <1>4a, <1>5, <1>6, <1>7, <1>8

-----------------------------------------------------------------------------
\* What identifiers are made of.
Chars == STRING \cup DigitSet

\* Where a name that does not end in a digit stops and the digits begin can be
\* read off the identifier.
LEMMA NameNotLonger ==
  ASSUME NEW s \in Seq(Chars), NEW t \in Seq(Chars), ~EndsInDigit(t),
         NEW a \in Seq(DigitSet), NEW b \in Seq(DigitSet),
         s \o a = t \o b
  PROVE  Len(t) <= Len(s)
<1> SUFFICES ASSUME Len(s) < Len(t) PROVE FALSE
  OBVIOUS
<1> DEFINE k == Len(t)
<1>1. a \in Seq(Chars) /\ b \in Seq(Chars)
  BY SeqMonotonic DEF Chars
<1>2. Len(s) \in Nat /\ k \in Nat /\ Len(a) \in Nat /\ Len(b) \in Nat
  OBVIOUS
<1>3. Len(s) + Len(a) = k + Len(b)
  BY <1>1, ConcatProperties
<1>4. k \in 1 .. Len(s) + Len(a) /\ k \in 1 .. k + Len(b)
  BY <1>2, <1>3
<1>5. (s \o a)[k] = a[k - Len(s)]
  BY <1>1, <1>2, <1>4, ConcatProperties
<1>6. (t \o b)[k] = t[k]
  BY <1>1, <1>2, <1>4, ConcatProperties
<1>7. k - Len(s) \in 1 .. Len(a)
  BY <1>2, <1>4
<1>8. a[k - Len(s)] \in DigitSet
  BY <1>7, ElementOfSeq
<1>9. t[k] \in DigitSet
  BY <1>5, <1>6, <1>8
<1>10. t # <<>>
  BY <1>2
<1>11. DOMAIN Digits = 1 .. 10
  BY DEF Digits
<1> QED BY <1>9, <1>10, <1>11 DEF EndsInDigit, DigitSet

LEMMA SplitIdentifier ==
  \A s, t \in Seq(Chars) : \A a, b \in Seq(DigitSet) :
      ~EndsInDigit(s) /\ ~EndsInDigit(t) /\ s \o a = t \o b => s = t /\ a = b
<1> SUFFICES ASSUME NEW s \in Seq(Chars), NEW t \in Seq(Chars),
                    NEW a \in Seq(DigitSet), NEW b \in Seq(DigitSet),
                    ~EndsInDigit(s), ~EndsInDigit(t), s \o a = t \o b
             PROVE  s = t /\ a = b
  OBVIOUS
<1>1. a \in Seq(Chars) /\ b \in Seq(Chars)
  BY SeqMonotonic DEF Chars
<1>2. Len(s) \in Nat /\ Len(t) \in Nat /\ Len(a) \in Nat /\ Len(b) \in Nat
  OBVIOUS
<1>3. Len(s) = Len(t)
  <2>1. Len(t) <= Len(s)
    BY NameNotLonger
  <2>2. Len(s) <= Len(t)
    BY NameNotLonger
  <2> QED BY <1>2, <2>1, <2>2
<1>4. Len(a) = Len(b)
  <2>1. Len(s) + Len(a) = Len(t) + Len(b)
    BY <1>1, ConcatProperties
  <2> QED BY <1>2, <1>3, <2>1
<1>5. \A i \in 1 .. Len(s) : s[i] = t[i]
  <2> SUFFICES ASSUME NEW i \in 1 .. Len(s) PROVE s[i] = t[i]
    OBVIOUS
  <2>1. i \in 1 .. Len(s) + Len(a) /\ i <= Len(s) /\ i <= Len(t) /\ i \in 1 .. Len(t) + Len(b)
    BY <1>2, <1>3, <1>4
  <2>2. (s \o a)[i] = s[i] /\ (t \o b)[i] = t[i]
    BY <1>1, <2>1, ConcatProperties
  <2> QED BY <2>2
<1>6. \A i \in 1 .. Len(a) : a[i] = b[i]
  <2> SUFFICES ASSUME NEW i \in 1 .. Len(a) PROVE a[i] = b[i]
    OBVIOUS
  <2> DEFINE j == Len(s) + i
  <2>1. j \in 1 .. Len(s) + Len(a) /\ ~(j <= Len(s)) /\ ~(j <= Len(t))
        /\ j \in 1 .. Len(t) + Len(b) /\ j - Len(s) = i /\ j - Len(t) = i
    BY <1>2, <1>3, <1>4
  <2> HIDE DEF j
  <2>2. (s \o a)[j] = a[i] /\ (t \o b)[j] = b[i]
    BY <1>1, <2>1, ConcatProperties
  <2> QED BY <2>2
<1>7. s = t
  BY <1>3, <1>5, SeqEqual
<1>8. a = b
  BY <1>4, <1>6, SeqEqual
<1> QED BY <1>7, <1>8

\* Different calls have different identifiers.
LEMMA CallIdInjective ==
  ASSUME \A name \in Names : ~EndsInDigit(name),
         NEW c \in Call, NEW d \in Call, CallIdOf(c) = CallIdOf(d)
  PROVE  c = d
<1>1. /\ c.name \in Names /\ d.name \in Names
      /\ ~EndsInDigit(c.name) /\ ~EndsInDigit(d.name)
      /\ c.idx \in 0 .. IndexModulus - 1 /\ d.idx \in 0 .. IndexModulus - 1
  BY DEF Call
<1>2. Decimal[c.idx] \in Seq(DigitSet) /\ Decimal[d.idx] \in Seq(DigitSet)
  BY <1>1, DecimalShape
<1>3. c.name = d.name /\ Decimal[c.idx] = Decimal[d.idx]
  <2> DEFINE s == c.name
             t == d.name
             a == Decimal[c.idx]
             b == Decimal[d.idx]
  <2>1. s \o a = t \o b
    BY DEF CallIdOf
  <2>2. s \in Seq(Chars) /\ t \in Seq(Chars)
    BY <1>1, CallIdAssumption, SeqMonotonic DEF Chars
  <2>3. ~EndsInDigit(s) /\ ~EndsInDigit(t) /\ a \in Seq(DigitSet) /\ b \in Seq(DigitSet)
    BY <1>1, <1>2
  <2> HIDE DEF s, t, a, b
  <2>4. s = t /\ a = b
    BY <2>1, <2>2, <2>3, SplitIdentifier
  <2> QED BY <2>4 DEF s, t, a, b
<1>4. c.idx = d.idx
  BY <1>1, <1>3, DecimalInjective
<1> QED BY <1>3, <1>4 DEF Call

\* Why names must not end in a digit: call 10 of a function and call 0 of the one
\* with a 1 added to its name have the same identifier.
THEOREM DigitNamesClash ==
  ASSUME NEW s \in Seq(STRING), IndexModulus > 10
  PROVE  CallIdOf([name |-> s, idx |-> 10]) = CallIdOf([name |-> s \o <<"1">>, idx |-> 0])
<1>1. IndexModulus \in Nat
  BY CallIdAssumption
<1>2. Decimal[10] = Append(Decimal[1], Digits[1])
  <2>1. 10 \div 10 = 1 /\ (10 % 10) + 1 = 1
    OBVIOUS
  <2>2. 10 \in 0 .. IndexModulus - 1
    BY <1>1
  <2> QED BY <2>1, <2>2, MoreDigits
<1>3. Decimal[1] = <<Digits[2]>> /\ Decimal[0] = <<Digits[1]>>
  <2>1. 1 \in 0 .. IndexModulus - 1 /\ 0 \in 0 .. IndexModulus - 1
    BY <1>1
  <2> QED BY <2>1, OneDigit
<1>4. Digits[1] = "0" /\ Digits[2] = "1"
  BY DEF Digits
<1>5. Append(<<"1">>, "0") = <<"1">> \o <<"0">>
  OBVIOUS
<1>6. s \o (<<"1">> \o <<"0">>) = (s \o <<"1">>) \o <<"0">>
  BY ConcatAssociative
<1> QED BY <1>2, <1>3, <1>4, <1>5, <1>6 DEF CallIdOf

-----------------------------------------------------------------------------
(* The runs of the specification. *)

LEMMA InitTypes == Init => TypeOK
  BY CallIdAssumption DEF Init, TypeOK

LEMMA NextTypes == TypeOK /\ [Next]_vars => TypeOK'
<1> SUFFICES ASSUME TypeOK, [Next]_vars PROVE TypeOK'
  OBVIOUS
<1>1. ASSUME NEW name \in Names, GetNextCallId(name) PROVE TypeOK'
  <2>1. callIndex' \in 0 .. IndexModulus - 1
    BY <1>1, CallIdAssumption DEF TypeOK, GetNextCallId
  <2>2. [name |-> name, idx |-> callIndex] \in Call
    BY DEF TypeOK, Call
  <2>3. UNCHANGED <<entered, ongoingCalls>> /\ listed' \subseteq Call
    BY <1>1, <2>2 DEF TypeOK, GetNextCallId
  <2> QED BY <2>1, <2>3 DEF TypeOK
<1>2. ASSUME NEW c \in listed, AddOngoingCall(c) PROVE TypeOK'
  <2>1. c \in Call
    BY DEF TypeOK
  <2> QED BY <1>2, <2>1 DEF TypeOK, AddOngoingCall
<1>3. ASSUME NEW c \in entered, ReleaseCall(c) PROVE TypeOK'
  BY <1>3 DEF TypeOK, ReleaseCall
<1>4. CASE UNCHANGED vars
  BY <1>4 DEF TypeOK, vars
<1> QED BY <1>1, <1>2, <1>3, <1>4 DEF Next

\* callIndex_ stays below its modulus, calls are calls, and every entry stands
\* under the identifier of its call.
THEOREM CallIdTypes == Spec => []TypeOK
  BY InitTypes, NextTypes, PTL DEF Spec

\* The entries of the calls that workers have entered are there, each under the
\* identifier of its call.
Entered ==
    \A c \in entered : CallIdOf(c) \in DOMAIN ongoingCalls /\ ongoingCalls[CallIdOf(c)] = c

LEMMA NextEntered ==
  (\A name \in Names : ~EndsInDigit(name)) =>
      (TypeOK /\ Entered /\ [Next]_vars => Entered')
<1> SUFFICES ASSUME \A name \in Names : ~EndsInDigit(name), TypeOK, Entered, [Next]_vars
             PROVE  Entered'
  OBVIOUS
<1>1. ASSUME NEW name \in Names, GetNextCallId(name) PROVE Entered'
  BY <1>1 DEF Entered, GetNextCallId
<1>2. ASSUME NEW c \in listed, AddOngoingCall(c) PROVE Entered'
  <2>1. c \in Call /\ entered \subseteq Call
    BY DEF TypeOK
  <2>2. \A d \in entered : CallIdOf(d) = CallIdOf(c) => d = c
    BY <2>1, CallIdInjective
  <2> QED BY <1>2, <2>2 DEF Entered, AddOngoingCall
<1>3. ASSUME NEW c \in entered, ReleaseCall(c) PROVE Entered'
  <2>1. c \in Call /\ entered \subseteq Call
    BY DEF TypeOK
  <2>2. \A d \in entered : CallIdOf(d) = CallIdOf(c) => d = c
    BY <2>1, CallIdInjective
  <2> QED BY <1>3, <2>2 DEF Entered, ReleaseCall
<1>4. CASE UNCHANGED vars
  BY <1>4 DEF Entered, vars
<1> QED BY <1>1, <1>2, <1>3, <1>4 DEF Next

\* No call under way has its entry taken over or taken away by another one.
THEOREM EveryEntryIsOwn == Spec => []EntryIsOwn
<1>1. CASE \A name \in Names : ~EndsInDigit(name)
  <2>1. Init => Entered
    BY DEF Init, Entered
  <2>2. TypeOK /\ Entered /\ [Next]_vars => Entered'
    BY <1>1, NextEntered
  <2>3. Entered => EntryIsOwn
    BY DEF Entered, EntryIsOwn
  <2> QED BY <2>1, <2>2, <2>3, CallIdTypes, PTL DEF Spec
<1>2. CASE ~(\A name \in Names : ~EndsInDigit(name))
  <2>1. EntryIsOwn
    BY <1>2 DEF EntryIsOwn
  <2> QED BY <2>1, PTL
<1> QED BY <1>1, <1>2
=============================================================================
