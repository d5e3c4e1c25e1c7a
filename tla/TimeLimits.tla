----------------------------- MODULE TimeLimits -----------------------------
(***************************************************************************)
(* The arithmetic of the limits that calls and waits are given: the        *)
(* deadline of a timed wait for a semaphore (semaphore.cpp), the limit of  *)
(* a call (veigar.cpp) and the slices in which a sender waits for room     *)
(* (sender.cpp). There is no state here: what holds of it is proved for    *)
(* all inputs.                                                             *)
(***************************************************************************)
EXTENDS Integers, TLAPS

Nano == 1000000000   \* nanoseconds in a second

\* A timespec holds seconds and less than a second of nanoseconds: sem_timedwait
\* returns at once, with EINVAL, when it is given more.
Timespecs == {t \in [sec : Nat, nsec : Nat] : t.nsec < Nano}

\* Semaphore::wait(ms): the time of day until which it waits.
Carry(ts) ==
    IF ts.nsec >= Nano THEN [sec |-> ts.sec + 1, nsec |-> ts.nsec - Nano] ELSE ts

Deadline(now, ms) ==
    Carry([sec |-> now.sec + ms \div 1000, nsec |-> now.nsec + (ms % 1000) * 1000000])

\* sendCall: milliseconds times 1000, in 32 bits without sign.
MicrosModulus == 4294967296
CallTimeout(timeoutMS) == (timeoutMS * 1000) % MicrosModulus

\* checkSpaceAndWait: the next wait for room, in milliseconds, while used < timeout.
WaitMS(timeout, used) ==
    LET ms == (timeout - used) \div 1000
    IN  IF ms > 5 THEN 5 ELSE ms

-----------------------------------------------------------------------------
\* The deadline is a valid time, and exactly ms milliseconds from now: one carry
\* is enough, since less than two seconds of nanoseconds can come together.
THEOREM DeadlineIsExact ==
  ASSUME NEW now \in Timespecs, NEW ms \in Nat
  PROVE  /\ Deadline(now, ms) \in Timespecs
         /\ Deadline(now, ms).sec * Nano + Deadline(now, ms).nsec
              = now.sec * Nano + now.nsec + ms * 1000000
<1> DEFINE s == ms \div 1000
           r == ms % 1000
           n == now.nsec + r * 1000000
<1>1. s \in Nat /\ r \in Nat /\ r < 1000 /\ ms = 1000 * s + r
  BY SMT
<1> HIDE DEF s, r
<1>2. now.sec \in Nat /\ now.nsec \in Nat /\ now.nsec < Nano
  BY SMT DEF Timespecs
<1>3. n \in Nat /\ n < 2 * Nano
  BY SMT, <1>1, <1>2 DEF Nano
<1>4. Deadline(now, ms) = Carry([sec |-> now.sec + s, nsec |-> n])
  BY SMT DEF Deadline, s, r
<1>5. n = now.nsec + r * 1000000
  OBVIOUS
<1> HIDE DEF n
<1>6. CASE n >= Nano
  <2>1. Deadline(now, ms) = [sec |-> now.sec + s + 1, nsec |-> n - Nano]
    BY SMT, <1>4, <1>6 DEF Carry
  <2>2. now.sec + s + 1 \in Nat /\ n - Nano \in Nat /\ n - Nano < Nano
    BY SMT, <1>1, <1>2, <1>3, <1>6 DEF Nano
  <2>3. (now.sec + s + 1) * Nano + (n - Nano) = now.sec * Nano + now.nsec + ms * 1000000
    BY SMT, <1>1, <1>2, <1>5 DEF Nano
  <2> QED BY SMT, <2>1, <2>2, <2>3 DEF Timespecs
<1>7. CASE ~(n >= Nano)
  <2>1. Deadline(now, ms) = [sec |-> now.sec + s, nsec |-> n]
    BY SMT, <1>4, <1>7 DEF Carry
  <2>2. now.sec + s \in Nat /\ n \in Nat /\ n < Nano
    BY SMT, <1>1, <1>2, <1>3, <1>7 DEF Nano
  <2>3. (now.sec + s) * Nano + n = now.sec * Nano + now.nsec + ms * 1000000
    BY SMT, <1>1, <1>2, <1>5 DEF Nano
  <2> QED BY SMT, <2>1, <2>2, <2>3 DEF Timespecs
<1> QED BY <1>6, <1>7

LEMMA ModIsSmall ==
  ASSUME NEW a \in Nat, NEW m \in Nat, m > 0
  PROVE  a % m < m /\ (a < m => a % m = a)
  BY SMT

\* A call keeps the limit it was given up to 71 minutes,
THEOREM LimitIsKept ==
  ASSUME NEW timeoutMS \in Nat, timeoutMS <= 4294967
  PROVE  CallTimeout(timeoutMS) = timeoutMS * 1000
<1>1. timeoutMS * 1000 \in Nat /\ timeoutMS * 1000 < MicrosModulus
  BY SMT DEF MicrosModulus
<1>2. MicrosModulus \in Nat /\ MicrosModulus > 0
  BY SMT DEF MicrosModulus
<1> QED BY SMT, <1>1, <1>2, ModIsSmall DEF CallTimeout

\* and any longer limit becomes a shorter one, below 71 minutes and 35 seconds.
THEOREM LongLimitIsCut ==
  ASSUME NEW timeoutMS \in Nat, timeoutMS > 4294967
  PROVE  CallTimeout(timeoutMS) < timeoutMS * 1000 /\ CallTimeout(timeoutMS) < MicrosModulus
<1>1. timeoutMS * 1000 \in Nat /\ timeoutMS * 1000 >= MicrosModulus
  BY SMT DEF MicrosModulus
<1>2. MicrosModulus \in Nat /\ MicrosModulus > 0
  BY SMT DEF MicrosModulus
<1>3. CallTimeout(timeoutMS) < MicrosModulus
  BY SMT, <1>1, <1>2, ModIsSmall DEF CallTimeout
<1>4. CallTimeout(timeoutMS) \in Int
  BY SMT, <1>1, <1>2 DEF CallTimeout
<1> QED BY SMT, <1>1, <1>2, <1>3, <1>4

\* A sender that waits for room while it holds the lock of the queue never sleeps
\* past the limit of the call, and wakes up at least every 5 ms to see the stop
\* event.
THEOREM WaitEndsInTime ==
  ASSUME NEW timeout \in Nat, NEW used \in Nat, used < timeout
  PROVE  /\ WaitMS(timeout, used) \in 0 .. 5
         /\ used + WaitMS(timeout, used) * 1000 <= timeout
  BY SMT DEF WaitMS
=============================================================================
