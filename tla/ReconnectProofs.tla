---------------------------- MODULE ReconnectProofs ----------------------------
(***************************************************************************)
(* Proofs about Reconnect, for any number of failures in a row.            *)
(***************************************************************************)
EXTENDS Reconnect, Integers, TLAPS

(* The retry counter counts the failures, and the last wait is the one       *)
(* calculateBackoff gives for them.                                          *)
CountIsFailures == failures = retryCount

DelayIsBackoff ==
    /\ delay = IF retryCount = 0 THEN {} ELSE CalculateBackoff(retryCount)
    /\ loop = "backoff" => retryCount > 0

Inv == TypeOK /\ CountIsFailures /\ DelayIsBackoff
-----------------------------------------------------------------------------
(***************************************************************************)
(* The arithmetic.                                                         *)
(***************************************************************************)

(* baseDelay is between 2^20 and 2^21, ...                                   *)
LEMMA BaseDelayWidth == baseDelay \subseteq 0 .. 20 /\ 20 \in baseDelay
<1> DEFINE bit(i) == (1953125 \div 2^i) % 2
<1>1. bit(21) = 0 /\ bit(22) = 0 /\ bit(23) = 0
  BY SMT
<1>2. bit(24) = 0 /\ bit(25) = 0 /\ bit(26) = 0
  BY SMT
<1>3. bit(20) = 1
  BY SMT
<1>4. baseDelay = {i \in 0 .. 26 : bit(i) = 1}
  BY SMT DEF baseDelay, BitsOf
<1> HIDE DEF bit
<1> QED
  BY <1>1, <1>2, <1>3, <1>4, SMT

(* ... and maxDelay between 2^26 and 2^27.                                   *)
LEMMA MaxDelayWidth == maxDelay \subseteq 0 .. 26 /\ 26 \in maxDelay
<1>1. (117187500 \div 2^26) % 2 = 1
  BY SMT
<1> QED
  BY <1>1, SMT DEF maxDelay, BitsOf

(* A delay is a number of the machine, ...                                   *)
LEMMA BackoffType ==
    ASSUME NEW n \in Nat
    PROVE  CalculateBackoff(n) \subseteq Bits
<1>1. maxDelay \subseteq Bits
  BY SMT DEF maxDelay, BitsOf, Bits, Width
<1> QED
  BY <1>1 DEF CalculateBackoff, ShiftLeft

(* ... of which nothing is cut off up to the 33rd failure: the highest bit   *)
(* of baseDelay then comes to lie just below the sign.                       *)
LEMMA BackoffExact ==
    ASSUME NEW n \in 1 .. LastExact
    PROVE  LET exact == Shifted(baseDelay, n - 1) IN
           CalculateBackoff(n) = IF Less(maxDelay, exact) THEN maxDelay ELSE exact
<1> DEFINE exact == Shifted(baseDelay, n - 1)
<1>1. exact \subseteq 0 .. 52
  BY BaseDelayWidth DEF Shifted, LastExact
<1>2. exact \cap Bits = exact
  BY <1>1 DEF Bits, Width
<1>3. ~Negative(exact)
  BY <1>1 DEF Negative, Width
<1> HIDE DEF exact
<1> QED
  BY <1>2, <1>3 DEF CalculateBackoff, ShiftLeft, exact

(* A number whose highest bit is above y's is not less than y.               *)
LEMMA HigherBit ==
    ASSUME NEW x \in SUBSET Nat, NEW y, NEW k \in x, \A j \in y : j \in Nat /\ j < k
    PROVE  ~Less(x, y) /\ Less(y, x)
<1>1. k \in x \ y
  OBVIOUS
<1>2. ASSUME NEW i \in y \ x, \A j \in x \ y : j < i PROVE FALSE
  BY <1>1, <1>2
<1> QED
  BY <1>1, <1>2 DEF Less

(* Up to the 6th failure the highest bit of the product is below maxDelay's, *)
(* from the 8th on above it: the delays grow, and once capped stay capped.   *)
LEMMA BackoffGrows ==
    ASSUME NEW n \in 1 .. LastExact, n + 1 <= LastExact
    PROVE  ~Less(CalculateBackoff(n + 1), CalculateBackoff(n))
<1> DEFINE exact(i) == Shifted(baseDelay, i - 1)
<1>1. ASSUME NEW i \in 1 .. LastExact
      PROVE  /\ CalculateBackoff(i) = IF Less(maxDelay, exact(i)) THEN maxDelay ELSE exact(i)
             /\ exact(i) \subseteq 0 .. 19 + i
             /\ 19 + i \in exact(i)
  <2>1. CalculateBackoff(i) = IF Less(maxDelay, exact(i)) THEN maxDelay ELSE exact(i)
    BY BackoffExact
  <2>2. exact(i) \subseteq 0 .. 19 + i /\ 19 + i \in exact(i)
    BY BaseDelayWidth DEF Shifted, LastExact
  <2> QED
    BY <2>1, <2>2
<1> HIDE DEF exact
<1>2. n + 1 \in 1 .. LastExact
  BY DEF LastExact
<1>3. ~Less(maxDelay, maxDelay)
  BY DEF Less
<1>4. ~Less(maxDelay, CalculateBackoff(n))
  BY <1>1, <1>3
<1>5. CASE Less(maxDelay, exact(n + 1))
  BY <1>1, <1>2, <1>4, <1>5
<1>6. CASE ~Less(maxDelay, exact(n + 1))
  <2>1. n <= 6
    <3>1. ASSUME n > 6 PROVE FALSE
      <4>1. exact(n + 1) \in SUBSET Nat /\ 20 + n \in exact(n + 1)
        BY <1>1, <1>2
      <4>2. \A j \in maxDelay : j \in Nat /\ j < 20 + n
        BY <3>1, MaxDelayWidth DEF LastExact
      <4> QED
        BY <1>6, <4>1, <4>2, HigherBit
    <3> QED
      BY <3>1 DEF LastExact
  <2>2. ~Less(maxDelay, exact(n))
    <3>1. \A j \in exact(n) : j \in Nat /\ j < 26
      BY <1>1, <2>1
    <3>2. maxDelay \in SUBSET Nat /\ 26 \in maxDelay
      BY MaxDelayWidth
    <3> QED
      BY <3>1, <3>2, HigherBit
  <2>3. CalculateBackoff(n) = exact(n) /\ CalculateBackoff(n + 1) = exact(n + 1)
    BY <1>1, <1>2, <1>6, <2>2
  <2>4. /\ exact(n + 1) \in SUBSET Nat /\ 20 + n \in exact(n + 1)
        /\ \A j \in exact(n) : j \in Nat /\ j < 20 + n
    BY <1>1, <1>2
  <2> QED
    BY <2>3, <2>4, HigherBit
<1> QED
  BY <1>5, <1>6

(* From the 55th failure on every bit is cut off.                            *)
LEMMA BackoffLost ==
    ASSUME NEW n \in Nat, n >= 55
    PROVE  CalculateBackoff(n) = {}
<1>1. ShiftLeft(baseDelay, n - 1) = {}
  BY BaseDelayWidth, SMT DEF ShiftLeft, Shifted, Bits, Width
<1>2. ~Less(maxDelay, {})
  BY DEF Less
<1> QED
  BY <1>1, <1>2 DEF CalculateBackoff
-----------------------------------------------------------------------------
(***************************************************************************)
(* The invariant is inductive.                                             *)
(***************************************************************************)
LEMMA InvInit == Init => Inv
BY ReconnectAssumption DEF Init, Inv, TypeOK, CountIsFailures, DelayIsBackoff

LEMMA InvStep == Inv /\ [Next]_vars => Inv'
<1> SUFFICES ASSUME Inv, [Next]_vars PROVE Inv'
  OBVIOUS
<1> USE DEF TypeOK, CountIsFailures, DelayIsBackoff
<1>1. CASE Top
  BY <1>1 DEF Top, Inv
<1>2. CASE Closes
  BY <1>2, ReconnectAssumption DEF Closes, Inv
<1>3. CASE Fails
  <2>1. retryCount + 1 \in 1 .. MaxRetryCount
    BY <1>3, ReconnectAssumption DEF Fails, Inv
  <2>2. CalculateBackoff(retryCount + 1) \subseteq Bits
    BY <2>1, BackoffType
  <2> QED
    BY <1>3, <2>1, <2>2 DEF Fails, Inv
<1>4. CASE WaitOver
  BY <1>4 DEF WaitOver, Inv
<1>5. CASE UNCHANGED vars
  BY <1>5 DEF vars, Inv
<1> QED
  BY <1>1, <1>2, <1>3, <1>4, <1>5 DEF Next

LEMMA InvCorrect == Spec => []Inv
BY InvInit, InvStep, PTL DEF Spec
-----------------------------------------------------------------------------
(***************************************************************************)
(* Theorems.                                                               *)
(***************************************************************************)

(* Until the product overflows, the wait after the n-th failure is the       *)
(* smaller of 2min and 2s * 2^(n - 1) (tunnel.go:112).                       *)
THEOREM DelayIsExactCorrect == Spec => []DelayIsExact
<1>1. Inv => DelayIsExact
  <2> SUFFICES ASSUME Inv, loop = "backoff", failures <= LastExact
               PROVE  LET exact == Shifted(baseDelay, failures - 1) IN
                      delay = IF Less(maxDelay, exact) THEN maxDelay ELSE exact
    BY DEF DelayIsExact
  <2>1. failures \in 1 .. LastExact /\ delay = CalculateBackoff(failures)
    BY DEF Inv, TypeOK, CountIsFailures, DelayIsBackoff
  <2> QED
    BY <2>1, BackoffExact
<1> QED
  BY <1>1, InvCorrect, PTL

(* Until the product overflows, no failure is followed by a shorter wait     *)
(* than the failure before it, unless a connection closed gracefully in      *)
(* between (tunnel.go:76, 97, 113).                                          *)
THEOREM NeverRelaxesCorrect == Spec => NeverRelaxes
<1> DEFINE A == loop' = "backoff" /\ failures' <= LastExact => ~Less(delay', delay)
<1>1. ASSUME Inv, Next PROVE A
  <2> SUFFICES ASSUME loop' = "backoff", failures' <= LastExact
               PROVE  ~Less(delay', delay)
    OBVIOUS
  <2> USE <1>1
  <2>1. Fails
    BY DEF Next, Top, Closes, WaitOver
  <2>2. /\ retryCount \in Nat /\ failures' = retryCount + 1
        /\ delay' = CalculateBackoff(retryCount + 1)
        /\ delay = IF retryCount = 0 THEN {} ELSE CalculateBackoff(retryCount)
    BY <2>1, ReconnectAssumption DEF Fails, Inv, TypeOK, CountIsFailures, DelayIsBackoff
  <2>3. CASE retryCount = 0
    BY <2>2, <2>3 DEF Less
  <2>4. CASE retryCount > 0
    BY <2>2, <2>4, BackoffGrows DEF LastExact
  <2> QED
    BY <2>2, <2>3, <2>4
<1>2. Inv /\ [Next]_vars => [A]_vars
  BY <1>1
<1> QED
  BY <1>2, InvCorrect, PTL DEF NeverRelaxes, Spec

(* From the 55th failure in a row the product is zero and stays zero: the    *)
(* device then reconnects without any pause (tunnel.go:113).                 *)
THEOREM PauseIsLost == Spec => [](loop = "backoff" /\ failures >= 55 => delay = {})
<1>1. Inv => (loop = "backoff" /\ failures >= 55 => delay = {})
  BY BackoffLost DEF Inv, TypeOK, CountIsFailures, DelayIsBackoff
<1> QED
  BY <1>1, InvCorrect, PTL
=============================================================================
