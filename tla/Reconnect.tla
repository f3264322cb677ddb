------------------------------ MODULE Reconnect ------------------------------
(***************************************************************************)
(* The reconnection loop of TunnelManager.Start with its retry counter and *)
(* the delays calculateBackoff gives it, in the 64 bit arithmetic of       *)
(* time.Duration.                                                          *)
(*                                                                         *)
(* baseDelay is 2s = 1953125 * 1024ns and maxDelay 2min = 117187500 *      *)
(* 1024ns, so in units of 1024ns a delay is a 54 bit two's complement      *)
(* number and nothing is rounded.  It is represented by the set of its     *)
(* bits that are 1.                                                        *)
(***************************************************************************)
EXTENDS Naturals

CONSTANT MaxRetryCount      \* bound: how many failures in a row are looked at

ASSUME ReconnectAssumption == MaxRetryCount \in Nat

Width == 54
Bits == 0 .. Width - 1

(* The bits of a number below 2^27.                                          *)
BitsOf(n) == {i \in 0 .. 26 : (n \div 2^i) % 2 = 1}

baseDelay == BitsOf(1953125)
maxDelay  == BitsOf(117187500)

(* x < y for non-negative numbers of any width: y has the highest bit in     *)
(* which they differ.                                                        *)
Less(x, y) == \E i \in y \ x : \A j \in x \ y : j < i

Negative(x) == Width - 1 \in x

(* x * 2^k, exactly.                                                         *)
Shifted(x, k) == {i + k : i \in x}

(* baseDelay * time.Duration(1<<uint(k)) wraps around.                       *)
ShiftLeft(x, k) == Shifted(x, k) \cap Bits
-----------------------------------------------------------------------------
(* Mutant: a delay above the cap starts over at baseDelay.                   *)
BackoffStartsOver(n) ==
    LET delay == ShiftLeft(baseDelay, n - 1) IN
    IF ~Negative(delay) /\ Less(maxDelay, delay) THEN baseDelay ELSE delay

(* calculateBackoff.                                                         *)
CalculateBackoff(n) ==
    LET delay == ShiftLeft(baseDelay, n - 1) IN
    IF ~Negative(delay) /\ Less(maxDelay, delay) THEN maxDelay ELSE delay
-----------------------------------------------------------------------------
VARIABLES
    loop,       \* where Start is
    retryCount,
    (* History, both since a connection last closed gracefully.              *)
    delay,      \* the wait after the last failure, {} before the first
    failures    \* how many there were

vars == <<loop, retryCount, delay, failures>>

TypeOK ==
    /\ loop \in {"top", "connected", "backoff", "pause", "returned"}
    /\ retryCount \in 0 .. MaxRetryCount
    /\ delay \subseteq Bits
    /\ failures \in Nat

Init == loop = "top" /\ retryCount = 0 /\ delay = {} /\ failures = 0

(* The head of the loop: the context is cancelled, the endpoint cannot be    *)
(* created, or CreateWebSocketTunnel is called.                              *)
Top ==
    /\ loop = "top"
    /\ loop' \in {"returned", "connected"}
    /\ UNCHANGED <<retryCount, delay, failures>>

(* Mutant: the counter is left alone when a connection closes gracefully.    *)
ClosesKeepsCount ==
    /\ loop = "connected"
    /\ loop' = "pause"
    /\ delay' = {}
    /\ failures' = 0
    /\ UNCHANGED retryCount

(* CreateWebSocketTunnel returns without an error ...                        *)
Closes ==
    /\ loop = "connected"
    /\ loop' = "pause"
    /\ retryCount' = 0
    /\ delay' = {}
    /\ failures' = 0

(* ... or with one.                                                          *)
Fails ==
    /\ loop = "connected"
    /\ retryCount < MaxRetryCount
    /\ retryCount' = retryCount + 1
    /\ failures' = failures + 1
    /\ delay' = CalculateBackoff(retryCount')
    /\ loop' = "backoff"

(* The timer fires or the context is cancelled.                              *)
WaitOver ==
    /\ loop \in {"backoff", "pause"}
    /\ loop' \in {"top", "returned"}
    /\ UNCHANGED <<retryCount, delay, failures>>

Next == Top \/ Closes \/ Fails \/ WaitOver

Spec == Init /\ [][Next]_vars
-----------------------------------------------------------------------------
(* The largest number of failures whose product does not overflow.           *)
LastExact == 33

(* Until the product overflows, the wait after a failure is the smaller of   *)
(* 2min and 2s * 2^(n - 1), computed exactly, for the n-th failure since a   *)
(* connection last closed gracefully.                                        *)
DelayIsExact ==
    loop = "backoff" /\ failures <= LastExact =>
        LET exact == Shifted(baseDelay, failures - 1) IN
        delay = IF Less(maxDelay, exact) THEN maxDelay ELSE exact

(* A server that stays away is not asked more often again: until the product *)
(* overflows, no failure is followed by a shorter wait than the failure      *)
(* before it.  Only a connection that closes gracefully lets the waits start *)
(* over.                                                                     *)
NeverRelaxes ==
    [][loop' = "backoff" /\ failures' <= LastExact => ~Less(delay', delay)]_vars

(* tunnel.go:111, "calculateBackoff implements exponential backoff": a retry *)
(* is never sooner than the first one was.  The 34th product is negative,    *)
(* and from the 55th on it is zero.                                          *)
NeverTooSoon ==
    loop = "backoff" => ~Negative(delay) /\ ~Less(delay, baseDelay)
=============================================================================
