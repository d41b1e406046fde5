---------------------------- MODULE BreakerSteps ----------------------------
(* What one call of a CircuitBreaker's methods makes of the breaker when no other call
   overlaps it.  AtomicBreaker makes a specification of these steps, which CircuitBreaker
   implements one instruction at a time; ProxyHandler takes them for granted. *)
EXTENDS Naturals

CONSTANTS
    Threshold,  \* consecutive failures that open a breaker
    Timeout     \* ticks it stays open

ASSUME BreakerAssumption == Threshold \in Nat \ {0} /\ Timeout \in Nat \ {0}

(* The counter stops at Threshold, which is all it is compared with. *)
Breaker == [state: {"CLOSED", "OPEN", "HALF-OPEN"}, failures: 0..Threshold,
            elapsed: 0..Timeout]

NewBreaker == [state |-> "CLOSED", failures |-> 0, elapsed |-> Timeout]

(* Allow: does the breaker let a request through, and what is it then? *)
Passes(b) == b.state # "OPEN" \/ b.elapsed = Timeout
Tried(b)  == [b EXCEPT !.state = IF b.state = "OPEN" THEN "HALF-OPEN" ELSE b.state]

(* RecordSuccess *)
Closed(b)       == [state |-> "CLOSED", failures |-> 0, elapsed |-> b.elapsed]
AfterSuccess(b) == IF b.state = "OPEN" THEN b ELSE Closed(b)

(* RecordFailure: a failure, or one too many. *)
Counted(b)      == [b EXCEPT !.failures = b.failures + 1]
Tripped         == [state |-> "OPEN", failures |-> Threshold, elapsed |-> 0]
AfterFailure(b) == IF b.failures + 1 >= Threshold THEN Tripped ELSE Counted(b)

(* A unit of time. *)
Older(b) == [b EXCEPT !.elapsed = IF b.elapsed < Timeout THEN b.elapsed + 1 ELSE Timeout]
=============================================================================
