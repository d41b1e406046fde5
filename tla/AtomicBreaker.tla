--------------------------- MODULE AtomicBreaker ---------------------------
(* What a CircuitBreaker promises the goroutines that share it: each of its methods takes
   effect at once, between its call and its return.  A trip that overlaps a RecordSuccess
   suspends the promise; the next trip that overlaps none gives it again. *)
EXTENDS BreakerSteps

CONSTANT Threads    \* handler goroutines

VARIABLES
    breaker,    \* [state, failures, elapsed since lastFailure]
    stage,      \* what each thread is about: "idle", "allow", "calling", "success", "failure"
    raced       \* did the last trip overlap a RecordSuccess?

Init ==
    /\ breaker = NewBreaker
    /\ stage = [t \in Threads |-> "idle"]
    /\ raced = FALSE

Moves(t, from, to) ==
    /\ stage[t] = from
    /\ stage' = [stage EXCEPT ![t] = to]

Request(t) == Moves(t, "idle", "allow") /\ UNCHANGED breaker

Allow(t)  == Moves(t, "allow", "calling") /\ Passes(breaker) /\ breaker' = Tried(breaker)
Refuse(t) == Moves(t, "allow", "idle") /\ ~Passes(breaker) /\ UNCHANGED breaker

ProviderAnswers(t) ==
    /\ Moves(t, "calling", "success") \/ Moves(t, "calling", "failure")
    /\ UNCHANGED breaker

RecordSuccess(t) == Moves(t, "success", "idle") /\ breaker' = AfterSuccess(breaker)
RecordFailure(t) == Moves(t, "failure", "idle") /\ breaker' = AfterFailure(breaker)

Tick == breaker' = Older(breaker) /\ UNCHANGED stage

Step(t) ==
    \/ Request(t) \/ Allow(t) \/ Refuse(t)
    \/ ProviderAnswers(t) \/ RecordSuccess(t) \/ RecordFailure(t)

(* While raced holds nothing is promised, but that a trip which overlaps no RecordSuccess
   opens the breaker with a full counter and a new clock. *)
Overlap == raced' = TRUE

Settle(t) ==
    /\ raced /\ raced' = FALSE
    /\ Moves(t, "failure", "idle")
    /\ breaker' = Tripped

Next ==
    \/ Overlap
    \/ \E t \in Threads : Settle(t)
    \/ UNCHANGED raced /\ (Tick \/ \E t \in Threads : Step(t))

Spec == Init /\ [][Next]_<<breaker, stage, raced>>
=============================================================================
