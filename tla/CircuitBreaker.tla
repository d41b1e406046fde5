--------------------------- MODULE CircuitBreaker ---------------------------
(* One CircuitBreaker shared by the handler goroutines of a process.  Each thread
   repeats what executeWithBreaker does: Allow, the provider call if allowed, then
   RecordSuccess or RecordFailure.  A step is one atomic instruction, or one critical
   section of mu: what a section writes before its store to state (lastFailure) is
   read under mu only, and its time test cannot become false while mu is held, so
   that each section takes effect at its store.

   failures stops counting at Threshold: the code only compares it with threshold
   and resets it.  elapsed is time.Since(lastFailure), which stops at Timeout. *)
EXTENDS Naturals, FiniteSets

CONSTANTS
    Threads,    \* handler goroutines
    Threshold,  \* consecutive failures that open the breaker
    Timeout     \* ticks the breaker stays open

ASSUME ThresholdAssumption == Threshold \in Nat \ {0}
ASSUME TimeoutAssumption   == Timeout \in Nat \ {0}

VARIABLES
    state,      \* "CLOSED", "OPEN" or "HALF-OPEN"
    failures,   \* failures counted, 0..Threshold
    elapsed,    \* ticks since lastFailure, 0..Timeout
    pc,         \* where each thread stands
    healthy,    \* does the provider answer?
    probes,     \* history: threads let through by a breaker that was not CLOSED
    reopened,   \* history: was the last store to state that of an Allow which found
                \* the breaker CLOSED and made it HALF-OPEN?
    raced       \* history: did the last trip overlap a RecordSuccess that had reset the
                \* counter, or was to do so or to close the breaker?

vars == <<state, failures, elapsed, pc, healthy, probes, reopened, raced>>

Stages == {"idle", "allow", "open", "calling", "success", "reset", "close",
           "failure", "trip"}

TypeOK ==
    /\ state \in {"CLOSED", "OPEN", "HALF-OPEN"}
    /\ failures \in 0..Threshold
    /\ elapsed \in 0..Timeout
    /\ pc \in [Threads -> Stages]
    /\ healthy \in BOOLEAN
    /\ probes \subseteq Threads
    /\ reopened \in BOOLEAN
    /\ raced \in BOOLEAN

Init ==
    /\ state = "CLOSED"
    /\ failures = 0
    /\ elapsed = Timeout
    /\ pc = [t \in Threads |-> "idle"]
    /\ healthy \in BOOLEAN
    /\ probes = {}
    /\ reopened = FALSE
    /\ raced = FALSE

-----------------------------------------------------------------------------

Goto(t, stage) == pc' = [pc EXCEPT ![t] = stage]

Request(t) ==
    /\ pc[t] = "idle"
    /\ Goto(t, "allow")
    /\ UNCHANGED <<state, failures, elapsed, healthy, probes, reopened, raced>>

(* Allow: the atomic load of state.  HALF-OPEN lets everyone through. *)
AllowLoad(t) ==
    /\ pc[t] = "allow"
    /\ Goto(t, IF state = "OPEN" THEN "open" ELSE "calling")
    /\ probes' = IF state = "HALF-OPEN" THEN probes \cup {t} ELSE probes
    /\ UNCHANGED <<state, failures, elapsed, healthy, reopened, raced>>

(* Mutant: the breaker closes when its time is up, with no HALF-OPEN state. *)
AllowAfterTimeout_Closes(t) ==
    /\ pc[t] = "open"
    /\ elapsed = Timeout
    /\ state' = "CLOSED"
    /\ Goto(t, "calling")
    /\ UNCHANGED <<failures, elapsed, healthy, probes, reopened, raced>>

(* Allow: the section of mu entered because state was OPEN.  The transition does
   not look at state again: it may have been closed in between. *)
AllowAfterTimeout(t) ==
    /\ pc[t] = "open"
    /\ elapsed = Timeout
    /\ state' = "HALF-OPEN"
    /\ probes' = probes \cup {t}
    /\ reopened' = (reopened \/ state = "CLOSED")
    /\ Goto(t, "calling")
    /\ UNCHANGED <<failures, elapsed, healthy, raced>>

Refuse(t) ==
    /\ pc[t] = "open"
    /\ elapsed < Timeout
    /\ Goto(t, "idle")
    /\ UNCHANGED <<state, failures, elapsed, healthy, probes, reopened, raced>>

ProviderAnswers(t) ==
    /\ pc[t] = "calling"
    /\ Goto(t, IF healthy THEN "success" ELSE "failure")
    /\ probes' = probes \ {t}
    /\ UNCHANGED <<state, failures, elapsed, healthy, reopened, raced>>

(* Mutants: RecordSuccess without its test of state, and one that forgets HALF-OPEN. *)
SuccessLoad_NoTest(t) ==
    /\ pc[t] = "success"
    /\ Goto(t, "reset")
    /\ UNCHANGED <<state, failures, elapsed, healthy, probes, reopened, raced>>
SuccessLoad_ClosedOnly(t) ==
    /\ pc[t] = "success"
    /\ Goto(t, IF state = "CLOSED" THEN "reset" ELSE "idle")
    /\ UNCHANGED <<state, failures, elapsed, healthy, probes, reopened, raced>>

(* RecordSuccess: load state, store failures, store state, three instructions. *)
SuccessLoad(t) ==
    /\ pc[t] = "success"
    /\ Goto(t, IF state = "OPEN" THEN "idle" ELSE "reset")
    /\ UNCHANGED <<state, failures, elapsed, healthy, probes, reopened, raced>>

(* Mutant: the counter survives a success. *)
SuccessReset_Forgets(t) ==
    /\ pc[t] = "reset"
    /\ Goto(t, "close")
    /\ UNCHANGED <<state, failures, elapsed, healthy, probes, reopened, raced>>

SuccessReset(t) ==
    /\ pc[t] = "reset"
    /\ failures' = 0
    /\ Goto(t, "close")
    /\ UNCHANGED <<state, elapsed, healthy, probes, reopened, raced>>

SuccessClose(t) ==
    /\ pc[t] = "close"
    /\ state' = "CLOSED"
    /\ reopened' = FALSE
    /\ Goto(t, "idle")
    /\ UNCHANGED <<failures, elapsed, healthy, probes, raced>>

RecordingSuccess == {t \in Threads : pc[t] \in {"reset", "close"}}

(* Mutant: the breaker trips one failure late. *)
FailureAdd_OffByOne(t) ==
    /\ pc[t] = "failure"
    /\ failures' = IF failures <= Threshold THEN failures + 1 ELSE Threshold
    /\ Goto(t, IF failures' > Threshold THEN "trip" ELSE "idle")
    /\ UNCHANGED <<state, elapsed, healthy, probes, reopened, raced>>

(* RecordFailure: count, then open under mu if the count reached the threshold. *)
FailureAdd(t) ==
    /\ pc[t] = "failure"
    /\ failures' = IF failures < Threshold THEN failures + 1 ELSE Threshold
    /\ Goto(t, IF failures' = Threshold THEN "trip" ELSE "idle")
    /\ UNCHANGED <<state, elapsed, healthy, probes, reopened, raced>>

(* Mutant: tripping again does not renew lastFailure. *)
FailureTrip_OldClock(t) ==
    /\ pc[t] = "trip"
    /\ state' = "OPEN"
    /\ elapsed' = IF state = "OPEN" THEN elapsed ELSE 0
    /\ reopened' = FALSE
    /\ raced' = (failures < Threshold \/ RecordingSuccess # {})
    /\ Goto(t, "idle")
    /\ UNCHANGED <<failures, healthy, probes>>

FailureTrip(t) ==
    /\ pc[t] = "trip"
    /\ state' = "OPEN"
    /\ elapsed' = 0
    /\ reopened' = FALSE
    /\ raced' = (failures < Threshold \/ RecordingSuccess # {})
    /\ Goto(t, "idle")
    /\ UNCHANGED <<failures, healthy, probes>>

(* The environment: the provider breaks down and recovers, time passes. *)
ProviderChanges ==
    /\ healthy' = ~healthy
    /\ UNCHANGED <<state, failures, elapsed, pc, probes, reopened, raced>>

Tick ==
    /\ elapsed < Timeout
    /\ elapsed' = elapsed + 1
    /\ UNCHANGED <<state, failures, pc, healthy, probes, reopened, raced>>

Step(t) ==
    \/ Request(t)
    \/ AllowLoad(t) \/ AllowAfterTimeout(t) \/ Refuse(t)
    \/ ProviderAnswers(t)
    \/ SuccessLoad(t) \/ SuccessReset(t) \/ SuccessClose(t)
    \/ FailureAdd(t) \/ FailureTrip(t)

Next == ProviderChanges \/ Tick \/ \E t \in Threads : Step(t)

Spec == Init /\ [][Next]_vars

(* Goroutines run, calls end, clients keep sending and time passes; the provider's
   health follows no rule. *)
FairSpec == Spec /\ WF_vars(Tick) /\ \A t \in Threads : WF_vars(Step(t))

-----------------------------------------------------------------------------
(* Unless the last trip overlapped a RecordSuccess, the counter and the state agree.  A
   breaker that is not CLOSED has counted Threshold failures, so that one failed probe
   opens it again, or is being closed; the exception is one that a late Allow made
   HALF-OPEN after it had been closed, which needs as many failures to open as a CLOSED
   one.  A CLOSED breaker is below the threshold or about to trip. *)
FailuresMatchState ==
    raced \/ /\ state # "CLOSED" /\ failures < Threshold
                  => reopened \/ \E t \in Threads : pc[t] = "close"
             /\ state = "CLOSED" /\ failures = Threshold => \E t \in Threads : pc[t] = "trip"

(* Unless the last trip overlapped a RecordSuccess, which may close the breaker it opened,
   an OPEN breaker turns HALF-OPEN, never CLOSED, and only when Timeout has passed since
   the last failure it recorded. *)
OpenWindowHolds ==
    [][state = "OPEN" /\ state' # "OPEN" /\ ~raced' =>
           state' = "HALF-OPEN" /\ elapsed = Timeout]_vars

(* What one sees who takes each method to happen at once: a success that counts when it
   resets the counter, a failure that trips when it opens the breaker.  A breaker that a
   late Allow made HALF-OPEN after it had been closed lets everyone through and needs
   Threshold failures to open: to its callers it is CLOSED, whatever State() reports. *)
Closing == \E t \in Threads : pc[t] = "close"

SeenState == IF Closing \/ reopened THEN "CLOSED" ELSE state

SeenBreaker ==
    [state    |-> SeenState,
     failures |-> IF SeenState = "CLOSED" /\ failures = Threshold THEN Threshold - 1 ELSE failures,
     elapsed  |-> elapsed]

SeenAbout == [p \in Stages |->
    CASE p \in {"idle", "close"}    -> "idle"
      [] p \in {"allow", "open"}    -> "allow"
      [] p = "calling"              -> "calling"
      [] p \in {"success", "reset"} -> "success"
      [] p \in {"failure", "trip"}  -> "failure"]

SeenStage == [t \in Threads |-> SeenAbout[pc[t]]]

Atomic == INSTANCE AtomicBreaker WITH breaker <- SeenBreaker, stage <- SeenStage

(* To the goroutines that share it the breaker is atomic, although each method is several
   instructions: whom it lets through, whom it refuses, and what it has counted are what
   whole calls in some order give.  A trip that overlaps a RecordSuccess suspends this,
   and the next trip that overlaps none, whatever it finds, restores it. *)
ImplementsAtomicBreaker == Atomic!Spec

(* Whatever the races left behind, a provider that stays up is served again for
   good, and one that stays down is at last called through probes only. *)
Recovers == <>[]healthy => <>[](state = "CLOSED")
Trips    == <>[]~healthy => <>[](state # "CLOSED")

(* breaker.go:48: a HALF-OPEN breaker lets "one probe through". *)
HalfOpenSingleProbe == Cardinality(probes) <= 1
=============================================================================
