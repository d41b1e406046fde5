------------------------ MODULE CircuitBreakerProofs ------------------------
(* Proofs about CircuitBreaker for any number of goroutines, any threshold and any
   timeout. *)
EXTENDS CircuitBreaker, TLAPS

USE ThresholdAssumption, TimeoutAssumption

LEMMA TypeInit == Init => TypeOK
<1> SUFFICES ASSUME Init PROVE TypeOK
  OBVIOUS
<1>1. healthy \in BOOLEAN /\ reopened \in BOOLEAN /\ raced \in BOOLEAN
  BY Zenon DEF Init
<1>2. /\ failures \in 0..Threshold /\ elapsed \in 0..Timeout
      /\ pc \in [Threads -> Stages] /\ probes \subseteq Threads
      /\ state \in {"CLOSED", "OPEN", "HALF-OPEN"}
  BY DEF Init, Stages
<1> QED
  BY <1>1, <1>2, Zenon DEF TypeOK

LEMMA TypeNext == TypeOK /\ [Next]_vars => TypeOK'
<1> SUFFICES ASSUME TypeOK, [Next]_vars PROVE TypeOK'
  OBVIOUS
<1>1. CASE UNCHANGED vars
  BY <1>1 DEF TypeOK, vars
<1>2. CASE ProviderChanges
  <2>1. healthy' \in BOOLEAN
    BY <1>2, Zenon DEF ProviderChanges
  <2> QED
    BY <1>2, <2>1, Zenon DEF ProviderChanges, TypeOK
<1>4. CASE Tick
  BY <1>4 DEF Tick, TypeOK
<1>3. ASSUME NEW t \in Threads, Step(t)
      PROVE  TypeOK'
  <2>1. CASE Request(t) \/ AllowLoad(t) \/ Refuse(t)
    BY <2>1 DEF Request, AllowLoad, Refuse, Goto, TypeOK, Stages
  <2>2. CASE AllowAfterTimeout(t) \/ SuccessClose(t) \/ FailureTrip(t)
    <3>1. reopened' \in BOOLEAN /\ raced' \in BOOLEAN
      <4>1. reopened \in BOOLEAN /\ raced \in BOOLEAN
        BY DEF TypeOK
      <4> QED
        BY <2>2, <4>1, Zenon DEF AllowAfterTimeout, SuccessClose, FailureTrip
    <3>2. /\ state' \in {"CLOSED", "OPEN", "HALF-OPEN"} /\ failures' \in 0..Threshold
          /\ elapsed' \in 0..Timeout /\ probes' \subseteq Threads
          /\ pc' \in [Threads -> Stages] /\ healthy' \in BOOLEAN
      BY <2>2 DEF AllowAfterTimeout, SuccessClose, FailureTrip, Goto, TypeOK, Stages
    <3> QED
      BY <3>1, <3>2, Zenon DEF TypeOK
  <2>3. CASE ProviderAnswers(t)
    BY <2>3 DEF ProviderAnswers, Goto, TypeOK, Stages
  <2>4. CASE SuccessLoad(t) \/ SuccessReset(t)
    BY <2>4 DEF SuccessLoad, SuccessReset, Goto, TypeOK, Stages
  <2>5. CASE FailureAdd(t)
    BY <2>5 DEF FailureAdd, Goto, TypeOK, Stages
  <2> QED
    BY <1>3, <2>1, <2>2, <2>3, <2>4, <2>5 DEF Step
<1> QED
  BY <1>1, <1>2, <1>3, <1>4 DEF Next

(* Type correctness of the breaker, for all constants. *)
THEOREM TypeCorrect == Spec => []TypeOK
  BY TypeInit, TypeNext, PTL DEF Spec

-----------------------------------------------------------------------------
(* Why FailuresMatchState is inductive.  Unless the last trip overlapped a RecordSuccess,
   nobody records a success while the breaker is OPEN, and once somebody has reset the
   counter in order to close the breaker, or a late Allow has made a closed breaker
   HALF-OPEN, only threads that will trip can have filled it again.  A trip that overlaps
   none finds the counter full and nobody recording a success, and so it restores these
   facts whatever the earlier ones left behind. *)
ReopenedIsHalfOpen == reopened => state = "HALF-OPEN"
NoSuccessWhileOpen == state = "OPEN" => RecordingSuccess = {}
FilledMeansTrip ==
    failures = Threshold /\ (reopened \/ \E t \in Threads : pc[t] = "close")
        => \E t \in Threads : pc[t] = "trip"

CounterFacts == ReopenedIsHalfOpen /\ (raced \/ (NoSuccessWhileOpen /\ FilledMeansTrip))

LEMMA CounterInit == Init => CounterFacts /\ FailuresMatchState
<1> SUFFICES ASSUME Init PROVE CounterFacts /\ FailuresMatchState
  OBVIOUS
<1>1. /\ reopened = FALSE /\ state = "CLOSED" /\ failures = 0
      /\ \A t \in Threads : pc[t] = "idle"
  BY DEF Init
<1> QED
  BY <1>1 DEF CounterFacts, ReopenedIsHalfOpen, NoSuccessWhileOpen, FilledMeansTrip,
              FailuresMatchState

LEMMA CounterNext ==
    TypeOK /\ CounterFacts /\ FailuresMatchState /\ [Next]_vars
        => CounterFacts' /\ FailuresMatchState'
<1> SUFFICES ASSUME TypeOK, CounterFacts, FailuresMatchState, [Next]_vars
             PROVE  CounterFacts' /\ FailuresMatchState'
  OBVIOUS
<1> USE DEF CounterFacts, ReopenedIsHalfOpen, NoSuccessWhileOpen, FilledMeansTrip,
            FailuresMatchState, RecordingSuccess
<1>1. CASE UNCHANGED vars
  BY <1>1 DEF vars
<1>2. CASE ProviderChanges \/ Tick
  BY <1>2 DEF ProviderChanges, Tick
<1>3. ASSUME NEW t \in Threads, Step(t)
      PROVE  CounterFacts' /\ FailuresMatchState'
  <2>1. CASE Request(t) \/ AllowLoad(t) \/ Refuse(t) \/ ProviderAnswers(t)
    BY <2>1 DEF Request, AllowLoad, Refuse, ProviderAnswers, Goto, TypeOK
  <2>2. CASE AllowAfterTimeout(t)
    BY <2>2 DEF AllowAfterTimeout, Goto, TypeOK
  <2>3. CASE SuccessLoad(t)
    BY <2>3 DEF SuccessLoad, Goto, TypeOK
  <2>4. CASE SuccessReset(t)
    BY <2>4 DEF SuccessReset, Goto, TypeOK
  <2>5. CASE SuccessClose(t)
    BY <2>5 DEF SuccessClose, Goto, TypeOK
  <2>6. CASE FailureAdd(t)
    BY <2>6 DEF FailureAdd, Goto, TypeOK
  <2>7. CASE FailureTrip(t)
    <3>4. reopened' = FALSE
      BY <2>7, Zenon DEF FailureTrip
    <3> SUFFICES ASSUME ~raced' PROVE CounterFacts' /\ FailuresMatchState'
      BY <3>4, Zenon
    <3>0. ~(failures < Threshold) /\ RecordingSuccess = {}
      BY <2>7, Zenon DEF FailureTrip
    <3>1. failures = Threshold
      BY <3>0 DEF TypeOK
    <3>2. state' = "OPEN" /\ failures' = Threshold
      BY <2>7, <3>1 DEF FailureTrip
    <3>3. \A u \in Threads : pc'[u] \notin {"reset", "close"}
      BY <2>7, <3>0 DEF FailureTrip, Goto, TypeOK
    <3> QED
      BY <3>2, <3>3, <3>4
  <2> QED
    BY <1>3, <2>1, <2>2, <2>3, <2>4, <2>5, <2>6, <2>7 DEF Step
<1> QED
  BY <1>1, <1>2, <1>3 DEF Next

(* Counter and state agree for any number of goroutines, unless the last trip overlapped a
   RecordSuccess; a late Allow of a closed breaker makes no exception but the one the
   property names. *)
THEOREM FailuresMatchStateHolds == Spec => []FailuresMatchState
  BY TypeInit, TypeNext, CounterInit, CounterNext, PTL DEF Spec

(* The open window is cut short by nothing but a RecordSuccess that overlapped the trip. *)
THEOREM OpenWindowHoldsAlways == Spec => OpenWindowHolds
<1> DEFINE Window == state = "OPEN" /\ state' # "OPEN" /\ ~raced'
                         => state' = "HALF-OPEN" /\ elapsed = Timeout
<1>1. TypeOK /\ CounterFacts /\ [Next]_vars => [Window]_vars
  <2> SUFFICES ASSUME TypeOK, CounterFacts, [Next]_vars, state = "OPEN", state' # "OPEN", ~raced'
               PROVE  state' = "HALF-OPEN" /\ elapsed = Timeout
    OBVIOUS
  <2>1. PICK t \in Threads : Step(t)
    BY DEF Next, vars, ProviderChanges, Tick
  <2>2. AllowAfterTimeout(t) \/ SuccessClose(t)
    BY <2>1 DEF Step, Request, AllowLoad, Refuse, ProviderAnswers, SuccessLoad,
                SuccessReset, FailureAdd, FailureTrip
  <2>3. ~SuccessClose(t)
    BY DEF SuccessClose, CounterFacts, NoSuccessWhileOpen, RecordingSuccess
  <2> QED
    BY <2>2, <2>3 DEF AllowAfterTimeout
<1> QED
  BY <1>1, TypeInit, TypeNext, CounterInit, CounterNext, PTL DEF Spec, OpenWindowHolds

-----------------------------------------------------------------------------
(* Why the breaker looks atomic.  A goroutine that is about to read the time under mu
   because it saw the breaker OPEN finds it OPEN still if its time is not up: only a
   trip sets the clock back. *)
OpenFacts ==
    raced \/ \A t \in Threads : pc[t] = "open" /\ elapsed < Timeout => state = "OPEN"

LEMMA OpenInit == Init => OpenFacts
  BY DEF Init, OpenFacts

LEMMA OpenNext == TypeOK /\ CounterFacts /\ OpenFacts /\ [Next]_vars => OpenFacts'
<1> SUFFICES ASSUME TypeOK, CounterFacts, OpenFacts, [Next]_vars
             PROVE  OpenFacts'
  OBVIOUS
<1> USE DEF OpenFacts
<1>1. CASE UNCHANGED vars
  BY <1>1 DEF vars
<1>2. CASE ProviderChanges \/ Tick
  BY <1>2 DEF ProviderChanges, Tick, TypeOK
<1>3. ASSUME NEW t \in Threads, Step(t)
      PROVE  OpenFacts'
  <2>1. CASE Request(t) \/ AllowLoad(t) \/ Refuse(t) \/ ProviderAnswers(t)
    BY <2>1 DEF Request, AllowLoad, Refuse, ProviderAnswers, Goto, TypeOK
  <2>2. CASE AllowAfterTimeout(t)
    BY <2>2 DEF AllowAfterTimeout, Goto, TypeOK
  <2>3. CASE SuccessLoad(t) \/ SuccessReset(t)
    BY <2>3 DEF SuccessLoad, SuccessReset, Goto, TypeOK
  <2>4. CASE SuccessClose(t)
    <3>1. raced \/ state # "OPEN"
      BY <2>4 DEF SuccessClose, CounterFacts, NoSuccessWhileOpen, RecordingSuccess
    <3> QED
      BY <2>4, <3>1 DEF SuccessClose, Goto, TypeOK
  <2>5. CASE FailureAdd(t)
    BY <2>5 DEF FailureAdd, Goto, TypeOK
  <2>6. CASE FailureTrip(t)
    BY <2>6 DEF FailureTrip, Goto, TypeOK
  <2> QED
    BY <1>3, <2>1, <2>2, <2>3, <2>4, <2>5, <2>6 DEF Step
<1> QED
  BY <1>1, <1>2, <1>3 DEF Next

LEMMA SeenValues ==
    /\ SeenAbout["idle"] = "idle" /\ SeenAbout["close"] = "idle"
    /\ SeenAbout["allow"] = "allow" /\ SeenAbout["open"] = "allow"
    /\ SeenAbout["calling"] = "calling"
    /\ SeenAbout["success"] = "success" /\ SeenAbout["reset"] = "success"
    /\ SeenAbout["failure"] = "failure" /\ SeenAbout["trip"] = "failure"
  BY DEF SeenAbout, Stages

(* One thread that moves seems to move from what it seemed to be about, or not to move. *)
LEMMA SeenMove ==
    ASSUME TypeOK, TypeOK', NEW t \in Threads, NEW from \in Stages, NEW to \in Stages,
           pc[t] = from, Goto(t, to)
    PROVE  /\ SeenStage[t] = SeenAbout[from]
           /\ SeenStage' = [SeenStage EXCEPT ![t] = SeenAbout[to]]
<1>1. SeenStage = [u \in Threads |-> SeenAbout[pc[u]]]
  BY DEF SeenStage
<1>2. SeenStage' = [u \in Threads |-> SeenAbout[pc'[u]]]
  BY DEF SeenStage
<1>3. pc' = [pc EXCEPT ![t] = to] /\ pc \in [Threads -> Stages]
  BY DEF Goto, TypeOK
<1>4. \A u \in Threads : pc'[u] = IF u = t THEN to ELSE pc[u]
  BY <1>3
<1>5. SeenStage[t] = SeenAbout[from]
  BY <1>1
<1>6. SeenStage' = [u \in Threads |-> IF u = t THEN SeenAbout[to] ELSE SeenStage[u]]
  BY <1>1, <1>2, <1>4
<1> QED
  BY <1>1, <1>5, <1>6

LEMMA SeenStill == ASSUME pc' = pc PROVE SeenStage' = SeenStage
  BY DEF SeenStage

(* A thread that neither starts nor stops closing the breaker leaves it as seen. *)
LEMMA ClosingMove ==
    ASSUME TypeOK, NEW t \in Threads, NEW to \in Stages, Goto(t, to),
           pc[t] # "close", to # "close"
    PROVE  Closing' = Closing
<1>1. \A u \in Threads : pc'[u] = IF u = t THEN to ELSE pc[u]
  BY DEF Goto, TypeOK
<1>2. \A u \in Threads : pc'[u] = "close" <=> pc[u] = "close"
  BY <1>1
<1> QED
  BY <1>2 DEF Closing

LEMMA SeenBreakerKept ==
    ASSUME Closing' = Closing, UNCHANGED <<state, failures, elapsed, reopened>>
    PROVE  SeenBreaker' = SeenBreaker
<1>1. SeenState' = SeenState
  BY DEF SeenState
<1> QED
  BY <1>1 DEF SeenBreaker

LEMMA SeenBreakerMove ==
    ASSUME TypeOK, NEW t \in Threads, NEW to \in Stages, Goto(t, to),
           pc[t] # "close", to # "close", UNCHANGED <<state, failures, elapsed, reopened>>
    PROVE  SeenBreaker' = SeenBreaker
  BY ClosingMove, SeenBreakerKept

(* The invariant under which each instruction is a step of the atomic breaker or none. *)
AtomicInv == TypeOK /\ CounterFacts /\ FailuresMatchState /\ OpenFacts

LEMMA RequestIsAtomic ==
    ASSUME AtomicInv, AtomicInv', NEW t \in Threads, Request(t)
    PROVE  Atomic!Request(t)
<1>1. TypeOK /\ TypeOK' /\ "idle" \in Stages /\ "allow" \in Stages
  BY DEF AtomicInv, Stages
<1>2. pc[t] = "idle" /\ Goto(t, "allow") /\ UNCHANGED <<state, failures, elapsed, reopened>>
  BY DEF Request
<1>3. SeenStage[t] = "idle" /\ SeenStage' = [SeenStage EXCEPT ![t] = "allow"]
  BY <1>1, <1>2, SeenMove, SeenValues
<1>4. SeenBreaker' = SeenBreaker
  BY <1>1, <1>2, SeenBreakerMove
<1> QED
  BY <1>3, <1>4 DEF Atomic!Request, Atomic!Moves

(* A breaker seen OPEN is OPEN, and nobody closes it. *)
LEMMA SeenPasses ==
    ASSUME AtomicInv, ~raced
    PROVE  /\ Atomic!Passes(SeenBreaker) <=> (state # "OPEN" \/ elapsed = Timeout)
           /\ state = "OPEN" => ~Closing /\ ~reopened /\ SeenState = "OPEN"
<1>1. state = "OPEN" => ~Closing /\ ~reopened
  BY DEF AtomicInv, CounterFacts, ReopenedIsHalfOpen, NoSuccessWhileOpen,
         RecordingSuccess, Closing
<1>2. SeenState = "OPEN" <=> state = "OPEN"
  BY <1>1 DEF SeenState
<1>3. SeenBreaker.state = SeenState /\ SeenBreaker.elapsed = elapsed
  BY DEF SeenBreaker
<1> QED
  BY <1>1, <1>2, <1>3 DEF Atomic!Passes

LEMMA AllowLoadIsAtomic ==
    ASSUME AtomicInv, AtomicInv', ~raced, NEW t \in Threads, AllowLoad(t)
    PROVE  Atomic!Allow(t) \/ UNCHANGED <<SeenBreaker, SeenStage>>
<1>1. /\ TypeOK /\ TypeOK'
      /\ "allow" \in Stages /\ "open" \in Stages /\ "calling" \in Stages
  BY DEF AtomicInv, Stages
<1>2. pc[t] = "allow" /\ UNCHANGED <<state, failures, elapsed, reopened>>
  BY DEF AllowLoad
<1>3. CASE state = "OPEN"
  <2>1. Goto(t, "open")
    BY <1>3 DEF AllowLoad
  <2>2. SeenBreaker' = SeenBreaker
    BY <1>1, <1>2, <2>1, SeenBreakerMove
  <2>3. SeenStage[t] = "allow" /\ SeenStage' = [SeenStage EXCEPT ![t] = "allow"]
    BY <1>1, <1>2, <2>1, SeenMove, SeenValues
  <2>4. SeenStage' = SeenStage
    BY <2>3 DEF SeenStage
  <2> QED
    BY <2>2, <2>4
<1>4. CASE state # "OPEN"
  <2>1. Goto(t, "calling")
    BY <1>4 DEF AllowLoad
  <2>2. SeenBreaker' = SeenBreaker
    BY <1>1, <1>2, <2>1, SeenBreakerMove
  <2>3. SeenStage[t] = "allow" /\ SeenStage' = [SeenStage EXCEPT ![t] = "calling"]
    BY <1>1, <1>2, <2>1, SeenMove, SeenValues
  <2>4. SeenState # "OPEN"
    BY <1>4 DEF SeenState
  <2>5. Atomic!Tried(SeenBreaker) = SeenBreaker
    BY <2>4 DEF Atomic!Tried, SeenBreaker
  <2>6. Atomic!Passes(SeenBreaker)
    BY <1>4, SeenPasses
  <2> QED
    BY <2>2, <2>3, <2>5, <2>6 DEF Atomic!Allow, Atomic!Moves
<1> QED
  BY <1>3, <1>4

(* A thread that found the breaker OPEN lets the request through if the time is up,
   whatever the breaker has become since; one that was closed goes on being seen CLOSED. *)
LEMMA AllowAfterTimeoutIsAtomic ==
    ASSUME AtomicInv, AtomicInv', ~raced, NEW t \in Threads, AllowAfterTimeout(t)
    PROVE  Atomic!Allow(t)
<1>1. /\ TypeOK /\ TypeOK' /\ "open" \in Stages /\ "calling" \in Stages
  BY DEF AtomicInv, Stages
<1>2. /\ pc[t] = "open" /\ Goto(t, "calling") /\ elapsed = Timeout
      /\ state' = "HALF-OPEN" /\ UNCHANGED <<failures, elapsed>>
  BY DEF AllowAfterTimeout
<1>3. reopened' <=> reopened \/ state = "CLOSED"
  BY Zenon DEF AllowAfterTimeout
<1>4. SeenStage[t] = "allow" /\ SeenStage' = [SeenStage EXCEPT ![t] = "calling"]
  BY <1>1, <1>2, SeenMove, SeenValues
<1>5. Atomic!Passes(SeenBreaker)
  BY <1>2, SeenPasses
<1>6. Closing' = Closing
  BY <1>1, <1>2, ClosingMove
<1>7. SeenState' = IF SeenState = "OPEN" THEN "HALF-OPEN" ELSE SeenState
  <2>1. CASE Closing \/ reopened
    <3>1. SeenState = "CLOSED" /\ SeenState' = "CLOSED"
      BY <1>3, <1>6, <2>1, Zenon DEF SeenState
    <3> QED
      BY <3>1
  <2>2. CASE ~Closing /\ ~reopened /\ state = "CLOSED"
    <3>1. SeenState = "CLOSED" /\ SeenState' = "CLOSED"
      BY <1>3, <2>2, Zenon DEF SeenState
    <3> QED
      BY <3>1
  <2>3. CASE ~Closing /\ ~reopened /\ state # "CLOSED"
    <3>1. ~Closing' /\ ~reopened'
      BY <1>3, <1>6, <2>3, Zenon
    <3>2. SeenState = state /\ SeenState' = "HALF-OPEN"
      BY <1>2, <2>3, <3>1, Zenon DEF SeenState
    <3>3. state \in {"OPEN", "HALF-OPEN"}
      BY <1>1, <2>3 DEF TypeOK
    <3> QED
      BY <3>2, <3>3
  <2> QED
    BY <2>1, <2>2, <2>3
<1>8. SeenState' = "CLOSED" <=> SeenState = "CLOSED"
  BY <1>7
<1>9. SeenBreaker' = Atomic!Tried(SeenBreaker)
  <2>1. SeenBreaker.state = SeenState
    BY DEF SeenBreaker
  <2>2. Atomic!Tried(SeenBreaker) = [SeenBreaker EXCEPT !.state = SeenState']
    BY <1>7, <2>1 DEF Atomic!Tried
  <2> QED
    BY <1>2, <1>8, <2>2 DEF SeenBreaker
<1> QED
  BY <1>4, <1>5, <1>9 DEF Atomic!Allow, Atomic!Moves

LEMMA RefuseIsAtomic ==
    ASSUME AtomicInv, AtomicInv', ~raced, NEW t \in Threads, Refuse(t)
    PROVE  Atomic!Refuse(t)
<1>1. /\ TypeOK /\ TypeOK' /\ "open" \in Stages /\ "idle" \in Stages
  BY DEF AtomicInv, Stages
<1>2. /\ pc[t] = "open" /\ Goto(t, "idle") /\ elapsed < Timeout
      /\ UNCHANGED <<state, failures, elapsed, reopened>>
  BY DEF Refuse
<1>3. SeenStage[t] = "allow" /\ SeenStage' = [SeenStage EXCEPT ![t] = "idle"]
  BY <1>1, <1>2, SeenMove, SeenValues
<1>4. SeenBreaker' = SeenBreaker
  BY <1>1, <1>2, SeenBreakerMove
<1>5. state = "OPEN" /\ elapsed # Timeout
  BY <1>2, <1>1 DEF AtomicInv, OpenFacts, TypeOK
<1>6. ~Atomic!Passes(SeenBreaker)
  BY <1>5, SeenPasses
<1> QED
  BY <1>3, <1>4, <1>6 DEF Atomic!Refuse, Atomic!Moves

LEMMA ProviderAnswersIsAtomic ==
    ASSUME AtomicInv, AtomicInv', NEW t \in Threads, ProviderAnswers(t)
    PROVE  Atomic!ProviderAnswers(t)
<1>1. /\ TypeOK /\ TypeOK'
      /\ "calling" \in Stages /\ "success" \in Stages /\ "failure" \in Stages
  BY DEF AtomicInv, Stages
<1>2. /\ pc[t] = "calling" /\ UNCHANGED <<state, failures, elapsed, reopened>>
      /\ Goto(t, "success") \/ Goto(t, "failure")
  BY DEF ProviderAnswers
<1>3. CASE Goto(t, "success")
  <2>1. SeenStage[t] = "calling" /\ SeenStage' = [SeenStage EXCEPT ![t] = "success"]
    BY <1>1, <1>2, <1>3, SeenMove, SeenValues
  <2>2. SeenBreaker' = SeenBreaker
    BY <1>1, <1>2, <1>3, SeenBreakerMove
  <2> QED
    BY <2>1, <2>2 DEF Atomic!ProviderAnswers, Atomic!Moves
<1>4. CASE Goto(t, "failure")
  <2>1. SeenStage[t] = "calling" /\ SeenStage' = [SeenStage EXCEPT ![t] = "failure"]
    BY <1>1, <1>2, <1>4, SeenMove, SeenValues
  <2>2. SeenBreaker' = SeenBreaker
    BY <1>1, <1>2, <1>4, SeenBreakerMove
  <2> QED
    BY <2>1, <2>2 DEF Atomic!ProviderAnswers, Atomic!Moves
<1> QED
  BY <1>2, <1>3, <1>4

(* A success that finds the breaker OPEN changes nothing; another one counts once it has
   reset the counter, and its store of state is seen already. *)
LEMMA SuccessLoadIsAtomic ==
    ASSUME AtomicInv, AtomicInv', ~raced, NEW t \in Threads, SuccessLoad(t)
    PROVE  Atomic!RecordSuccess(t) \/ UNCHANGED <<SeenBreaker, SeenStage>>
<1>1. /\ TypeOK /\ TypeOK'
      /\ "success" \in Stages /\ "reset" \in Stages /\ "idle" \in Stages
  BY DEF AtomicInv, Stages
<1>2. pc[t] = "success" /\ UNCHANGED <<state, failures, elapsed, reopened>>
  BY DEF SuccessLoad
<1>3. CASE state = "OPEN"
  <2>1. Goto(t, "idle")
    BY <1>3 DEF SuccessLoad
  <2>2. SeenStage[t] = "success" /\ SeenStage' = [SeenStage EXCEPT ![t] = "idle"]
    BY <1>1, <1>2, <2>1, SeenMove, SeenValues
  <2>3. SeenBreaker' = SeenBreaker
    BY <1>1, <1>2, <2>1, SeenBreakerMove
  <2>4. SeenBreaker.state = "OPEN"
    BY <1>3, SeenPasses DEF SeenBreaker
  <2> QED
    BY <2>2, <2>3, <2>4 DEF Atomic!RecordSuccess, Atomic!AfterSuccess, Atomic!Moves
<1>4. CASE state # "OPEN"
  <2>1. Goto(t, "reset")
    BY <1>4 DEF SuccessLoad
  <2>2. SeenStage[t] = "success" /\ SeenStage' = [SeenStage EXCEPT ![t] = "success"]
    BY <1>1, <1>2, <2>1, SeenMove, SeenValues
  <2>3. SeenStage' = SeenStage
    BY <2>2 DEF SeenStage
  <2>4. SeenBreaker' = SeenBreaker
    BY <1>1, <1>2, <2>1, SeenBreakerMove
  <2> QED
    BY <2>3, <2>4
<1> QED
  BY <1>3, <1>4

LEMMA SuccessResetIsAtomic ==
    ASSUME AtomicInv, AtomicInv', ~raced, NEW t \in Threads, SuccessReset(t)
    PROVE  Atomic!RecordSuccess(t)
<1>1. /\ TypeOK /\ TypeOK' /\ "reset" \in Stages /\ "close" \in Stages
  BY DEF AtomicInv, Stages
<1>2. /\ pc[t] = "reset" /\ Goto(t, "close") /\ failures' = 0
      /\ UNCHANGED <<state, elapsed, reopened>>
  BY DEF SuccessReset
<1>3. SeenStage[t] = "success" /\ SeenStage' = [SeenStage EXCEPT ![t] = "idle"]
  BY <1>1, <1>2, SeenMove, SeenValues
<1>4. pc'[t] = "close"
  BY <1>1, <1>2 DEF Goto, TypeOK
<1>5. SeenState' = "CLOSED"
  BY <1>4 DEF SeenState, Closing
<1>6. SeenBreaker' = [state |-> "CLOSED", failures |-> 0, elapsed |-> elapsed]
  BY <1>2, <1>5 DEF SeenBreaker
<1>7. state # "OPEN"
  BY <1>2 DEF AtomicInv, CounterFacts, NoSuccessWhileOpen, RecordingSuccess
<1>8. SeenBreaker.state # "OPEN" /\ SeenBreaker.elapsed = elapsed
  BY <1>7, SeenPasses DEF SeenBreaker, SeenState
<1>9. SeenBreaker' = Atomic!AfterSuccess(SeenBreaker)
  BY <1>6, <1>8 DEF Atomic!AfterSuccess, Atomic!Closed
<1> QED
  BY <1>3, <1>9 DEF Atomic!RecordSuccess, Atomic!Moves

LEMMA SuccessCloseIsUnseen ==
    ASSUME AtomicInv, AtomicInv', NEW t \in Threads, SuccessClose(t)
    PROVE  UNCHANGED <<SeenBreaker, SeenStage>>
<1>1. /\ TypeOK /\ TypeOK' /\ "idle" \in Stages /\ "close" \in Stages
  BY DEF AtomicInv, Stages
<1>2. /\ pc[t] = "close" /\ Goto(t, "idle") /\ state' = "CLOSED"
      /\ UNCHANGED <<failures, elapsed>>
  BY DEF SuccessClose
<1>3. SeenStage[t] = "idle" /\ SeenStage' = [SeenStage EXCEPT ![t] = "idle"]
  BY <1>1, <1>2, SeenMove, SeenValues
<1>4. SeenStage' = SeenStage
  BY <1>3 DEF SeenStage
<1>5. SeenState = "CLOSED" /\ SeenState' = "CLOSED"
  BY <1>2 DEF SeenState, Closing
<1>6. SeenBreaker' = SeenBreaker
  BY <1>2, <1>5 DEF SeenBreaker
<1> QED
  BY <1>4, <1>6

(* A failure below the threshold counts at once, the one that reaches it when it trips. *)
LEMMA FailureAddIsAtomic ==
    ASSUME AtomicInv, AtomicInv', ~raced, NEW t \in Threads, FailureAdd(t)
    PROVE  Atomic!RecordFailure(t) \/ UNCHANGED <<SeenBreaker, SeenStage>>
<1>1. /\ TypeOK /\ TypeOK'
      /\ "failure" \in Stages /\ "trip" \in Stages /\ "idle" \in Stages
  BY DEF AtomicInv, Stages
<1>2. /\ pc[t] = "failure" /\ UNCHANGED <<state, elapsed, reopened>>
      /\ failures' = IF failures < Threshold THEN failures + 1 ELSE Threshold
  BY DEF FailureAdd
<1>3. failures \in 0..Threshold
  BY <1>1 DEF TypeOK
<1>4. CASE failures + 1 < Threshold
  <2>1. Goto(t, "idle") /\ failures' = failures + 1
    BY <1>2, <1>3, <1>4 DEF FailureAdd
  <2>2. SeenStage[t] = "failure" /\ SeenStage' = [SeenStage EXCEPT ![t] = "idle"]
    BY <1>1, <1>2, <2>1, SeenMove, SeenValues
  <2>3. Closing' = Closing
    BY <1>1, <1>2, <2>1, ClosingMove
  <2>4. SeenState' = SeenState
    BY <1>2, <2>3 DEF SeenState
  <2>5. SeenBreaker = [state |-> SeenState, failures |-> failures, elapsed |-> elapsed]
    BY <1>3, <1>4 DEF SeenBreaker
  <2>6. SeenBreaker' = [state |-> SeenState, failures |-> failures + 1, elapsed |-> elapsed]
    BY <1>2, <1>3, <1>4, <2>1, <2>4 DEF SeenBreaker
  <2>7. SeenBreaker' = Atomic!AfterFailure(SeenBreaker)
    BY <1>3, <1>4, <2>5, <2>6 DEF Atomic!AfterFailure, Atomic!Counted
  <2> QED
    BY <2>2, <2>7 DEF Atomic!RecordFailure, Atomic!Moves
<1>5. CASE failures + 1 >= Threshold
  <2>1. Goto(t, "trip") /\ failures' = Threshold
    BY <1>2, <1>3, <1>5 DEF FailureAdd
  <2>2. SeenStage[t] = "failure" /\ SeenStage' = [SeenStage EXCEPT ![t] = "failure"]
    BY <1>1, <1>2, <2>1, SeenMove, SeenValues
  <2>3. SeenStage' = SeenStage
    BY <2>2 DEF SeenStage
  <2>4. Closing' = Closing
    BY <1>1, <1>2, <2>1, ClosingMove
  <2>5. SeenState' = SeenState
    BY <1>2, <2>4 DEF SeenState
  <2>6. failures < Threshold => SeenState = "CLOSED"
    BY DEF AtomicInv, FailuresMatchState, SeenState, Closing
  <2>7. failures = Threshold \/ failures = Threshold - 1
    BY <1>3, <1>5
  <2>8. SeenBreaker' = SeenBreaker
    BY <1>2, <2>1, <2>5, <2>6, <2>7 DEF SeenBreaker
  <2> QED
    BY <2>3, <2>8
<1> QED
  BY <1>3, <1>4, <1>5

(* A trip that overlaps no RecordSuccess opens the breaker as seen, whatever it was. *)
LEMMA FailureTripIsSeen ==
    ASSUME AtomicInv, AtomicInv', ~raced', NEW t \in Threads, FailureTrip(t)
    PROVE  /\ Atomic!Moves(t, "failure", "idle")
           /\ SeenBreaker' = Atomic!Tripped
           /\ SeenBreaker.failures \in {Threshold - 1, Threshold}
<1>1. /\ TypeOK /\ TypeOK' /\ "trip" \in Stages /\ "idle" \in Stages
  BY DEF AtomicInv, Stages
<1>2. /\ pc[t] = "trip" /\ Goto(t, "idle") /\ state' = "OPEN" /\ elapsed' = 0
      /\ failures' = failures /\ reopened' = FALSE
  BY DEF FailureTrip
<1>3. ~(failures < Threshold) /\ RecordingSuccess = {}
  BY Zenon DEF FailureTrip
<1>4. failures = Threshold
  BY <1>1, <1>3 DEF TypeOK
<1>5. SeenStage[t] = "failure" /\ SeenStage' = [SeenStage EXCEPT ![t] = "idle"]
  BY <1>1, <1>2, SeenMove, SeenValues
<1>6. ~Closing' /\ SeenState' = "OPEN"
  <2>1. ~Closing
    BY <1>3 DEF RecordingSuccess, Closing
  <2>2. Closing' = Closing
    BY <1>1, <1>2, ClosingMove
  <2> QED
    BY <1>2, <2>1, <2>2 DEF SeenState
<1>7. SeenBreaker' = [state |-> "OPEN", failures |-> Threshold, elapsed |-> 0]
  BY <1>2, <1>4, <1>6 DEF SeenBreaker
<1>8. SeenBreaker.failures \in {Threshold - 1, Threshold}
  BY <1>4 DEF SeenBreaker
<1> QED
  BY <1>5, <1>7, <1>8 DEF Atomic!Moves, Atomic!Tripped

LEMMA FailureTripIsAtomic ==
    ASSUME AtomicInv, AtomicInv', ~raced', NEW t \in Threads, FailureTrip(t)
    PROVE  Atomic!RecordFailure(t)
<1>1. SeenBreaker' = Atomic!AfterFailure(SeenBreaker)
  BY FailureTripIsSeen DEF Atomic!AfterFailure
<1> QED
  BY <1>1, FailureTripIsSeen DEF Atomic!RecordFailure

LEMMA TickIsAtomic ==
    ASSUME AtomicInv, Tick
    PROVE  Atomic!Tick
<1>1. elapsed \in 0..Timeout /\ elapsed < Timeout
  BY DEF AtomicInv, TypeOK, Tick
<1>2. elapsed' = elapsed + 1 /\ UNCHANGED <<state, failures, pc, reopened>>
  BY DEF Tick
<1>3. SeenStage' = SeenStage
  BY <1>2, SeenStill
<1>4. SeenState' = SeenState
  BY <1>2 DEF SeenState, Closing
<1>5. SeenBreaker' = Atomic!Older(SeenBreaker)
  BY <1>1, <1>2, <1>4 DEF SeenBreaker, Atomic!Older
<1> QED
  BY <1>3, <1>5 DEF Atomic!Tick

LEMMA UnseenIfStill ==
    ASSUME UNCHANGED <<state, failures, elapsed, pc, reopened>>
    PROVE  UNCHANGED <<SeenBreaker, SeenStage>>
<1>1. SeenStage' = SeenStage
  BY SeenStill
<1>2. Closing' = Closing
  BY DEF Closing
<1> QED
  BY <1>1, <1>2, SeenBreakerKept

LEMMA AtomicInit == Init => Atomic!Init
<1> SUFFICES ASSUME Init PROVE Atomic!Init
  OBVIOUS
<1>1. \A t \in Threads : pc[t] = "idle"
  BY DEF Init
<1>2. ~Closing
  BY <1>1 DEF Closing
<1>3. /\ state = "CLOSED" /\ failures = 0 /\ elapsed = Timeout
      /\ reopened = FALSE /\ raced = FALSE
  BY Zenon DEF Init
<1>4. SeenBreaker = [state |-> "CLOSED", failures |-> 0, elapsed |-> Timeout]
  BY <1>2, <1>3 DEF SeenBreaker, SeenState
<1>5. SeenStage = [t \in Threads |-> "idle"]
  BY <1>1, SeenValues DEF SeenStage
<1> QED
  BY <1>3, <1>4, <1>5, Zenon DEF Atomic!Init, Atomic!NewBreaker

LEMMA AtomicStep ==
    AtomicInv /\ AtomicInv' /\ [Next]_vars
        => [Atomic!Next]_<<SeenBreaker, SeenStage, raced>>
<1> SUFFICES ASSUME AtomicInv, AtomicInv', [Next]_vars
             PROVE  Atomic!Next \/ UNCHANGED <<SeenBreaker, SeenStage, raced>>
  BY Zenon
<1>0. raced \in BOOLEAN /\ raced' \in BOOLEAN
  BY DEF AtomicInv, TypeOK
<1>1. CASE raced'
  BY <1>0, <1>1, Zenon DEF Atomic!Next, Atomic!Overlap
<1>2. CASE raced /\ ~raced'
  <2>1. PICK t \in Threads : FailureTrip(t)
    BY <1>2, Zenon DEF Next, vars, ProviderChanges, Tick, Step, Request, AllowLoad,
          AllowAfterTimeout, Refuse, ProviderAnswers, SuccessLoad, SuccessReset,
          SuccessClose, FailureAdd
  <2>2. Atomic!Moves(t, "failure", "idle") /\ SeenBreaker' = Atomic!Tripped
    BY <1>2, <2>1, FailureTripIsSeen
  <2> QED
    BY <1>0, <1>2, <2>2, Zenon DEF Atomic!Next, Atomic!Settle
<1>3. CASE ~raced /\ ~raced'
  <2>1. raced' = raced
    BY <1>0, <1>3, Zenon
  <2>2. CASE UNCHANGED vars \/ ProviderChanges
    <3>1. UNCHANGED <<state, failures, elapsed, pc, reopened>>
      BY <2>2 DEF vars, ProviderChanges
    <3> QED
      BY <2>1, <3>1, UnseenIfStill
  <2>3. CASE Tick
    BY <2>1, <2>3, TickIsAtomic, Zenon DEF Atomic!Next
  <2>4. ASSUME NEW t \in Threads, Step(t)
        PROVE  Atomic!Next \/ UNCHANGED <<SeenBreaker, SeenStage, raced>>
    <3>1. Atomic!Step(t) \/ UNCHANGED <<SeenBreaker, SeenStage>>
      <4>1. CASE Request(t)
        BY <4>1, RequestIsAtomic, Zenon DEF Atomic!Step
      <4>2. CASE AllowLoad(t)
        BY <1>3, <4>2, AllowLoadIsAtomic, Zenon DEF Atomic!Step
      <4>3. CASE AllowAfterTimeout(t)
        BY <1>3, <4>3, AllowAfterTimeoutIsAtomic, Zenon DEF Atomic!Step
      <4>4. CASE Refuse(t)
        BY <1>3, <4>4, RefuseIsAtomic, Zenon DEF Atomic!Step
      <4>5. CASE ProviderAnswers(t)
        BY <4>5, ProviderAnswersIsAtomic, Zenon DEF Atomic!Step
      <4>6. CASE SuccessLoad(t)
        BY <1>3, <4>6, SuccessLoadIsAtomic, Zenon DEF Atomic!Step
      <4>7. CASE SuccessReset(t)
        BY <1>3, <4>7, SuccessResetIsAtomic, Zenon DEF Atomic!Step
      <4>8. CASE SuccessClose(t)
        BY <4>8, SuccessCloseIsUnseen
      <4>9. CASE FailureAdd(t)
        BY <1>3, <4>9, FailureAddIsAtomic, Zenon DEF Atomic!Step
      <4>10. CASE FailureTrip(t)
        BY <1>3, <4>10, FailureTripIsAtomic, Zenon DEF Atomic!Step
      <4> QED
        BY <2>4, <4>1, <4>2, <4>3, <4>4, <4>5, <4>6, <4>7, <4>8, <4>9, <4>10 DEF Step
    <3> QED
      BY <2>1, <3>1, Zenon DEF Atomic!Next
  <2> QED
    BY <2>2, <2>3, <2>4 DEF Next
<1> QED
  BY <1>1, <1>2, <1>3

(* For any number of goroutines, any threshold and any timeout, the breaker's methods are
   atomic to those who call them, but between a trip that overlapped a RecordSuccess and
   the next one that overlaps none. *)
THEOREM ImplementsAtomic == Spec => ImplementsAtomicBreaker
<1>1. Init => AtomicInv
  BY TypeInit, CounterInit, OpenInit DEF AtomicInv
<1>2. AtomicInv /\ [Next]_vars => AtomicInv'
  BY TypeNext, CounterNext, OpenNext DEF AtomicInv
<1> QED
  BY <1>1, <1>2, AtomicInit, AtomicStep, PTL DEF Spec, ImplementsAtomicBreaker, Atomic!Spec
=============================================================================
