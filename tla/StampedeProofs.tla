--------------------------- MODULE StampedeProofs ---------------------------
(* Proofs about Stampede for every set of requests, keys and processes, every pair
   LockTTL < WaitTimeout and every choice of Faults. *)
EXTENDS StampedeProps, TLAPS

USE RequestAssumption, KeyAssumption, NullAssumption, TimerAssumption

(* An answer is a well-typed reply and ends the handler. *)
LEMMA AnswerType ==
    ASSUME TypeOK, NEW r \in Requests, NEW kind \in {"HIT", "MISS", "SEMANTIC-HIT", "503"},
           NEW value \in Values, Answer(r, kind, value)
    PROVE  reply' \in [Requests -> Replies] /\ pc' \in [Requests -> Stages]
<1>1. [kind |-> kind, value |-> value] \in Replies
  BY DEF Replies
<1> QED
  BY <1>1 DEF TypeOK, Answer, Goto, Stages

(* Every step of a request's lookup keeps the types. *)
LEMMA LookupType ==
    ASSUME TypeOK, NEW r \in Requests, Lookup(r)
    PROVE  TypeOK'
<1>1. CASE SemanticHit(r)
  <2>1. PICK row \in SimilarRows(r) : Answer(r, "SEMANTIC-HIT", row[2])
    BY <1>1 DEF SemanticHit
  <2>2. row[2] \in Values
    BY <2>1 DEF SimilarRows, TypeOK
  <2> QED
    BY <1>1, <2>1, <2>2, AnswerType DEF SemanticHit, TypeOK, redisVars
<1>2. CASE SemanticMiss(r)
  BY <1>2 DEF SemanticMiss, TypeOK, Goto, Stages, redisVars
<1> QED
  BY <1>1, <1>2 DEF Lookup

LEMMA GetOrLockType ==
    ASSUME TypeOK, NEW r \in Requests, GetOrLock(r)
    PROVE  TypeOK'
<1>1. CASE Get(r)
  <2>1. CASE cache[reqKey[r]] # NoKey
    BY <1>1, <2>1, AnswerType DEF Get, TypeOK, Values, redisVars
  <2>2. CASE cache[reqKey[r]] = NoKey
    BY <1>1, <2>2 DEF Get, TypeOK, Goto, Stages, redisVars
  <2> QED
    BY <2>1, <2>2
<1>2. CASE GetFails(r)
  BY <1>2 DEF GetFails, TypeOK, Goto, Stages, redisVars
<1>3. CASE Acquire(r)
  BY <1>3 DEF Acquire, TakeLock, TypeOK, Goto, Stages
<1>4. CASE Blocked(r)
  BY <1>4 DEF Blocked, TypeOK, Goto, Stages, redisVars
<1>5. CASE BlockedBySelf(r)
  BY <1>5 DEF BlockedBySelf, TakeLock, TypeOK, Goto, Stages
<1>6. CASE SetNXFails(r)
  BY <1>6 DEF SetNXFails, TakeLock, TypeOK, Goto, Stages
<1>7. CASE Subscribe(r)
  BY <1>7 DEF Subscribe, TypeOK, Goto, Stages, redisVars
<1>8. CASE Receive(r)
  BY <1>8, AnswerType DEF Receive, LeaveWait, TypeOK, Values, redisVars
<1>9. CASE WaitTimedOut(r)
  BY <1>9 DEF WaitTimedOut, LeaveWait, TypeOK, Goto, Stages, Values, redisVars
<1>10. CASE WaitCancelled(r)
  BY <1>10 DEF WaitCancelled, LeaveWait, TypeOK, Goto, Stages, Values, redisVars
<1> QED
  BY <1>1, <1>2, <1>3, <1>4, <1>5, <1>6, <1>7, <1>8, <1>9, <1>10 DEF GetOrLock

LEMMA ExecuteType ==
    ASSUME TypeOK, NEW r \in Requests, Execute(r)
    PROVE  TypeOK'
<1>1. CASE StartCall(r)
  BY <1>1 DEF StartCall, TypeOK, Goto, Stages, redisVars
<1>2. CASE CallSucceeds(r)
  BY <1>2 DEF CallSucceeds, TypeOK, Goto, Stages, Values, redisVars
<1>3. CASE PrimaryFails(r)
  <2>1. CASE FallbackKey[reqKey[r]] # NoKey
    BY <1>3, <2>1 DEF PrimaryFails, TypeOK, Goto, Stages, redisVars
  <2>2. CASE FallbackKey[reqKey[r]] = NoKey
    BY <1>3, <2>2, AnswerType DEF PrimaryFails, TypeOK, Values, redisVars
  <2> QED
    BY <2>1, <2>2
<1>4. CASE FallbackFails(r)
  BY <1>4, AnswerType DEF FallbackFails, TypeOK, Values, redisVars
<1>5. CASE Respond(r)
  BY <1>5, AnswerType DEF Respond, BgGoto, BgStages, TypeOK, redisVars
<1> QED
  BY <1>1, <1>2, <1>3, <1>4, <1>5 DEF Execute

LEMMA BackgroundType ==
    ASSUME TypeOK, NEW r \in Requests, PublishResult(r) \/ BgDelRetried(r) \/ Store(r)
    PROVE  TypeOK'
<1>1. CASE BgSet(r) \/ BgSetFails(r)
  BY <1>1 DEF BgSet, BgSetFails, Fill, TypeOK, BgGoto, BgStages
<1>2. CASE BgPublish(r) \/ BgPublishFails(r)
  <2>1. bg' \in [Requests -> BgStages]
    BY <1>2 DEF BgPublish, BgPublishFails, BgGoto, BgStages, TypeOK
  <2>2. inbox' = inbox \/ inbox' = [q \in Requests |-> IF Listening(q, reqKey[r])
                                                        THEN resp[r] ELSE inbox[q]]
    BY <1>2 DEF BgPublish, BgPublishFails, Deliver
  <2> QED
    BY <1>2, <2>1, <2>2 DEF BgPublish, BgPublishFails, TypeOK, redisVars
<1>3. CASE BgDel(r)
  BY <1>3 DEF BgDel, ReleaseLock, TypeOK, BgGoto, BgStages
<1>4. CASE BgDelFails(r)
  BY <1>4 DEF BgDelFails, TypeOK, BgGoto, BgStages, redisVars
<1>5. CASE BgDelRetried(r)
  <2>1. /\ holder' \in [Keys -> Requests \cup {NoRequest}]
        /\ ttl' \in [Keys -> 0..LockTTL]
    BY <1>5 DEF BgDelRetried, ReleaseLock, TypeOK
  <2>2. UNCHANGED <<handlerVars, cache, semantic, produced>> /\ calm' \in BOOLEAN
    BY <1>5 DEF BgDelRetried
  <2> QED
    BY <2>1, <2>2 DEF TypeOK, handlerVars
<1>6. CASE BgStore(r) \/ BgStoreFails(r)
  BY <1>6 DEF BgStore, BgStoreFails, TypeOK, BgGoto, BgStages, Values, redisVars
<1> QED
  BY <1>1, <1>2, <1>3, <1>4, <1>5, <1>6 DEF PublishResult, Store

(* Steps of the environment: the client, the processes, Redis and time. *)
LEMMA EnvironmentType ==
    ASSUME TypeOK,
           \/ \E r \in Requests : SubscribeTakesEffect(r) \/ ClientLeaves(r)
           \/ \E h \in Hosts : Crash(h)
           \/ \E k \in Keys : Evict(k)
           \/ Tick
    PROVE  TypeOK'
<1>1. ASSUME NEW r \in Requests, SubscribeTakesEffect(r) \/ ClientLeaves(r)
      PROVE  TypeOK'
  <2>1. CASE SubscribeTakesEffect(r)
    BY <2>1 DEF SubscribeTakesEffect, TypeOK, redisVars
  <2>2. CASE ClientLeaves(r)
    BY <2>2 DEF ClientLeaves, TypeOK, redisVars
  <2> QED
    BY <1>1, <2>1, <2>2
<1>2. ASSUME NEW h \in Hosts, Crash(h)
      PROVE  TypeOK'
  BY <1>2 DEF Crash, TypeOK, Stages, BgStages, redisVars
<1>3. ASSUME NEW k \in Keys, Evict(k)
      PROVE  TypeOK'
  BY <1>3 DEF Evict, TypeOK, Values, handlerVars
<1>4. CASE Tick
  <2>1. ttl' \in [Keys -> 0..LockTTL] /\ waitLeft' \in [Requests -> 0..WaitTimeout]
    <3>1. \A n \in 0..LockTTL : Less(n) \in 0..LockTTL
      BY DEF Less
    <3>2. \A n \in 0..WaitTimeout : Less(n) \in 0..WaitTimeout
      BY DEF Less
    <3>3. ttl' \in [Keys -> 0..LockTTL]
      BY <1>4, <3>1 DEF Tick, TypeOK
    <3>4. waitLeft' \in [Requests -> 0..WaitTimeout]
      BY <1>4, <3>2 DEF Tick, TypeOK
    <3> QED
      BY <3>3, <3>4
  <2>2. holder' \in [Keys -> Requests \cup {NoRequest}]
    BY <1>4 DEF Tick, TypeOK
  <2>3. calm' \in BOOLEAN
    BY <1>4 DEF Tick
  <2> QED
    BY <1>4, <2>1, <2>2, <2>3 DEF Tick, TypeOK
<1> QED
  BY <1>1, <1>2, <1>3, <1>4

LEMMA TypeInit == Init => TypeOK
<1>1. NoReply \in Replies
  BY DEF NoReply, Replies, Values
<1> QED
  BY <1>1 DEF Init, TypeOK, Stages, BgStages, Values

LEMMA TypeNext == TypeOK /\ [Next]_vars => TypeOK'
<1> SUFFICES ASSUME TypeOK, [Next]_vars PROVE TypeOK'
  OBVIOUS
<1>1. CASE UNCHANGED vars
  BY <1>1 DEF TypeOK, vars, handlerVars, redisVars
<1>2. CASE Next
  BY <1>2, LookupType, GetOrLockType, ExecuteType, BackgroundType, EnvironmentType
     DEF Next
<1> QED
  BY <1>1, <1>2

(* Type correctness of the stampede path, for all constants. *)
THEOREM TypeCorrect == Spec => []TypeOK
  BY TypeInit, TypeNext, PTL DEF Spec

-----------------------------------------------------------------------------
(* The strengthenings that make the safety invariants inductive. *)

Asking == {"new", "get", "setnx"}
Arriving == Asking \cup {"subscribe", "waiting"}

(* A request sets the lock of its own key, and at most once; its TTL and its holder
   vanish together; a subscriber knows whom it waits for. *)
LockFacts ==
    /\ \A k \in Keys : holder[k] = NoRequest <=> ttl[k] = 0
    /\ \A k \in Keys, r \in Requests : holder[k] = r => Key[r] = k
    /\ \A r \in Requests : pc[r] \in Arriving => reqKey[r] = Key[r]
    /\ \A r \in Requests : pc[r] \in Asking =>
           /\ \A k \in Keys : holder[k] # r
           /\ \A q \in Requests : blockedBy[q] # r
    /\ \A r \in Requests : pc[r] \in {"subscribe", "waiting"} => blockedBy[r] # NoRequest

(* The lock a subscriber waits for runs out before its timer. *)
WaitFacts ==
    \A r \in Requests :
        pc[r] = "waiting" /\ holder[Key[r]] = blockedBy[r] => ttl[Key[r]] < waitLeft[r]

(* The goroutine starts after the handler has answered. *)
BackgroundFacts == \A r \in Requests : bg[r] # "none" => pc[r] \in {"done", "crashed"}

(* In calm conditions an owner holds the lock of the key it publishes under. *)
OwnerFacts ==
    calm => \A r \in Requests :
                /\ Owning(r) => holder[Key[r]] = r /\ reqKey[r] = Key[r]
                /\ pc[r] = "fallback" => cancelled[r]
                /\ pc[r] # "fbcalling"

(* What is stored or sent was computed for the key it is stored or sent under. *)
ValueFacts ==
    /\ KeyIntegrity
    /\ \A r \in Requests :
           pc[r] = "respond" \/ bg[r] \in {"set", "publish", "del", "store"} => resp[r] = reqKey[r]

IInv == TypeOK /\ LockFacts /\ WaitFacts /\ BackgroundFacts /\ OwnerFacts /\ ValueFacts

-----------------------------------------------------------------------------
(* A step that touches neither the locks nor blockedBy and moves no request back
   keeps what is known of locks and waits. *)
LEMMA QuietStep ==
    ASSUME LockFacts, WaitFacts, UNCHANGED <<holder, ttl, blockedBy>>,
           \A q \in Requests :
               /\ pc'[q] \in Asking => pc[q] \in Asking
               /\ pc'[q] \in {"subscribe", "waiting"} => pc[q] = pc'[q]
               /\ pc'[q] \in Arriving => reqKey'[q] = reqKey[q]
               /\ pc'[q] = "waiting" => waitLeft'[q] = waitLeft[q]
    PROVE  LockFacts' /\ WaitFacts'
  BY DEF LockFacts, WaitFacts, Asking, Arriving

LEMMA LockLookup ==
    ASSUME TypeOK, LockFacts, WaitFacts, NEW r \in Requests, Lookup(r)
    PROVE  LockFacts' /\ WaitFacts'
  BY QuietStep DEF Lookup, SemanticHit, SemanticMiss, Answer, Goto, TypeOK, Asking,
                   Arriving, redisVars

(* SETNX is the only step that sets a lock, and its request never comes back to it. *)
LEMMA LockTaken ==
    ASSUME TypeOK, LockFacts, WaitFacts, NEW r \in Requests, pc[r] = "setnx", TakeLock(r),
           NEW stage \in {"execute", "subscribe"}, Goto(r, stage),
           \/ stage = "execute" /\ UNCHANGED blockedBy
           \/ stage = "subscribe" /\ blockedBy' = [blockedBy EXCEPT ![r] = r],
           UNCHANGED <<reqKey, waitLeft>>
    PROVE  LockFacts' /\ WaitFacts'
<1>1. reqKey[r] = Key[r] /\ r \notin {holder[k] : k \in Keys} /\ \A q \in Requests : blockedBy[q] # r
  BY DEF LockFacts, Asking, Arriving
<1>2. LockFacts'
  BY <1>1 DEF LockFacts, TypeOK, TakeLock, Goto, Asking, Arriving
<1>3. WaitFacts'
  BY <1>1 DEF LockFacts, WaitFacts, TypeOK, TakeLock, Goto
<1> QED
  BY <1>2, <1>3

LEMMA LockGetOrLock ==
    ASSUME TypeOK, LockFacts, WaitFacts, NEW r \in Requests, GetOrLock(r)
    PROVE  LockFacts' /\ WaitFacts'
<1>1. CASE Get(r) \/ GetFails(r)
  BY <1>1, QuietStep DEF Get, GetFails, Answer, Goto, TypeOK, Asking, Arriving, redisVars
<1>2. CASE Acquire(r)
  BY <1>2, LockTaken DEF Acquire
<1>3. CASE Blocked(r)
  BY <1>3 DEF Blocked, Goto, TypeOK, LockFacts, WaitFacts, Asking, Arriving, redisVars
<1>4. CASE BlockedBySelf(r)
  BY <1>4, LockTaken DEF BlockedBySelf
<1>5. CASE SetNXFails(r)
  <2>1. CASE TakeLock(r)
    BY <1>5, <2>1, LockTaken DEF SetNXFails
  <2>2. CASE UNCHANGED <<holder, ttl>>
    BY <1>5, <2>2, QuietStep DEF SetNXFails, Goto, TypeOK, Asking, Arriving
  <2> QED
    BY <1>5, <2>1, <2>2 DEF SetNXFails
<1>6. CASE Subscribe(r)
  <2>1. LockFacts'
    BY <1>6 DEF Subscribe, Goto, TypeOK, LockFacts, Asking, Arriving, redisVars
  <2>2. \A k \in Keys : ttl[k] < WaitTimeout
    BY DEF TypeOK
  <2>3. WaitFacts'
    BY <1>6, <2>2 DEF Subscribe, Goto, TypeOK, WaitFacts, redisVars
  <2> QED
    BY <2>1, <2>3
<1>7. CASE Receive(r)
  BY <1>7, QuietStep DEF Receive, Answer, LeaveWait, Goto, TypeOK, Asking, Arriving, redisVars
<1>8. CASE WaitTimedOut(r) \/ WaitCancelled(r)
  BY <1>8, QuietStep DEF WaitTimedOut, WaitCancelled, LeaveWait, Goto, TypeOK, Asking,
                         Arriving, redisVars
<1> QED
  BY <1>1, <1>2, <1>3, <1>4, <1>5, <1>6, <1>7, <1>8 DEF GetOrLock

LEMMA LockExecute ==
    ASSUME TypeOK, LockFacts, WaitFacts, NEW r \in Requests, Execute(r)
    PROVE  LockFacts' /\ WaitFacts'
<1>1. CASE StartCall(r) \/ CallSucceeds(r)
  BY <1>1, QuietStep DEF StartCall, CallSucceeds, Goto, TypeOK, Asking, Arriving, redisVars
<1>2. CASE PrimaryFails(r)
  BY <1>2, QuietStep DEF PrimaryFails, Answer, Goto, TypeOK, Asking, Arriving, redisVars
<1>3. CASE FallbackFails(r) \/ Respond(r)
  BY <1>3, QuietStep DEF FallbackFails, Respond, Answer, Goto, TypeOK, Asking, Arriving, redisVars
<1> QED
  BY <1>1, <1>2, <1>3 DEF Execute

(* A DEL frees a lock, whoever holds it. *)
LEMMA LockReleased ==
    ASSUME TypeOK, LockFacts, WaitFacts, NEW r \in Requests, ReleaseLock(r),
           UNCHANGED <<pc, reqKey, blockedBy, waitLeft>>
    PROVE  LockFacts' /\ WaitFacts'
  BY DEF LockFacts, WaitFacts, TypeOK, ReleaseLock, Asking, Arriving

LEMMA LockBackground ==
    ASSUME TypeOK, LockFacts, WaitFacts, NEW r \in Requests,
           PublishResult(r) \/ BgDelRetried(r) \/ Store(r)
    PROVE  LockFacts' /\ WaitFacts'
<1>1. CASE BgDel(r) \/ BgDelRetried(r)
  BY <1>1, LockReleased DEF BgDel, BgDelRetried, handlerVars
<1>2. CASE BgSet(r) \/ BgSetFails(r) \/ BgPublish(r) \/ BgPublishFails(r) \/ BgDelFails(r)
  BY <1>2, QuietStep DEF BgSet, BgSetFails, BgPublish, BgPublishFails, BgDelFails, redisVars
<1>3. CASE Store(r)
  BY <1>3, QuietStep DEF Store, BgStore, BgStoreFails, redisVars
<1> QED
  BY <1>1, <1>2, <1>3 DEF PublishResult

(* Time lowers a lock's TTL and the timer of whoever waits for it together. *)
LEMMA LockTick ==
    ASSUME TypeOK, LockFacts, WaitFacts, Tick
    PROVE  LockFacts' /\ WaitFacts'
<1>1. \A k \in Keys : \/ ttl[k] > 1 /\ ttl'[k] = ttl[k] - 1 /\ holder'[k] = holder[k]
                      \/ ttl[k] < 2 /\ ttl'[k] = 0 /\ holder'[k] = NoRequest
  <2> SUFFICES ASSUME NEW k \in Keys
               PROVE  \/ ttl[k] > 1 /\ ttl'[k] = ttl[k] - 1 /\ holder'[k] = holder[k]
                      \/ ttl[k] < 2 /\ ttl'[k] = 0 /\ holder'[k] = NoRequest
    OBVIOUS
  <2>1. ttl[k] \in Nat
    BY DEF TypeOK
  <2>2. /\ ttl'[k] = Less(ttl[k])
        /\ holder'[k] = IF ttl[k] > 1 THEN holder[k] ELSE NoRequest
    BY DEF Tick
  <2> QED
    BY <2>1, <2>2 DEF Less
<1>2. LockFacts'
  BY <1>1 DEF LockFacts, TypeOK, Tick, Asking, Arriving
<1>3. ASSUME NEW r \in Requests, pc'[r] = "waiting", holder'[Key[r]] = blockedBy'[r]
      PROVE  ttl'[Key[r]] < waitLeft'[r]
  <2>1. pc[r] = "waiting" /\ Key[r] \in Keys /\ blockedBy'[r] = blockedBy[r]
        /\ blockedBy[r] # NoRequest
    BY <1>3 DEF Tick, LockFacts
  <2>2. ttl[Key[r]] > 1 /\ ttl'[Key[r]] = ttl[Key[r]] - 1 /\ holder[Key[r]] = blockedBy[r]
    BY <1>1, <1>3, <2>1
  <2>3. ttl[Key[r]] < waitLeft[r]
    BY <2>1, <2>2 DEF WaitFacts
  <2>4. waitLeft'[r] = Less(waitLeft[r])
    BY <2>1 DEF Tick
  <2>5. ttl[Key[r]] \in Nat /\ waitLeft[r] \in Nat
    BY <2>1 DEF TypeOK
  <2> QED
    BY <2>2, <2>3, <2>4, <2>5 DEF Less
<1> QED
  BY <1>2, <1>3 DEF WaitFacts

LEMMA LockEnvironment ==
    ASSUME TypeOK, LockFacts, WaitFacts,
           \/ \E r \in Requests : SubscribeTakesEffect(r) \/ ClientLeaves(r)
           \/ \E h \in Hosts : Crash(h)
           \/ \E k \in Keys : Evict(k)
    PROVE  LockFacts' /\ WaitFacts'
<1>1. ASSUME NEW r \in Requests, SubscribeTakesEffect(r) \/ ClientLeaves(r)
      PROVE  LockFacts' /\ WaitFacts'
  BY <1>1, QuietStep DEF SubscribeTakesEffect, ClientLeaves, redisVars
<1>2. ASSUME NEW h \in Hosts, Crash(h)
      PROVE  LockFacts' /\ WaitFacts'
  BY <1>2, QuietStep DEF Crash, TypeOK, Asking, Arriving, redisVars
<1>3. ASSUME NEW k \in Keys, Evict(k)
      PROVE  LockFacts' /\ WaitFacts'
  BY <1>3, QuietStep DEF Evict, handlerVars
<1> QED
  BY <1>1, <1>2, <1>3

LEMMA LockInit == Init => LockFacts /\ WaitFacts
  BY DEF Init, LockFacts, WaitFacts, Arriving, Asking

LEMMA LockNext == TypeOK /\ LockFacts /\ WaitFacts /\ [Next]_vars => LockFacts' /\ WaitFacts'
<1> SUFFICES ASSUME TypeOK, LockFacts, WaitFacts, [Next]_vars
             PROVE  LockFacts' /\ WaitFacts'
  OBVIOUS
<1>1. CASE UNCHANGED vars
  BY <1>1, QuietStep DEF vars, handlerVars, redisVars
<1>2. CASE Next
  BY <1>2, LockLookup, LockGetOrLock, LockExecute, LockBackground, LockEnvironment, LockTick
     DEF Next
<1> QED
  BY <1>1, <1>2

(* For every pair LockTTL < WaitTimeout a subscriber gives up only after the lock it
   was waiting for is gone: ErrLockTimeout never starts a call against a live lock. *)
THEOREM WaitOutlastsLockHolds == Spec => []WaitOutlastsLock
<1>1. TypeOK /\ LockFacts /\ WaitFacts => WaitOutlastsLock
  BY DEF WaitOutlastsLock, WaitFacts, TypeOK
<1> QED
  BY <1>1, TypeInit, TypeNext, LockInit, LockNext, PTL DEF Spec

-----------------------------------------------------------------------------
(* The goroutine of a request exists only once the handler has returned. *)
LEMMA BackgroundInit == Init => BackgroundFacts
  BY DEF Init, BackgroundFacts

LEMMA BackgroundNext == TypeOK /\ BackgroundFacts /\ [Next]_vars => BackgroundFacts'
<1> SUFFICES ASSUME TypeOK, BackgroundFacts, [Next]_vars PROVE BackgroundFacts'
  OBVIOUS
<1>1. CASE UNCHANGED vars
  BY <1>1 DEF BackgroundFacts, vars, handlerVars
<1>2. ASSUME NEW r \in Requests, Lookup(r)
      PROVE  BackgroundFacts'
  BY <1>2 DEF Lookup, SemanticHit, SemanticMiss, Answer, Goto, TypeOK, BackgroundFacts
<1>3. ASSUME NEW r \in Requests, GetOrLock(r)
      PROVE  BackgroundFacts'
  <2>1. CASE Get(r) \/ GetFails(r) \/ Receive(r)
    BY <2>1 DEF Get, GetFails, Receive, Answer, Goto, TypeOK, BackgroundFacts
  <2>2. CASE Acquire(r) \/ Blocked(r) \/ BlockedBySelf(r) \/ SetNXFails(r)
    BY <2>2 DEF Acquire, Blocked, BlockedBySelf, SetNXFails, Goto, TypeOK, BackgroundFacts
  <2>3. CASE Subscribe(r) \/ WaitTimedOut(r) \/ WaitCancelled(r)
    BY <2>3 DEF Subscribe, WaitTimedOut, WaitCancelled, Goto, TypeOK, BackgroundFacts
  <2> QED
    BY <1>3, <2>1, <2>2, <2>3 DEF GetOrLock
<1>4. ASSUME NEW r \in Requests, Execute(r)
      PROVE  BackgroundFacts'
  <2>1. CASE StartCall(r) \/ CallSucceeds(r) \/ FallbackFails(r)
    BY <2>1 DEF StartCall, CallSucceeds, FallbackFails, Answer, Goto, TypeOK, BackgroundFacts
  <2>2. CASE PrimaryFails(r)
    BY <2>2 DEF PrimaryFails, Answer, Goto, TypeOK, BackgroundFacts
  <2>3. CASE Respond(r)
    BY <2>3 DEF Respond, Answer, Goto, BgGoto, TypeOK, BackgroundFacts
  <2> QED
    BY <1>4, <2>1, <2>2, <2>3 DEF Execute
<1>5. ASSUME NEW r \in Requests, PublishResult(r) \/ Store(r)
      PROVE  BackgroundFacts'
  BY <1>5 DEF PublishResult, Store, BgSet, BgSetFails, BgPublish, BgPublishFails, BgDel,
              BgDelFails, BgStore, BgStoreFails, BgGoto, TypeOK, BackgroundFacts
<1>6. ASSUME NEW r \in Requests, SubscribeTakesEffect(r) \/ BgDelRetried(r) \/ ClientLeaves(r)
      PROVE  BackgroundFacts'
  BY <1>6 DEF SubscribeTakesEffect, BgDelRetried, ClientLeaves, BackgroundFacts, handlerVars
<1>7. ASSUME NEW h \in Hosts, Crash(h)
      PROVE  BackgroundFacts'
  BY <1>7 DEF Crash, InHandler, TypeOK, BackgroundFacts
<1>8. ASSUME NEW k \in Keys, Evict(k)
      PROVE  BackgroundFacts'
  BY <1>8 DEF Evict, BackgroundFacts, handlerVars
<1>9. CASE Tick
  BY <1>9 DEF Tick, BackgroundFacts
<1> QED
  BY <1>1, <1>2, <1>3, <1>4, <1>5, <1>6, <1>7, <1>8, <1>9 DEF Next

-----------------------------------------------------------------------------
(* A step that makes nobody an owner, takes no owner's lock and starts no fallback
   keeps what is known of owners. *)
LEMMA OwnerQuiet ==
    ASSUME OwnerFacts, calm' => calm,
           \A q \in Requests :
               /\ Owning(q)' => /\ Owning(q)
                               /\ holder'[Key[q]] = holder[Key[q]]
                               /\ reqKey'[q] = reqKey[q]
               /\ pc'[q] = "fallback" => pc[q] = "fallback" /\ (cancelled[q] => cancelled'[q])
               /\ pc'[q] = "fbcalling" => pc[q] = "fbcalling"
    PROVE  OwnerFacts'
  BY DEF OwnerFacts

LEMMA OwnerInit == Init => OwnerFacts
  BY DEF Init, OwnerFacts, Owning

LEMMA OwnerLookup ==
    ASSUME TypeOK, OwnerFacts, NEW r \in Requests, Lookup(r)
    PROVE  OwnerFacts'
  BY OwnerQuiet DEF Lookup, SemanticHit, SemanticMiss, Answer, Goto, TypeOK, Owning, redisVars

LEMMA OwnerGetOrLock ==
    ASSUME TypeOK, LockFacts, BackgroundFacts, OwnerFacts, NEW r \in Requests, GetOrLock(r)
    PROVE  OwnerFacts'
<1>1. CASE Get(r) \/ GetFails(r)
  BY <1>1, OwnerQuiet DEF Get, GetFails, Answer, Goto, TypeOK, Owning, redisVars
<1>2. CASE Receive(r)
  BY <1>2, OwnerQuiet DEF Receive, Answer, Goto, TypeOK, Owning, redisVars
<1>3. CASE Acquire(r)
  <2>1. reqKey[r] = Key[r] /\ holder[Key[r]] = NoRequest
    BY <1>3 DEF Acquire, TakeLock, LockFacts, Asking, Arriving
  <2> QED
    BY <1>3, <2>1 DEF Acquire, TakeLock, Goto, TypeOK, Owning, OwnerFacts
<1>4. CASE Blocked(r)
  BY <1>4, OwnerQuiet DEF Blocked, Goto, TypeOK, Owning, redisVars
<1>5. CASE BlockedBySelf(r)
  <2>1. reqKey[r] = Key[r] /\ holder[Key[r]] = NoRequest /\ ~Owning(r)'
    <3>1. reqKey[r] = Key[r] /\ holder[reqKey[r]] = NoRequest
      BY <1>5 DEF BlockedBySelf, TakeLock, LockFacts, Asking, Arriving
    <3>2. pc'[r] = "subscribe" /\ bg'[r] = bg[r] /\ bg[r] = "none"
      BY <1>5 DEF BlockedBySelf, Goto, TypeOK, BgStages, BackgroundFacts
    <3> QED
      BY <3>1, <3>2 DEF Owning
  <2> QED
    BY <1>5, <2>1 DEF BlockedBySelf, TakeLock, Goto, TypeOK, Owning, OwnerFacts
<1>6. CASE SetNXFails(r)
  <2> SUFFICES ASSUME calm' PROVE OwnerFacts'
    BY DEF OwnerFacts
  <2>1. calm /\ cancelled[r] /\ cancelled' = cancelled /\ bg[r] = "none"
    BY <1>6 DEF SetNXFails, BackgroundFacts, TypeOK
  <2>2. ~Owning(r)'
    BY <1>6, <2>1 DEF SetNXFails, Goto, TypeOK, Owning
  <2>3. CASE UNCHANGED <<holder, ttl>>
    BY <1>6, <2>1, <2>2, <2>3 DEF SetNXFails, Goto, TypeOK, Owning, OwnerFacts
  <2>4. CASE TakeLock(r)
    <3>1. reqKey[r] = Key[r] /\ holder[Key[r]] = NoRequest
      BY <1>6, <2>4 DEF SetNXFails, TakeLock, LockFacts, Asking, Arriving
    <3> QED
      BY <1>6, <2>1, <2>2, <2>4, <3>1 DEF SetNXFails, TakeLock, Goto, TypeOK, Owning, OwnerFacts
  <2> QED
    BY <1>6, <2>3, <2>4 DEF SetNXFails
<1>7. CASE Subscribe(r)
  BY <1>7, OwnerQuiet DEF Subscribe, Goto, TypeOK, Owning, redisVars
<1>8. CASE WaitTimedOut(r)
  BY <1>8 DEF WaitTimedOut, OwnerFacts
<1>9. CASE WaitCancelled(r)
  BY <1>9, OwnerQuiet DEF WaitCancelled, Goto, TypeOK, Owning, redisVars
<1> QED
  BY <1>1, <1>2, <1>3, <1>4, <1>5, <1>6, <1>7, <1>8, <1>9 DEF GetOrLock

LEMMA OwnerExecute ==
    ASSUME TypeOK, BackgroundFacts, OwnerFacts, NEW r \in Requests, Execute(r)
    PROVE  OwnerFacts'
<1>1. CASE StartCall(r)
  BY <1>1 DEF StartCall, Goto, TypeOK, Owning, OwnerFacts, redisVars
<1>2. CASE CallSucceeds(r)
  BY <1>2, OwnerQuiet DEF CallSucceeds, Goto, TypeOK, Owning, redisVars
<1>3. CASE PrimaryFails(r)
  <2> SUFFICES ASSUME calm' PROVE OwnerFacts'
    BY DEF OwnerFacts
  <2>1. /\ calm /\ cancelled[r] /\ cancelled' = cancelled /\ holder' = holder
        /\ bg' = bg /\ bg[r] = "none"
        /\ \A q \in Requests : q # r => pc'[q] = pc[q] /\ reqKey'[q] = reqKey[q]
        /\ pc'[r] \in {"fallback", "done"}
    BY <1>3 DEF PrimaryFails, Answer, Goto, TypeOK, BackgroundFacts, redisVars
  <2> QED
    BY <2>1 DEF Owning, OwnerFacts
<1>4. CASE FallbackFails(r)
  BY <1>4, OwnerQuiet DEF FallbackFails, Answer, Goto, TypeOK, Owning, redisVars
<1>5. CASE Respond(r)
  BY <1>5, OwnerQuiet DEF Respond, Answer, Goto, BgGoto, TypeOK, Owning, redisVars
<1> QED
  BY <1>1, <1>2, <1>3, <1>4, <1>5 DEF Execute

LEMMA OwnerBackground ==
    ASSUME TypeOK, BackgroundFacts, OwnerFacts, NEW r \in Requests,
           PublishResult(r) \/ BgDelRetried(r) \/ Store(r)
    PROVE  OwnerFacts'
<1>1. CASE BgSet(r) \/ BgSetFails(r) \/ BgPublish(r) \/ BgPublishFails(r) \/ BgDelFails(r)
  BY <1>1, OwnerQuiet DEF BgSet, BgSetFails, BgPublish, BgPublishFails, BgDelFails, BgGoto,
                          TypeOK, Owning, redisVars
<1>2. CASE BgDel(r)
  <2> SUFFICES ASSUME calm' PROVE OwnerFacts'
    BY DEF OwnerFacts
  <2>1. /\ calm /\ Owning(r) /\ ~Owning(r)'
        /\ UNCHANGED <<pc, reqKey, cancelled>>
    BY <1>2 DEF BgDel, BgGoto, TypeOK, Owning, BackgroundFacts
  <2>2. reqKey[r] = Key[r] /\ holder[Key[r]] = r
    BY <2>1 DEF OwnerFacts
  <2>3. ASSUME NEW q \in Requests, Owning(q)'
        PROVE  Owning(q) /\ holder'[Key[q]] = holder[Key[q]]
    <3>1. q # r /\ Owning(q)
      BY <1>2, <2>1, <2>3 DEF BgDel, BgGoto, TypeOK, Owning
    <3>2. Key[q] # Key[r]
      BY <2>1, <2>2, <3>1 DEF OwnerFacts
    <3> QED
      BY <1>2, <2>2, <3>1, <3>2 DEF BgDel, ReleaseLock, TypeOK
  <2> QED
    BY <2>1, <2>3, OwnerQuiet
<1>3. CASE BgDelRetried(r)
  BY <1>3 DEF BgDelRetried, OwnerFacts
<1>4. CASE Store(r)
  BY <1>4, OwnerQuiet DEF Store, BgStore, BgStoreFails, BgGoto, TypeOK, Owning, redisVars
<1> QED
  BY <1>1, <1>2, <1>3, <1>4 DEF PublishResult

LEMMA OwnerEnvironment ==
    ASSUME TypeOK, LockFacts, OwnerFacts,
           \/ \E r \in Requests : SubscribeTakesEffect(r) \/ ClientLeaves(r)
           \/ \E h \in Hosts : Crash(h)
           \/ \E k \in Keys : Evict(k)
           \/ Tick
    PROVE  OwnerFacts'
<1>1. ASSUME NEW r \in Requests, SubscribeTakesEffect(r) \/ ClientLeaves(r)
      PROVE  OwnerFacts'
  BY <1>1, OwnerQuiet DEF SubscribeTakesEffect, ClientLeaves, TypeOK, Owning, redisVars
<1>2. ASSUME NEW h \in Hosts, Crash(h)
      PROVE  OwnerFacts'
  BY <1>2, OwnerQuiet DEF Crash, TypeOK, Owning, redisVars
<1>3. ASSUME NEW k \in Keys, Evict(k)
      PROVE  OwnerFacts'
  BY <1>3, OwnerQuiet DEF Evict, handlerVars, Owning
<1>4. CASE Tick
  <2> SUFFICES ASSUME calm' PROVE OwnerFacts'
    BY DEF OwnerFacts
  <2>1. calm /\ ~Overrun
    BY <1>4 DEF Tick
  <2>2. ASSUME NEW q \in Requests, Owning(q)'
        PROVE  Owning(q) /\ holder'[Key[q]] = holder[Key[q]] /\ reqKey'[q] = reqKey[q]
    <3>1. Owning(q) /\ reqKey' = reqKey
      BY <1>4, <2>2 DEF Tick, Owning
    <3>2. holder[Key[q]] = q /\ Key[q] \in Keys /\ ttl[Key[q]] \in Nat
      BY <2>1, <3>1 DEF OwnerFacts, TypeOK
    <3>3. ttl[Key[q]] # 0 /\ ttl[Key[q]] # 1
      BY <2>1, <3>1, <3>2 DEF LockFacts, Overrun
    <3> QED
      BY <1>4, <3>1, <3>2, <3>3 DEF Tick
  <2>3. pc' = pc /\ cancelled' = cancelled
    BY <1>4 DEF Tick
  <2> QED
    BY <2>1, <2>2, <2>3, OwnerQuiet
<1> QED
  BY <1>1, <1>2, <1>3, <1>4

LEMMA OwnerNext ==
    TypeOK /\ LockFacts /\ BackgroundFacts /\ OwnerFacts /\ [Next]_vars => OwnerFacts'
<1> SUFFICES ASSUME TypeOK, LockFacts, BackgroundFacts, OwnerFacts, [Next]_vars
             PROVE  OwnerFacts'
  OBVIOUS
<1>1. CASE UNCHANGED vars
  BY <1>1, OwnerQuiet DEF vars, handlerVars, redisVars, Owning
<1>2. CASE Next
  BY <1>2, OwnerLookup, OwnerGetOrLock, OwnerExecute, OwnerBackground, OwnerEnvironment
     DEF Next
<1> QED
  BY <1>1, <1>2

(* In calm conditions no two requests for one hash are both between taking the lock
   and the end of PublishResult. *)
THEOREM SingleOwnerHolds == Spec => []SingleOwner
<1>1. OwnerFacts => SingleOwner
  BY DEF OwnerFacts, SingleOwner
<1> QED
  BY <1>1, TypeInit, TypeNext, LockInit, LockNext, BackgroundInit, BackgroundNext,
     OwnerInit, OwnerNext, PTL DEF Spec

-----------------------------------------------------------------------------
(* A step that stores, sends and answers nothing keeps what is known of values. *)
LEMMA ValueQuiet ==
    ASSUME ValueFacts, UNCHANGED cache,
           \A q \in Requests :
               /\ inbox'[q] \in {inbox[q], NoKey}
               /\ reply'[q] = reply[q] \/ reply'[q].kind # "HIT"
               /\ \/ pc'[q] # "respond" /\ bg'[q] \in {"none", "end"}
                  \/ /\ pc[q] = "respond" \/ bg[q] \in {"set", "publish", "del", "store"}
                     /\ resp'[q] = resp[q] /\ reqKey'[q] = reqKey[q]
    PROVE  ValueFacts'
  BY DEF ValueFacts, KeyIntegrity

LEMMA ValueInit == Init => ValueFacts
  BY DEF Init, NoReply, ValueFacts, KeyIntegrity

LEMMA ValueLookup ==
    ASSUME TypeOK, BackgroundFacts, ValueFacts, NEW r \in Requests, Lookup(r)
    PROVE  ValueFacts'
  BY ValueQuiet DEF Lookup, SemanticHit, SemanticMiss, Answer, Goto, TypeOK, BgStages,
                    redisVars

LEMMA ValueGetOrLock ==
    ASSUME TypeOK, LockFacts, BackgroundFacts, ValueFacts, NEW r \in Requests, GetOrLock(r)
    PROVE  ValueFacts'
<1>1. CASE Get(r)
  <2>1. CASE cache[reqKey[r]] # NoKey
    <3>1. cache[reqKey[r]] = Key[r]
      BY <1>1, <2>1 DEF Get, LockFacts, Arriving, Asking, ValueFacts, KeyIntegrity
    <3> QED
      BY <1>1, <2>1, <3>1 DEF Get, Answer, Goto, TypeOK, ValueFacts, KeyIntegrity, redisVars
  <2>2. CASE cache[reqKey[r]] = NoKey
    BY <1>1, <2>2, ValueQuiet DEF Get, Goto, TypeOK, BgStages, redisVars
  <2> QED
    BY <2>1, <2>2
<1>2. CASE Receive(r)
  <2>1. inbox[r] = Key[r]
    BY <1>2 DEF Receive, ValueFacts, KeyIntegrity
  <2> QED
    BY <1>2, <2>1 DEF Receive, Answer, LeaveWait, Goto, TypeOK, ValueFacts, KeyIntegrity,
                      redisVars
<1>3. CASE GetFails(r) \/ Subscribe(r) \/ Blocked(r)
  BY <1>3, ValueQuiet DEF GetFails, Subscribe, Blocked, Goto, TypeOK, BgStages, redisVars
<1>4. CASE Acquire(r) \/ BlockedBySelf(r) \/ SetNXFails(r)
  BY <1>4, ValueQuiet DEF Acquire, BlockedBySelf, SetNXFails, Goto, TypeOK, BgStages
<1>5. CASE WaitTimedOut(r) \/ WaitCancelled(r)
  BY <1>5, ValueQuiet DEF WaitTimedOut, WaitCancelled, LeaveWait, Goto, TypeOK, BgStages,
                          redisVars
<1> QED
  BY <1>1, <1>2, <1>3, <1>4, <1>5 DEF GetOrLock

LEMMA ValueExecute ==
    ASSUME TypeOK, BackgroundFacts, ValueFacts, NEW r \in Requests, Execute(r)
    PROVE  ValueFacts'
<1>1. CASE StartCall(r) \/ FallbackFails(r)
  BY <1>1, ValueQuiet DEF StartCall, FallbackFails, Answer, Goto, TypeOK, BgStages, redisVars
<1>2. CASE CallSucceeds(r)
  BY <1>2 DEF CallSucceeds, Goto, TypeOK, ValueFacts, KeyIntegrity, redisVars
<1>3. CASE PrimaryFails(r)
  <2>1. bg[r] = "none"
    BY <1>3 DEF PrimaryFails, TypeOK, BackgroundFacts
  <2> QED
    BY <1>3, <2>1, ValueQuiet DEF PrimaryFails, Answer, Goto, TypeOK, BgStages, redisVars
<1>4. CASE Respond(r)
  BY <1>4 DEF Respond, Answer, Goto, BgGoto, TypeOK, ValueFacts, KeyIntegrity, redisVars
<1> QED
  BY <1>1, <1>2, <1>3, <1>4 DEF Execute

LEMMA ValueBackground ==
    ASSUME TypeOK, LockFacts, BackgroundFacts, ValueFacts, NEW r \in Requests,
           PublishResult(r) \/ BgDelRetried(r) \/ Store(r)
    PROVE  ValueFacts'
<1>1. CASE BgSet(r) \/ BgSetFails(r)
  <2>1. resp[r] = reqKey[r] /\ pc[r] \in {"done", "crashed"}
    BY <1>1 DEF BgSet, BgSetFails, BackgroundFacts, ValueFacts
  <2> QED
    BY <1>1, <2>1 DEF BgSet, BgSetFails, Fill, BgGoto, TypeOK, ValueFacts, KeyIntegrity
<1>2. CASE BgPublish(r) \/ BgPublishFails(r)
  <2>1. resp[r] = reqKey[r]
    BY <1>2 DEF BgPublish, BgPublishFails, ValueFacts
  <2>2. \A q \in Requests : Listening(q, reqKey[r]) => Key[q] = reqKey[r]
    BY DEF Listening, LockFacts, Arriving
  <2>3. \A q \in Requests : inbox'[q] \in {NoKey, Key[q]}
    BY <1>2, <2>1, <2>2 DEF BgPublish, BgPublishFails, Deliver, ValueFacts, KeyIntegrity
  <2> QED
    BY <1>2, <2>3 DEF BgPublish, BgPublishFails, BgGoto, TypeOK, ValueFacts, KeyIntegrity,
                      redisVars
<1>3. CASE BgDel(r) \/ BgDelFails(r)
  BY <1>3, ValueQuiet DEF BgDel, BgDelFails, BgGoto, TypeOK, BgStages, BackgroundFacts, redisVars
<1>4. CASE BgDelRetried(r)
  BY <1>4, ValueQuiet DEF BgDelRetried, TypeOK, BgStages, handlerVars
<1>5. CASE Store(r)
  <2>1. bg'[r] = "end" /\ bg[r] = "store" /\ \A q \in Requests \ {r} : bg'[q] = bg[q]
    BY <1>5 DEF Store, BgStore, BgStoreFails, BgGoto, TypeOK
  <2>2. UNCHANGED <<pc, reqKey, resp, inbox, reply, redisVars>>
    BY <1>5 DEF Store, BgStore, BgStoreFails
  <2> QED
    BY <2>1, <2>2, ValueQuiet DEF TypeOK, BgStages, BackgroundFacts, redisVars
<1> QED
  BY <1>1, <1>2, <1>3, <1>4, <1>5 DEF PublishResult

LEMMA ValueEnvironment ==
    ASSUME TypeOK, ValueFacts,
           \/ \E r \in Requests : SubscribeTakesEffect(r) \/ ClientLeaves(r)
           \/ \E h \in Hosts : Crash(h)
           \/ \E k \in Keys : Evict(k)
           \/ Tick
    PROVE  ValueFacts'
<1>1. ASSUME NEW r \in Requests, SubscribeTakesEffect(r) \/ ClientLeaves(r)
      PROVE  ValueFacts'
  BY <1>1, ValueQuiet DEF SubscribeTakesEffect, ClientLeaves, TypeOK, BgStages, redisVars
<1>2. ASSUME NEW h \in Hosts, Crash(h)
      PROVE  ValueFacts'
  BY <1>2, ValueQuiet DEF Crash, TypeOK, BgStages, redisVars
<1>3. ASSUME NEW k \in Keys, Evict(k)
      PROVE  ValueFacts'
  BY <1>3 DEF Evict, TypeOK, ValueFacts, KeyIntegrity, handlerVars
<1>4. CASE Tick
  BY <1>4, ValueQuiet DEF Tick, TypeOK, BgStages
<1> QED
  BY <1>1, <1>2, <1>3, <1>4

LEMMA ValueNext ==
    TypeOK /\ LockFacts /\ BackgroundFacts /\ ValueFacts /\ [Next]_vars => ValueFacts'
<1> SUFFICES ASSUME TypeOK, LockFacts, BackgroundFacts, ValueFacts, [Next]_vars
             PROVE  ValueFacts'
  OBVIOUS
<1>1. CASE UNCHANGED vars
  BY <1>1 DEF vars, handlerVars, redisVars, ValueFacts, KeyIntegrity
<1>2. CASE Next
  BY <1>2, ValueLookup, ValueGetOrLock, ValueExecute, ValueBackground, ValueEnvironment
     DEF Next
<1> QED
  BY <1>1, <1>2

(* Whatever falls back, fails, expires or dies, an exact hit is an answer to exactly
   the request that was asked. *)
THEOREM KeyIntegrityHolds == Spec => []KeyIntegrity
<1>1. ValueFacts => KeyIntegrity
  BY DEF ValueFacts
<1> QED
  BY <1>1, TypeInit, TypeNext, LockInit, LockNext, BackgroundInit, BackgroundNext,
     ValueInit, ValueNext, PTL DEF Spec

-----------------------------------------------------------------------------
(* Between the SET and the DEL the entry is there, unless the cache evicts. *)
FilledFacts == \A r \in Requests : bg[r] \in {"publish", "del"} => cache[reqKey[r]] # NoKey

LEMMA FilledInit == Init => FilledFacts
  BY DEF Init, FilledFacts

(* A step that moves no goroutine forward and empties no entry keeps FilledFacts. *)
LEMMA FilledQuiet ==
    ASSUME FilledFacts, BackgroundFacts, \A k \in Keys : cache[k] # NoKey => cache'[k] # NoKey,
           TypeOK,
           \A q \in Requests : bg'[q] \in {"publish", "del"} =>
               bg[q] \in {"publish", "del"} /\ reqKey'[q] = reqKey[q]
    PROVE  FilledFacts'
  BY DEF FilledFacts, TypeOK

LEMMA FilledNext ==
    ASSUME "evict" \notin Faults
    PROVE  TypeOK /\ BackgroundFacts /\ ValueFacts /\ FilledFacts /\ [Next]_vars => FilledFacts'
<1> SUFFICES ASSUME TypeOK, BackgroundFacts, ValueFacts, FilledFacts, [Next]_vars
             PROVE  FilledFacts'
  OBVIOUS
<1>1. CASE UNCHANGED vars
  BY <1>1, FilledQuiet DEF vars, handlerVars, redisVars
<1>2. ASSUME NEW r \in Requests, Lookup(r) \/ GetOrLock(r) PROVE FilledFacts'
  BY <1>2, FilledQuiet
     DEF Lookup, SemanticHit, SemanticMiss, GetOrLock, Get, GetFails, Acquire, Blocked,
         BlockedBySelf, SetNXFails, Subscribe, Receive, WaitTimedOut, WaitCancelled, redisVars
<1>3. ASSUME NEW r \in Requests, Execute(r) PROVE FilledFacts'
  <2>1. bg[r] = "none"
    BY <1>3 DEF Execute, StartCall, CallSucceeds, PrimaryFails, FallbackFails, Respond,
                BackgroundFacts, TypeOK
  <2> QED
    BY <1>3, <2>1, FilledQuiet
       DEF Execute, StartCall, CallSucceeds, PrimaryFails, FallbackFails, Respond, BgGoto,
           redisVars, TypeOK
<1>4. ASSUME NEW r \in Requests, BgSet(r) \/ BgSetFails(r) PROVE FilledFacts'
  <2>1. resp[r] = reqKey[r] /\ reqKey[r] \in Keys
    BY <1>4 DEF BgSet, BgSetFails, ValueFacts, TypeOK
  <2> QED
    BY <1>4, <2>1 DEF BgSet, BgSetFails, Fill, BgGoto, FilledFacts, TypeOK
<1>5. ASSUME NEW r \in Requests, \/ BgPublish(r) \/ BgPublishFails(r) \/ BgDel(r) \/ BgDelFails(r)
                                 \/ BgDelRetried(r) \/ Store(r)
      PROVE  FilledFacts'
  BY <1>5, FilledQuiet
     DEF BgPublish, BgPublishFails, BgDel, BgDelFails, BgDelRetried, Store, BgStore,
         BgStoreFails, BgGoto, handlerVars, redisVars, TypeOK
<1>6. CASE Tick \/ \E r \in Requests : SubscribeTakesEffect(r) \/ ClientLeaves(r)
  BY <1>6, FilledQuiet DEF Tick, SubscribeTakesEffect, ClientLeaves, redisVars
<1>7. ASSUME NEW h \in Hosts, Crash(h) PROVE FilledFacts'
  BY <1>7, FilledQuiet DEF Crash, redisVars, TypeOK
<1> QED
  BY <1>1, <1>2, <1>3, <1>4, <1>5, <1>6, <1>7 DEF Next, PublishResult, Evict

(* Where the cache does not evict, PublishResult never leaves a key unlocked and empty:
   for any number of requests, falling back to one another's keys or not. *)
THEOREM FillBeforeReleaseHolds ==
    ASSUME "evict" \notin Faults
    PROVE  Spec => FillBeforeRelease
<1> DEFINE Filled == \A k \in Keys : ttl[k] > 1 /\ ttl'[k] = 0 => cache'[k] # NoKey
<1>1. TypeOK /\ FilledFacts /\ [Next]_vars => [Filled]_vars
  <2> SUFFICES ASSUME TypeOK, FilledFacts, [Next]_vars,
                      NEW k \in Keys, ttl[k] > 1, ttl'[k] = 0
               PROVE  cache'[k] # NoKey
    OBVIOUS
  <2>1. CASE \E r \in Requests : BgDel(r) \/ BgDelRetried(r)
    BY <2>1 DEF BgDel, BgDelRetried, ReleaseLock, FilledFacts, TypeOK
  <2>2. CASE Tick
    <3>1. ttl'[k] = ttl[k] - 1 /\ ttl[k] \in Nat
      BY <2>2 DEF Tick, Less, TypeOK
    <3> QED
      BY <3>1
  <2>3. ASSUME NEW r \in Requests, GetOrLock(r) PROVE FALSE
    <3>1. UNCHANGED ttl \/ TakeLock(r)
      BY <2>3 DEF GetOrLock, Get, GetFails, Acquire, Blocked, BlockedBySelf, SetNXFails,
                  Subscribe, Receive, WaitTimedOut, WaitCancelled, redisVars
    <3> QED
      BY <3>1 DEF TakeLock, TypeOK
  <2>4. UNCHANGED ttl \/ Tick \/ \E r \in Requests : BgDel(r) \/ BgDelRetried(r) \/ GetOrLock(r)
    BY DEF Next, vars, redisVars, Lookup, SemanticHit, SemanticMiss, SubscribeTakesEffect,
           Execute, StartCall, CallSucceeds, PrimaryFails, FallbackFails, Respond,
           PublishResult, BgSet, BgSetFails, BgPublish, BgPublishFails, BgDelFails,
           Store, BgStore, BgStoreFails, ClientLeaves, Crash, Evict
  <2> QED
    BY <2>1, <2>2, <2>3, <2>4
<1> QED
  BY <1>1, TypeInit, TypeNext, LockInit, LockNext, BackgroundInit, BackgroundNext,
     ValueInit, ValueNext, FilledInit, FilledNext, PTL DEF Spec, FillBeforeRelease
=============================================================================
