------------------------ MODULE AnswerServiceProofs ------------------------
(* Stampede implements AnswerService, for all constants: every step of the caches, the
   locks and the messages is, to the clients, a response computed, an answer that fits,
   a refusal, a lost process or nothing. *)
EXTENDS StampedeProofs

USE RequestAssumption, KeyAssumption, NullAssumption

(* The request is its own or its fallback rewrite, and has no reply before the handler
   has ended; whatever is stored or on its way was computed by a provider. *)
SourceFacts ==
    /\ \A r \in Requests :
           /\ reqKey[r] \in {Key[r], FallbackKey[Key[r]]}
           /\ pc[r] \in {"execute", "calling"} => reqKey[r] = Key[r]
           /\ pc[r] # "done" => reply[r] = NoReply
           /\ pc[r] = "respond" \/ bg[r] \in {"set", "publish", "del", "store"}
                  => resp[r] \in produced
           /\ inbox[r] \in produced \cup {NoKey}
    /\ \A k \in Keys : cache[k] \in produced \cup {NoKey}
    /\ \A row \in semantic : row[1] = row[2] /\ row[2] \in produced

(* Trouble in the caches refuses nobody: whatever Redis, the database, other clients and
   crashes do, a 503 means a failing provider or a client that has left. *)
THEOREM CacheTroubleNeverRefusesHolds == Spec => []CacheTroubleNeverRefuses
<1>1. Init => CacheTroubleNeverRefuses
  BY DEF Init, NoReply, CacheTroubleNeverRefuses
<1>2. TypeOK /\ CacheTroubleNeverRefuses /\ [Next]_vars => CacheTroubleNeverRefuses'
  <2> SUFFICES ASSUME TypeOK, CacheTroubleNeverRefuses, [Next]_vars
               PROVE  CacheTroubleNeverRefuses'
    OBVIOUS
  <2>1. CASE UNCHANGED vars
    BY <2>1 DEF vars, handlerVars, CacheTroubleNeverRefuses
  <2>2. ASSUME NEW r \in Requests, Lookup(r) \/ GetOrLock(r)
        PROVE  CacheTroubleNeverRefuses'
    BY <2>2 DEF Lookup, SemanticHit, SemanticMiss, GetOrLock, Get, GetFails, Acquire, Blocked,
                BlockedBySelf, SetNXFails, Subscribe, Receive, WaitTimedOut, WaitCancelled,
                Answer, TypeOK, CacheTroubleNeverRefuses
  <2>3. ASSUME NEW r \in Requests, Execute(r)
        PROVE  CacheTroubleNeverRefuses'
    BY <2>3 DEF Execute, StartCall, CallSucceeds, PrimaryFails, FallbackFails, Respond,
                ProviderMayFail, Answer, TypeOK, CacheTroubleNeverRefuses
  <2>4. ASSUME NEW r \in Requests, PublishResult(r) \/ BgDelRetried(r) \/ Store(r)
        PROVE  CacheTroubleNeverRefuses'
    BY <2>4 DEF PublishResult, BgSet, BgSetFails, BgPublish, BgPublishFails, BgDel, BgDelFails,
                BgDelRetried, Store, BgStore, BgStoreFails, handlerVars,
                CacheTroubleNeverRefuses
  <2>5. ASSUME NEW r \in Requests, SubscribeTakesEffect(r) \/ ClientLeaves(r)
        PROVE  CacheTroubleNeverRefuses'
    BY <2>5 DEF SubscribeTakesEffect, ClientLeaves, TypeOK, CacheTroubleNeverRefuses
  <2>6. CASE Tick \/ (\E h \in Hosts : Crash(h)) \/ \E k \in Keys : Evict(k)
    BY <2>6 DEF Tick, Crash, Evict, handlerVars, CacheTroubleNeverRefuses
  <2> QED
    BY <2>1, <2>2, <2>3, <2>4, <2>5, <2>6 DEF Next
<1> QED
  BY <1>1, <1>2, TypeInit, TypeNext, PTL DEF Spec

-----------------------------------------------------------------------------
(* Why every answer has a source *)

LEMMA SourceInit == Init => SourceFacts
  BY DEF Init, SourceFacts

(* A step that writes no response anywhere and does not rewrite the request keeps what
   is known of sources. *)
LEMMA SourceQuiet ==
    ASSUME SourceFacts, produced \subseteq produced', UNCHANGED <<reqKey, resp, cache, semantic>>,
           \A q \in Requests :
               /\ inbox'[q] \in {inbox[q], NoKey}
               /\ pc'[q] \in {"execute", "calling"} => reqKey[q] = Key[q]
               /\ pc'[q] = "respond" => pc[q] = "respond"
               /\ pc'[q] = "done" \/ (reply'[q] = reply[q] /\ pc[q] # "done")
               /\ bg'[q] \in {"none", "end", bg[q]} \/ bg[q] \in {"set", "publish", "del"}
                      \/ pc[q] = "respond"
    PROVE  SourceFacts'
<1>1. \A q \in Requests :
          pc'[q] = "respond" \/ bg'[q] \in {"set", "publish", "del", "store"}
              => resp'[q] \in produced'
  BY DEF SourceFacts
<1> QED
  BY <1>1 DEF SourceFacts

LEMMA SourceLookup ==
    ASSUME TypeOK, SourceFacts, NEW r \in Requests, Lookup(r)
    PROVE  SourceFacts'
  BY SourceQuiet DEF Lookup, SemanticHit, SemanticMiss, Answer, Goto, TypeOK, redisVars,
                     SourceFacts

LEMMA SourceGetOrLock ==
    ASSUME TypeOK, LockFacts, SourceFacts, NEW r \in Requests, GetOrLock(r)
    PROVE  SourceFacts'
<1>1. reqKey[r] = Key[r]
  BY DEF GetOrLock, Get, GetFails, Acquire, Blocked, BlockedBySelf, SetNXFails, Subscribe,
         Receive, WaitTimedOut, WaitCancelled, LockFacts, Asking, Arriving
<1>2. CASE Get(r) \/ GetFails(r) \/ Blocked(r) \/ Subscribe(r)
  BY <1>2, SourceQuiet DEF Get, GetFails, Blocked, Subscribe, Answer, Goto, TypeOK, redisVars,
                           SourceFacts
<1>3. CASE Acquire(r) \/ BlockedBySelf(r) \/ SetNXFails(r)
  BY <1>1, <1>3, SourceQuiet DEF Acquire, BlockedBySelf, SetNXFails, Goto, TypeOK, SourceFacts
<1>4. CASE Receive(r)
  BY <1>4, SourceQuiet DEF Receive, LeaveWait, Answer, Goto, TypeOK, redisVars, SourceFacts
<1>5. CASE WaitTimedOut(r) \/ WaitCancelled(r)
  BY <1>1, <1>5, SourceQuiet DEF WaitTimedOut, WaitCancelled, LeaveWait, Goto, TypeOK,
                                 redisVars, SourceFacts
<1> QED
  BY <1>2, <1>3, <1>4, <1>5 DEF GetOrLock

LEMMA SourceExecute ==
    ASSUME TypeOK, BackgroundFacts, ValueFacts, SourceFacts, NEW r \in Requests, Execute(r)
    PROVE  SourceFacts'
<1>1. CASE StartCall(r)
  BY <1>1, SourceQuiet DEF StartCall, Goto, TypeOK, redisVars, SourceFacts
<1>2. CASE CallSucceeds(r)
  <2>1. pc[r] # "done" /\ bg[r] = "none"
    BY <1>2 DEF CallSucceeds, BackgroundFacts, TypeOK
  <2> QED
    BY <1>2, <2>1 DEF CallSucceeds, Goto, TypeOK, redisVars, SourceFacts
<1>3. CASE PrimaryFails(r)
  <2>1. bg[r] = "none" /\ reqKey[r] = Key[r]
    BY <1>3 DEF PrimaryFails, BackgroundFacts, TypeOK, SourceFacts
  <2> QED
    BY <1>3, <2>1 DEF PrimaryFails, Answer, Goto, TypeOK, redisVars, SourceFacts
<1>4. CASE FallbackFails(r)
  BY <1>4, SourceQuiet DEF FallbackFails, Answer, Goto, TypeOK, redisVars, SourceFacts
<1>5. CASE Respond(r)
  BY <1>5 DEF Respond, Answer, Goto, BgGoto, TypeOK, redisVars, SourceFacts
<1> QED
  BY <1>1, <1>2, <1>3, <1>4, <1>5 DEF Execute

LEMMA SourceBackground ==
    ASSUME TypeOK, BackgroundFacts, ValueFacts, SourceFacts, NEW r \in Requests,
           PublishResult(r) \/ BgDelRetried(r) \/ Store(r)
    PROVE  SourceFacts'
<1>1. CASE BgSet(r) \/ BgSetFails(r)
  BY <1>1 DEF BgSet, BgSetFails, Fill, BgGoto, TypeOK, SourceFacts
<1>2. CASE BgPublish(r) \/ BgPublishFails(r)
  <2>1. resp[r] \in produced
    BY <1>2 DEF BgPublish, BgPublishFails, SourceFacts
  <2>2. \A q \in Requests : inbox'[q] \in produced \cup {NoKey}
    BY <1>2, <2>1 DEF BgPublish, BgPublishFails, Deliver, SourceFacts
  <2>3. \A q \in Requests : bg'[q] \in {"set", "publish", "del", "store"} =>
                              q = r \/ bg[q] = bg'[q]
    BY <1>2 DEF BgPublish, BgPublishFails, BgGoto, TypeOK
  <2>4. UNCHANGED <<pc, reqKey, resp, reply, cache, semantic, produced>>
    BY <1>2 DEF BgPublish, BgPublishFails, redisVars
  <2> QED
    BY <2>1, <2>2, <2>3, <2>4 DEF SourceFacts
<1>3. CASE BgDel(r) \/ BgDelFails(r)
  BY <1>3 DEF BgDel, BgDelFails, BgGoto, TypeOK, redisVars, SourceFacts
<1>4. CASE BgDelRetried(r)
  BY <1>4 DEF BgDelRetried, handlerVars, SourceFacts
<1>5. CASE BgStore(r) \/ BgStoreFails(r)
  <2>1. resp[r] = reqKey[r] /\ resp[r] \in produced
    BY <1>5 DEF BgStore, BgStoreFails, ValueFacts, SourceFacts
  <2> QED
    BY <1>5, <2>1 DEF BgStore, BgStoreFails, BgGoto, TypeOK, redisVars, SourceFacts
<1> QED
  BY <1>1, <1>2, <1>3, <1>4, <1>5 DEF PublishResult, Store

LEMMA SourceEnvironment ==
    ASSUME TypeOK, SourceFacts,
           \/ \E r \in Requests : SubscribeTakesEffect(r) \/ ClientLeaves(r)
           \/ \E h \in Hosts : Crash(h)
           \/ \E k \in Keys : Evict(k)
           \/ Tick
    PROVE  SourceFacts'
<1>1. CASE Tick \/ \E r \in Requests : SubscribeTakesEffect(r) \/ ClientLeaves(r)
  BY <1>1 DEF Tick, SubscribeTakesEffect, ClientLeaves, redisVars, SourceFacts
<1>2. ASSUME NEW h \in Hosts, Crash(h) PROVE SourceFacts'
  BY <1>2 DEF Crash, InHandler, TypeOK, redisVars, SourceFacts
<1>3. ASSUME NEW k \in Keys, Evict(k) PROVE SourceFacts'
  BY <1>3 DEF Evict, TypeOK, handlerVars, SourceFacts
<1> QED
  BY <1>1, <1>2, <1>3

LEMMA SourceNext ==
    TypeOK /\ LockFacts /\ BackgroundFacts /\ ValueFacts /\ SourceFacts /\ [Next]_vars
        => SourceFacts'
<1> SUFFICES ASSUME TypeOK, LockFacts, BackgroundFacts, ValueFacts, SourceFacts, [Next]_vars
             PROVE  SourceFacts'
  OBVIOUS
<1>1. CASE UNCHANGED vars
  BY <1>1 DEF vars, handlerVars, redisVars, SourceFacts
<1>2. CASE Next
  BY <1>2, SourceLookup, SourceGetOrLock, SourceExecute, SourceBackground, SourceEnvironment
     DEF Next
<1> QED
  BY <1>1, <1>2

-----------------------------------------------------------------------------
(* The refinement *)

Lost == [kind |-> "lost", value |-> NoKey]
Got  == [r \in Requests |-> IF pc[r] = "crashed" THEN Lost ELSE reply[r]]

(* A step that gives nobody an answer, computes nothing and kills no process is
   invisible. *)
LEMMA Invisible ==
    ASSUME UNCHANGED <<reply, produced>>,
           \A q \in Requests : pc[q] = "crashed" <=> pc'[q] = "crashed"
    PROVE  UNCHANGED Service!vars
<1>1. Got' = Got
  BY DEF Got
<1> QED
  BY <1>1 DEF Got, Lost, Service!vars

(* An answer that fits the request and comes from a provider is a step of Serve. *)
LEMMA Served ==
    ASSUME TypeOK, SourceFacts, NEW r \in Requests, pc[r] \notin {"done", "crashed"},
           NEW kind \in {"MISS", "HIT", "SEMANTIC-HIT"}, NEW v \in produced,
           Answer(r, kind, v), UNCHANGED produced,
           \/ kind = "MISS" /\ v \in {Key[r], FallbackKey[Key[r]]}
           \/ kind = "HIT" /\ v = Key[r]
           \/ kind = "SEMANTIC-HIT" /\ v \in Similar[Key[r]]
    PROVE  Service!Serve(r)
<1>1. Got[r].kind = "none"
  BY DEF Got, SourceFacts, NoReply
<1>2. Got' = [Got EXCEPT ![r] = [kind |-> kind, value |-> v]]
  BY DEF Got, Answer, Goto, TypeOK
<1>3. Service!Fits(r, kind, v)
  BY DEF Service!Fits
<1> QED
  BY <1>1, <1>2, <1>3 DEF Got, Lost, Service!Serve, Service!Pending

LEMMA Refused ==
    ASSUME TypeOK, SourceFacts, NEW r \in Requests, pc[r] \notin {"done", "crashed"},
           Answer(r, "503", NoKey), UNCHANGED produced
    PROVE  Service!Refuse(r)
<1>1. Got[r].kind = "none"
  BY DEF Got, SourceFacts, NoReply
<1>2. Got' = [Got EXCEPT ![r] = [kind |-> "503", value |-> NoKey]]
  BY DEF Got, Answer, Goto, TypeOK
<1> QED
  BY <1>1, <1>2 DEF Got, Lost, Service!Refuse, Service!Pending

LEMMA StepOfRequest ==
    ASSUME TypeOK, LockFacts, BackgroundFacts, ValueFacts, SourceFacts,
           NEW r \in Requests, Lookup(r) \/ GetOrLock(r) \/ Execute(r)
    PROVE  Service!Next \/ UNCHANGED Service!vars
<1>1. CASE SemanticHit(r)
  <2>1. PICK row \in SimilarRows(r) : Answer(r, "SEMANTIC-HIT", row[2])
    BY <1>1 DEF SemanticHit
  <2>2. row[2] \in produced /\ row[2] \in Similar[Key[r]]
    BY <2>1 DEF SimilarRows, SourceFacts
  <2>3. Service!Serve(r)
    BY <1>1, <2>1, <2>2, Served DEF SemanticHit
  <2> QED
    BY <2>3 DEF Service!Next
<1>2. CASE Get(r) /\ cache[reqKey[r]] # NoKey
  <2>1. reqKey[r] = Key[r] /\ cache[Key[r]] = Key[r] /\ Key[r] \in produced
    BY <1>2 DEF Get, LockFacts, Arriving, Asking, ValueFacts, KeyIntegrity, SourceFacts
  <2>2. Service!Serve(r)
    BY <1>2, <2>1, Served DEF Get
  <2> QED
    BY <2>2 DEF Service!Next
<1>3. CASE Receive(r)
  <2>1. inbox[r] = Key[r] /\ Key[r] \in produced
    BY <1>3 DEF Receive, ValueFacts, KeyIntegrity, SourceFacts
  <2>2. Service!Serve(r)
    BY <1>3, <2>1, Served DEF Receive
  <2> QED
    BY <2>2 DEF Service!Next
<1>4. CASE SemanticMiss(r) \/ (Get(r) /\ cache[reqKey[r]] = NoKey) \/ GetFails(r) \/ Blocked(r)
           \/ Acquire(r) \/ BlockedBySelf(r) \/ SetNXFails(r) \/ Subscribe(r)
           \/ WaitTimedOut(r) \/ WaitCancelled(r) \/ StartCall(r)
  BY <1>4, Invisible
     DEF SemanticMiss, Get, GetFails, Blocked, Acquire, BlockedBySelf, SetNXFails, Subscribe,
         WaitTimedOut, WaitCancelled, StartCall, Goto, TypeOK
<1>5. CASE CallSucceeds(r)
  <2>1. Got' = Got
    BY <1>5 DEF CallSucceeds, Goto, TypeOK, Got
  <2>2. Got[r].kind = "none"
    BY <1>5 DEF CallSucceeds, Got, SourceFacts, NoReply
  <2>3. reqKey[r] \in {Key[r], FallbackKey[Key[r]]} \ {NoKey}
    BY DEF SourceFacts, TypeOK
  <2>4. Service!Compute(r)
    BY <1>5, <2>1, <2>2, <2>3 DEF CallSucceeds, Got, Lost, Service!Compute, Service!Pending
  <2> QED
    BY <2>4 DEF Service!Next
<1>6. CASE PrimaryFails(r) /\ FallbackKey[reqKey[r]] # NoKey
  BY <1>6, Invisible DEF PrimaryFails, Goto, TypeOK
<1>7. CASE (PrimaryFails(r) /\ FallbackKey[reqKey[r]] = NoKey) \/ FallbackFails(r)
  BY <1>7, Refused DEF PrimaryFails, FallbackFails, Service!Next
<1>8. CASE Respond(r)
  <2>1. resp[r] \in produced /\ resp[r] \in {Key[r], FallbackKey[Key[r]]}
    BY <1>8 DEF Respond, ValueFacts, SourceFacts
  <2>2. Service!Serve(r)
    BY <1>8, <2>1, Served DEF Respond
  <2> QED
    BY <2>2 DEF Service!Next
<1> QED
  BY <1>1, <1>2, <1>3, <1>4, <1>5, <1>6, <1>7, <1>8 DEF Lookup, GetOrLock, Execute

LEMMA StepOfBackground ==
    ASSUME TypeOK, BackgroundFacts, NEW r \in Requests,
           \/ PublishResult(r) \/ BgDelRetried(r) \/ Store(r)
           \/ SubscribeTakesEffect(r) \/ ClientLeaves(r)
    PROVE  UNCHANGED Service!vars
  BY Invisible
     DEF PublishResult, BgSet, BgSetFails, BgPublish, BgPublishFails, BgDel, BgDelFails,
         BgDelRetried, Store, BgStore, BgStoreFails, SubscribeTakesEffect, ClientLeaves,
         handlerVars

LEMMA StepOfCrash ==
    ASSUME TypeOK, SourceFacts, NEW h \in Hosts, Crash(h)
    PROVE  Service!Lose
<1> DEFINE lost == {r \in Requests : Host[r] = h /\ InHandler(r)}
<1>1. \A r \in lost : Got[r].kind = "none"
  BY DEF Got, InHandler, SourceFacts, NoReply
<1>2. Got' = [r \in Requests |-> IF r \in lost THEN Lost ELSE Got[r]]
  BY DEF Got, Crash, InHandler, TypeOK
<1>3. UNCHANGED produced
  BY DEF Crash
<1> QED
  BY <1>1, <1>2, <1>3 DEF Got, Lost, Service!Lose, Service!Pending

(* The refinement: whatever happens in the caches, each client gets at most one answer,
   and only one that a provider computed and that fits its request. *)
THEOREM ImplementsAnswerServiceHolds == Spec => ImplementsAnswerService
<1>1. Init => Service!Init
  BY DEF Init, NoReply, Service!Init
<1>2. TypeOK /\ LockFacts /\ BackgroundFacts /\ ValueFacts /\ SourceFacts /\ [Next]_vars
          => [Service!Next]_(Service!vars)
  <2> SUFFICES ASSUME TypeOK, LockFacts, BackgroundFacts, ValueFacts, SourceFacts, [Next]_vars
               PROVE  Service!Next \/ UNCHANGED Service!vars
    OBVIOUS
  <2>1. CASE UNCHANGED vars
    BY <2>1, Invisible DEF vars, handlerVars
  <2>2. CASE Tick \/ \E k \in Keys : Evict(k)
    BY <2>2, Invisible DEF Tick, Evict, handlerVars
  <2>3. CASE \E h \in Hosts : Crash(h)
    BY <2>3, StepOfCrash DEF Service!Next
  <2> QED
    BY <2>1, <2>2, <2>3, StepOfRequest, StepOfBackground DEF Next
<1> QED
  BY <1>1, <1>2, TypeInit, TypeNext, LockInit, LockNext, BackgroundInit, BackgroundNext,
     ValueInit, ValueNext, SourceInit, SourceNext, PTL
     DEF Spec, ImplementsAnswerService, Service!Spec
=============================================================================
