------------------------------ MODULE Stampede ------------------------------
(* The non-streaming path of Handler.ServeHTTP with its two caches: the semantic
   lookup, the exact cache and its stampede lock (Cache.GetOrLock), the provider
   call with one fallback, and the goroutine that publishes the result
   (Cache.PublishResult, SemanticCache.Store).

   A request is one HTTP call and is handled once.  Redis keys ("cache:", "lock:"
   and "notify:" followed by the request hash) are one abstract key each, and a
   provider's response is represented by the key of the request it was computed
   for, so that an entry stored under a wrong key is visible.  Time is a Tick that
   lowers the lock TTLs and the waiters' timers together.  The circuit breakers
   appear as a provider that may refuse: CircuitBreaker models them. *)
EXTENDS Naturals, FiniteSets

CONSTANTS
    Requests,     \* the HTTP requests of the instance
    Keys,         \* request hashes
    Hosts,        \* gateway processes sharing one Redis
    Key,          \* [Requests -> Keys]: RequestHash of a request as it arrives
    Host,         \* [Requests -> Hosts]: the process that handles it
    FallbackKey,  \* [Keys -> Keys \cup {NoKey}]: hash after the fallback rewrite
    Similar,      \* [Keys -> SUBSET Keys]: texts above the similarity threshold
    NoKey,        \* no key, no response
    NoRequest,    \* no holder
    LockTTL,      \* ticks of the SETNX lock (30 s in the code)
    WaitTimeout,  \* ticks a subscriber waits (35 s in the code)
    Faults        \* which disturbances the environment may cause

ASSUME RequestAssumption == Key \in [Requests -> Keys] /\ Host \in [Requests -> Hosts]
ASSUME KeyAssumption == /\ FallbackKey \in [Keys -> Keys \cup {NoKey}]
                        /\ Similar \in [Keys -> SUBSET Keys]
ASSUME NullAssumption == NoKey \notin Keys /\ NoRequest \notin Requests
ASSUME TimerAssumption == /\ LockTTL \in Nat \ {0}
                          /\ WaitTimeout \in Nat
                          /\ LockTTL < WaitTimeout
ASSUME FaultAssumption ==
    Faults \subseteq {"redis", "provider", "store", "cancel", "crash", "evict"}

VARIABLES
    pc,          \* where the handler of a request stands
    reqKey,      \* hash of its mutable GatewayRequest
    resp,        \* the response it obtained from a provider
    blockedBy,   \* the request whose lock made its SETNX fail
    subscribed,  \* has its SUBSCRIBE reached Redis?
    inbox,       \* the first message delivered to it
    waitLeft,    \* ticks left on its timer
    cancelled,   \* has its client gone away?
    reply,       \* what its client was sent
    bg,          \* where its background goroutine stands
    cache,       \* Redis: the exact cache
    holder,      \* Redis: the request that set the lock of a key
    ttl,         \* Redis: ticks left of that lock
    semantic,    \* Postgres: <<key, response>> rows of semantic_cache
    produced,    \* history: responses a provider has computed
    calm         \* history: nothing has yet forced a second owner

handlerVars == <<pc, reqKey, resp, blockedBy, subscribed, inbox, waitLeft,
                 cancelled, reply, bg>>
redisVars   == <<cache, holder, ttl>>
vars        == <<handlerVars, redisVars, semantic, produced, calm>>

Values == Keys \cup {NoKey}
NoReply == [kind |-> "none", value |-> NoKey]
Replies == [kind: {"none", "HIT", "MISS", "SEMANTIC-HIT", "503"}, value: Values]

Stages == {"new", "get", "setnx", "subscribe", "waiting", "execute", "calling",
           "fallback", "fbcalling", "respond", "done", "crashed"}
BgStages == {"none", "set", "publish", "del", "store", "end"}

TypeOK ==
    /\ pc \in [Requests -> Stages]
    /\ reqKey \in [Requests -> Keys]
    /\ resp \in [Requests -> Values]
    /\ blockedBy \in [Requests -> Requests \cup {NoRequest}]
    /\ subscribed \in [Requests -> BOOLEAN]
    /\ inbox \in [Requests -> Values]
    /\ waitLeft \in [Requests -> 0..WaitTimeout]
    /\ cancelled \in [Requests -> BOOLEAN]
    /\ reply \in [Requests -> Replies]
    /\ bg \in [Requests -> BgStages]
    /\ cache \in [Keys -> Values]
    /\ holder \in [Keys -> Requests \cup {NoRequest}]
    /\ ttl \in [Keys -> 0..LockTTL]
    /\ semantic \subseteq Keys \X Values
    /\ produced \subseteq Keys
    /\ calm \in BOOLEAN

Init ==
    /\ pc = [r \in Requests |-> "new"]
    /\ reqKey = Key
    /\ resp = [r \in Requests |-> NoKey]
    /\ blockedBy = [r \in Requests |-> NoRequest]
    /\ subscribed = [r \in Requests |-> FALSE]
    /\ inbox = [r \in Requests |-> NoKey]
    /\ waitLeft = [r \in Requests |-> 0]
    /\ cancelled = [r \in Requests |-> FALSE]
    /\ reply = [r \in Requests |-> NoReply]
    /\ bg = [r \in Requests |-> "none"]
    /\ cache = [k \in Keys |-> NoKey]
    /\ holder = [k \in Keys |-> NoRequest]
    /\ ttl = [k \in Keys |-> 0]
    /\ semantic = {}
    /\ produced = {}
    /\ calm = TRUE

-----------------------------------------------------------------------------
(* What may go wrong around a call.  A command under a cancelled request context
   may fail like one that meets a broken Redis. *)
RedisMayFail(r)    == "redis" \in Faults \/ cancelled[r]
ProviderMayFail(r) == "provider" \in Faults \/ cancelled[r]
StoreMayFail(r)    == "store" \in Faults \/ cancelled[r]

Goto(r, stage)   == pc' = [pc EXCEPT ![r] = stage]
BgGoto(r, stage) == bg' = [bg EXCEPT ![r] = stage]

(* The handler writes its answer and returns. *)
Answer(r, kind, value) ==
    /\ reply' = [reply EXCEPT ![r] = [kind |-> kind, value |-> value]]
    /\ Goto(r, "done")

-----------------------------------------------------------------------------
(* ServeHTTP: semantic cache *)

(* Mutant: the query loses its provider, model and threshold conditions. *)
SimilarRows_Any(r) == semantic

SimilarRows(r) == {row \in semantic : row[1] \in Similar[Key[r]]}

SemanticHit(r) ==
    /\ pc[r] = "new"
    /\ \E row \in SimilarRows(r) : Answer(r, "SEMANTIC-HIT", row[2])
    /\ UNCHANGED <<reqKey, resp, blockedBy, subscribed, inbox, waitLeft, cancelled,
                   bg, redisVars, semantic, produced, calm>>

(* A failed query counts as a miss. *)
SemanticMiss(r) ==
    /\ pc[r] = "new"
    /\ SimilarRows(r) = {} \/ StoreMayFail(r)
    /\ Goto(r, "get")
    /\ UNCHANGED <<reqKey, resp, blockedBy, subscribed, inbox, waitLeft, cancelled,
                   reply, bg, redisVars, semantic, produced, calm>>

-----------------------------------------------------------------------------
(* Cache.GetOrLock *)

Get(r) ==
    /\ pc[r] = "get"
    /\ IF cache[reqKey[r]] # NoKey
       THEN Answer(r, "HIT", cache[reqKey[r]])
       ELSE Goto(r, "setnx") /\ UNCHANGED reply
    /\ UNCHANGED <<reqKey, resp, blockedBy, subscribed, inbox, waitLeft, cancelled,
                   bg, redisVars, semantic, produced, calm>>

(* An error of the first lookup is dropped: the lock is tried all the same. *)
GetFails(r) ==
    /\ pc[r] = "get"
    /\ RedisMayFail(r)
    /\ Goto(r, "setnx")
    /\ UNCHANGED <<reqKey, resp, blockedBy, subscribed, inbox, waitLeft, cancelled,
                   reply, bg, redisVars, semantic, produced, calm>>

(* Mutants: a lock set without NX, and one set for the subscribers' timeout. *)
TakeLock_Overwrite(r) ==
    /\ holder' = [holder EXCEPT ![reqKey[r]] = r]
    /\ ttl' = [ttl EXCEPT ![reqKey[r]] = LockTTL]
TakeLock_LongTTL(r) ==
    /\ holder[reqKey[r]] = NoRequest
    /\ holder' = [holder EXCEPT ![reqKey[r]] = r]
    /\ ttl' = [ttl EXCEPT ![reqKey[r]] = WaitTimeout]

TakeLock(r) ==
    /\ holder[reqKey[r]] = NoRequest
    /\ holder' = [holder EXCEPT ![reqKey[r]] = r]
    /\ ttl' = [ttl EXCEPT ![reqKey[r]] = LockTTL]

Acquire(r) ==
    /\ pc[r] = "setnx"
    /\ TakeLock(r)
    /\ Goto(r, "execute")
    /\ UNCHANGED <<reqKey, resp, blockedBy, subscribed, inbox, waitLeft, cancelled,
                   reply, bg, cache, semantic, produced, calm>>

Blocked(r) ==
    /\ pc[r] = "setnx"
    /\ holder[reqKey[r]] # NoRequest
    /\ blockedBy' = [blockedBy EXCEPT ![r] = holder[reqKey[r]]]
    /\ Goto(r, "subscribe")
    /\ UNCHANGED <<reqKey, resp, subscribed, inbox, waitLeft, cancelled, reply, bg,
                   redisVars, semantic, produced, calm>>

(* The reply of a SETNX that was applied is lost and the Redis client sends it
   again: the request finds its own lock and waits for itself. *)
BlockedBySelf(r) ==
    /\ "redis" \in Faults
    /\ pc[r] = "setnx"
    /\ TakeLock(r)
    /\ blockedBy' = [blockedBy EXCEPT ![r] = r]
    /\ Goto(r, "subscribe")
    /\ UNCHANGED <<reqKey, resp, subscribed, inbox, waitLeft, cancelled, reply, bg,
                   cache, semantic, produced, calm>>

(* Mutant: a lock that cannot be tried refuses the request. *)
SetNXFails_Refuse(r) ==
    /\ pc[r] = "setnx"
    /\ RedisMayFail(r)
    /\ Answer(r, "503", NoKey)
    /\ UNCHANGED <<reqKey, resp, blockedBy, subscribed, inbox, waitLeft, cancelled,
                   bg, redisVars, semantic, produced, calm>>

(* The command fails, applied or not; the handler goes on as if it were the owner. *)
SetNXFails(r) ==
    /\ pc[r] = "setnx"
    /\ RedisMayFail(r)
    /\ TakeLock(r) \/ UNCHANGED <<holder, ttl>>
    /\ Goto(r, "execute")
    /\ calm' = (calm /\ cancelled[r])
    /\ UNCHANGED <<reqKey, resp, blockedBy, subscribed, inbox, waitLeft, cancelled,
                   reply, bg, cache, semantic, produced>>

(* Mutant: a subscriber with less patience than the lock. *)
Subscribe_Impatient(r) ==
    /\ pc[r] = "subscribe"
    /\ waitLeft' = [waitLeft EXCEPT ![r] = LockTTL - 1]
    /\ Goto(r, "waiting")
    /\ UNCHANGED <<reqKey, resp, blockedBy, subscribed, inbox, cancelled, reply, bg,
                   redisVars, semantic, produced, calm>>

(* Subscribe only writes the command; the timer starts with the select. *)
Subscribe(r) ==
    /\ pc[r] = "subscribe"
    /\ waitLeft' = [waitLeft EXCEPT ![r] = WaitTimeout]
    /\ Goto(r, "waiting")
    /\ UNCHANGED <<reqKey, resp, blockedBy, subscribed, inbox, cancelled, reply, bg,
                   redisVars, semantic, produced, calm>>

SubscribeTakesEffect(r) ==
    /\ pc[r] = "waiting"
    /\ ~subscribed[r]
    /\ subscribed' = [subscribed EXCEPT ![r] = TRUE]
    /\ UNCHANGED <<pc, reqKey, resp, blockedBy, inbox, waitLeft, cancelled, reply, bg,
                   redisVars, semantic, produced, calm>>

(* pubsub.Close, deferred: subscription, channel and timer are gone. *)
LeaveWait(r) ==
    /\ subscribed' = [subscribed EXCEPT ![r] = FALSE]
    /\ inbox' = [inbox EXCEPT ![r] = NoKey]
    /\ waitLeft' = [waitLeft EXCEPT ![r] = 0]

Receive(r) ==
    /\ pc[r] = "waiting"
    /\ inbox[r] # NoKey
    /\ Answer(r, "HIT", inbox[r])
    /\ LeaveWait(r)
    /\ UNCHANGED <<reqKey, resp, blockedBy, cancelled, bg, redisVars, semantic,
                   produced, calm>>

(* Mutant: the select has no timeout. *)
WaitTimedOut_Never(r) == FALSE

(* ErrLockTimeout: the handler acts as owner. *)
WaitTimedOut(r) ==
    /\ pc[r] = "waiting"
    /\ waitLeft[r] = 0
    /\ Goto(r, "execute")
    /\ LeaveWait(r)
    /\ calm' = FALSE
    /\ UNCHANGED <<reqKey, resp, blockedBy, cancelled, reply, bg, redisVars, semantic,
                   produced>>

(* ctx.Done: the handler acts as owner too, but its context is dead. *)
WaitCancelled(r) ==
    /\ pc[r] = "waiting"
    /\ cancelled[r]
    /\ Goto(r, "execute")
    /\ LeaveWait(r)
    /\ UNCHANGED <<reqKey, resp, blockedBy, cancelled, reply, bg, redisVars, semantic,
                   produced, calm>>

-----------------------------------------------------------------------------
(* ServeHTTP: provider call, fallback, answer *)

(* Mutant: calls are made whether or not the client is still there. *)
StartCall_Detached(r) ==
    /\ \/ pc[r] = "execute" /\ Goto(r, "calling")
       \/ pc[r] = "fallback" /\ Goto(r, "fbcalling")
    /\ UNCHANGED <<reqKey, resp, blockedBy, subscribed, inbox, waitLeft, cancelled,
                   reply, bg, redisVars, semantic, produced, calm>>

(* No call goes out under a cancelled context. *)
StartCall(r) ==
    /\ ~cancelled[r]
    /\ \/ pc[r] = "execute" /\ Goto(r, "calling")
       \/ pc[r] = "fallback" /\ Goto(r, "fbcalling")
    /\ UNCHANGED <<reqKey, resp, blockedBy, subscribed, inbox, waitLeft, cancelled,
                   reply, bg, redisVars, semantic, produced, calm>>

CallSucceeds(r) ==
    /\ pc[r] \in {"calling", "fbcalling"}
    /\ resp' = [resp EXCEPT ![r] = reqKey[r]]
    /\ produced' = produced \cup {reqKey[r]}
    /\ Goto(r, "respond")
    /\ UNCHANGED <<reqKey, blockedBy, subscribed, inbox, waitLeft, cancelled, reply,
                   bg, redisVars, semantic, calm>>

(* The primary provider is missing, its breaker refuses or its call fails: the
   request is rewritten for the fallback provider, if it has one. *)
PrimaryFails(r) ==
    /\ pc[r] \in {"execute", "calling"}
    /\ ProviderMayFail(r)
    /\ IF FallbackKey[reqKey[r]] # NoKey
       THEN /\ reqKey' = [reqKey EXCEPT ![r] = FallbackKey[reqKey[r]]]
            /\ Goto(r, "fallback")
            /\ UNCHANGED reply
       ELSE Answer(r, "503", NoKey) /\ UNCHANGED reqKey
    /\ calm' = (calm /\ cancelled[r])
    /\ UNCHANGED <<resp, blockedBy, subscribed, inbox, waitLeft, cancelled, bg,
                   redisVars, semantic, produced>>

(* 503: the lock stays, nobody is notified. *)
FallbackFails(r) ==
    /\ pc[r] \in {"fallback", "fbcalling"}
    /\ ProviderMayFail(r)
    /\ Answer(r, "503", NoKey)
    /\ UNCHANGED <<reqKey, resp, blockedBy, subscribed, inbox, waitLeft, cancelled,
                   bg, redisVars, semantic, produced, calm>>

(* Everyone who gets here is an owner; the goroutine shares the rewritten request. *)
Respond(r) ==
    /\ pc[r] = "respond"
    /\ Answer(r, "MISS", resp[r])
    /\ BgGoto(r, "set")
    /\ UNCHANGED <<reqKey, resp, blockedBy, subscribed, inbox, waitLeft, cancelled,
                   redisVars, semantic, produced, calm>>

-----------------------------------------------------------------------------
(* Cache.PublishResult and SemanticCache.Store, in the background goroutine.  An
   error skips the rest of PublishResult; the failed command may have been applied. *)

(* Mutant: the result is stored under the hash the request arrived with. *)
Fill_OriginalKey(r) == cache' = [cache EXCEPT ![Key[r]] = resp[r]]

Fill(r) == cache' = [cache EXCEPT ![reqKey[r]] = resp[r]]

BgSet(r) ==
    /\ bg[r] = "set"
    /\ Fill(r)
    /\ BgGoto(r, "publish")
    /\ UNCHANGED <<pc, reqKey, resp, blockedBy, subscribed, inbox, waitLeft, cancelled,
                   reply, holder, ttl, semantic, produced, calm>>

(* Mutant: the error of the SET is ignored. *)
BgSetFails_GoesOn(r) ==
    /\ bg[r] = "set"
    /\ "redis" \in Faults
    /\ Fill(r) \/ UNCHANGED cache
    /\ BgGoto(r, "publish")
    /\ UNCHANGED <<pc, reqKey, resp, blockedBy, subscribed, inbox, waitLeft, cancelled,
                   reply, holder, ttl, semantic, produced, calm>>

BgSetFails(r) ==
    /\ bg[r] = "set"
    /\ "redis" \in Faults
    /\ Fill(r) \/ UNCHANGED cache
    /\ BgGoto(r, "store")
    /\ UNCHANGED <<pc, reqKey, resp, blockedBy, subscribed, inbox, waitLeft, cancelled,
                   reply, holder, ttl, semantic, produced, calm>>

(* Only the first message of a subscriber matters: it takes one and leaves. *)
Listening(q, k) ==
    pc[q] = "waiting" /\ subscribed[q] /\ inbox[q] = NoKey /\ reqKey[q] = k

Deliver(r) ==
    inbox' = [q \in Requests |-> IF Listening(q, reqKey[r]) THEN resp[r] ELSE inbox[q]]

BgPublish(r) ==
    /\ bg[r] = "publish"
    /\ Deliver(r)
    /\ BgGoto(r, "del")
    /\ UNCHANGED <<pc, reqKey, resp, blockedBy, subscribed, waitLeft, cancelled, reply,
                   redisVars, semantic, produced, calm>>

BgPublishFails(r) ==
    /\ bg[r] = "publish"
    /\ "redis" \in Faults
    /\ Deliver(r) \/ UNCHANGED inbox
    /\ BgGoto(r, "store")
    /\ UNCHANGED <<pc, reqKey, resp, blockedBy, subscribed, waitLeft, cancelled, reply,
                   redisVars, semantic, produced, calm>>

(* DEL takes whatever lock the key has now. *)
ReleaseLock(r) ==
    /\ holder' = [holder EXCEPT ![reqKey[r]] = NoRequest]
    /\ ttl' = [ttl EXCEPT ![reqKey[r]] = 0]

BgDel(r) ==
    /\ bg[r] = "del"
    /\ ReleaseLock(r)
    /\ BgGoto(r, "store")
    /\ UNCHANGED <<pc, reqKey, resp, blockedBy, subscribed, inbox, waitLeft, cancelled,
                   reply, cache, semantic, produced, calm>>

BgDelFails(r) ==
    /\ bg[r] = "del"
    /\ "redis" \in Faults
    /\ BgGoto(r, "store")
    /\ UNCHANGED <<pc, reqKey, resp, blockedBy, subscribed, inbox, waitLeft, cancelled,
                   reply, redisVars, semantic, produced, calm>>

(* The reply of an applied DEL is lost and the Redis client sends it again. *)
BgDelRetried(r) ==
    /\ bg[r] = "del"
    /\ "redis" \in Faults
    /\ ReleaseLock(r)
    /\ calm' = FALSE
    /\ UNCHANGED <<handlerVars, cache, semantic, produced>>

BgStore(r) ==
    /\ bg[r] = "store"
    /\ semantic' = semantic \cup {<<reqKey[r], resp[r]>>}
    /\ BgGoto(r, "end")
    /\ UNCHANGED <<pc, reqKey, resp, blockedBy, subscribed, inbox, waitLeft, cancelled,
                   reply, redisVars, produced, calm>>

BgStoreFails(r) ==
    /\ bg[r] = "store"
    /\ "store" \in Faults
    /\ BgGoto(r, "end")
    /\ UNCHANGED <<pc, reqKey, resp, blockedBy, subscribed, inbox, waitLeft, cancelled,
                   reply, redisVars, semantic, produced, calm>>

-----------------------------------------------------------------------------
(* The environment *)

InHandler(r) == pc[r] \notin {"new", "done", "crashed"}

ClientLeaves(r) ==
    /\ "cancel" \in Faults
    /\ InHandler(r)
    /\ ~cancelled[r]
    /\ cancelled' = [cancelled EXCEPT ![r] = TRUE]
    /\ UNCHANGED <<pc, reqKey, resp, blockedBy, subscribed, inbox, waitLeft, reply, bg,
                   redisVars, semantic, produced, calm>>

(* A process dies, or exits after a graceful shutdown that waits for handlers but
   not for goroutines; requests that have not arrived yet find it restarted. *)
Crash(h) ==
    /\ "crash" \in Faults
    /\ pc' = [r \in Requests |-> IF Host[r] = h /\ InHandler(r) THEN "crashed" ELSE pc[r]]
    /\ bg' = [r \in Requests |-> IF Host[r] = h /\ bg[r] # "none" THEN "end" ELSE bg[r]]
    /\ UNCHANGED <<reqKey, resp, blockedBy, subscribed, inbox, waitLeft, cancelled,
                   reply, redisVars, semantic, produced, calm>>

(* The cache TTL runs out, or Redis evicts the entry. *)
Evict(k) ==
    /\ "evict" \in Faults
    /\ cache[k] # NoKey
    /\ cache' = [cache EXCEPT ![k] = NoKey]
    /\ UNCHANGED <<handlerVars, holder, ttl, semantic, produced, calm>>

(* r is on its way to, in, or back from a provider call, or still has to finish
   PublishResult: the span the lock is there to cover. *)
Owning(r) ==
    \/ pc[r] \in {"calling", "fbcalling", "respond"}
    \/ pc[r] = "execute" /\ ~cancelled[r]
    \/ bg[r] \in {"set", "publish", "del"}

(* A lock runs out under the request it should cover. *)
Overrun == \E k \in Keys : /\ ttl[k] = 1
                          /\ holder[k] \in Requests /\ Owning(holder[k])

Less(n) == IF n = 0 THEN 0 ELSE n - 1

(* Mutant: locks are set without an expiry. *)
Tick_NoExpiry ==
    /\ \E r \in Requests : pc[r] = "waiting" /\ waitLeft[r] > 0
    /\ waitLeft' = [r \in Requests |-> IF pc[r] = "waiting" THEN Less(waitLeft[r])
                                                            ELSE waitLeft[r]]
    /\ UNCHANGED <<pc, reqKey, resp, blockedBy, subscribed, inbox, cancelled, reply, bg,
                   cache, holder, ttl, semantic, produced, calm>>

(* One unit of time, for Redis and the processes alike. *)
Tick ==
    /\ \/ \E k \in Keys : ttl[k] > 0
       \/ \E r \in Requests : pc[r] = "waiting" /\ waitLeft[r] > 0
    /\ ttl' = [k \in Keys |-> Less(ttl[k])]
    /\ holder' = [k \in Keys |-> IF ttl[k] > 1 THEN holder[k] ELSE NoRequest]
    /\ waitLeft' = [r \in Requests |-> IF pc[r] = "waiting" THEN Less(waitLeft[r])
                                                            ELSE waitLeft[r]]
    /\ calm' = (calm /\ ~Overrun)
    /\ UNCHANGED <<pc, reqKey, resp, blockedBy, subscribed, inbox, cancelled, reply, bg,
                   cache, semantic, produced>>

-----------------------------------------------------------------------------

Lookup(r)  == SemanticHit(r) \/ SemanticMiss(r)
GetOrLock(r) ==
    \/ Get(r) \/ GetFails(r)
    \/ Acquire(r) \/ Blocked(r) \/ BlockedBySelf(r) \/ SetNXFails(r)
    \/ Subscribe(r) \/ Receive(r) \/ WaitTimedOut(r) \/ WaitCancelled(r)
Execute(r) ==
    \/ StartCall(r) \/ CallSucceeds(r)
    \/ PrimaryFails(r) \/ FallbackFails(r) \/ Respond(r)
PublishResult(r) ==
    \/ BgSet(r) \/ BgSetFails(r) \/ BgPublish(r) \/ BgPublishFails(r)
    \/ BgDel(r) \/ BgDelFails(r)
Store(r) == BgStore(r) \/ BgStoreFails(r)

Next ==
    \/ \E r \in Requests : Lookup(r) \/ GetOrLock(r) \/ SubscribeTakesEffect(r)
                           \/ Execute(r) \/ PublishResult(r) \/ BgDelRetried(r)
                           \/ Store(r) \/ ClientLeaves(r)
    \/ \E h \in Hosts : Crash(h)
    \/ \E k \in Keys : Evict(k)
    \/ Tick

Spec == Init /\ [][Next]_vars

(* The Go scheduler runs every goroutine, Redis and the providers answer or fail
   (their clients have timeouts), and time passes.  Nothing obliges a request to
   arrive, a SUBSCRIBE to arrive in time, or a fault to happen. *)
Fairness ==
    /\ \A r \in Requests : /\ WF_vars(GetOrLock(r))
                           /\ WF_vars(Execute(r))
                           /\ WF_vars(PublishResult(r))
                           /\ WF_vars(Store(r))
    /\ WF_vars(Tick)

FairSpec == Spec /\ Fairness
=============================================================================
