--------------------------- MODULE StampedeProps ---------------------------
(* What the stampede protection has to get right, stated over Stampede.  The
   refinement to AnswerService is at the end. *)
EXTENDS Stampede

(* Every entry of the exact cache, every message on its way to a subscriber and
   every exact hit served is a response computed for exactly that request hash,
   although the request behind the pointer the goroutine publishes under is
   rewritten when the fallback provider answers. *)
KeyIntegrity ==
    /\ \A k \in Keys : cache[k] \in {NoKey, k}
    /\ \A r \in Requests : inbox[r] \in {NoKey, Key[r]}
    /\ \A r \in Requests : reply[r].kind = "HIT" => reply[r].value = Key[r]

(* A subscriber gives up only when the lock that sent it waiting is gone, released
   or expired: acting as owner after ErrLockTimeout never competes with the owner
   it was waiting for while that owner's lock still stands. *)
WaitOutlastsLock ==
    \A r \in Requests :
        pc[r] = "waiting" /\ waitLeft[r] = 0 => holder[Key[r]] # blockedBy[r]

(* While no wait timed out, no call failed, Redis did its part and no lock expired
   under its owner, at most one request per hash is between taking the lock and the
   end of PublishResult, however clients disconnect and processes die. *)
SingleOwner ==
    calm => \A r, q \in Requests :
                Owning(r) /\ Owning(q) /\ Key[r] = Key[q] => r = q

(* A lock that is taken away before its TTL leaves the answer behind in the exact
   cache: nobody can find a key both unlocked and empty because PublishResult
   finished.  (For instances in which the cache does not evict.) *)
FillBeforeRelease ==
    [][\A k \in Keys : ttl[k] > 1 /\ ttl'[k] = 0 => cache'[k] # NoKey]_vars

(* Trouble in Redis or in the database never turns into an error: a request is
   refused only because providers fail or its own client has left. *)
CacheTroubleNeverRefuses ==
    \A r \in Requests :
        reply[r].kind = "503" => "provider" \in Faults \/ cancelled[r]

(* Every request that entered GetOrLock gets an answer, unless its process dies:
   no lost message, orphaned lock or dead owner hangs it for ever. *)
EveryRequestAnswered ==
    \A r \in Requests : pc[r] = "get" ~> pc[r] \in {"done", "crashed"}

(* No lock stays for ever, whatever became of the request that set it. *)
LockEventuallyFree ==
    \A k \in Keys, r \in Requests : holder[k] = r ~> holder[k] # r

-----------------------------------------------------------------------------
(* Statements of the repository that the code does not keep. *)

(* README.md:39: an owner that "hits an error" must release the lock. *)
FailedOwnerReleasesLock ==
    \A r \in Requests : reply[r].kind = "503" => holder[Key[r]] # r

(* README.md:33, handler_stampede_test.go:108-111: concurrent identical requests
   reach the provider once, when nothing fails or runs out of time. *)
CallsProvider(r) == pc[r] \in {"calling", "respond"} \/ reply[r].kind = "MISS"
ProviderCalledOnce ==
    calm => \A r, q \in Requests :
                Key[r] = Key[q] /\ CallsProvider(r) /\ CallsProvider(q) => r = q

-----------------------------------------------------------------------------
(* The service a client sees: every answer was computed by a provider, for the
   client's request, its fallback rewrite or a similar text, and is given once. *)
Service == INSTANCE AnswerService WITH
    computed <- produced,
    answer   <- [r \in Requests |-> IF pc[r] = "crashed"
                                    THEN [kind |-> "lost", value |-> NoKey]
                                    ELSE reply[r]]

ImplementsAnswerService == Service!Spec
=============================================================================
