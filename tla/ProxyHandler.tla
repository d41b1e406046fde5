---------------------------- MODULE ProxyHandler ----------------------------
(* What Handler.ServeHTTP does once no cache has answered: the provider call behind its
   breaker, the fallback to the other provider, and the same for streams, which the
   provider writes straight to the client.  All requests share the breakers.

   A breaker operation is one step of BreakerSteps here; CircuitBreaker takes them apart.
   A call may fail at any time: the provider is down or answers an error, its 60 s are
   over, or the client has left and its context is cancelled, which the handler does not
   tell apart.  A model is named after the provider that knows it. *)
EXTENDS Naturals, FiniteSets, BreakerSteps

CONSTANTS
    Clients,     \* callers, each with one request at a time
    Configured   \* the keys of Handler.providers

Remote   == {"groq", "gemini"}
Provider == Remote \cup {"mock"}

ASSUME ConfiguredAssumption == "mock" \in Configured /\ Configured \subseteq Provider

VARIABLES
    pc,        \* where each client's handler stands
    req,       \* the GatewayRequest, which the fallback rewrites
    fell,      \* has it?
    reply,     \* what the handler has answered
    voices,    \* how many calls have written to the response
    breakers,  \* Handler.breakers: [state, failures, elapsed since lastFailure]
    quiet,     \* history: ticks since a call of the provider last failed
    excuse     \* history: providers that failed a call during the request, or less
               \* than Timeout before it

vars == <<pc, req, fell, reply, voices, breakers, quiet, excuse>>

(* The mock takes any model. *)
Request == {r \in [provider: Provider, model: Remote, stream: BOOLEAN] :
               r.provider = "mock" => r.model = "groq"}
NoRequest == [provider |-> "mock", model |-> "groq", stream |-> FALSE]

TypeOK ==
    /\ pc \in [Clients -> {"idle", "try", "calling", "streaming", "done"}]
    /\ req \in [Clients -> Request]
    /\ fell \in [Clients -> BOOLEAN]
    /\ reply \in [Clients -> {"none", "200", "400", "503", "empty"}]
    /\ voices \in [Clients -> 0..2]
    /\ breakers \in [Configured -> Breaker]
    /\ quiet \in [Configured -> 0..Timeout]
    /\ excuse \in [Clients -> SUBSET Configured]

Init ==
    /\ pc = [c \in Clients |-> "idle"]
    /\ req = [c \in Clients |-> NoRequest]
    /\ fell = [c \in Clients |-> FALSE]
    /\ reply = [c \in Clients |-> "none"]
    /\ voices = [c \in Clients |-> 0]
    /\ breakers = [p \in Configured |-> NewBreaker]
    /\ quiet = [p \in Configured |-> Timeout]
    /\ excuse = [c \in Clients |-> {}]

-----------------------------------------------------------------------------

Goto(c, stage) == pc' = [pc EXCEPT ![c] = stage]

Answer(c, what) == Goto(c, "done") /\ reply' = [reply EXCEPT ![c] = what]

Other(p) == IF p = "groq" THEN "gemini" ELSE "groq"

(* The providers a request for p can end up with. *)
Candidates(p) == Configured \cap (IF p = "mock" THEN {p} ELSE Remote)

(* The body does not decode or does not pass Validate. *)
BadRequest(c) ==
    /\ pc[c] = "idle"
    /\ Answer(c, "400")
    /\ UNCHANGED <<req, fell, voices, breakers, quiet, excuse>>

(* A stream, or an ordinary request that no cache answers. *)
ServeHTTP(c) ==
    /\ pc[c] = "idle"
    /\ Goto(c, "try")
    /\ \E r \in Request :
          /\ req' = [req EXCEPT ![c] = r]
          /\ excuse' = [excuse EXCEPT
                           ![c] = {p \in Candidates(r.provider) : quiet[p] < Timeout}]
    /\ UNCHANGED <<fell, reply, voices, breakers, quiet>>

(* For the other provider; a stream keeps the model it asked for. *)
Rewritten(r) ==
    [r EXCEPT !.provider = Other(r.provider),
              !.model = IF r.stream THEN r.model ELSE Other(r.provider)]

FallBack(c) ==
    /\ fell' = [fell EXCEPT ![c] = TRUE]
    /\ req' = [req EXCEPT ![c] = Rewritten(req[c])]
    /\ Goto(c, "try")
    /\ UNCHANGED reply

(* The handler of a stream returns without a word, which is a 200 that ends wherever
   the provider stopped writing. *)
GiveUp(c) ==
    /\ Answer(c, IF req[c].stream THEN "empty" ELSE "503")
    /\ UNCHANGED <<fell, req>>

HasOther(p) == p \in Remote /\ Other(p) \in Configured

(* Mutant: the fallback is for failed calls, not for open breakers. *)
Failed_CallsOnly(c) ==
    IF pc[c] = "calling" /\ ~fell[c] /\ HasOther(req[c].provider)
    THEN FallBack(c) ELSE GiveUp(c)

(* Mutant: the fallback may fall back again. *)
Failed_Again(c) == IF HasOther(req[c].provider) THEN FallBack(c) ELSE GiveUp(c)

(* executeWithBreaker has returned an error. *)
Failed(c) ==
    IF ~fell[c] /\ HasOther(req[c].provider) THEN FallBack(c) ELSE GiveUp(c)

-----------------------------------------------------------------------------
(* CircuitBreaker.Allow *)

(* Mutant: an open breaker waits for somebody else to close it. *)
Admits_Closed(p) == breakers[p].state # "OPEN"

Admits(p) == Passes(breakers[p])

Refused(c) ==
    /\ pc[c] = "try"
    /\ req[c].provider \in Configured => ~Admits(req[c].provider)
    /\ Failed(c)
    /\ UNCHANGED <<voices, breakers, quiet, excuse>>

Call(c) ==
    /\ pc[c] = "try"
    /\ req[c].provider \in Configured
    /\ Admits(req[c].provider)
    /\ breakers' = [breakers EXCEPT ![req[c].provider] = Tried(breakers[req[c].provider])]
    /\ Goto(c, "calling")
    /\ UNCHANGED <<req, fell, reply, voices, quiet, excuse>>

RecordSuccess(p) == breakers' = [breakers EXCEPT ![p] = AfterSuccess(breakers[p])]
RecordFailure(p) == breakers' = [breakers EXCEPT ![p] = AfterFailure(breakers[p])]

-----------------------------------------------------------------------------

(* Mutant: Gemini streams too, under any name of the model. *)
Accepts_GeminiStreams(r) ==
    r.provider = "mock" \/ r.model = r.provider \/ r.stream

(* Can the call succeed at all?  Gemini does not stream, and nobody knows the other's model. *)
Accepts(r) ==
    \/ r.provider = "mock"
    \/ r.model = r.provider /\ (r.stream => r.provider = "groq")

Succeeded(c) ==
    /\ RecordSuccess(req[c].provider)
    /\ Answer(c, "200")
    /\ req' = [req EXCEPT ![c] = NoRequest]
    /\ fell' = [fell EXCEPT ![c] = FALSE]
    /\ excuse' = [excuse EXCEPT ![c] = {}]
    /\ UNCHANGED quiet

(* Complete; and CompleteStream of the mock, which writes nothing and is content. *)
CallSucceeds(c) ==
    /\ pc[c] = "calling"
    /\ Accepts(req[c])
    /\ req[c].stream => req[c].provider = "mock"
    /\ Succeeded(c)
    /\ voices' = IF req[c].stream THEN voices ELSE [voices EXCEPT ![c] = @ + 1]

(* The client hears the first chunk of a stream, of a call that may still fail. *)
StreamBegins(c) ==
    /\ pc[c] = "calling"
    /\ req[c].stream /\ req[c].provider # "mock"
    /\ Accepts(req[c])
    /\ Goto(c, "streaming")
    /\ voices' = [voices EXCEPT ![c] = @ + 1]
    /\ UNCHANGED <<req, fell, reply, breakers, quiet, excuse>>

(* After [DONE], or when the provider hangs up without it: both count as success. *)
StreamEnds(c) ==
    /\ pc[c] = "streaming"
    /\ Succeeded(c)
    /\ UNCHANGED voices

(* The call fails, before it has written anything or in the middle of a stream. *)
CallFails(c) ==
    /\ pc[c] \in {"calling", "streaming"}
    /\ req[c].provider = "mock" => ~req[c].stream
    /\ RecordFailure(req[c].provider)
    /\ quiet' = [quiet EXCEPT ![req[c].provider] = 0]
    /\ excuse' = [d \in Clients |->
                     IF pc[d] \in {"try", "calling", "streaming"}
                           /\ req[c].provider \in Candidates(req[d].provider)
                     THEN excuse[d] \cup {req[c].provider} ELSE excuse[d]]
    /\ Failed(c)
    /\ UNCHANGED voices

(* The client has its answer and may ask again. *)
Return(c) ==
    /\ pc[c] = "done"
    /\ Goto(c, "idle")
    /\ req' = [req EXCEPT ![c] = NoRequest]
    /\ fell' = [fell EXCEPT ![c] = FALSE]
    /\ reply' = [reply EXCEPT ![c] = "none"]
    /\ voices' = [voices EXCEPT ![c] = 0]
    /\ excuse' = [excuse EXCEPT ![c] = {}]
    /\ UNCHANGED <<breakers, quiet>>

(* Time passes. *)
Tick ==
    /\ \E p \in Configured : quiet[p] < Timeout \/ breakers[p].elapsed < Timeout
    /\ quiet' = [p \in Configured |-> IF quiet[p] < Timeout THEN quiet[p] + 1 ELSE Timeout]
    /\ breakers' = [p \in Configured |-> Older(breakers[p])]
    /\ UNCHANGED <<pc, req, fell, reply, voices, excuse>>

Handle(c) ==
    \/ Refused(c) \/ Call(c)
    \/ CallSucceeds(c) \/ CallFails(c) \/ StreamBegins(c) \/ StreamEnds(c)

Next == Tick \/ \E c \in Clients : BadRequest(c) \/ ServeHTTP(c) \/ Handle(c) \/ Return(c)

Spec == Init /\ [][Next]_vars

(* Calls end, time passes and answers arrive; nobody has to send a request. *)
FairSpec == Spec /\ WF_vars(Tick) /\ \A c \in Clients : WF_vars(Handle(c)) /\ WF_vars(Return(c))

-----------------------------------------------------------------------------
Unserved(c) == reply[c] \in {"503", "empty"}

(* A request is turned away only if each configured provider it could have gone to has
   failed a call during it or less than Timeout before: no breaker stays open longer, no
   open breaker keeps a request from the other provider, and one that fell back is not
   worse off than one that did not. *)
RefusedOnlyOnFailure ==
    \A c \in Clients : Unserved(c) => Candidates(req[c].provider) \subseteq excuse[c]

(* A client never gets the output of two calls in one response: a stream that breaks
   off is not continued by the provider the handler falls back to. *)
OneVoice == \A c \in Clients : voices[c] <= 1

(* When one of the two big providers stops failing, then sooner or later nobody who
   asks for either is turned away any more, whatever the other does. *)
ServesAgain ==
    \A p \in Configured \cap Remote :
        <>[](quiet[p] = Timeout)
            => <>[](\A c \in Clients : Unserved(c) => req[c].provider = "mock")
=============================================================================
