------------------------- MODULE ProxyHandlerProofs -------------------------
(* Proofs about ProxyHandler for any number of clients, any threshold and timeout, and
   any set of configured providers. *)
EXTENDS ProxyHandler, TLAPS

USE ConfiguredAssumption, BreakerAssumption

Active(c) == pc[c] \in {"try", "calling", "streaming"}

(* The response of a request: nothing before the handler ends, one voice at most, and
   after a voice broke off only a provider that does not know the model.  Whoever is
   called is configured. *)
Voice(c) ==
    /\ pc[c] = "idle" => ~fell[c] /\ voices[c] = 0
    /\ pc[c] # "done" => reply[c] = "none"
    /\ pc[c] \in {"calling", "streaming"} => req[c].provider \in Configured
    /\ pc[c] \in {"try", "calling"} =>
           \/ voices[c] = 0
           \/ /\ voices[c] = 1 /\ fell[c] /\ req[c].stream
              /\ req[c].provider # req[c].model /\ req[c].provider # "mock"
    /\ pc[c] = "streaming" =>
           /\ voices[c] = 1 /\ req[c].stream
           /\ req[c].provider = req[c].model /\ req[c].provider # "mock"
    /\ voices[c] <= 1

VoiceFacts == \A c \in Clients : Voice(c)

-----------------------------------------------------------------------------
(* Requests and their rewriting, breakers and what becomes of them *)

LEMMA FieldTypes ==
    ASSUME NEW r \in Request
    PROVE  /\ r.provider \in Provider /\ r.model \in Remote /\ r.stream \in BOOLEAN
           /\ NoRequest \in Request
  BY DEF Request, NoRequest, Provider, Remote

LEMMA RewrittenFields ==
    ASSUME NEW r \in Request, r.provider \in Remote
    PROVE  /\ Rewritten(r) \in Request
           /\ Rewritten(r).provider = Other(r.provider) /\ Rewritten(r).stream = r.stream
           /\ r.stream => Rewritten(r).model = r.model
           /\ Other(r.provider) \in Remote /\ Other(r.provider) # r.provider
           /\ Other(Other(r.provider)) = r.provider
<1>1. r = [provider |-> r.provider, model |-> r.model, stream |-> r.stream]
  BY DEF Request
<1>2. r.model \in Remote /\ r.stream \in BOOLEAN
  BY FieldTypes
<1>3. /\ Other(r.provider) \in Remote /\ Other(r.provider) # r.provider
      /\ Other(Other(r.provider)) = r.provider
  BY DEF Other, Remote
<1>4. PICK q \in Remote : q = Other(r.provider)
  BY <1>3
<1>5. PICK m \in Remote : m = IF r.stream THEN r.model ELSE q
  BY <1>2, <1>4
<1>6. Rewritten(r) = [r EXCEPT !.provider = q, !.model = m]
  BY <1>4, <1>5 DEF Rewritten
<1>7. Rewritten(r) = [provider |-> q, model |-> m, stream |-> r.stream]
  BY <1>1, <1>6
<1>8. Rewritten(r) \in Request
  BY <1>2, <1>7 DEF Request, Provider, Remote
<1> QED
  BY <1>3, <1>4, <1>5, <1>7, <1>8

LEMMA BreakerTypes ==
    ASSUME NEW b \in Breaker
    PROVE  /\ Tried(b) \in Breaker /\ Closed(b) \in Breaker /\ Older(b) \in Breaker
           /\ Tripped \in Breaker
           /\ ~(b.failures + 1 >= Threshold) => Counted(b) \in Breaker
<1>1. b = [state |-> b.state, failures |-> b.failures, elapsed |-> b.elapsed]
  BY DEF Breaker
<1>2. /\ b.state \in {"CLOSED", "OPEN", "HALF-OPEN"} /\ b.failures \in 0..Threshold
      /\ b.elapsed \in 0..Timeout
  BY DEF Breaker
<1>3. Tried(b) \in Breaker
  BY <1>1, <1>2 DEF Tried, Breaker
<1>4. Closed(b) \in Breaker
  BY <1>2 DEF Closed, Breaker
<1>5. Older(b) \in Breaker
  BY <1>1, <1>2 DEF Older, Breaker
<1>6. Tripped \in Breaker
  BY DEF Tripped, Breaker
<1>7. ~(b.failures + 1 >= Threshold) => Counted(b) \in Breaker
  BY <1>1, <1>2 DEF Counted, Breaker
<1> QED
  BY <1>3, <1>4, <1>5, <1>6, <1>7

LEMMA RecordType ==
    ASSUME breakers \in [Configured -> Breaker], NEW p \in Configured,
           RecordSuccess(p) \/ RecordFailure(p)
    PROVE  breakers' \in [Configured -> Breaker]
<1>1. breakers[p] \in Breaker
  OBVIOUS
<1>2. PICK b \in Breaker : breakers' = [breakers EXCEPT ![p] = b]
  BY <1>1, BreakerTypes DEF RecordSuccess, RecordFailure, AfterSuccess, AfterFailure
<1> QED
  BY <1>2

(* Falling back rewrites one request, giving up ends one. *)
LEMMA FailedType ==
    ASSUME TypeOK, NEW c \in Clients, Failed(c)
    PROVE  /\ pc' \in [Clients -> {"idle", "try", "calling", "streaming", "done"}]
           /\ req' \in [Clients -> Request]
           /\ fell' \in [Clients -> BOOLEAN]
           /\ reply' \in [Clients -> {"none", "200", "400", "503", "empty"}]
<1>1. CASE FallBack(c) /\ req[c].provider \in Remote
  <2>1. Rewritten(req[c]) \in Request
    BY <1>1, RewrittenFields DEF TypeOK
  <2>2. req' \in [Clients -> Request]
    BY <1>1, <2>1 DEF FallBack, TypeOK
  <2>3. fell' \in [Clients -> BOOLEAN]
    BY <1>1 DEF FallBack, TypeOK
  <2> QED
    BY <1>1, <2>2, <2>3 DEF FallBack, Goto, TypeOK
<1>2. CASE GiveUp(c)
  BY <1>2 DEF GiveUp, Answer, Goto, TypeOK
<1> QED
  BY <1>1, <1>2 DEF Failed, HasOther

-----------------------------------------------------------------------------
(* Type correctness *)

LEMMA TypeInit == Init => TypeOK
<1> SUFFICES ASSUME Init PROVE TypeOK
  OBVIOUS
<1>1. NoRequest \in Request
  BY DEF NoRequest, Request, Provider, Remote
<1>2. req \in [Clients -> Request]
  BY <1>1 DEF Init
<1>3. fell \in [Clients -> BOOLEAN]
  BY DEF Init
<1>4. breakers \in [Configured -> Breaker]
  BY DEF Init, NewBreaker, Breaker
<1>5. /\ voices \in [Clients -> 0..2] /\ quiet \in [Configured -> 0..Timeout]
      /\ excuse \in [Clients -> SUBSET Configured]
      /\ pc \in [Clients -> {"idle", "try", "calling", "streaming", "done"}]
      /\ reply \in [Clients -> {"none", "200", "400", "503", "empty"}]
  BY DEF Init
<1> QED
  BY <1>2, <1>3, <1>4, <1>5 DEF TypeOK

LEMMA HandleType ==
    ASSUME TypeOK, VoiceFacts, NEW c \in Clients, Handle(c)
    PROVE  TypeOK'
<1>0. /\ breakers \in [Configured -> Breaker] /\ quiet \in [Configured -> 0..Timeout]
      /\ excuse \in [Clients -> SUBSET Configured] /\ voices \in [Clients -> 0..2]
      /\ Voice(c) /\ NoRequest \in Request
  BY FieldTypes DEF TypeOK, VoiceFacts, NoRequest, Request, Provider, Remote
<1>1. CASE Refused(c)
  BY <1>1, FailedType DEF Refused, TypeOK
<1>2. CASE Call(c)
  <2>1. Tried(breakers[req[c].provider]) \in Breaker
    BY <1>0, <1>2, BreakerTypes DEF Call
  <2>2. breakers' \in [Configured -> Breaker]
    BY <1>0, <1>2, <2>1 DEF Call
  <2> QED
    BY <1>2, <2>2 DEF Call, Goto, TypeOK
<1>3. CASE CallFails(c)
  <2>1. req[c].provider \in Configured
    BY <1>0, <1>3 DEF CallFails, Voice
  <2>2. breakers' \in [Configured -> Breaker]
    BY <1>0, <1>3, <2>1, RecordType DEF CallFails
  <2>3. quiet' \in [Configured -> 0..Timeout]
    BY <1>0, <1>3, <2>1 DEF CallFails
  <2>4. excuse' \in [Clients -> SUBSET Configured]
    BY <1>0, <1>3, <2>1 DEF CallFails
  <2>5. Failed(c) /\ UNCHANGED voices
    BY <1>3 DEF CallFails
  <2> QED
    BY <1>0, <2>2, <2>3, <2>4, <2>5, FailedType DEF TypeOK
<1>4. CASE CallSucceeds(c) \/ StreamEnds(c)
  <2>1. req[c].provider \in Configured /\ Succeeded(c)
    BY <1>0, <1>4 DEF CallSucceeds, StreamEnds, Voice
  <2>2. breakers' \in [Configured -> Breaker]
    BY <1>0, <2>1, RecordType DEF Succeeded
  <2>3. voices' \in [Clients -> 0..2]
    <3>1. voices' = voices \/ voices' = [voices EXCEPT ![c] = voices[c] + 1]
      BY <1>4 DEF CallSucceeds, StreamEnds
    <3>2. voices[c] \in 0..2 /\ voices[c] <= 1
      BY <1>0 DEF Voice
    <3>3. voices[c] + 1 \in 0..2
      BY <3>2
    <3> QED
      BY <1>0, <3>1, <3>3
  <2>4. req' \in [Clients -> Request] /\ fell' \in [Clients -> BOOLEAN]
    BY <1>0, <2>1 DEF Succeeded, TypeOK
  <2> QED
    BY <1>0, <2>1, <2>2, <2>3, <2>4 DEF Succeeded, Answer, Goto, TypeOK
<1>5. CASE StreamBegins(c)
  <2>1. voices[c] + 1 \in 0..2
    <3>1. voices[c] \in 0..2 /\ voices[c] <= 1
      BY <1>0 DEF Voice
    <3> QED
      BY <3>1
  <2>2. voices' \in [Clients -> 0..2]
    BY <1>0, <1>5, <2>1 DEF StreamBegins
  <2> QED
    BY <1>5, <2>2 DEF StreamBegins, Goto, TypeOK
<1> QED
  BY <1>1, <1>2, <1>3, <1>4, <1>5 DEF Handle

LEMMA TypeNext ==
    ASSUME TypeOK, VoiceFacts, [Next]_vars
    PROVE  TypeOK'
<1>0. NoRequest \in Request
  BY DEF NoRequest, Request, Provider, Remote
<1>1. CASE Tick
  <2>1. \A p \in Configured : Older(breakers[p]) \in Breaker
    BY BreakerTypes DEF TypeOK
  <2>2. breakers' \in [Configured -> Breaker]
    BY <1>1, <2>1 DEF Tick
  <2>3. quiet' \in [Configured -> 0..Timeout]
    BY <1>1 DEF Tick, TypeOK
  <2> QED
    BY <1>1, <2>2, <2>3 DEF Tick, TypeOK
<1>2. ASSUME NEW c \in Clients, BadRequest(c) PROVE TypeOK'
  BY <1>2 DEF BadRequest, Answer, Goto, TypeOK
<1>3. ASSUME NEW c \in Clients, ServeHTTP(c) PROVE TypeOK'
  <2>1. PICK r \in Request :
           /\ req' = [req EXCEPT ![c] = r]
           /\ excuse' = [excuse EXCEPT
                           ![c] = {p \in Candidates(r.provider) : quiet[p] < Timeout}]
    BY <1>3 DEF ServeHTTP
  <2>2. req' \in [Clients -> Request]
    BY <2>1 DEF TypeOK
  <2>3. {p \in Candidates(r.provider) : quiet[p] < Timeout} \in SUBSET Configured
    BY DEF Candidates
  <2>4. excuse' \in [Clients -> SUBSET Configured]
    BY <2>1, <2>3 DEF TypeOK
  <2> QED
    BY <1>3, <2>2, <2>4 DEF ServeHTTP, Goto, TypeOK
<1>4. ASSUME NEW c \in Clients, Return(c) PROVE TypeOK'
  <2>1. req' \in [Clients -> Request] /\ fell' \in [Clients -> BOOLEAN]
    BY <1>0, <1>4 DEF Return, TypeOK
  <2> QED
    BY <1>4, <2>1 DEF Return, Goto, TypeOK
<1>5. CASE UNCHANGED vars
  BY <1>5 DEF vars, TypeOK
<1> QED
  BY <1>1, <1>2, <1>3, <1>4, <1>5, HandleType DEF Next

-----------------------------------------------------------------------------
(* What a step of one client leaves alone of another *)

Others(c) ==
    \A d \in Clients \ {c} :
        /\ pc'[d] = pc[d] /\ req'[d] = req[d] /\ fell'[d] = fell[d]
        /\ reply'[d] = reply[d] /\ voices'[d] = voices[d]

LEMMA FailedFrame ==
    ASSUME TypeOK, NEW c \in Clients, Failed(c)
    PROVE  /\ \A d \in Clients \ {c} :
                 /\ pc'[d] = pc[d] /\ req'[d] = req[d] /\ fell'[d] = fell[d]
                 /\ reply'[d] = reply[d]
           /\ \/ /\ ~fell[c] /\ HasOther(req[c].provider)
                 /\ fell'[c] /\ req'[c] = Rewritten(req[c])
                 /\ pc'[c] = "try" /\ reply'[c] = reply[c]
              \/ /\ fell[c] \/ ~HasOther(req[c].provider)
                 /\ fell'[c] = fell[c] /\ req'[c] = req[c] /\ pc'[c] = "done"
<1>1. CASE ~fell[c] /\ HasOther(req[c].provider)
  <2>1. FallBack(c)
    BY <1>1 DEF Failed
  <2> QED
    BY <1>1, <2>1 DEF FallBack, Goto, TypeOK
<1>2. CASE ~(~fell[c] /\ HasOther(req[c].provider))
  <2>1. GiveUp(c)
    BY <1>2 DEF Failed
  <2> QED
    BY <1>2, <2>1 DEF GiveUp, Answer, Goto, TypeOK
<1> QED
  BY <1>1, <1>2

LEMMA StepFrame ==
    ASSUME TypeOK, NEW c \in Clients,
           BadRequest(c) \/ ServeHTTP(c) \/ Handle(c) \/ Return(c)
    PROVE  Others(c)
<1>1. CASE Refused(c) \/ CallFails(c)
  BY <1>1, FailedFrame DEF Refused, CallFails, Others
<1>2. CASE CallSucceeds(c) \/ StreamEnds(c)
  <2>1. voices' = voices \/ voices' = [voices EXCEPT ![c] = voices[c] + 1]
    BY <1>2 DEF CallSucceeds, StreamEnds
  <2>2. Succeeded(c)
    BY <1>2 DEF CallSucceeds, StreamEnds
  <2> QED
    BY <2>1, <2>2 DEF Succeeded, Answer, Goto, Others, TypeOK
<1>3. CASE Call(c) \/ StreamBegins(c)
  BY <1>3 DEF Call, StreamBegins, Goto, Others, TypeOK
<1>4. CASE BadRequest(c) \/ Return(c)
  BY <1>4 DEF BadRequest, Return, Answer, Goto, Others, TypeOK
<1>5. CASE ServeHTTP(c)
  <2>1. \E r \in Request : req' = [req EXCEPT ![c] = r]
    BY <1>5 DEF ServeHTTP
  <2> QED
    BY <1>5, <2>1 DEF ServeHTTP, Goto, Others, TypeOK
<1> QED
  BY <1>1, <1>2, <1>3, <1>4, <1>5 DEF Handle

-----------------------------------------------------------------------------
(* One voice *)

LEMMA VoiceInit == Init => VoiceFacts
  BY DEF Init, VoiceFacts, Voice

LEMMA VoiceFails ==
    ASSUME TypeOK, NEW c \in Clients, Voice(c), Refused(c) \/ CallFails(c)
    PROVE  Voice(c)'
<1>1. /\ Failed(c) /\ voices' = voices
      /\ pc[c] \in {"try", "calling", "streaming"}
  BY DEF Refused, CallFails
<1>2. req[c] \in Request
  BY DEF TypeOK
<1>3. CASE ~fell[c] /\ HasOther(req[c].provider)
  <2>1. /\ fell'[c] /\ req'[c] = Rewritten(req[c])
        /\ pc'[c] = "try" /\ reply'[c] = reply[c]
    BY <1>1, <1>3, FailedFrame
  <2>2. req[c].provider \in Remote
    BY <1>3 DEF HasOther
  <2>3. /\ req'[c].provider = Other(req[c].provider)
        /\ req'[c].stream = req[c].stream
        /\ req[c].stream => req'[c].model = req[c].model
        /\ req'[c].provider # req[c].provider /\ req'[c].provider \in Remote
    BY <1>2, <2>1, <2>2, RewrittenFields
  <2>4. \/ voices'[c] = 0
        \/ /\ voices'[c] = 1 /\ fell'[c] /\ req'[c].stream
           /\ req'[c].provider # req'[c].model /\ req'[c].provider # "mock"
    BY <1>1, <1>3, <2>1, <2>3 DEF Voice, Remote
  <2>5. reply'[c] = "none" /\ voices'[c] <= 1
    BY <1>1, <2>1 DEF Voice
  <2> QED
    BY <2>1, <2>4, <2>5 DEF Voice
<1>4. CASE fell[c] \/ ~HasOther(req[c].provider)
  BY <1>1, <1>4, FailedFrame DEF Voice
<1> QED
  BY <1>3, <1>4

LEMMA VoiceSelf ==
    ASSUME TypeOK, NEW c \in Clients, Voice(c),
           BadRequest(c) \/ ServeHTTP(c) \/ Handle(c) \/ Return(c)
    PROVE  Voice(c)'
<1>1. CASE Refused(c) \/ CallFails(c)
  BY <1>1, VoiceFails
<1>2. CASE CallSucceeds(c)
  <2>1. pc'[c] = "done" /\ pc[c] = "calling"
    BY <1>2 DEF CallSucceeds, Succeeded, Answer, Goto, TypeOK
  <2>2. voices[c] \in 0..2 /\ voices[c] <= 1
    BY DEF Voice, TypeOK
  <2>3. CASE req[c].stream
    BY <1>2, <2>1, <2>2, <2>3 DEF CallSucceeds, Voice
  <2>4. CASE ~req[c].stream
    <3>1. voices[c] = 0
      BY <2>1, <2>4 DEF Voice
    <3>2. voices'[c] = 1
      BY <1>2, <2>4, <3>1 DEF CallSucceeds, TypeOK
    <3> QED
      BY <2>1, <3>2 DEF Voice
  <2> QED
    BY <2>3, <2>4
<1>3. CASE StreamEnds(c)
  <2>1. pc'[c] = "done" /\ voices' = voices
    BY <1>3 DEF StreamEnds, Succeeded, Answer, Goto, TypeOK
  <2> QED
    BY <2>1 DEF Voice
<1>4. CASE StreamBegins(c)
  <2>1. /\ pc[c] = "calling" /\ pc'[c] = "streaming" /\ req' = req /\ reply' = reply
        /\ req[c].provider = req[c].model /\ req[c].provider # "mock" /\ req[c].stream
    BY <1>4 DEF StreamBegins, Accepts, Goto, TypeOK
  <2>2. voices[c] = 0
    BY <2>1 DEF Voice
  <2>3. voices'[c] = 1
    BY <1>4, <2>2 DEF StreamBegins, TypeOK
  <2> QED
    BY <2>1, <2>3 DEF Voice
<1>5. CASE Call(c)
  BY <1>5 DEF Call, Goto, Voice, TypeOK
<1>6. CASE BadRequest(c)
  BY <1>6 DEF BadRequest, Answer, Goto, Voice, TypeOK
<1>7. CASE ServeHTTP(c)
  BY <1>7 DEF ServeHTTP, Goto, Voice, TypeOK
<1>8. CASE Return(c)
  BY <1>8 DEF Return, Goto, Voice, TypeOK
<1> QED
  BY <1>1, <1>2, <1>3, <1>4, <1>5, <1>6, <1>7, <1>8 DEF Handle

LEMMA VoiceNext ==
    ASSUME TypeOK, VoiceFacts, [Next]_vars
    PROVE  VoiceFacts'
<1>1. CASE Tick
  BY <1>1 DEF Tick, VoiceFacts, Voice
<1>2. ASSUME NEW c \in Clients, BadRequest(c) \/ ServeHTTP(c) \/ Handle(c) \/ Return(c)
      PROVE  VoiceFacts'
  <2>1. Voice(c)'
    BY <1>2, VoiceSelf DEF VoiceFacts
  <2>2. ASSUME NEW d \in Clients \ {c} PROVE Voice(d)'
    BY <1>2, StepFrame DEF Others, VoiceFacts, Voice
  <2> QED
    BY <2>1, <2>2 DEF VoiceFacts
<1>3. CASE UNCHANGED vars
  BY <1>3 DEF vars, VoiceFacts, Voice
<1> QED
  BY <1>1, <1>2, <1>3 DEF Next

(* Every state of the handler is one of the states listed: no response has more than two
   voices, no counter passes its bound and no request is rewritten to one that cannot be
   sent. *)
THEOREM TypeCorrect == Spec => []TypeOK
<1>1. Init => TypeOK /\ VoiceFacts
  BY TypeInit, VoiceInit
<1>2. TypeOK /\ VoiceFacts /\ [Next]_vars => (TypeOK /\ VoiceFacts)'
  BY TypeNext, VoiceNext
<1> QED
  BY <1>1, <1>2, PTL DEF Spec

(* However many clients there are: no response carries the output of two calls, because a
   stream falls back without its model and the other provider does not know it. *)
THEOREM OneVoiceHolds == Spec => []OneVoice
<1>1. Init => TypeOK /\ VoiceFacts
  BY TypeInit, VoiceInit
<1>2. TypeOK /\ VoiceFacts /\ [Next]_vars => (TypeOK /\ VoiceFacts)'
  BY TypeNext, VoiceNext
<1>3. VoiceFacts => OneVoice
  BY DEF VoiceFacts, Voice, OneVoice
<1> QED
  BY <1>1, <1>2, <1>3, PTL DEF Spec

-----------------------------------------------------------------------------
(* Nobody is refused without a failure *)

(* An open breaker has been open for as long as its provider has been quiet, at least. *)
QuietFacts ==
    \A p \in Configured : breakers[p].state = "OPEN" => quiet[p] <= breakers[p].elapsed

(* A provider that failed lately is an excuse of every request it could serve; one that
   was fallen back from is, however long ago that was. *)
Excused(c) ==
    /\ Active(c) =>
           \A p \in Candidates(req[c].provider) : quiet[p] < Timeout => p \in excuse[c]
    /\ Active(c) /\ fell[c] =>
           /\ req[c].provider \in Remote /\ req[c].provider \in Configured
           /\ Other(req[c].provider) \in Configured => Other(req[c].provider) \in excuse[c]
    /\ pc[c] = "done" /\ Unserved(c) => Candidates(req[c].provider) \subseteq excuse[c]

ExcuseFacts == \A c \in Clients : Excused(c)

RefusalInv == TypeOK /\ VoiceFacts /\ QuietFacts /\ ExcuseFacts

LEMMA RefusalInit == Init => RefusalInv
<1> SUFFICES ASSUME Init PROVE RefusalInv
  OBVIOUS
<1>1. QuietFacts
  BY DEF Init, NewBreaker, QuietFacts
<1>2. ExcuseFacts
  BY DEF Init, ExcuseFacts, Excused, Active, Unserved
<1> QED
  BY <1>1, <1>2, TypeInit, VoiceInit DEF RefusalInv

LEMMA QuietNext ==
    ASSUME RefusalInv, [Next]_vars
    PROVE  QuietFacts'
<1>0. /\ breakers \in [Configured -> Breaker] /\ quiet \in [Configured -> 0..Timeout]
      /\ VoiceFacts /\ QuietFacts
  BY DEF RefusalInv, TypeOK
<1>1. CASE Tick
  <2> SUFFICES ASSUME NEW p \in Configured, breakers'[p].state = "OPEN"
               PROVE  quiet'[p] <= breakers'[p].elapsed
    BY DEF QuietFacts
  <2>1. breakers[p] \in Breaker /\ quiet[p] \in 0..Timeout
    BY <1>0
  <2>2. /\ breakers'[p] = Older(breakers[p])
        /\ quiet'[p] = IF quiet[p] < Timeout THEN quiet[p] + 1 ELSE Timeout
    BY <1>1 DEF Tick
  <2>3. /\ breakers'[p].state = breakers[p].state
        /\ breakers'[p].elapsed = IF breakers[p].elapsed < Timeout
                                  THEN breakers[p].elapsed + 1 ELSE Timeout
    BY <2>1, <2>2 DEF Older, Breaker
  <2>4. quiet[p] <= breakers[p].elapsed
    BY <1>0, <2>3 DEF QuietFacts
  <2>5. breakers[p].elapsed \in 0..Timeout
    BY <2>1 DEF Breaker
  <2> QED
    BY <2>1, <2>2, <2>3, <2>4, <2>5
<1>2. ASSUME NEW c \in Clients, CallFails(c) PROVE QuietFacts'
  <2>1. req[c].provider \in Configured
    BY <1>0, <1>2 DEF CallFails, VoiceFacts, Voice
  <2>2. quiet' = [quiet EXCEPT ![req[c].provider] = 0]
    BY <1>2 DEF CallFails
  <2>3. \A p \in Configured \ {req[c].provider} : breakers'[p] = breakers[p]
    BY <1>0, <1>2 DEF CallFails, RecordFailure
  <2>4. breakers' \in [Configured -> Breaker]
    BY <1>0, <1>2, <2>1, RecordType DEF CallFails
  <2>5. breakers'[req[c].provider].elapsed \in 0..Timeout
    BY <2>1, <2>4 DEF Breaker
  <2> QED
    BY <1>0, <2>1, <2>2, <2>3, <2>5 DEF QuietFacts
<1>3. ASSUME NEW c \in Clients, CallSucceeds(c) \/ StreamEnds(c) PROVE QuietFacts'
  <2>1. req[c].provider \in Configured
    BY <1>0, <1>3 DEF CallSucceeds, StreamEnds, VoiceFacts, Voice
  <2>2. RecordSuccess(req[c].provider) /\ quiet' = quiet
    BY <1>3 DEF CallSucceeds, StreamEnds, Succeeded
  <2>3. \/ breakers' = [breakers EXCEPT ![req[c].provider] = breakers[req[c].provider]]
        \/ breakers' = [breakers EXCEPT
                           ![req[c].provider] = Closed(breakers[req[c].provider])]
    BY <2>2 DEF RecordSuccess, AfterSuccess
  <2>4. Closed(breakers[req[c].provider]).state # "OPEN"
    BY DEF Closed
  <2> QED
    BY <1>0, <2>1, <2>2, <2>3, <2>4 DEF QuietFacts
<1>4. ASSUME NEW c \in Clients, Call(c) PROVE QuietFacts'
  <2>1. /\ req[c].provider \in Configured /\ quiet' = quiet
        /\ breakers' = [breakers EXCEPT
                           ![req[c].provider] = Tried(breakers[req[c].provider])]
    BY <1>4 DEF Call
  <2>2. Tried(breakers[req[c].provider]).state # "OPEN"
    <3>1. breakers[req[c].provider] \in Breaker
      BY <1>0, <2>1
    <3> QED
      BY <3>1 DEF Tried, Breaker
  <2> QED
    BY <1>0, <2>1, <2>2 DEF QuietFacts
<1>5. ASSUME UNCHANGED <<breakers, quiet>> PROVE QuietFacts'
  BY <1>0, <1>5 DEF QuietFacts
<1>6. ASSUME NEW c \in Clients,
             \/ BadRequest(c) \/ ServeHTTP(c) \/ Return(c) \/ Refused(c) \/ StreamBegins(c)
      PROVE  UNCHANGED <<breakers, quiet>>
  BY <1>6 DEF BadRequest, ServeHTTP, Return, Refused, StreamBegins
<1>7. CASE UNCHANGED vars
  BY <1>5, <1>7 DEF vars
<1> QED
  BY <1>1, <1>2, <1>3, <1>4, <1>5, <1>6, <1>7 DEF Next, Handle

(* Falling back leaves the providers a request can end up with as they were. *)
LEMMA SameCandidates ==
    ASSUME NEW r \in Request, r.provider \in Remote
    PROVE  Candidates(Rewritten(r).provider) = Candidates(r.provider)
<1>1. Rewritten(r).provider \in Remote
  BY RewrittenFields
<1> QED
  BY <1>1 DEF Candidates, Remote

LEMMA CandidateCases ==
    ASSUME NEW r \in Request
    PROVE  /\ r.provider \in Configured => r.provider \in Candidates(r.provider)
           /\ \A p \in Candidates(r.provider) :
                 p = r.provider \/ (p = Other(r.provider) /\ HasOther(r.provider))
<1>1. r.provider \in Provider
  BY FieldTypes
<1>2. CASE r.provider = "mock"
  BY <1>2 DEF Candidates
<1>3. CASE r.provider = "groq"
  BY <1>3 DEF Remote, Candidates, Other, HasOther
<1>4. CASE r.provider = "gemini"
  BY <1>4 DEF Remote, Candidates, Other, HasOther
<1> QED
  BY <1>1, <1>2, <1>3, <1>4 DEF Provider, Remote

(* Once a call failed or a breaker refused, the provider is an excuse if there is one by that
   name; then falling back and giving up both keep the facts. *)
LEMMA ExcusedFails ==
    ASSUME RefusalInv, NEW c \in Clients, Refused(c) \/ CallFails(c)
    PROVE  Excused(c)'
<1>0. /\ TypeOK /\ Voice(c) /\ Excused(c) /\ Failed(c) /\ Active(c)
      /\ req[c] \in Request /\ TypeOK'
  <2>1. [Next]_vars
    BY DEF Next, Handle
  <2>2. TypeOK'
    BY <2>1, TypeNext DEF RefusalInv
  <2> QED
    BY <2>2 DEF RefusalInv, VoiceFacts, ExcuseFacts, Refused, CallFails, Active, TypeOK
<1>1. /\ excuse[c] \subseteq excuse'[c]
      /\ \A p \in Configured : quiet'[p] = quiet[p] \/ p = req[c].provider
      /\ req[c].provider \in Configured => req[c].provider \in excuse'[c]
  <2>1. CASE Refused(c)
    <3>1. excuse' = excuse /\ quiet' = quiet
      BY <2>1 DEF Refused
    <3>2. ASSUME req[c].provider \in Configured PROVE req[c].provider \in excuse[c]
      <4>1. /\ breakers[req[c].provider].state = "OPEN"
            /\ breakers[req[c].provider].elapsed # Timeout
        BY <2>1, <3>2 DEF Refused, Admits, Passes
      <4>2. /\ breakers[req[c].provider].elapsed \in 0..Timeout
            /\ quiet[req[c].provider] \in 0..Timeout
        BY <1>0, <3>2 DEF TypeOK, Breaker
      <4>3. quiet[req[c].provider] <= breakers[req[c].provider].elapsed
        BY <3>2, <4>1 DEF RefusalInv, QuietFacts
      <4>4. quiet[req[c].provider] < Timeout
        BY <4>1, <4>2, <4>3
      <4> QED
        BY <1>0, <3>2, <4>4, CandidateCases DEF Excused
    <3> QED
      BY <3>1, <3>2
  <2>2. CASE CallFails(c)
    <3>1. req[c].provider \in Configured
      BY <1>0, <2>2 DEF CallFails, Voice
    <3>2. req[c].provider \in Candidates(req[c].provider)
      BY <1>0, <3>1, CandidateCases
    <3>3. excuse'[c] = excuse[c] \cup {req[c].provider}
      BY <1>0, <2>2, <3>2 DEF CallFails, Active
    <3>4. \A p \in Configured : quiet'[p] = quiet[p] \/ p = req[c].provider
      BY <1>0, <2>2 DEF CallFails, TypeOK
    <3> QED
      BY <3>3, <3>4
  <2> QED
    BY <2>1, <2>2
<1>2. CASE ~fell[c] /\ HasOther(req[c].provider)
  <2>1. /\ req'[c] = Rewritten(req[c]) /\ pc'[c] = "try" /\ req[c].provider \in Remote
        /\ Other(req[c].provider) \in Configured
    BY <1>0, <1>2, FailedFrame DEF HasOther
  <2>2. /\ Candidates(req'[c].provider) = Candidates(req[c].provider)
        /\ req'[c].provider = Other(req[c].provider) /\ req'[c].provider \in Remote
        /\ Other(req'[c].provider) = req[c].provider
    BY <1>0, <2>1, SameCandidates, RewrittenFields
  <2>3. \A p \in Candidates(req'[c].provider) : quiet'[p] < Timeout => p \in excuse'[c]
    <3>1. Candidates(req[c].provider) \subseteq Configured
      BY DEF Candidates
    <3> QED
      BY <1>0, <1>1, <2>2, <3>1 DEF Excused
  <2>4. pc'[c] # "done"
    BY <2>1
  <2> QED
    BY <1>1, <2>1, <2>2, <2>3, <2>4 DEF Excused
<1>3. CASE fell[c] \/ ~HasOther(req[c].provider)
  <2>1. req'[c] = req[c] /\ pc'[c] = "done"
    BY <1>0, <1>3, FailedFrame
  <2>2. Candidates(req[c].provider) \subseteq excuse'[c]
    <3> SUFFICES ASSUME NEW p \in Candidates(req[c].provider) PROVE p \in excuse'[c]
      OBVIOUS
    <3>1. p \in Configured
      BY DEF Candidates
    <3>2. CASE p = req[c].provider
      BY <1>1, <3>1, <3>2
    <3>3. CASE p = Other(req[c].provider) /\ HasOther(req[c].provider)
      BY <1>0, <1>1, <1>3, <3>1, <3>3 DEF Excused
    <3> QED
      BY <1>0, <3>2, <3>3, CandidateCases
  <2> QED
    BY <2>1, <2>2 DEF Excused, Active
<1> QED
  BY <1>2, <1>3

LEMMA ExcusedSelf ==
    ASSUME RefusalInv, NEW c \in Clients,
           BadRequest(c) \/ ServeHTTP(c) \/ Handle(c) \/ Return(c)
    PROVE  Excused(c)'
<1>0. TypeOK /\ Voice(c) /\ Excused(c)
  BY DEF RefusalInv, VoiceFacts, ExcuseFacts
<1>1. CASE Refused(c) \/ CallFails(c)
  BY <1>1, ExcusedFails
<1>2. CASE CallSucceeds(c) \/ StreamEnds(c)
  <2>1. pc'[c] = "done" /\ reply'[c] = "200"
    BY <1>0, <1>2 DEF CallSucceeds, StreamEnds, Succeeded, Answer, Goto, TypeOK
  <2> QED
    BY <2>1 DEF Excused, Active, Unserved
<1>3. CASE Call(c) \/ StreamBegins(c)
  <2>1. /\ Active(c) /\ Active(c)' /\ pc'[c] # "done"
        /\ UNCHANGED <<req, fell, quiet, excuse>>
    BY <1>0, <1>3 DEF Call, StreamBegins, Goto, Active, TypeOK
  <2> QED
    BY <1>0, <2>1 DEF Excused
<1>4. CASE BadRequest(c)
  <2>1. pc'[c] = "done" /\ reply'[c] = "400"
    BY <1>0, <1>4 DEF BadRequest, Answer, Goto, TypeOK
  <2> QED
    BY <2>1 DEF Excused, Active, Unserved
<1>5. CASE ServeHTTP(c)
  <2>1. PICK r \in Request :
           /\ req' = [req EXCEPT ![c] = r]
           /\ excuse' = [excuse EXCEPT
                           ![c] = {p \in Candidates(r.provider) : quiet[p] < Timeout}]
    BY <1>5 DEF ServeHTTP
  <2>2. /\ req'[c] = r /\ excuse'[c] = {p \in Candidates(r.provider) : quiet[p] < Timeout}
        /\ quiet' = quiet /\ pc'[c] = "try" /\ ~fell'[c]
    BY <1>0, <1>5, <2>1 DEF ServeHTTP, Goto, Voice, TypeOK
  <2> QED
    BY <2>2 DEF Excused
<1>6. CASE Return(c)
  <2>1. pc'[c] = "idle"
    BY <1>0, <1>6 DEF Return, Goto, TypeOK
  <2> QED
    BY <2>1 DEF Excused, Active
<1> QED
  BY <1>1, <1>2, <1>3, <1>4, <1>5, <1>6 DEF Handle

(* A failed call is an excuse for the others too, if they could have gone there. *)
LEMMA ExcusedOthers ==
    ASSUME RefusalInv, NEW c \in Clients, NEW d \in Clients \ {c},
           BadRequest(c) \/ ServeHTTP(c) \/ Handle(c) \/ Return(c)
    PROVE  Excused(d)'
<1>0. TypeOK /\ Voice(c) /\ Excused(d)
  BY DEF RefusalInv, VoiceFacts, ExcuseFacts
<1>1. /\ pc'[d] = pc[d] /\ req'[d] = req[d] /\ fell'[d] = fell[d] /\ reply'[d] = reply[d]
  BY <1>0, StepFrame DEF Others
<1>2. CASE CallFails(c)
  <2>1. req[c].provider \in Configured
    BY <1>0, <1>2 DEF CallFails, Voice
  <2>2. quiet' = [quiet EXCEPT ![req[c].provider] = 0]
    BY <1>2 DEF CallFails
  <2>3. excuse'[d] = IF Active(d) /\ req[c].provider \in Candidates(req[d].provider)
                     THEN excuse[d] \cup {req[c].provider} ELSE excuse[d]
    BY <1>2 DEF CallFails, Active
  <2>4. Candidates(req[d].provider) \subseteq Configured
    BY DEF Candidates
  <2>5. \A p \in Configured : quiet'[p] = quiet[p] \/ p = req[c].provider
    BY <1>0, <2>2 DEF TypeOK
  <2> QED
    BY <1>0, <1>1, <2>3, <2>4, <2>5 DEF Excused, Active, Unserved
<1>3. CASE ~CallFails(c)
  <2>1. quiet' = quiet
    BY <1>3 DEF BadRequest, ServeHTTP, Return, Handle, Refused, Call, CallSucceeds,
                Succeeded, StreamBegins, StreamEnds
  <2>2. excuse'[d] = excuse[d]
    <3>1. CASE ServeHTTP(c)
      <4>1. \E r \in Request :
               excuse' = [excuse EXCEPT
                             ![c] = {p \in Candidates(r.provider) : quiet[p] < Timeout}]
        BY <3>1 DEF ServeHTTP
      <4> QED
        BY <1>0, <4>1 DEF TypeOK
    <3>2. CASE ~ServeHTTP(c)
      <4>1. excuse' = excuse \/ excuse' = [excuse EXCEPT ![c] = {}]
        BY <1>3, <3>2 DEF BadRequest, Return, Handle, Refused, Call, CallSucceeds,
                          Succeeded, StreamBegins, StreamEnds
      <4> QED
        BY <1>0, <4>1 DEF TypeOK
    <3> QED
      BY <3>1, <3>2
  <2> QED
    BY <1>0, <1>1, <2>1, <2>2 DEF Excused, Active, Unserved
<1> QED
  BY <1>2, <1>3

LEMMA ExcuseNext ==
    ASSUME RefusalInv, [Next]_vars
    PROVE  ExcuseFacts'
<1>1. CASE Tick
  <2> SUFFICES ASSUME NEW c \in Clients PROVE Excused(c)'
    BY DEF ExcuseFacts
  <2>1. UNCHANGED <<pc, req, fell, reply, voices, excuse>> /\ Excused(c)
    BY <1>1 DEF Tick, RefusalInv, ExcuseFacts
  <2>2. \A p \in Configured : quiet'[p] < Timeout => quiet[p] < Timeout
    <3> SUFFICES ASSUME NEW p \in Configured, quiet'[p] < Timeout PROVE quiet[p] < Timeout
      OBVIOUS
    <3>1. quiet'[p] = IF quiet[p] < Timeout THEN quiet[p] + 1 ELSE Timeout
      BY <1>1 DEF Tick
    <3> QED
      BY <3>1
  <2>3. Candidates(req[c].provider) \subseteq Configured
    BY DEF Candidates
  <2> QED
    BY <2>1, <2>2, <2>3 DEF Excused, Active, Unserved
<1>2. ASSUME NEW c \in Clients, BadRequest(c) \/ ServeHTTP(c) \/ Handle(c) \/ Return(c)
      PROVE  ExcuseFacts'
  BY <1>2, ExcusedSelf, ExcusedOthers DEF ExcuseFacts
<1>3. CASE UNCHANGED vars
  BY <1>3 DEF vars, RefusalInv, ExcuseFacts, Excused, Active, Unserved
<1> QED
  BY <1>1, <1>2, <1>3 DEF Next

(* Whatever the clients do and however the breakers interleave: who is turned away could
   have been served only by providers that failed a call during the request or less than
   Timeout before it. *)
THEOREM RefusedOnlyOnFailureHolds == Spec => []RefusedOnlyOnFailure
<1>1. RefusalInv /\ [Next]_vars => RefusalInv'
  BY TypeNext, VoiceNext, QuietNext, ExcuseNext DEF RefusalInv
<1>2. RefusalInv => RefusedOnlyOnFailure
  <2> SUFFICES ASSUME RefusalInv, NEW c \in Clients, Unserved(c)
               PROVE  Candidates(req[c].provider) \subseteq excuse[c]
    BY DEF RefusedOnlyOnFailure
  <2>1. pc[c] = "done"
    BY DEF Unserved, RefusalInv, VoiceFacts, Voice
  <2> QED
    BY <2>1 DEF RefusalInv, ExcuseFacts, Excused
<1> QED
  BY <1>1, <1>2, RefusalInit, PTL DEF Spec
=============================================================================
