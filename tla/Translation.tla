---------------------------- MODULE Translation ----------------------------
(* The forms a GatewayRequest takes on its way: what Validate accepts, the key of the
   exact cache, the text and vector of the semantic cache, and what Groq and Gemini are
   sent.  A client asks one question after another; how requests interleave is the
   matter of Stampede.

   A response is identified by the question that the provider was sent.  The vector of
   a text counts the words of each of the embedder's buckets; its length does not
   matter to the cosine, and what Embed normalises is left unnormalised here. *)
EXTENDS Integers, Sequences, SequencesExt, FiniteSets, FiniteSetsExt

CONSTANTS
    Texts,      \* contents of messages and system prompts
    Words,      \* the buckets that Embed counts words in
    WordsOf,    \* how many words of each bucket a text has
    NoText,     \* the empty system prompt
    Roles,      \* whom clients let speak; Validate looks at no role
    Models,     \* the models they name
    Inputs,     \* the requests clients send
    MaxEntries, \* bound on the answers in the exact cache
    MaxRows     \* bound on the rows of the semantic cache

Providers == {"groq", "gemini", "mock"}
Message   == [role: Roles, content: Texts]
Request   == [provider: Providers \cup {"unknown"}, model: Models,
              system_prompt: Texts \cup {NoText}, messages: Seq(Message),
              max_tokens: Int, temperature: Int, stream: BOOLEAN]

ASSUME NameAssumption  == /\ {"system", "user", "assistant"} \subseteq Roles
                          /\ {"llama-3.1-8b-instant", "gemini-1.5-flash"} \subseteq Models
ASSUME TextAssumption  == WordsOf \in [Texts -> [Words -> Nat]] /\ NoText \notin Texts
ASSUME InputAssumption == Inputs \subseteq Request
ASSUME BoundAssumption == MaxEntries \in Nat /\ MaxRows \in Nat

VARIABLES
    exact,  \* Redis: the answered requests, each under its RequestHash
    rows,   \* semantic_cache: the answered requests
    last    \* the last request, how it was answered, and for which request

vars == <<exact, rows, last>>

-----------------------------------------------------------------------------

(* Mutant: a limit of no token is allowed. *)
Validate_NoToken(r) == r.provider \in Providers /\ r.messages # <<>> /\ r.max_tokens >= 0

Validate(r) == r.provider \in Providers /\ r.messages # <<>> /\ r.max_tokens > 0

(* Mutant: the system prompt is not part of the key. *)
RequestHash_NoSystem(r) ==
    <<r.provider, r.model, r.messages, r.max_tokens, r.temperature>>

(* All that affects the answer; not stream. *)
RequestHash(r) ==
    <<r.provider, r.model, r.system_prompt, r.messages, r.max_tokens, r.temperature>>

SystemPrompt(r) == IF r.system_prompt = NoText THEN <<>> ELSE <<r.system_prompt>>

(* Groq: the system prompt becomes the first message; a temperature of 0 is omitted. *)
GroqRequest(r) ==
    [model |-> r.model,
     messages |-> [i \in DOMAIN SystemPrompt(r) |->
                      [role |-> "system", content |-> r.system_prompt]] \o r.messages,
     max_tokens |-> r.max_tokens,
     temperature |-> IF r.temperature = 0 THEN <<>> ELSE <<r.temperature>>]

(* The loop that keeps the messages of the given roles, in their order. *)
Said(messages, roles) ==
    LET said[n \in 0..Len(messages)] ==
            IF n = 0 THEN <<>>
            ELSE IF messages[n].role \in roles THEN Append(said[n - 1], messages[n])
                                               ELSE said[n - 1]
    IN  said[Len(messages)]

Turns(messages)    == Said(messages, Roles \ {"system"})
Systems(messages)  == Said(messages, {"system"})
Contents(messages) == [i \in DOMAIN messages |-> messages[i].content]

Renamed(turns) == [i \in DOMAIN turns |->
    [role |-> IF turns[i].role = "assistant" THEN "model" ELSE turns[i].role,
     text |-> turns[i].content]]

(* Mutant: system messages are skipped, as if the system prompt stood for them. *)
GeminiRequest_SkipsSystem(r) ==
    [model |-> r.model,
     contents |-> Renamed(Turns(r.messages)),
     systemInstruction |-> SystemPrompt(r)]

(* Gemini: system messages join the system prompt, the assistant is called "model", any
   other role goes as it is, and max_tokens and temperature are not sent. *)
GeminiRequest(r) ==
    [model |-> r.model,
     contents |-> Renamed(Turns(r.messages)),
     systemInstruction |-> SystemPrompt(r) \o Contents(Systems(r.messages))]

(* What the provider of r is asked; the mock answers the same to everybody. *)
Upstream(r) == CASE r.provider = "groq"   -> GroqRequest(r)
                 [] r.provider = "gemini" -> GeminiRequest(r)
                 [] r.provider = "mock"   -> [model |-> r.model]

-----------------------------------------------------------------------------

(* Embed of the concatenated contents: who said them, and in which order, is lost. *)
Embed(r) == [w \in Words |->
                FoldSeq(LAMBDA m, n : n + WordsOf[m.content][w], 0, r.messages)]

Dot(u, v) == MapThenSumSet(LAMBDA w : u[w] * v[w], Words)
Wordless(u) == Dot(u, u) = 0

(* The cosine of two vectors is above 0.92; all components are non-negative. *)
Similar(u, v) == Dot(u, v) * Dot(u, v) * 10000 > 8464 * Dot(u, u) * Dot(v, v)

(* 1 - (a <=> b) > 0.92 in Postgres: the cosine with a zero vector is NaN, and NaN is
   greater than every number. *)
Matches(u, v) == Wordless(u) \/ Wordless(v) \/ Similar(u, v)

(* ORDER BY similarity DESC, for rows that match u: NaN comes first. *)
AtLeastAsSimilar(u, v, w) ==
    \/ Wordless(u) \/ Wordless(v)
    \/ /\ ~Wordless(w)
       /\ Dot(u, v) * Dot(u, v) * Dot(w, w) >= Dot(u, w) * Dot(u, w) * Dot(v, v)

(* Mutant: the query does not ask for the provider's rows. *)
Candidates_AnyProvider(r) ==
    {q \in rows : q.model = r.model /\ Matches(Embed(r), Embed(q))}

Candidates(r) ==
    {q \in rows : /\ q.provider = r.provider /\ q.model = r.model
                  /\ Matches(Embed(r), Embed(q))}

(* FindSimilar: one of the most similar rows. *)
FindSimilar(r) ==
    {q \in Candidates(r) :
        \A p \in Candidates(r) : AtLeastAsSimilar(Embed(r), Embed(q), Embed(p))}

(* The request the handler sends when the first provider fails. *)
Fallback(r) ==
    CASE r.provider = "groq"   -> {[r EXCEPT !.provider = "gemini", !.model = "gemini-1.5-flash"]}
      [] r.provider = "gemini" -> {[r EXCEPT !.provider = "groq", !.model = "llama-3.1-8b-instant"]}
      [] r.provider = "mock"   -> {}

-----------------------------------------------------------------------------

Reply(r, how, for) == last' = [asked |-> r, how |-> how, for |-> for]

Init ==
    /\ exact = {}
    /\ rows = {}
    /\ \E r \in Inputs : last = [asked |-> r, how |-> "400", for |-> r]

BadRequest(r) ==
    /\ ~Validate(r)
    /\ Reply(r, "400", r)
    /\ UNCHANGED <<exact, rows>>

(* A stream goes straight to the provider and is not kept. *)
Stream(r) ==
    /\ Validate(r) /\ r.stream
    /\ Reply(r, "stream", r)
    /\ UNCHANGED <<exact, rows>>

SemanticHit(r) ==
    /\ Validate(r) /\ ~r.stream
    /\ \E q \in FindSimilar(r) : Reply(r, "SEMANTIC-HIT", q)
    /\ UNCHANGED <<exact, rows>>

(* Nothing similar was found, or the query failed, which counts as that. *)
Hit(r) ==
    /\ Validate(r) /\ ~r.stream
    /\ \E q \in exact : RequestHash(q) = RequestHash(r) /\ Reply(r, "HIT", q)
    /\ UNCHANGED <<exact, rows>>

(* PublishResult overwrites the entry with the same hash; Store adds a row, or fails. *)
Miss(r) ==
    /\ Validate(r) /\ ~r.stream
    /\ \A q \in exact : RequestHash(q) # RequestHash(r)
    /\ Cardinality(exact) < MaxEntries
    /\ \E q \in {r} \cup Fallback(r) :
          /\ Reply(r, "MISS", q)
          /\ exact' = {p \in exact : RequestHash(p) # RequestHash(q)} \cup {q}
          /\ rows' \in {rows} \cup {all \in {rows \cup {q}} : Cardinality(all) <= MaxRows}

(* The TTL is over, or Redis needs the room. *)
Expire(q) ==
    /\ exact' = exact \ {q}
    /\ UNCHANGED <<rows, last>>

Next == \/ \E q \in exact : Expire(q)
        \/ \E r \in Inputs : \/ BadRequest(r) \/ Stream(r)
                             \/ SemanticHit(r) \/ Hit(r) \/ Miss(r)

Spec == Init /\ [][Next]_vars

-----------------------------------------------------------------------------
TypeOK ==
    /\ \A q \in exact \cup rows :
          q.provider \in Providers /\ q.messages # <<>> /\ q.max_tokens > 0 /\ ~q.stream
    /\ Cardinality(exact) <= MaxEntries /\ Cardinality(rows) <= MaxRows
    /\ last.how \in {"400", "stream", "SEMANTIC-HIT", "HIT", "MISS"}

(* An exact hit is the answer to the very question the provider would be sent now:
   nothing that reaches a provider is missing from the key. *)
HitAnswersTheQuestion ==
    last.how = "HIT" => Upstream(last.for) = Upstream(last.asked)

(* A semantic hit was computed by the provider and with the model the request names, and
   for a text whose cosine is above the threshold, unless one of the two has no word in
   it: a text of punctuation matches whatever there is, and once it is stored it is the
   best match of every text. *)
SemanticHitIsSimilar ==
    last.how = "SEMANTIC-HIT" =>
        /\ last.for.provider = last.asked.provider /\ last.for.model = last.asked.model
        /\ LET u == Embed(last.asked)  v == Embed(last.for)
           IN  Similar(u, v) \/ Wordless(u) \/ Wordless(v)

(* The fallback provider hears the conversation the first one would have heard: the same
   turns in the same order, every system text in the order in which the other got them,
   and the same speakers told apart, but for one who calls himself "model": to Groq he is
   somebody else than the assistant, to Gemini he is not. *)
FallbackKeepsConversation ==
    LET r      == last.asked
        groq   == GroqRequest(r).messages
        gemini == GeminiRequest(r)
        turns  == Turns(groq)
    IN  /\ Contents(Systems(groq)) = gemini.systemInstruction
        /\ Len(turns) = Len(gemini.contents)
        /\ \A i \in DOMAIN turns :
              /\ gemini.contents[i].text = turns[i].content
              /\ turns[i].role = "assistant" => gemini.contents[i].role = "model"
        /\ \A i, j \in DOMAIN turns :
              gemini.contents[i].role = gemini.contents[j].role
                  <=> \/ turns[i].role = turns[j].role
                      \/ {turns[i].role, turns[j].role} = {"assistant", "model"}
=============================================================================
