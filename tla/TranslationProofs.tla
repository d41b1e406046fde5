------------------------ MODULE TranslationProofs ------------------------
(* Proofs about Translation for any texts, words and requests, conversations of any length,
   and caches of any size. *)
EXTENDS Translation, FiniteSetTheorems, WellFoundedInduction, TLAPS

USE InputAssumption, BoundAssumption, NameAssumption

-----------------------------------------------------------------------------
(* Conversations *)

LEMMA SmallestNumber ==
    ASSUME NEW T, T \subseteq Nat, T # {}
    PROVE  \E n \in T : \A m \in T : n <= m
<1> DEFINE Less == {p \in Nat \X Nat : p[1] < p[2]}
<1>1. IsWellFoundedOn(Less, Nat)
  BY NatLessThanWellFounded DEF OpToRel
<1>2. PICK n \in T : \A m \in T : <<m, n>> \notin Less
  <2> HIDE DEF Less
  <2> QED
    BY <1>1, WFMin
<1>3. ASSUME NEW m \in T PROVE n <= m
  <2>1. <<m, n>> \notin Less
    BY <1>2
  <2> QED
    BY <2>1
<1> QED
  BY <1>3

(* What the loop has kept after its n-th round. *)
Keep(kept, m, roles) == IF m.role \in roles THEN Append(kept, m) ELSE kept

IsLoop(f, messages, roles, last_round) ==
    f = [n \in 0..last_round |->
            IF n = 0 THEN <<>> ELSE IF messages[n].role \in roles THEN Append(f[n - 1], messages[n])
                                                                   ELSE f[n - 1]]

LoopFacts(f, messages, roles, last_round) ==
    /\ f \in [0..last_round -> Seq(Message)]
    /\ f[0] = <<>>
    /\ \A n \in 1..last_round : f[n] = Keep(f[n - 1], messages[n], roles)

LEMMA LoopExists ==
    ASSUME NEW messages \in Seq(Message), NEW roles, NEW k \in 0..Len(messages)
    PROVE  \E f : LoopFacts(f, messages, roles, k)
<1> DEFINE T == {n \in 0..Len(messages) : ~ \E f : LoopFacts(f, messages, roles, n)}
<1>0. Len(messages) \in Nat /\ T \subseteq Nat
  OBVIOUS
<1>1. SUFFICES ASSUME T # {} PROVE FALSE
  OBVIOUS
<1>2. PICK n \in T : \A m \in T : n <= m
  <2> HIDE DEF T
  <2> QED
    BY <1>0, <1>1, SmallestNumber
<1>3. n \in 0..Len(messages) /\ ~ \E f : LoopFacts(f, messages, roles, n)
  OBVIOUS
<1>4. CASE n = 0
  <2> DEFINE f == [i \in 0..0 |-> <<>>]
  <2>1. f \in [0..0 -> Seq(Message)] /\ f[0] = <<>>
    OBVIOUS
  <2>2. LoopFacts(f, messages, roles, 0)
    BY <2>1 DEF LoopFacts
  <2> QED
    BY <1>3, <1>4, <2>2
<1>5. CASE n # 0
  <2>1. n - 1 \in 0..Len(messages) /\ ~(n <= n - 1) /\ n \in 1..Len(messages)
    BY <1>3, <1>5
  <2>2. n - 1 \notin T
    BY <1>2, <2>1
  <2>3. PICK g : LoopFacts(g, messages, roles, n - 1)
    BY <2>1, <2>2
  <2> DEFINE f == [i \in 0..n |-> IF i = n THEN Keep(g[n - 1], messages[n], roles) ELSE g[i]]
  <2>4. messages[n] \in Message /\ g \in [0..(n - 1) -> Seq(Message)] /\ g[n - 1] \in Seq(Message)
    BY <2>1, <2>3 DEF LoopFacts
  <2>5. Keep(g[n - 1], messages[n], roles) \in Seq(Message)
    BY <2>4 DEF Keep
  <2>6. f \in [0..n -> Seq(Message)]
    BY <1>3, <2>4, <2>5
  <2>7. f[0] = <<>>
    BY <1>3, <1>5, <2>3 DEF LoopFacts
  <2>8. \A i \in 1..n : f[i] = Keep(f[i - 1], messages[i], roles)
    <3> SUFFICES ASSUME NEW i \in 1..n PROVE f[i] = Keep(f[i - 1], messages[i], roles)
      OBVIOUS
    <3>1. f[i - 1] = g[i - 1]
      BY <1>3
    <3>2. CASE i = n
      BY <1>3, <3>1, <3>2
    <3>3. CASE i # n
      <4>1. i \in 1..(n - 1) /\ f[i] = g[i]
        BY <1>3, <3>3
      <4> QED
        BY <2>3, <3>1, <4>1 DEF LoopFacts
    <3> QED
      BY <3>2, <3>3
  <2> HIDE DEF f
  <2>9. LoopFacts(f, messages, roles, n)
    BY <2>6, <2>7, <2>8 DEF LoopFacts
  <2> QED
    BY <1>3, <2>9
<1> QED
  BY <1>4, <1>5

LEMMA SaidLoop ==
    ASSUME NEW messages \in Seq(Message), NEW roles
    PROVE  \E f : LoopFacts(f, messages, roles, Len(messages)) /\ Said(messages, roles) = f[Len(messages)]
<1> DEFINE k == Len(messages)
           s == CHOOSE f : IsLoop(f, messages, roles, k)
<1>0. k \in Nat
  OBVIOUS
<1>1. PICK g : LoopFacts(g, messages, roles, k)
  <2>1. k \in 0..Len(messages)
    BY <1>0
  <2> QED
    BY <2>1, LoopExists
<1> HIDE DEF k
<1>2. IsLoop(g, messages, roles, k)
  <2> DEFINE h == [n \in 0..k |->
            IF n = 0 THEN <<>> ELSE IF messages[n].role \in roles THEN Append(g[n - 1], messages[n])
                                                                   ELSE g[n - 1]]
  <2>1. \A n \in 0..k : g[n] = h[n]
    <3> SUFFICES ASSUME NEW n \in 0..k PROVE g[n] = h[n]
      OBVIOUS
    <3>1. CASE n = 0
      BY <1>1, <3>1 DEF LoopFacts
    <3>2. CASE n # 0
      <4>1. n \in 1..k
        BY <1>0, <3>2
      <4> QED
        BY <1>1, <3>2, <4>1 DEF LoopFacts, Keep
    <3> QED
      BY <3>1, <3>2
  <2>2. g = [n \in 0..k |-> g[n]]
    BY <1>1 DEF LoopFacts
  <2> QED
    BY <2>1, <2>2 DEF IsLoop
<1>3. IsLoop(s, messages, roles, k)
  BY <1>2, Zenon DEF s
<1>4. Said(messages, roles) = s[k]
  BY Zenon DEF Said, s, k, IsLoop
<1> HIDE DEF s
<1>5. s = g
  <2>1. /\ s = [n \in 0..k |-> s[n]]
        /\ \A n \in 0..k : s[n] = IF n = 0 THEN <<>> ELSE Keep(s[n - 1], messages[n], roles)
    BY <1>3 DEF IsLoop, Keep
  <2> DEFINE T == {n \in 0..k : s[n] # g[n]}
  <2>2. SUFFICES ASSUME T # {} PROVE FALSE
    BY <1>1, <2>1 DEF LoopFacts
  <2>3. T \subseteq Nat
    BY <1>0
  <2>4. PICK n \in T : \A m \in T : n <= m
    <3> HIDE DEF T
    <3> QED
      BY <2>2, <2>3, SmallestNumber
  <2>5. n \in 0..k /\ s[n] # g[n]
    OBVIOUS
  <2>6. n # 0
    BY <1>0, <1>1, <2>1, <2>5 DEF LoopFacts
  <2>7. n - 1 \in 0..k /\ ~(n <= n - 1) /\ n \in 1..k
    BY <1>0, <2>5, <2>6
  <2>8. s[n - 1] = g[n - 1]
    BY <2>4, <2>7
  <2> QED
    BY <1>1, <2>1, <2>5, <2>6, <2>7, <2>8 DEF LoopFacts
<1> QED
  BY <1>1, <1>4, <1>5 DEF k

LEMMA SaidTypes ==
    ASSUME NEW messages \in Seq(Message), NEW roles
    PROVE  Said(messages, roles) \in Seq(Message)
<1>1. PICK f : LoopFacts(f, messages, roles, Len(messages)) /\ Said(messages, roles) = f[Len(messages)]
  BY SaidLoop
<1>2. Len(messages) \in 0..Len(messages)
  OBVIOUS
<1> QED
  BY <1>1, <1>2 DEF LoopFacts

LEMMA AppendLast ==
    \A s, t \in Seq(Message) : \A e \in Message : s \o Append(t, e) = Append(s \o t, e)
<1> TAKE s, t \in Seq(Message)
<1> TAKE e \in Message
<1>1. /\ s \o Append(t, e) \in Seq(Message) /\ Append(s \o t, e) \in Seq(Message)
      /\ Len(s \o Append(t, e)) = Len(Append(s \o t, e))
  OBVIOUS
<1>2. \A i \in 1..(Len(s) + Len(t) + 1) : (s \o Append(t, e))[i] = Append(s \o t, e)[i]
  OBVIOUS
<1>3. Len(s \o Append(t, e)) = Len(s) + Len(t) + 1
  OBVIOUS
<1> QED
  BY <1>1, <1>2, <1>3

(* A message said first is the first that is kept. *)
LEMMA SaidFirst ==
    ASSUME NEW messages \in Seq(Message), NEW first \in Message, NEW roles
    PROVE  Said(<<first>> \o messages, roles)
             = (IF first.role \in roles THEN <<first>> ELSE <<>>) \o Said(messages, roles)
<1> DEFINE all  == <<first>> \o messages
           head == IF first.role \in roles THEN <<first>> ELSE <<>>
           k    == Len(messages)
<1>1. /\ all \in Seq(Message) /\ Len(all) = k + 1 /\ k \in Nat
      /\ all[1] = first /\ \A n \in 1..k : all[n + 1] = messages[n]
  OBVIOUS
<1>2. head \in Seq(Message)
  OBVIOUS
<1>3. PICK f : LoopFacts(f, messages, roles, k) /\ Said(messages, roles) = f[k]
  BY SaidLoop
<1> HIDE DEF all
<1>4. PICK g : LoopFacts(g, all, roles, k + 1) /\ Said(all, roles) = g[k + 1]
  BY <1>1, SaidLoop
<1> HIDE DEF head, k
<1> DEFINE T == {n \in 0..k : g[n + 1] # head \o f[n]}
<1>5. T = {}
  <2> SUFFICES ASSUME T # {} PROVE FALSE
    OBVIOUS
  <2>1. T \subseteq Nat
    BY <1>1
  <2>2. PICK n \in T : \A m \in T : n <= m
    <3> HIDE DEF T
    <3> QED
      BY <2>1, SmallestNumber
  <2>3. n \in 0..k /\ g[n + 1] # head \o f[n]
    OBVIOUS
  <2>4. CASE n = 0
    <3>1. g[0] = <<>> /\ f[0] = <<>> /\ g[1] = Keep(g[0], all[1], roles)
      BY <1>1, <1>3, <1>4 DEF LoopFacts
    <3>2. g[1] = head
      BY <1>1, <3>1 DEF Keep, head
    <3>3. head \o <<>> = head
      BY <1>2
    <3> QED
      BY <2>3, <2>4, <3>1, <3>2, <3>3
  <2>5. CASE n # 0
    <3>1. n - 1 \in 0..k /\ ~(n <= n - 1) /\ n \in 1..k /\ n + 1 \in 1..(k + 1) /\ (n - 1) + 1 = n
          /\ (n + 1) - 1 = n
      BY <1>1, <2>3, <2>5
    <3>2. g[n] = head \o f[n - 1]
      BY <2>2, <3>1
    <3>3. f[n] = Keep(f[n - 1], messages[n], roles) /\ f[n - 1] \in Seq(Message)
      BY <1>3, <3>1 DEF LoopFacts
    <3>4. g[n + 1] = Keep(g[n], messages[n], roles)
      BY <1>1, <1>4, <3>1 DEF LoopFacts
    <3>5. messages[n] \in Message
      BY <3>1 DEF k
    <3>6. head \o Append(f[n - 1], messages[n]) = Append(head \o f[n - 1], messages[n])
      BY <1>2, <3>3, <3>5, AppendLast
    <3> QED
      BY <2>3, <3>2, <3>3, <3>4, <3>6 DEF Keep
  <2> QED
    BY <2>4, <2>5
<1>6. g[k + 1] = head \o f[k]
  <2>1. k \in 0..k
    BY <1>1
  <2>2. k \notin T
    BY <1>5, Zenon
  <2> QED
    BY <2>1, <2>2
<1> QED
  BY <1>3, <1>4, <1>6 DEF all, head

LEMMA ContentsTypes ==
    \A s \in Seq(Message) :
        /\ Contents(s) \in Seq(Texts) /\ Len(Contents(s)) = Len(s) /\ Len(s) \in Nat
        /\ DOMAIN s = 1..Len(s) /\ DOMAIN Contents(s) = 1..Len(s)
        /\ \A i \in 1..Len(s) : Contents(s)[i] = s[i].content /\ s[i] \in Message
<1> TAKE s \in Seq(Message)
<1>1. Len(s) \in Nat /\ DOMAIN s = 1..Len(s) /\ \A i \in 1..Len(s) : s[i] \in Message
  OBVIOUS
<1>2. \A i \in 1..Len(s) : s[i].content \in Texts
  BY <1>1 DEF Message
<1>3. Contents(s) = [i \in 1..Len(s) |-> s[i].content]
  BY <1>1 DEF Contents
<1> QED
  BY <1>1, <1>2, <1>3

LEMMA ContentsFirst ==
    ASSUME NEW first \in Message, NEW s \in Seq(Message)
    PROVE  Contents(<<first>> \o s) = <<first.content>> \o Contents(s)
<1> DEFINE all == <<first>> \o s
<1>1. /\ all \in Seq(Message) /\ Len(all) = Len(s) + 1 /\ Len(s) \in Nat
      /\ all[1] = first /\ \A i \in 2..Len(all) : all[i] = s[i - 1]
  OBVIOUS
<1> HIDE DEF all
<1>2. first.content \in Texts
  BY DEF Message
<1>3. /\ Contents(s) \in Seq(Texts) /\ Len(Contents(s)) = Len(s)
      /\ \A i \in 1..Len(s) : Contents(s)[i] = s[i].content
  BY ContentsTypes
<1>4. /\ Contents(all) \in Seq(Texts) /\ Len(Contents(all)) = Len(s) + 1
      /\ \A i \in 1..Len(all) : Contents(all)[i] = all[i].content
  BY <1>1, ContentsTypes
<1> DEFINE rest == Contents(s)
           right == <<first.content>> \o rest
<1>5. /\ right \in Seq(Texts) /\ Len(right) = Len(s) + 1 /\ right[1] = first.content
      /\ \A i \in 2..(Len(s) + 1) : right[i] = Contents(s)[i - 1]
  <2>1. rest \in Seq(Texts) /\ Len(rest) = Len(s)
    BY <1>3
  <2> HIDE DEF rest
  <2>2. /\ right \in Seq(Texts) /\ Len(right) = Len(s) + 1 /\ right[1] = first.content
        /\ \A i \in 2..(Len(s) + 1) : right[i] = rest[i - 1]
    BY <1>1, <1>2, <2>1
  <2> QED
    BY <2>2 DEF rest
<1> HIDE DEF right, rest
<1>6. \A i \in 1..(Len(s) + 1) : Contents(all)[i] = right[i]
  <2> SUFFICES ASSUME NEW i \in 1..(Len(s) + 1) PROVE Contents(all)[i] = right[i]
    OBVIOUS
  <2>1. CASE i = 1
    BY <1>1, <1>4, <1>5, <2>1
  <2>2. CASE i # 1
    <3>1. i \in 2..Len(all) /\ i \in 1..Len(all) /\ i - 1 \in 1..Len(s)
      BY <1>1, <2>2
    <3> QED
      BY <1>1, <1>3, <1>4, <1>5, <3>1
  <2> QED
    BY <2>1, <2>2
<1>7. Contents(all) = right
  BY <1>1, <1>4, <1>5, <1>6
<1> QED
  BY <1>7 DEF all, right, rest

(* What Groq is sent, read with the roles of Gemini, is what Gemini is sent. *)
LEMMA SameConversation ==
    ASSUME NEW r \in Request
    PROVE  /\ Turns(GroqRequest(r).messages) = Turns(r.messages)
           /\ Contents(Systems(GroqRequest(r).messages)) = GeminiRequest(r).systemInstruction
<1> DEFINE prompt == [role |-> "system", content |-> r.system_prompt]
<1>1. r.messages \in Seq(Message) /\ r.system_prompt \in Texts \cup {NoText}
  BY DEF Request
<1>2. GeminiRequest(r).systemInstruction = SystemPrompt(r) \o Contents(Systems(r.messages))
  BY DEF GeminiRequest
<1>3. /\ Systems(r.messages) \in Seq(Message)
      /\ Contents(Systems(r.messages)) \in Seq(Texts)
      /\ Turns(r.messages) \in Seq(Message)
  BY <1>1, SaidTypes, ContentsTypes DEF Systems, Turns
<1>4. GroqRequest(r).messages
        = [i \in DOMAIN SystemPrompt(r) |->
             [role |-> "system", content |-> r.system_prompt]] \o r.messages
  BY DEF GroqRequest
<1>5. CASE r.system_prompt = NoText
  <2>1. SystemPrompt(r) = <<>>
    BY <1>5 DEF SystemPrompt
  <2>2. [i \in DOMAIN SystemPrompt(r) |-> [role |-> "system", content |-> r.system_prompt]] = <<>>
    BY <2>1
  <2>3. GroqRequest(r).messages = r.messages
    BY <1>1, <1>4, <2>2
  <2>4. <<>> \o Contents(Systems(r.messages)) = Contents(Systems(r.messages))
    BY <1>3
  <2> QED
    BY <1>2, <2>1, <2>3, <2>4
<1>6. CASE r.system_prompt # NoText
  <2>1. SystemPrompt(r) = <<r.system_prompt>> /\ prompt \in Message
    BY <1>1, <1>6 DEF SystemPrompt, Message
  <2>2. [i \in DOMAIN SystemPrompt(r) |-> [role |-> "system", content |-> r.system_prompt]] = <<prompt>>
    BY <2>1
  <2>3. GroqRequest(r).messages = <<prompt>> \o r.messages
    BY <1>4, <2>2
  <2>4. prompt.role = "system" /\ prompt.content = r.system_prompt
    OBVIOUS
  <2> HIDE DEF prompt
  <2>5. Systems(GroqRequest(r).messages) = <<prompt>> \o Systems(r.messages)
    BY <1>1, <2>1, <2>3, <2>4, SaidFirst DEF Systems
  <2>6. Turns(GroqRequest(r).messages) = Turns(r.messages)
    <3>1. Turns(GroqRequest(r).messages) = <<>> \o Turns(r.messages)
      <4>1. prompt.role \notin Roles \ {"system"}
        BY <2>4
      <4>2. Said(<<prompt>> \o r.messages, Roles \ {"system"})
              = (IF prompt.role \in Roles \ {"system"} THEN <<prompt>> ELSE <<>>)
                  \o Said(r.messages, Roles \ {"system"})
        BY <1>1, <2>1, SaidFirst
      <4> QED
        BY <2>3, <4>1, <4>2 DEF Turns
    <3> QED
      BY <1>3, <3>1
  <2>7. Contents(Systems(GroqRequest(r).messages))
          = <<r.system_prompt>> \o Contents(Systems(r.messages))
    BY <1>3, <2>1, <2>4, <2>5, ContentsFirst
  <2> QED
    BY <1>2, <2>1, <2>6, <2>7
<1> QED
  BY <1>5, <1>6

LEMMA ConversationKept ==
    ASSUME last.asked \in Request
    PROVE  FallbackKeepsConversation
<1> DEFINE r      == last.asked
           groq   == GroqRequest(r).messages
           gemini == GeminiRequest(r)
           turns  == Turns(groq)
<1>1. r \in Request
  OBVIOUS
<1>2. turns = Turns(r.messages) /\ Contents(Systems(groq)) = gemini.systemInstruction
  <2> HIDE DEF r
  <2> QED
    BY <1>1, SameConversation
<1>3. turns \in Seq(Message)
  <2>1. r.messages \in Seq(Message)
    BY DEF Request
  <2> QED
    BY <1>2, <2>1, SaidTypes DEF Turns
<1>4. gemini.contents = Renamed(turns)
  BY <1>2 DEF GeminiRequest
<1> HIDE DEF turns
<1>5. Renamed(turns) = [i \in 1..Len(turns) |->
                      [role |-> IF turns[i].role = "assistant" THEN "model" ELSE turns[i].role,
                       text |-> turns[i].content]]
  BY <1>3 DEF Renamed
<1>6. /\ Len(turns) \in Nat /\ DOMAIN turns = 1..Len(turns)
      /\ Len(Renamed(turns)) = Len(turns)
  BY <1>3, <1>5
<1>7. \A i \in DOMAIN turns :
          /\ Renamed(turns)[i].text = turns[i].content
          /\ Renamed(turns)[i].role = IF turns[i].role = "assistant" THEN "model"
                                                                     ELSE turns[i].role
  BY <1>5, <1>6
<1>8. ASSUME NEW i \in DOMAIN turns, NEW j \in DOMAIN turns
      PROVE  Renamed(turns)[i].role = Renamed(turns)[j].role
                 <=> \/ turns[i].role = turns[j].role
                     \/ {turns[i].role, turns[j].role} = {"assistant", "model"}
  <2> DEFINE a == turns[i].role
             b == turns[j].role
  <2>1. (IF a = "assistant" THEN "model" ELSE a) = (IF b = "assistant" THEN "model" ELSE b)
            <=> a = b \/ {a, b} = {"assistant", "model"}
    <3> HIDE DEF a, b
    <3>1. {a, b} = {"assistant", "model"}
              <=> \/ a = "assistant" /\ b = "model"
                  \/ a = "model" /\ b = "assistant"
      OBVIOUS
    <3> QED
      BY <3>1
  <2> QED
    BY <1>7, <2>1
<1>9. /\ Len(turns) = Len(gemini.contents)
      /\ \A i \in DOMAIN turns :
            /\ gemini.contents[i].text = turns[i].content
            /\ turns[i].role = "assistant" => gemini.contents[i].role = "model"
      /\ \A i, j \in DOMAIN turns :
            gemini.contents[i].role = gemini.contents[j].role
                <=> \/ turns[i].role = turns[j].role
                    \/ {turns[i].role, turns[j].role} = {"assistant", "model"}
  <2> HIDE DEF gemini
  <2>1. Len(turns) = Len(gemini.contents)
    BY <1>4, <1>6
  <2>2. ASSUME NEW i \in DOMAIN turns
        PROVE  /\ gemini.contents[i].text = turns[i].content
               /\ turns[i].role = "assistant" => gemini.contents[i].role = "model"
    BY <1>4, <1>7
  <2>3. ASSUME NEW i \in DOMAIN turns, NEW j \in DOMAIN turns
        PROVE  gemini.contents[i].role = gemini.contents[j].role
                   <=> \/ turns[i].role = turns[j].role
                       \/ {turns[i].role, turns[j].role} = {"assistant", "model"}
    <3>1. /\ gemini.contents[i] = Renamed(turns)[i]
          /\ gemini.contents[j] = Renamed(turns)[j]
      BY <1>4, Zenon
    <3> DEFINE same == \/ turns[i].role = turns[j].role
                       \/ {turns[i].role, turns[j].role} = {"assistant", "model"}
    <3>2. Renamed(turns)[i].role = Renamed(turns)[j].role <=> same
      BY <1>8, Zenon
    <3> HIDE DEF same
    <3>3. gemini.contents[i].role = gemini.contents[j].role <=> same
      BY <3>1, <3>2
    <3> QED
      BY <3>3 DEF same
  <2> QED
    BY <2>1, <2>2, <2>3, Zenon
<1> QED
  BY <1>2, <1>9, Zenon DEF FallbackKeepsConversation, turns

-----------------------------------------------------------------------------
(* The caches *)

Sent == {r \in Request : Validate(r) /\ ~r.stream}

SameKey == last.how = "HIT" => RequestHash(last.for) = RequestHash(last.asked)

TranslationInv ==
    /\ exact \subseteq Sent /\ rows \subseteq Sent /\ IsFiniteSet(exact)
    /\ last.asked \in Request
    /\ TypeOK /\ SameKey /\ SemanticHitIsSimilar

LEMMA FallbackTypes ==
    ASSUME NEW r \in Request, Validate(r), ~r.stream
    PROVE  {r} \cup Fallback(r) \subseteq Sent
<1>1. r \in Sent
  BY DEF Sent
<1>2. \A p \in Providers, m \in Models : [r EXCEPT !.provider = p, !.model = m] \in Sent
  BY <1>1 DEF Sent, Validate, Request
<1>3. Fallback(r) \subseteq Sent
  BY <1>2 DEF Fallback, Validate, Providers
<1> QED
  BY <1>1, <1>3

(* Requests with the same key are the same to every provider. *)
LEMMA SameKeySameQuestion ==
    ASSUME NEW q, NEW r, RequestHash(q) = RequestHash(r)
    PROVE  Upstream(q) = Upstream(r)
<1>1. /\ q.provider = r.provider /\ q.model = r.model /\ q.system_prompt = r.system_prompt
      /\ q.messages = r.messages /\ q.max_tokens = r.max_tokens
      /\ q.temperature = r.temperature
  BY DEF RequestHash
<1>2. SystemPrompt(q) = SystemPrompt(r)
  BY <1>1, Zenon DEF SystemPrompt
<1>3. GroqRequest(q) = GroqRequest(r)
  BY <1>1, <1>2, Zenon DEF GroqRequest
<1>4. GeminiRequest(q) = GeminiRequest(r)
  BY <1>1, <1>2, Zenon DEF GeminiRequest
<1> QED
  BY <1>1, <1>3, <1>4, Zenon DEF Upstream

LEMMA InitTranslation == Init => TranslationInv
<1> SUFFICES ASSUME Init PROVE TranslationInv
  OBVIOUS
<1>1. exact = {} /\ rows = {} /\ last.asked \in Request /\ last.how = "400"
  BY DEF Init
<1>2. Cardinality({}) = 0 /\ IsFiniteSet({})
  BY FS_EmptySet
<1>3. TypeOK
  BY <1>1, <1>2 DEF TypeOK
<1> QED
  BY <1>1, <1>2, <1>3 DEF TranslationInv, SameKey, SemanticHitIsSimilar

LEMMA MissStep ==
    ASSUME TranslationInv, NEW r \in Inputs, Miss(r)
    PROVE  TranslationInv'
<1>1. PICK q \in {r} \cup Fallback(r) :
          /\ Reply(r, "MISS", q)
          /\ exact' = {p \in exact : RequestHash(p) # RequestHash(q)} \cup {q}
          /\ rows' \in {rows} \cup {all \in {rows \cup {q}} : Cardinality(all) <= MaxRows}
  BY DEF Miss
<1>2. q \in Sent /\ r \in Request
  BY FallbackTypes DEF Miss
<1>3. last'.asked = r /\ last'.how = "MISS"
  BY <1>1 DEF Reply
<1>4. exact' \subseteq Sent /\ rows' \subseteq Sent
  BY <1>1, <1>2 DEF TranslationInv
<1> DEFINE kept == {p \in exact : RequestHash(p) # RequestHash(q)}
<1>5. kept \subseteq exact /\ IsFiniteSet(exact) /\ exact' = kept \cup {q}
  BY <1>1 DEF TranslationInv
<1> HIDE DEF kept
<1>6. /\ IsFiniteSet(kept) /\ Cardinality(kept) <= Cardinality(exact)
      /\ Cardinality(kept) \in Nat /\ Cardinality(exact) \in Nat
  BY <1>5, FS_Subset, FS_CardinalityType
<1>7. IsFiniteSet(exact') /\ Cardinality(exact') <= Cardinality(kept) + 1
  <2>1. /\ IsFiniteSet(kept \cup {q})
        /\ Cardinality(kept \cup {q}) = IF q \in kept THEN Cardinality(kept)
                                                     ELSE Cardinality(kept) + 1
    BY <1>6, FS_AddElement
  <2> QED
    BY <1>5, <1>6, <2>1
<1>8. Cardinality(exact') <= MaxEntries
  <2>1. Cardinality(exact') \in Nat /\ Cardinality(exact) < MaxEntries
    BY <1>7, FS_CardinalityType DEF Miss
  <2> QED
    BY <1>6, <1>7, <2>1
<1>9. Cardinality(rows') <= MaxRows
  BY <1>1 DEF TranslationInv, TypeOK
<1>10. TypeOK'
  BY <1>3, <1>4, <1>8, <1>9 DEF TypeOK, Sent, Validate
<1> QED
  BY <1>2, <1>3, <1>4, <1>7, <1>10 DEF TranslationInv, SameKey, SemanticHitIsSimilar

LEMMA HitStep ==
    ASSUME TranslationInv, NEW r \in Inputs, Hit(r)
    PROVE  TranslationInv'
<1>1. PICK q \in exact : RequestHash(q) = RequestHash(r) /\ Reply(r, "HIT", q)
  BY DEF Hit
<1>2. /\ last'.asked = r /\ last'.how = "HIT" /\ last'.for = q /\ r \in Request
      /\ exact' = exact /\ rows' = rows
  BY <1>1 DEF Reply, Hit
<1>3. SameKey'
  BY <1>1, <1>2, Zenon DEF SameKey, RequestHash
<1>4. TypeOK' /\ SemanticHitIsSimilar'
  BY <1>2 DEF TranslationInv, TypeOK, SemanticHitIsSimilar
<1> QED
  BY <1>2, <1>3, <1>4 DEF TranslationInv

LEMMA SemanticHitStep ==
    ASSUME TranslationInv, NEW r \in Inputs, SemanticHit(r)
    PROVE  TranslationInv'
<1>1. PICK q \in FindSimilar(r) : Reply(r, "SEMANTIC-HIT", q)
  BY DEF SemanticHit
<1>2. /\ last'.asked = r /\ last'.how = "SEMANTIC-HIT" /\ last'.for = q /\ r \in Request
      /\ exact' = exact /\ rows' = rows
  BY <1>1 DEF Reply, SemanticHit
<1>3. q.provider = r.provider /\ q.model = r.model /\ Matches(Embed(r), Embed(q))
  BY DEF FindSimilar, Candidates
<1>4. Similar(Embed(r), Embed(q)) \/ Wordless(Embed(r)) \/ Wordless(Embed(q))
  BY <1>3 DEF Matches
<1>5. SemanticHitIsSimilar'
  BY <1>2, <1>3, <1>4 DEF SemanticHitIsSimilar
<1>6. TypeOK' /\ SameKey'
  BY <1>2 DEF TranslationInv, TypeOK, SameKey
<1> QED
  BY <1>2, <1>5, <1>6 DEF TranslationInv

LEMMA OtherStep ==
    ASSUME TranslationInv,
           \/ \E q \in exact : Expire(q)
           \/ \E r \in Inputs : BadRequest(r) \/ Stream(r)
           \/ UNCHANGED vars
    PROVE  TranslationInv'
<1>1. CASE \E r \in Inputs : BadRequest(r) \/ Stream(r)
  <2>1. PICK r \in Inputs : BadRequest(r) \/ Stream(r)
    BY <1>1
  <2>2. /\ last'.asked = r /\ last'.how \in {"400", "stream"} /\ r \in Request
        /\ exact' = exact /\ rows' = rows
    BY <2>1 DEF BadRequest, Stream, Reply
  <2>3. TypeOK' /\ SameKey' /\ SemanticHitIsSimilar'
    BY <2>2 DEF TranslationInv, TypeOK, SameKey, SemanticHitIsSimilar
  <2> QED
    BY <2>2, <2>3 DEF TranslationInv
<1>2. CASE \E q \in exact : Expire(q)
  <2>1. PICK q \in exact : Expire(q)
    BY <1>2
  <2>2. exact' = exact \ {q} /\ rows' = rows /\ last' = last
    BY <2>1 DEF Expire
  <2>3. /\ IsFiniteSet(exact') /\ Cardinality(exact') \in Nat /\ Cardinality(exact) \in Nat
        /\ Cardinality(exact') <= Cardinality(exact)
    <3>1. IsFiniteSet(exact) /\ exact' \subseteq exact
      BY <2>2 DEF TranslationInv
    <3> QED
      BY <3>1, FS_Subset, FS_CardinalityType
  <2>4. TypeOK'
    BY <2>2, <2>3 DEF TranslationInv, TypeOK
  <2>5. SameKey' /\ SemanticHitIsSimilar'
    BY <2>2 DEF TranslationInv, SameKey, SemanticHitIsSimilar
  <2> QED
    BY <2>2, <2>3, <2>4, <2>5 DEF TranslationInv
<1>3. CASE UNCHANGED vars
  BY <1>3 DEF vars, TranslationInv, TypeOK, SameKey, SemanticHitIsSimilar
<1> QED
  BY <1>1, <1>2, <1>3

LEMMA TranslationInductive == Spec => []TranslationInv
<1>1. TranslationInv /\ [Next]_vars => TranslationInv'
  BY MissStep, HitStep, SemanticHitStep, OtherStep DEF Next
<1> QED
  BY InitTranslation, <1>1, PTL DEF Spec

(* Nothing unvalidated and nothing streamed is ever kept, and the caches stay within their
   bounds. *)
THEOREM TypeCorrect == Spec => []TypeOK
<1>1. TranslationInv => TypeOK
  BY DEF TranslationInv
<1> QED
  BY <1>1, TranslationInductive, PTL

(* Whatever is in the cache, a hit answers what the provider would be asked now: every
   field that GroqRequest or GeminiRequest reads is a field of the key. *)
THEOREM HitsAnswerTheQuestion == Spec => []HitAnswersTheQuestion
<1>1. TranslationInv => HitAnswersTheQuestion
  BY SameKeySameQuestion DEF TranslationInv, SameKey, HitAnswersTheQuestion
<1> QED
  BY <1>1, TranslationInductive, PTL

(* Whatever was stored and dropped, a semantic hit comes from the provider and model of the
   request, and from above the threshold unless a text has no word. *)
THEOREM SemanticHitsAreSimilar == Spec => []SemanticHitIsSimilar
<1>1. TranslationInv => SemanticHitIsSimilar
  BY DEF TranslationInv
<1> QED
  BY <1>1, TranslationInductive, PTL

(* For conversations of any length, between whomever: the two providers are sent the same
   turns in the same order and the same system texts in the same order, and both tell the
   same speakers apart, unless one calls himself "model". *)
THEOREM FallbacksKeepConversation == Spec => []FallbackKeepsConversation
<1>1. TranslationInv => FallbackKeepsConversation
  BY ConversationKept DEF TranslationInv
<1> QED
  BY <1>1, TranslationInductive, PTL
=============================================================================
