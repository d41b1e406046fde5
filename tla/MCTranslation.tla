--------------------------- MODULE MCTranslation ---------------------------
(* A small instance of Translation: conversations of up to four messages, among them a
   text without a word, two long texts that differ in one word, and speakers that only the
   clients know; requests that differ in one field. *)
EXTENDS Translation

CONSTANTS none, dog, cat, dogs, dogscat, mark

MCWordsOf == [t \in Texts |-> [w \in Words |->
    CASE w = "dog" -> (CASE t = dog -> 1 [] t \in {dogs, dogscat} -> 5 [] OTHER -> 0)
      [] w = "cat" -> IF t \in {cat, dogscat} THEN 1 ELSE 0]]

Say(role, text) == [role |-> role, content |-> text]

Ask(p, s, conversation, tokens, stream) ==
    [provider |-> p, system_prompt |-> s, messages |-> conversation, max_tokens |-> tokens,
     model |-> IF p = "gemini" THEN "gemini-1.5-flash" ELSE "llama-3.1-8b-instant",
     temperature |-> 0, stream |-> stream]

Short(text) == <<Say("user", text)>>
Long        == <<Say("user", dogs), Say("assistant", cat)>>
WithSystem  == <<Say("system", cat), Say("user", dog)>>
WithOthers  == <<Say("assistant", dog), Say("model", dog), Say("tool", cat), Say("user", dog)>>
Usual       == Ask("groq", none, Short(dog), 1, FALSE)

MCInputs ==
    {Ask("groq", none, c, 1, FALSE) : c \in {Short(dog), Short(mark), Short(dogscat), Long}}
    \cup {Ask("groq", cat, c, 1, FALSE) : c \in {Short(dog), WithSystem}}
    \cup {Ask("gemini", none, c, 1, FALSE) : c \in {Short(dog), <<Say("system", cat)>>}}
    \cup {Usual, [Usual EXCEPT !.provider = "mock"], [Usual EXCEPT !.max_tokens = 2],
          [Usual EXCEPT !.temperature = 7], [Usual EXCEPT !.model = "large"],
          [Usual EXCEPT !.messages = WithOthers], [Usual EXCEPT !.stream = TRUE],
          [Usual EXCEPT !.provider = "unknown"], [Usual EXCEPT !.max_tokens = 0],
          [Usual EXCEPT !.messages = <<>>]}
=============================================================================
