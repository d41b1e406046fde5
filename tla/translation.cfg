\* Seventeen requests, up to two answers in the semantic cache.
CONSTANTS
    none = none
    dog = dog
    cat = cat
    dogs = dogs
    dogscat = dogscat
    mark = mark
    Texts = {dog, cat, dogs, dogscat, mark}
    Words = {"dog", "cat"}
    WordsOf <- MCWordsOf
    NoText = none
    Roles = {"system", "user", "assistant", "model", "tool"}
    Models = {"llama-3.1-8b-instant", "gemini-1.5-flash", "large"}
    Inputs <- MCInputs
    MaxEntries = 1
    MaxRows = 2

SPECIFICATION Spec
INVARIANTS TypeOK HitAnswersTheQuestion SemanticHitIsSimilar FallbackKeepsConversation
