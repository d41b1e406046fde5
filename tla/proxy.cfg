\* Two clients, all three providers, a threshold of two, a timeout of one.
CONSTANTS
    c1 = c1
    c2 = c2
    Clients = {c1, c2}
    Configured = {"groq", "gemini", "mock"}
    Threshold = 2
    Timeout = 1

SPECIFICATION FairSpec
INVARIANTS TypeOK RefusedOnlyOnFailure OneVoice
PROPERTIES ServesAgain
