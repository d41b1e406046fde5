----------------------------- MODULE MCStampede -----------------------------
(* Small instances of Stampede.  Requests ask for k1, whose primary provider falls
   back to k2, unless said otherwise; k2 has no fallback.  No two texts are similar. *)
EXTENDS StampedeProps

CONSTANTS r1, r2, r3, k1, k2, h1, h2

MCKey         == [r \in Requests |-> k1]
(* r3 asks for k2 itself, on the other process. *)
MCMixedKey    == [r \in Requests |-> IF r = r3 THEN k2 ELSE k1]
MCHost        == [r \in Requests |-> IF r = r1 THEN h1 ELSE h2]
MCFallbackKey == [k \in Keys |-> IF k = k1 THEN k2 ELSE NoKey]
MCNoFallback  == [k \in Keys |-> NoKey]
MCSimilar     == [k \in Keys |-> IF k = k1 THEN {k1} ELSE {k2}]
=============================================================================
