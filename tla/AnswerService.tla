---------------------------- MODULE AnswerService ----------------------------
(* What the non-streaming gateway promises, with no cache, lock or message in
   sight: providers compute responses, and each request is answered at most once
   with a response that exists and fits it. *)
EXTENDS FiniteSets

CONSTANTS Requests, Keys, Key, FallbackKey, Similar, NoKey

VARIABLES
    computed,   \* the requests (hashes) some provider has answered so far
    answer      \* what each client got

vars == <<computed, answer>>

Pending(r) == answer[r].kind = "none"

(* The responses that fit a request, by how they are served. *)
Fits(r, kind, value) ==
    \/ kind = "MISS" /\ value \in {Key[r], FallbackKey[Key[r]]}
    \/ kind = "HIT" /\ value = Key[r]
    \/ kind = "SEMANTIC-HIT" /\ value \in Similar[Key[r]]

Init ==
    /\ computed = {}
    /\ answer = [r \in Requests |-> [kind |-> "none", value |-> NoKey]]

(* A provider computes a response on behalf of somebody who waits for it. *)
Compute(r) ==
    /\ Pending(r)
    /\ \E v \in {Key[r], FallbackKey[Key[r]]} \ {NoKey} : computed' = computed \cup {v}
    /\ UNCHANGED answer

Serve(r) ==
    /\ Pending(r)
    /\ \E kind \in {"MISS", "HIT", "SEMANTIC-HIT"}, v \in computed :
           /\ Fits(r, kind, v)
           /\ answer' = [answer EXCEPT ![r] = [kind |-> kind, value |-> v]]
    /\ UNCHANGED computed

Refuse(r) ==
    /\ Pending(r)
    /\ answer' = [answer EXCEPT ![r] = [kind |-> "503", value |-> NoKey]]
    /\ UNCHANGED computed

(* A process dies with the requests it was handling. *)
Lose ==
    /\ \E lost \in SUBSET {r \in Requests : Pending(r)} :
           answer' = [r \in Requests |-> IF r \in lost THEN [kind |-> "lost", value |-> NoKey]
                                                       ELSE answer[r]]
    /\ UNCHANGED computed

Next == Lose \/ \E r \in Requests : Compute(r) \/ Serve(r) \/ Refuse(r)

Spec == Init /\ [][Next]_vars
=============================================================================
