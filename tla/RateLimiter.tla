---------------------------- MODULE RateLimiter ----------------------------
(* RateLimiter.Allow for one API key: a Redis sorted set of request stamps shared by
   every handler of every process.  A request reads its clock, later its MULTI/EXEC
   pipeline runs in Redis, and if it is rejected a ZREM of its own member follows.

   A member is known by the age of its score; two members with the same score are
   interchangeable.  Ages stop at MaxAge, where every pipeline prunes them. *)
EXTENDS Integers, FiniteSets

CONSTANTS
    Clients,    \* callers that keep sending requests with the key
    Limit,      \* RateLimitRPS of the key
    Window,     \* ticks of the sliding window (1 s in the code)
    KeyTTL,     \* ticks of the EXPIRE (2 s in the code)
    MaxDelay,   \* bound on the time from reading the clock to the EXEC
    MaxFaults   \* bound on the Redis errors of a behaviour

ASSUME ClientAssumption == IsFiniteSet(Clients)
ASSUME LimitAssumption  == Limit \in Nat /\ MaxFaults \in Nat
ASSUME WindowAssumption == /\ Window \in Nat /\ KeyTTL \in Nat /\ MaxDelay \in Nat
                           /\ MaxDelay < Window /\ Window <= KeyTTL

VARIABLES
    pc,         \* "idle", "stamped" or "rejected"
    stamp,      \* age of the clock reading of each client's request
    zset,       \* number of members by age of their score
    keyLeft,    \* ticks until the whole key expires
    admitted,   \* history: requests admitted by age of their admission
    faults      \* Redis errors so far

vars == <<pc, stamp, zset, keyLeft, admitted, faults>>

MaxAge == Window + MaxDelay
Ages   == 0..MaxAge
Gone   == MaxAge + 1    \* the stamp of a rejected request whose member is gone

TypeOK ==
    /\ pc \in [Clients -> {"idle", "stamped", "rejected"}]
    /\ stamp \in [Clients -> 0..Gone]
    /\ zset \in [Ages -> Nat]
    /\ keyLeft \in 0..KeyTTL
    /\ admitted \in [Ages -> Nat]
    /\ faults \in 0..MaxFaults

Init ==
    /\ pc = [c \in Clients |-> "idle"]
    /\ stamp = [c \in Clients |-> 0]
    /\ zset = [a \in Ages |-> 0]
    /\ keyLeft = 0
    /\ admitted = [a \in Ages |-> 0]
    /\ faults = 0

-----------------------------------------------------------------------------

(* The members of the given ages, told apart by a number. *)
Units(count, ages) == UNION {{a} \X (1..count[a]) : a \in ages}
Total(count, ages) == Cardinality(Units(count, ages))

Goto(c, stage) == pc' = [pc EXCEPT ![c] = stage]

(* now := time.Now() *)
ReadClock(c) ==
    /\ pc[c] = "idle"
    /\ Goto(c, "stamped")
    /\ stamp' = [stamp EXCEPT ![c] = 0]
    /\ UNCHANGED <<zset, keyLeft, admitted, faults>>

(* Mutant: the end of the range is left out. *)
Pruned_Exclusive(c) == {a \in Ages : a > stamp[c] + Window}

(* ZREMRANGEBYSCORE up to a window before the request's own clock reading. *)
Pruned(c) == {a \in Ages : a >= stamp[c] + Window}
Counted(c) == Total(zset, Ages \ Pruned(c))

(* Mutant: the key lives twice as long. *)
Pipeline_LongTTL(c) ==
    /\ zset' = [a \in Ages |-> (IF a \in Pruned(c) THEN 0 ELSE zset[a])
                                 + (IF a = stamp[c] THEN 1 ELSE 0)]
    /\ keyLeft' = 2 * KeyTTL
    /\ stamp' = [d \in Clients |-> IF pc[d] = "rejected" /\ stamp[d] \in Pruned(c)
                                   THEN Gone ELSE stamp[d]]

(* The pipeline: prune, count, add, expire.  Rejected members others wait to remove
   may be among the pruned ones. *)
Pipeline(c) ==
    /\ zset' = [a \in Ages |-> (IF a \in Pruned(c) THEN 0 ELSE zset[a])
                                 + (IF a = stamp[c] THEN 1 ELSE 0)]
    /\ keyLeft' = KeyTTL
    /\ stamp' = [d \in Clients |-> IF pc[d] = "rejected" /\ stamp[d] \in Pruned(c)
                                   THEN Gone ELSE stamp[d]]

(* Mutant: the request itself is forgotten in the count. *)
Admit_OffByOne(c) ==
    /\ pc[c] = "stamped"
    /\ Counted(c) <= Limit
    /\ Pipeline(c)
    /\ admitted' = [admitted EXCEPT ![0] = @ + 1]
    /\ Goto(c, "idle")
    /\ UNCHANGED faults

Admit(c) ==
    /\ pc[c] = "stamped"
    /\ Counted(c) < Limit
    /\ Pipeline(c)
    /\ admitted' = [admitted EXCEPT ![0] = @ + 1]
    /\ Goto(c, "idle")
    /\ UNCHANGED faults

Reject(c) ==
    /\ pc[c] = "stamped"
    /\ Counted(c) >= Limit
    /\ Pipeline(c)
    /\ Goto(c, "rejected")
    /\ UNCHANGED <<admitted, faults>>

(* Mutant: a rejected request stays in the set. *)
RemoveRejected_Never(c) ==
    /\ pc[c] = "rejected"
    /\ Goto(c, "idle")
    /\ UNCHANGED <<zset, stamp, keyLeft, admitted, faults>>

(* The ZREM of a rejected request, a command of its own. *)
RemoveRejected(c) ==
    /\ pc[c] = "rejected"
    /\ zset' = IF stamp[c] = Gone THEN zset ELSE [zset EXCEPT ![stamp[c]] = @ - 1]
    /\ Goto(c, "idle")
    /\ UNCHANGED <<stamp, keyLeft, admitted, faults>>

(* A Redis error answers 500; the pipeline may have run all the same. *)
PipelineFails(c) ==
    /\ pc[c] = "stamped"
    /\ faults < MaxFaults
    /\ Pipeline(c) \/ UNCHANGED <<zset, keyLeft, stamp>>
    /\ Goto(c, "idle")
    /\ faults' = faults + 1
    /\ UNCHANGED admitted

(* A ZREM that is not applied leaves the member behind. *)
RemoveFails(c) ==
    /\ pc[c] = "rejected"
    /\ faults < MaxFaults
    /\ Goto(c, "idle")
    /\ faults' = faults + 1
    /\ UNCHANGED <<stamp, zset, keyLeft, admitted>>

Older(count) ==
    [a \in Ages |-> (IF a = 0 THEN 0 ELSE count[a - 1]) + (IF a = MaxAge THEN count[a] ELSE 0)]

KeyExpires == keyLeft <= 1

(* One unit of time.  It waits for a stamped request that is MaxDelay late. *)
Tick ==
    /\ \A c \in Clients : pc[c] = "stamped" => stamp[c] < MaxDelay
    /\ zset' = IF KeyExpires THEN [a \in Ages |-> 0] ELSE Older(zset)
    /\ keyLeft' = IF KeyExpires THEN 0 ELSE keyLeft - 1
    /\ admitted' = [Older(admitted) EXCEPT ![MaxAge] = 0]
    /\ stamp' = [c \in Clients |->
                   CASE pc[c] = "stamped" -> stamp[c] + 1
                     [] pc[c] = "rejected" /\ stamp[c] # Gone ->
                          IF KeyExpires THEN Gone ELSE IF stamp[c] < MaxAge THEN stamp[c] + 1 ELSE MaxAge
                     [] OTHER -> stamp[c]]
    /\ UNCHANGED <<pc, faults>>

Step(c) ==
    \/ ReadClock(c)
    \/ Admit(c) \/ Reject(c) \/ PipelineFails(c)
    \/ RemoveRejected(c) \/ RemoveFails(c)

Next == Tick \/ \E c \in Clients : Step(c)

Spec == Init /\ [][Next]_vars

(* Every client keeps sending, Redis answers and time passes. *)
FairSpec == Spec /\ WF_vars(Tick) /\ \A c \in Clients : WF_vars(Step(c))

-----------------------------------------------------------------------------
(* The limit holds in real time, whatever the order in which delayed stamps reach
   Redis, keys expire and removals fail: no more than Limit requests are admitted
   within the window shortened by the delay of a stamp. *)
RateBound == Total(admitted, 0..(Window - MaxDelay - 1)) <= Limit

(* Nobody is rejected without a reason: Limit places are taken, by requests admitted within
   the window before his clock reading or since, by rejected requests that have yet to
   remove their members, and by members that errors may have left behind. *)
RejectedOnlyWhenFull ==
    [][\A c \in Clients :
          pc[c] = "stamped" /\ pc'[c] = "rejected" =>
              Total(admitted, 0..(stamp[c] + Window - 1))
                + Cardinality({d \in Clients : pc[d] = "rejected"}) + faults >= Limit]_vars

(* With no more clients than the limit the key is never locked out: rejected
   requests, failed removals and expired members cannot keep it full for ever. *)
NeverLockedOut == []<>(admitted[0] > 0)
=============================================================================
