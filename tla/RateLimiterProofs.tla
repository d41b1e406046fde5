------------------------ MODULE RateLimiterProofs ------------------------
(* Proofs about RateLimiter for any finite set of clients, any limit and window, and any
   number of errors. *)
EXTENDS RateLimiter, FiniteSetTheorems, TLAPS

USE ClientAssumption, LimitAssumption, WindowAssumption

(* The rejected requests whose member of age a is still to be removed. *)
Rejected(a) == {c \in Clients : pc[c] = "rejected" /\ stamp[c] = a}

(* A clock reading is at most MaxDelay old when the pipeline runs, and the member a rejected
   request is going to remove is there: each has one of its own. *)
StampFacts  == \A c \in Clients : pc[c] = "stamped" => stamp[c] <= MaxDelay
MemberFacts == \A a \in Ages : Cardinality(Rejected(a)) <= zset[a]

LimiterInv == TypeOK /\ StampFacts /\ MemberFacts

LEMMA AgeTypes == /\ MaxAge \in Nat /\ Gone \in Nat /\ 0 \in Ages /\ MaxAge \in Ages
                  /\ \A a \in Ages : a \in 0..Gone /\ a # Gone /\ a \in Nat
                  /\ \A a \in 0..MaxDelay : a \in Ages /\ a # MaxAge /\ ~(a >= a + Window)
                  /\ MaxAge # 0
  BY DEF MaxAge, Gone, Ages

LEMMA Members ==
    \A a : /\ IsFiniteSet(Rejected(a))
           /\ Cardinality(Rejected(a)) \in Nat
<1> TAKE a
<1>1. Rejected(a) \subseteq Clients
  BY DEF Rejected
<1>2. IsFiniteSet(Rejected(a))
  BY <1>1, FS_Subset
<1> QED
  BY <1>2, FS_CardinalityType

(* A step that takes nothing out of the set and adds no rejected request keeps the
   members. *)
LEMMA FewerRejected ==
    ASSUME LimiterInv, NEW a \in Ages, NEW S, S \subseteq Rejected(a)
    PROVE  IsFiniteSet(S) /\ Cardinality(S) \in Nat /\ Cardinality(S) <= zset[a]
<1>1. IsFiniteSet(S) /\ Cardinality(S) <= Cardinality(Rejected(a))
  BY Members, FS_Subset
<1>2. Cardinality(S) \in Nat /\ Cardinality(Rejected(a)) \in Nat /\ zset[a] \in Nat
  BY <1>1, Members, FS_CardinalityType DEF LimiterInv, TypeOK
<1>3. Cardinality(Rejected(a)) <= zset[a]
  BY DEF LimiterInv, MemberFacts
<1> QED
  BY <1>1, <1>2, <1>3

-----------------------------------------------------------------------------
(* The pipeline *)

LEMMA PipelineTypes ==
    ASSUME LimiterInv, NEW c \in Clients, pc[c] = "stamped", Pipeline(c)
    PROVE  /\ zset' \in [Ages -> Nat] /\ keyLeft' \in 0..KeyTTL
           /\ stamp' \in [Clients -> 0..Gone]
           /\ stamp[c] \in Ages /\ stamp[c] \notin Pruned(c) /\ stamp'[c] = stamp[c]
           /\ \A d \in Clients : pc[d] # "rejected" => stamp'[d] = stamp[d]
<1>1. zset \in [Ages -> Nat] /\ stamp \in [Clients -> 0..Gone] /\ stamp[c] \in 0..MaxDelay
  BY DEF LimiterInv, TypeOK, StampFacts
<1>2. stamp[c] \in Ages /\ stamp[c] \notin Pruned(c)
  BY <1>1, AgeTypes DEF Pruned
<1>3. zset' \in [Ages -> Nat]
  BY <1>1 DEF Pipeline
<1>4. stamp' \in [Clients -> 0..Gone]
  BY <1>1, AgeTypes DEF Pipeline
<1>5. \A d \in Clients : pc[d] # "rejected" => stamp'[d] = stamp[d]
  BY DEF Pipeline
<1> QED
  BY <1>2, <1>3, <1>4, <1>5 DEF Pipeline

(* What it prunes nobody is left to remove; its own member is a new one. *)
LEMMA PipelineMembers ==
    ASSUME LimiterInv, NEW c \in Clients, pc[c] = "stamped", Pipeline(c),
           \A d \in Clients \ {c} : pc'[d] = pc[d]
    PROVE  MemberFacts'
<1> SUFFICES ASSUME NEW a \in Ages PROVE Cardinality(Rejected(a)') <= zset'[a]
  BY DEF MemberFacts
<1>1. /\ stamp[c] \in Ages /\ stamp[c] \notin Pruned(c) /\ stamp'[c] = stamp[c]
      /\ \A d \in Clients : pc[d] # "rejected" => stamp'[d] = stamp[d]
  BY PipelineTypes
<1>2. /\ zset'[a] = (IF a \in Pruned(c) THEN 0 ELSE zset[a]) + (IF a = stamp[c] THEN 1 ELSE 0)
      /\ zset[a] \in Nat
  BY DEF Pipeline, LimiterInv, TypeOK
<1>3. \A d \in Clients : pc[d] = "rejected" =>
          stamp'[d] = IF stamp[d] \in Pruned(c) THEN Gone ELSE stamp[d]
  BY DEF Pipeline
<1>4. CASE a \in Pruned(c)
  <2>1. Rejected(a)' = {}
    BY <1>1, <1>3, <1>4, AgeTypes DEF Rejected
  <2> QED
    BY <1>1, <1>2, <1>4, <2>1, FS_EmptySet
<1>5. CASE a \notin Pruned(c)
  <2>1. Rejected(a)' \ {c} \subseteq Rejected(a)
    BY <1>1, <1>3, AgeTypes DEF Rejected
  <2>2. /\ IsFiniteSet(Rejected(a)' \ {c}) /\ Cardinality(Rejected(a)' \ {c}) \in Nat
        /\ Cardinality(Rejected(a)' \ {c}) <= zset[a]
    BY <2>1, FewerRejected
  <2>3. CASE c \in Rejected(a)'
    <3>1. a = stamp[c]
      BY <1>1, <2>3 DEF Rejected
    <3>2. Rejected(a)' = (Rejected(a)' \ {c}) \cup {c}
      BY <2>3
    <3>3. Cardinality(Rejected(a)') = Cardinality(Rejected(a)' \ {c}) + 1
      BY <2>2, <3>2, FS_AddElement
    <3> QED
      BY <1>2, <1>5, <2>2, <3>1, <3>3
  <2>4. CASE c \notin Rejected(a)'
    <3>1. Rejected(a)' \ {c} = Rejected(a)'
      BY <2>4
    <3> QED
      BY <1>2, <1>5, <2>2, <3>1
  <2> QED
    BY <2>3, <2>4
<1> QED
  BY <1>4, <1>5

-----------------------------------------------------------------------------
(* Steps of a client *)

LEMMA LimiterStep ==
    ASSUME LimiterInv, NEW c \in Clients, Step(c)
    PROVE  LimiterInv'
<1>0. /\ TypeOK /\ StampFacts /\ pc \in [Clients -> {"idle", "stamped", "rejected"}]
      /\ stamp \in [Clients -> 0..Gone] /\ zset \in [Ages -> Nat]
  BY DEF LimiterInv, TypeOK
<1>1. ASSUME UNCHANGED zset, \A a \in Ages : Rejected(a)' \subseteq Rejected(a)
      PROVE  MemberFacts'
  BY <1>1, FewerRejected DEF MemberFacts
<1>2. CASE ReadClock(c)
  <2>1. pc' \in [Clients -> {"idle", "stamped", "rejected"}] /\ stamp' \in [Clients -> 0..Gone]
    BY <1>0, <1>2, AgeTypes DEF ReadClock, Goto
  <2>2. /\ pc'[c] = "stamped" /\ stamp'[c] = 0
        /\ \A d \in Clients \ {c} : pc'[d] = pc[d] /\ stamp'[d] = stamp[d]
    BY <1>0, <1>2 DEF ReadClock, Goto
  <2>3. MemberFacts'
    <3>1. \A a \in Ages : Rejected(a)' \subseteq Rejected(a)
      BY <2>2 DEF Rejected
    <3> QED
      BY <1>1, <1>2, <3>1 DEF ReadClock
  <2>4. StampFacts'
    BY <1>0, <2>2 DEF StampFacts
  <2> QED
    BY <1>0, <1>2, <2>1, <2>3, <2>4 DEF ReadClock, TypeOK, LimiterInv
<1>3. CASE pc[c] = "stamped" /\ Pipeline(c) /\ (Admit(c) \/ Reject(c) \/ PipelineFails(c))
  <2>1. /\ zset' \in [Ages -> Nat] /\ keyLeft' \in 0..KeyTTL /\ stamp' \in [Clients -> 0..Gone]
        /\ \A d \in Clients : pc[d] # "rejected" => stamp'[d] = stamp[d]
    BY <1>3, PipelineTypes
  <2>2. /\ pc' \in [Clients -> {"idle", "stamped", "rejected"}] /\ pc'[c] # "stamped"
        /\ \A d \in Clients \ {c} : pc'[d] = pc[d]
    BY <1>0, <1>3 DEF Admit, Reject, PipelineFails, Goto
  <2>3. admitted' \in [Ages -> Nat]
    BY <1>0, <1>3, AgeTypes DEF Admit, Reject, PipelineFails, TypeOK
  <2>4. faults' \in 0..MaxFaults
    BY <1>0, <1>3 DEF Admit, Reject, PipelineFails, TypeOK
  <2>5. StampFacts'
    BY <1>0, <2>1, <2>2 DEF StampFacts
  <2>6. MemberFacts'
    BY <1>3, <2>2, PipelineMembers
  <2> QED
    BY <2>1, <2>2, <2>3, <2>4, <2>5, <2>6 DEF TypeOK, LimiterInv
<1>4. CASE RemoveRejected(c)
  <2>1. /\ pc' \in [Clients -> {"idle", "stamped", "rejected"}] /\ pc'[c] = "idle"
        /\ pc[c] = "rejected" /\ stamp' = stamp
        /\ \A d \in Clients \ {c} : pc'[d] = pc[d]
        /\ zset' = IF stamp[c] = Gone THEN zset ELSE [zset EXCEPT ![stamp[c]] = zset[stamp[c]] - 1]
    BY <1>0, <1>4 DEF RemoveRejected, Goto
  <2>2. \A a \in Ages : Rejected(a)' = Rejected(a) \ {c}
    BY <2>1 DEF Rejected
  <2>3. StampFacts'
    BY <1>0, <2>1 DEF StampFacts
  <2>4. CASE stamp[c] = Gone
    <3>1. zset' = zset /\ MemberFacts'
      BY <1>1, <2>1, <2>2, <2>4
    <3> QED
      BY <1>0, <1>4, <2>1, <2>3, <3>1 DEF RemoveRejected, TypeOK, LimiterInv
  <2>5. CASE stamp[c] # Gone
    <3>1. stamp[c] \in Ages
      <4>1. stamp[c] \in 0..Gone /\ Gone = MaxAge + 1 /\ MaxAge \in Nat
        BY <1>0 DEF Gone, MaxAge
      <4> QED
        BY <2>5, <4>1 DEF Ages
    <3>2. c \in Rejected(stamp[c])
      BY <2>1 DEF Rejected
    <3>3. /\ Cardinality(Rejected(stamp[c]) \ {c}) = Cardinality(Rejected(stamp[c])) - 1
          /\ Cardinality(Rejected(stamp[c])) <= zset[stamp[c]] /\ zset[stamp[c]] \in Nat
          /\ Cardinality(Rejected(stamp[c])) \in Nat
          /\ Cardinality(Rejected(stamp[c]) \ {c}) \in Nat
      <4>1. IsFiniteSet(Rejected(stamp[c]) \ {c})
        BY Members, FS_RemoveElement
      <4> QED
        BY <1>0, <3>1, <3>2, <4>1, Members, FS_RemoveElement, FS_CardinalityType
           DEF LimiterInv, MemberFacts
    <3>4. zset[stamp[c]] - 1 \in Nat
      BY <3>3
    <3>5. zset' \in [Ages -> Nat]
      BY <1>0, <2>1, <2>5, <3>1, <3>4
    <3>6. MemberFacts'
      <4> SUFFICES ASSUME NEW a \in Ages PROVE Cardinality(Rejected(a)') <= zset'[a]
        BY DEF MemberFacts
      <4>1. CASE a = stamp[c]
        <5>1. zset'[a] = zset[stamp[c]] - 1
          BY <1>0, <2>1, <2>5, <3>1, <4>1
        <5>2. Cardinality(Rejected(a)') = Cardinality(Rejected(stamp[c]) \ {c})
          BY <2>2, <3>1, <4>1
        <5>3. Cardinality(Rejected(stamp[c]) \ {c}) <= zset[stamp[c]] - 1
          BY <3>3
        <5> QED
          BY <5>1, <5>2, <5>3
      <4>2. CASE a # stamp[c]
        <5>1. zset'[a] = zset[a]
          BY <1>0, <2>1, <2>5, <3>1, <4>2
        <5>2. Rejected(a) \ {c} \subseteq Rejected(a)
          OBVIOUS
        <5>3. Cardinality(Rejected(a) \ {c}) <= zset[a]
          BY <5>2, FewerRejected
        <5> QED
          BY <2>2, <5>1, <5>3
      <4> QED
        BY <4>1, <4>2
    <3> QED
      BY <1>0, <1>4, <2>1, <2>3, <3>5, <3>6 DEF RemoveRejected, TypeOK, LimiterInv
  <2> QED
    BY <2>4, <2>5
<1>5. CASE RemoveFails(c) \/ (PipelineFails(c) /\ UNCHANGED <<zset, keyLeft, stamp>>)
  <2>1. /\ pc' \in [Clients -> {"idle", "stamped", "rejected"}] /\ pc'[c] = "idle"
        /\ \A d \in Clients \ {c} : pc'[d] = pc[d]
        /\ UNCHANGED <<stamp, zset, keyLeft, admitted>>
    BY <1>0, <1>5 DEF RemoveFails, PipelineFails, Goto
  <2>2. faults' \in 0..MaxFaults
    BY <1>0, <1>5 DEF RemoveFails, PipelineFails, TypeOK
  <2>3. MemberFacts'
    <3>1. \A a \in Ages : Rejected(a)' \subseteq Rejected(a)
      BY <2>1 DEF Rejected
    <3> QED
      BY <1>1, <2>1, <3>1
  <2>4. StampFacts'
    BY <1>0, <2>1 DEF StampFacts
  <2> QED
    BY <1>0, <2>1, <2>2, <2>3, <2>4 DEF TypeOK, LimiterInv
<1> QED
  BY <1>2, <1>3, <1>4, <1>5 DEF Step, Admit, Reject, PipelineFails

-----------------------------------------------------------------------------
(* Time *)

LEMMA LimiterTick ==
    ASSUME LimiterInv, Tick
    PROVE  LimiterInv'
<1>0. /\ pc \in [Clients -> {"idle", "stamped", "rejected"}] /\ pc' = pc
      /\ stamp \in [Clients -> 0..Gone] /\ zset \in [Ages -> Nat]
      /\ admitted \in [Ages -> Nat] /\ keyLeft \in 0..KeyTTL
  BY DEF LimiterInv, TypeOK, Tick
<1>1. \A count : count \in [Ages -> Nat] => Older(count) \in [Ages -> Nat]
  BY DEF Older, Ages, MaxAge
<1>2. zset' \in [Ages -> Nat] /\ admitted' \in [Ages -> Nat]
  <2>1. Older(zset) \in [Ages -> Nat] /\ Older(admitted) \in [Ages -> Nat]
    BY <1>0, <1>1
  <2> QED
    BY <2>1, AgeTypes DEF Tick
<1>3. keyLeft' \in 0..KeyTTL
  BY <1>0 DEF Tick, KeyExpires
<1>4. \A c \in Clients :
          /\ pc[c] = "stamped" => stamp[c] < MaxDelay /\ stamp'[c] = stamp[c] + 1
          /\ pc[c] = "rejected" /\ stamp[c] # Gone =>
                stamp'[c] = IF KeyExpires THEN Gone
                            ELSE IF stamp[c] < MaxAge THEN stamp[c] + 1 ELSE MaxAge
          /\ pc[c] = "idle" \/ (pc[c] = "rejected" /\ stamp[c] = Gone) => stamp'[c] = stamp[c]
  BY DEF Tick
<1>5. stamp' \in [Clients -> 0..Gone]
  <2>1. \A c \in Clients : stamp'[c] \in 0..Gone
    <3> SUFFICES ASSUME NEW c \in Clients PROVE stamp'[c] \in 0..Gone
      OBVIOUS
    <3>1. stamp[c] \in 0..Gone /\ MaxDelay \in Nat /\ MaxAge \in Nat /\ Gone = MaxAge + 1
          /\ MaxDelay <= MaxAge
      BY <1>0 DEF Gone, MaxAge
    <3> QED
      BY <1>0, <1>4, <3>1
  <2>2. stamp' = [c \in Clients |-> stamp'[c]]
    BY DEF Tick
  <2> QED
    BY <2>1, <2>2
<1>6. StampFacts'
  BY <1>0, <1>4 DEF StampFacts
<1>7. MemberFacts'
  <2> SUFFICES ASSUME NEW a \in Ages PROVE Cardinality(Rejected(a)') <= zset'[a]
    BY DEF MemberFacts
  <2>1. CASE KeyExpires
    <3>1. Rejected(a)' = {}
      BY <1>0, <1>4, <2>1, AgeTypes DEF Rejected
    <3>2. zset'[a] = 0
      BY <2>1 DEF Tick
    <3> QED
      BY <3>1, <3>2, FS_EmptySet
  <2>2. CASE ~KeyExpires
    <3>1. zset'[a] = (IF a = 0 THEN 0 ELSE zset[a - 1]) + (IF a = MaxAge THEN zset[a] ELSE 0)
      BY <2>2 DEF Tick, Older
    <3>2. \A c \in Rejected(a)' :
              \/ a # 0 /\ c \in Rejected(a - 1)
              \/ a = MaxAge /\ c \in Rejected(a)
      <4> SUFFICES ASSUME NEW c \in Clients, pc[c] = "rejected", stamp'[c] = a
                   PROVE  \/ a # 0 /\ stamp[c] = a - 1
                          \/ a = MaxAge /\ stamp[c] = a
        BY <1>0 DEF Rejected
      <4>1. stamp[c] \in 0..Gone /\ MaxAge \in Nat /\ Gone = MaxAge + 1 /\ a \in 0..MaxAge
        BY <1>0 DEF Gone, MaxAge, Ages
      <4> QED
        BY <1>4, <2>2, <4>1
    <3>3. CASE a = 0
      <4>1. Rejected(a)' = {}
        BY <3>2, <3>3, AgeTypes
      <4> QED
        BY <3>1, <3>3, <4>1, FS_EmptySet, AgeTypes
    <3>4. CASE a # 0
      <4>1. a - 1 \in Ages /\ zset[a - 1] \in Nat /\ zset[a] \in Nat
        BY <1>0, <3>4 DEF Ages, MaxAge
      <4>2. CASE a # MaxAge
        <5>1. Rejected(a)' \subseteq Rejected(a - 1)
          BY <3>2, <4>2
        <5>2. Cardinality(Rejected(a)') <= zset[a - 1]
          BY <4>1, <5>1, FewerRejected
        <5> QED
          BY <3>1, <3>4, <4>1, <4>2, <5>2
      <4>3. CASE a = MaxAge
        <5> DEFINE S == Rejected(a)' \cap Rejected(a - 1)
                   T == Rejected(a)' \cap Rejected(a)
        <5>1. Rejected(a)' = S \cup T
          BY <3>2
        <5>2. /\ IsFiniteSet(S) /\ Cardinality(S) \in Nat /\ Cardinality(S) <= zset[a - 1]
              /\ IsFiniteSet(T) /\ Cardinality(T) \in Nat /\ Cardinality(T) <= zset[a]
          <6>1. S \subseteq Rejected(a - 1) /\ T \subseteq Rejected(a)
            OBVIOUS
          <6> HIDE DEF S, T
          <6> QED
            BY <4>1, <6>1, FewerRejected
        <5> HIDE DEF S, T
        <5>3. IsFiniteSet(S \cap T) /\ Cardinality(S \cap T) \in Nat
          <6>1. S \cap T \subseteq S
            OBVIOUS
          <6>2. IsFiniteSet(S \cap T)
            BY <5>2, <6>1, FS_Subset
          <6> QED
            BY <6>2, FS_CardinalityType
        <5>4. Cardinality(S \cup T) = Cardinality(S) + Cardinality(T) - Cardinality(S \cap T)
          BY <5>2, FS_Union
        <5>5. Cardinality(Rejected(a)') <= zset[a - 1] + zset[a]
          BY <4>1, <5>1, <5>2, <5>3, <5>4
        <5> QED
          BY <3>1, <3>4, <4>3, <5>5
      <4> QED
        BY <4>2, <4>3
    <3> QED
      BY <3>3, <3>4
  <2> QED
    BY <2>1, <2>2
<1> QED
  BY <1>0, <1>2, <1>3, <1>5, <1>6, <1>7 DEF LimiterInv, TypeOK, Tick

LEMMA InitLimiter == Init => LimiterInv
<1> SUFFICES ASSUME Init PROVE LimiterInv
  OBVIOUS
<1>1. TypeOK /\ StampFacts
  BY AgeTypes DEF Init, TypeOK, StampFacts
<1>2. \A a \in Ages : Rejected(a) = {}
  BY DEF Init, Rejected
<1>3. MemberFacts
  BY <1>2, FS_EmptySet DEF Init, MemberFacts
<1> QED
  BY <1>1, <1>3 DEF LimiterInv

LEMMA LimiterUnchanged == LimiterInv /\ UNCHANGED vars => LimiterInv'
  BY DEF vars, LimiterInv, TypeOK, StampFacts, MemberFacts, Rejected

(* For any number of clients, however late their stamps and whatever fails: each rejected
   request has a member of its own to remove until the member is pruned or expires, so
   that the counts of the sorted set are counts. *)
THEOREM TypeCorrect == Spec => []TypeOK
<1>1. Init => LimiterInv
  BY InitLimiter
<1>2. LimiterInv /\ [Next]_vars => LimiterInv'
  <2> SUFFICES ASSUME LimiterInv, [Next]_vars PROVE LimiterInv'
    OBVIOUS
  <2>1. CASE UNCHANGED vars
    BY <2>1, LimiterUnchanged
  <2> QED
    BY <2>1, LimiterStep, LimiterTick DEF Next
<1>3. LimiterInv => TypeOK
  BY DEF LimiterInv
<1> QED
  BY <1>1, <1>2, <1>3, PTL DEF Spec

-----------------------------------------------------------------------------
(* Totals *)

LEMMA UnitsElements ==
    ASSUME NEW count, NEW A
    PROVE  \A x : x \in Units(count, A) <=> \E a \in A : \E i \in 1..count[a] : x = <<a, i>>
  BY DEF Units

LEMMA TotalTypes ==
    ASSUME NEW count, NEW A, IsFiniteSet(A), \A a \in A : count[a] \in Nat
    PROVE  IsFiniteSet(Units(count, A)) /\ Total(count, A) \in Nat
<1> DEFINE Row(a) == {a} \X (1..count[a])
           Rows   == {Row(a) : a \in A}
           f      == [a \in A |-> Row(a)]
<1>1. f \in Surjection(A, Rows)
  BY DEF Surjection
<1>2. IsFiniteSet(Rows)
  <2> HIDE DEF f, Rows
  <2> QED
    BY <1>1, FS_Surjection
<1>3. \A T \in Rows : IsFiniteSet(T)
  <2> SUFFICES ASSUME NEW a \in A PROVE IsFiniteSet(Row(a))
    OBVIOUS
  <2>1. IsFiniteSet({a})
    BY FS_Singleton
  <2>2. count[a] \in Int /\ 1 \in Int
    OBVIOUS
  <2>3. IsFiniteSet(1..count[a])
    BY <2>2, FS_Interval
  <2> QED
    BY <2>1, <2>3, FS_Product
<1>4. IsFiniteSet(UNION Rows)
  <2> HIDE DEF Rows
  <2> QED
    BY <1>2, <1>3, FS_UNION
<1>5. IsFiniteSet(Units(count, A))
  BY <1>4 DEF Units
<1> QED
  BY <1>5, FS_CardinalityType DEF Total

(* More ages hold at least as many. *)
LEMMA TotalMonotone ==
    ASSUME NEW count, NEW A, NEW B, IsFiniteSet(B), A \subseteq B, \A a \in B : count[a] \in Nat
    PROVE  Total(count, A) <= Total(count, B)
<1>1. IsFiniteSet(Units(count, B))
  BY TotalTypes
<1>2. Units(count, A) \subseteq Units(count, B)
  BY DEF Units
<1> QED
  BY <1>1, <1>2, FS_Subset DEF Total

LEMMA TotalAgrees ==
    ASSUME NEW count, NEW other, NEW A, \A a \in A : count[a] = other[a]
    PROVE  Total(count, A) = Total(other, A)
<1>1. Units(count, A) = Units(other, A)
  BY DEF Units
<1> QED
  BY <1>1 DEF Total

LEMMA TotalEmpty ==
    ASSUME NEW count, NEW A, \A a \in A : count[a] = 0
    PROVE  Total(count, A) = 0
<1>1. Units(count, A) = {}
  BY DEF Units
<1> QED
  BY <1>1, FS_EmptySet DEF Total

(* One more member of one age is one more in all. *)
LEMMA TotalAdd ==
    ASSUME NEW count, NEW more, NEW A, IsFiniteSet(A), \A a \in A : count[a] \in Nat,
           NEW b \in A, more[b] = count[b] + 1, \A a \in A \ {b} : more[a] = count[a]
    PROVE  Total(more, A) = Total(count, A) + 1
<1>1. Units(more, A) = Units(count, A) \cup {<<b, count[b] + 1>>}
  <2>1. \A x : x \in Units(more, A) <=> x \in Units(count, A) \cup {<<b, count[b] + 1>>}
    <3> SUFFICES ASSUME NEW x
                 PROVE  (\E a \in A : \E i \in 1..more[a] : x = <<a, i>>)
                        <=> \/ \E a \in A : \E i \in 1..count[a] : x = <<a, i>>
                            \/ x = <<b, count[b] + 1>>
      BY UnitsElements
    <3>1. 1..more[b] = (1..count[b]) \cup {count[b] + 1}
      OBVIOUS
    <3> QED
      BY <3>1
  <2> QED
    BY <2>1
<1>2. <<b, count[b] + 1>> \notin Units(count, A)
  BY DEF Units
<1>3. IsFiniteSet(Units(count, A))
  BY TotalTypes
<1>4. Cardinality(Units(count, A) \cup {<<b, count[b] + 1>>}) = Cardinality(Units(count, A)) + 1
  BY <1>2, <1>3, FS_AddElement, Zenon
<1> QED
  BY <1>1, <1>4 DEF Total

(* A unit of time moves every member below MaxAge up by one age. *)
LEMMA TotalOlder ==
    ASSUME NEW count \in [Ages -> Nat], NEW n \in Int, n < MaxAge
    PROVE  Total(Older(count), 0..n) = Total(count, 0..(n - 1))
<1> DEFINE S == Units(count, 0..(n - 1))
           T == Units(Older(count), 0..n)
           f == [x \in S |-> <<x[1] + 1, x[2]>>]
<1>1. /\ MaxAge \in Nat
      /\ \A a \in 0..(n - 1) : a \in Ages /\ a + 1 \in Ages /\ a + 1 \in 0..n
                               /\ Older(count)[a + 1] = count[a]
      /\ \A a \in 0..n : a # 0 => a - 1 \in 0..(n - 1) /\ Older(count)[a] = count[a - 1]
      /\ \A a \in 0..n : a = 0 => Older(count)[a] = 0
  BY DEF Older, Ages, MaxAge
<1>2. \A x : x \in S <=> \E a \in 0..(n - 1) : \E i \in 1..count[a] : x = <<a, i>>
  BY UnitsElements
<1>3. \A x : x \in T <=> \E a \in 0..n : \E i \in 1..(Older(count)[a]) : x = <<a, i>>
  BY UnitsElements
<1> HIDE DEF S, T
<1>4. f \in [S -> T]
  BY <1>1, <1>2, <1>3
<1>5. \A x, y \in S : f[x] = f[y] => x = y
  <2> SUFFICES ASSUME NEW x \in S, NEW y \in S, f[x] = f[y] PROVE x = y
    OBVIOUS
  <2>1. PICK a \in 0..(n - 1) : \E i \in 1..count[a] : x = <<a, i>>
    BY <1>2
  <2>2. PICK b \in 0..(n - 1) : \E i \in 1..count[b] : y = <<b, i>>
    BY <1>2
  <2>3. f[x] = <<a + 1, x[2]>> /\ f[y] = <<b + 1, y[2]>>
    BY <2>1, <2>2
  <2> QED
    BY <2>1, <2>2, <2>3
<1>6. \A y \in T : \E x \in S : f[x] = y
  <2> SUFFICES ASSUME NEW y \in T PROVE \E x \in S : f[x] = y
    OBVIOUS
  <2>0. PICK a \in 0..n : \E i \in 1..(Older(count)[a]) : y = <<a, i>>
    BY <1>3
  <2>1. PICK i \in 1..(Older(count)[a]) : y = <<a, i>>
    BY <2>0
  <2>2. a # 0
    BY <1>1
  <2>3. <<a - 1, i>> \in S
    BY <1>1, <1>2, <2>1, <2>2
  <2>4. f[<<a - 1, i>>] = y
    BY <2>1, <2>3
  <2> QED
    BY <2>3, <2>4
<1>7. ExistsBijection(S, T)
  <2> HIDE DEF f
  <2>1. f \in Bijection(S, T)
    BY <1>4, <1>5, <1>6 DEF Bijection, Injection, Surjection, IsInjective
  <2> QED
    BY <2>1 DEF ExistsBijection
<1>8. IsFiniteSet(S)
  <2>1. IsFiniteSet(0..(n - 1)) /\ \A a \in 0..(n - 1) : count[a] \in Nat
    BY <1>1, FS_Interval
  <2> QED
    BY <2>1, TotalTypes DEF S
<1>9. Cardinality(T) = Cardinality(S)
  BY <1>7, <1>8, FS_Bijection
<1> QED
  BY <1>9 DEF Total, S, T

-----------------------------------------------------------------------------
(* The limit *)

RejectedUpTo(m) == {c \in Clients : pc[c] = "rejected" /\ stamp[c] <= m}

(* For every age within the window the set still has a member for each request admitted
   that long ago, its stamp being at most MaxDelay older, and one for each rejected
   request that is to take its own away. *)
BoundFacts == \A m \in 0..(Window - 1) :
    Total(admitted, 0..(m - MaxDelay)) + Cardinality(RejectedUpTo(m)) <= Total(zset, 0..m)

(* The key outlives the requests it counts. *)
KeyFacts == \A b \in Ages : admitted[b] > 0 => b + keyLeft >= KeyTTL

BoundInv == LimiterInv /\ BoundFacts /\ KeyFacts /\ RateBound

(* The ages up to one within the window, and what is in them. *)
LEMMA UpTo ==
    ASSUME TypeOK, NEW m \in Int, m < Window
    PROVE  /\ IsFiniteSet(0..m) /\ m < MaxAge
           /\ \A a \in 0..m : a \in Ages /\ a # MaxAge /\ a # Gone
                              /\ zset[a] \in Nat /\ admitted[a] \in Nat
           /\ Total(zset, 0..m) \in Nat /\ Total(admitted, 0..m) \in Nat
<1>1. IsFiniteSet(0..m)
  BY FS_Interval
<1>2. \A a \in 0..m : a \in Ages /\ a # MaxAge /\ a # Gone
  BY DEF Ages, MaxAge, Gone
<1>3. \A a \in 0..m : zset[a] \in Nat /\ admitted[a] \in Nat
  BY <1>2 DEF TypeOK
<1>4. Total(zset, 0..m) \in Nat /\ Total(admitted, 0..m) \in Nat
  BY <1>1, <1>3, TotalTypes
<1>5. m < MaxAge
  BY DEF MaxAge
<1> QED
  BY <1>1, <1>2, <1>3, <1>4, <1>5

LEMMA RejectedCounts ==
    \A m : IsFiniteSet(RejectedUpTo(m)) /\ Cardinality(RejectedUpTo(m)) \in Nat
<1> TAKE m
<1>1. RejectedUpTo(m) \subseteq Clients
  BY DEF RejectedUpTo
<1>2. IsFiniteSet(RejectedUpTo(m))
  BY <1>1, FS_Subset
<1> QED
  BY <1>2, FS_CardinalityType

(* The pipeline prunes nothing within the window and adds the member of its request. *)
LEMMA PipelineAdds ==
    ASSUME LimiterInv, NEW c \in Clients, pc[c] = "stamped", Pipeline(c),
           NEW m \in 0..(Window - 1)
    PROVE  Total(zset', 0..m) = Total(zset, 0..m) + (IF stamp[c] <= m THEN 1 ELSE 0)
<1>0. TypeOK /\ stamp[c] \in 0..MaxDelay
  BY DEF LimiterInv, TypeOK, StampFacts
<1>1. /\ IsFiniteSet(0..m)
      /\ \A a \in 0..m : a \in Ages /\ zset[a] \in Nat
      /\ Total(zset, 0..m) \in Nat
  BY <1>0, UpTo
<1>2. \A a \in 0..m : a \notin Pruned(c)
  BY <1>0 DEF Pruned
<1>3. \A a \in 0..m : zset'[a] = zset[a] + (IF a = stamp[c] THEN 1 ELSE 0)
  BY <1>1, <1>2 DEF Pipeline
<1>4. CASE stamp[c] <= m
  <2>1. stamp[c] \in 0..m
    BY <1>0, <1>4
  <2>2. /\ zset'[stamp[c]] = zset[stamp[c]] + 1
        /\ \A a \in (0..m) \ {stamp[c]} : zset'[a] = zset[a]
    BY <1>1, <1>3, <2>1
  <2> QED
    BY <1>1, <1>4, <2>1, <2>2, TotalAdd
<1>5. CASE ~(stamp[c] <= m)
  <2>1. \A a \in 0..m : zset'[a] = zset[a]
    BY <1>0, <1>1, <1>3, <1>5
  <2>2. Total(zset', 0..m) = Total(zset, 0..m)
    BY <2>1, TotalAgrees
  <2> QED
    BY <1>1, <1>5, <2>2
<1> QED
  BY <1>4, <1>5

(* Nobody else's rejection enters or leaves the window. *)
LEMMA PipelineRejected ==
    ASSUME LimiterInv, NEW c \in Clients, pc[c] = "stamped", Pipeline(c),
           \A d \in Clients \ {c} : pc'[d] = pc[d],
           NEW m \in 0..(Window - 1)
    PROVE  Cardinality(RejectedUpTo(m)') = Cardinality(RejectedUpTo(m))
             + (IF pc'[c] = "rejected" /\ stamp[c] <= m THEN 1 ELSE 0)
<1>1. /\ stamp'[c] = stamp[c] /\ stamp[c] \in Nat
      /\ \A d \in Clients : pc[d] = "rejected" =>
            stamp'[d] = IF stamp[d] \in Pruned(c) THEN Gone ELSE stamp[d]
  BY PipelineTypes, AgeTypes DEF Pipeline
<1>2. ~(Gone <= m) /\ \A a \in Pruned(c) : ~(a <= m)
  BY <1>1 DEF Gone, MaxAge, Pruned, Ages
<1>3. /\ IsFiniteSet(RejectedUpTo(m)) /\ Cardinality(RejectedUpTo(m)) \in Nat
      /\ c \notin RejectedUpTo(m)
  BY RejectedCounts DEF RejectedUpTo
<1>4. CASE pc'[c] = "rejected" /\ stamp[c] <= m
  <2>1. RejectedUpTo(m)' = RejectedUpTo(m) \cup {c}
    BY <1>1, <1>2, <1>4 DEF RejectedUpTo
  <2> QED
    BY <1>3, <1>4, <2>1, FS_AddElement
<1>5. CASE ~(pc'[c] = "rejected" /\ stamp[c] <= m)
  <2>1. RejectedUpTo(m)' = RejectedUpTo(m)
    BY <1>1, <1>2, <1>5 DEF RejectedUpTo
  <2> QED
    BY <1>3, <1>5, <2>1
<1> QED
  BY <1>4, <1>5

(* Who is admitted finds fewer than Limit members within the window. *)
LEMMA AdmitBound ==
    ASSUME BoundInv, NEW c \in Clients, Admit(c)
    PROVE  BoundFacts' /\ KeyFacts' /\ RateBound'
<1>0. /\ LimiterInv /\ TypeOK /\ pc[c] = "stamped" /\ Pipeline(c) /\ pc'[c] = "idle"
      /\ \A d \in Clients \ {c} : pc'[d] = pc[d]
      /\ stamp[c] \in 0..MaxDelay /\ keyLeft' = KeyTTL
      /\ admitted \in [Ages -> Nat]
      /\ admitted' = [admitted EXCEPT ![0] = admitted[0] + 1]
  BY DEF BoundInv, LimiterInv, TypeOK, StampFacts, Admit, Goto, Pipeline
<1>1. /\ admitted'[0] = admitted[0] + 1
      /\ \A a \in Ages : a # 0 => admitted'[a] = admitted[a]
  BY <1>0, AgeTypes
<1>2. \A n \in Int : n < Window =>
          /\ Total(admitted, 0..n) \in Nat
          /\ Total(admitted', 0..n) = Total(admitted, 0..n) + (IF 0 <= n THEN 1 ELSE 0)
  <2> SUFFICES ASSUME NEW n \in Int, n < Window
               PROVE  /\ Total(admitted, 0..n) \in Nat
                      /\ Total(admitted', 0..n)
                           = Total(admitted, 0..n) + (IF 0 <= n THEN 1 ELSE 0)
    OBVIOUS
  <2>1. /\ IsFiniteSet(0..n) /\ Total(admitted, 0..n) \in Nat
        /\ \A a \in 0..n : a \in Ages /\ admitted[a] \in Nat
    BY <1>0, UpTo
  <2>2. CASE 0 <= n
    <3>1. 0 \in 0..n /\ \A a \in (0..n) \ {0} : admitted'[a] = admitted[a]
      BY <1>1, <2>1, <2>2
    <3>2. Total(admitted', 0..n) = Total(admitted, 0..n) + 1
      BY <1>1, <2>1, <3>1, TotalAdd
    <3> QED
      BY <2>1, <2>2, <3>2
  <2>3. CASE ~(0 <= n)
    <3>1. 0..n = {}
      BY <2>3
    <3>2. Total(admitted', 0..n) = Total(admitted, 0..n)
      BY <3>1, TotalAgrees
    <3> QED
      BY <2>1, <2>3, <3>2
  <2> QED
    BY <2>2, <2>3
<1>3. BoundFacts'
  <2> SUFFICES ASSUME NEW m \in 0..(Window - 1)
               PROVE  Total(admitted', 0..(m - MaxDelay)) + Cardinality(RejectedUpTo(m)')
                        <= Total(zset', 0..m)
    BY DEF BoundFacts
  <2>1. Total(zset', 0..m) = Total(zset, 0..m) + (IF stamp[c] <= m THEN 1 ELSE 0)
    BY <1>0, PipelineAdds
  <2>2. Cardinality(RejectedUpTo(m)') = Cardinality(RejectedUpTo(m))
    <3>1. Cardinality(RejectedUpTo(m)') = Cardinality(RejectedUpTo(m))
             + (IF pc'[c] = "rejected" /\ stamp[c] <= m THEN 1 ELSE 0)
      BY <1>0, PipelineRejected
    <3> QED
      BY <1>0, <3>1, RejectedCounts
  <2>3. /\ m - MaxDelay \in Int /\ m - MaxDelay < Window
        /\ 0 <= m - MaxDelay => stamp[c] <= m
    BY <1>0
  <2>4. /\ Total(admitted', 0..(m - MaxDelay))
             = Total(admitted, 0..(m - MaxDelay)) + (IF 0 <= m - MaxDelay THEN 1 ELSE 0)
        /\ Total(admitted, 0..(m - MaxDelay)) \in Nat
    BY <1>2, <2>3
  <2>5. Total(admitted, 0..(m - MaxDelay)) + Cardinality(RejectedUpTo(m)) <= Total(zset, 0..m)
    BY DEF BoundInv, BoundFacts
  <2>6. Total(zset, 0..m) \in Nat /\ Cardinality(RejectedUpTo(m)) \in Nat
    BY <1>0, UpTo, RejectedCounts
  <2> QED
    BY <2>1, <2>2, <2>3, <2>4, <2>5, <2>6
<1>4. KeyFacts'
  BY <1>0, AgeTypes DEF KeyFacts
<1>5. RateBound'
  <2> DEFINE m == Window - 1
  <2>1. m \in 0..(Window - 1) /\ m - MaxDelay = Window - MaxDelay - 1
        /\ Window - MaxDelay - 1 \in Nat /\ Window - MaxDelay - 1 < Window
    OBVIOUS
  <2>2. Total(admitted, 0..(Window - MaxDelay - 1)) + Cardinality(RejectedUpTo(m))
          <= Total(zset, 0..m)
    BY <2>1 DEF BoundInv, BoundFacts
  <2>3. Total(zset, 0..m) <= Counted(c)
    <3>1. 0..m \subseteq Ages \ Pruned(c)
      BY <1>0 DEF Pruned, Ages, MaxAge
    <3>2. IsFiniteSet(Ages \ Pruned(c))
      <4>1. IsFiniteSet(Ages)
        BY AgeTypes, FS_Interval DEF Ages
      <4> QED
        BY <4>1, FS_Difference
    <3>3. \A a \in Ages \ Pruned(c) : zset[a] \in Nat
      BY <1>0 DEF TypeOK
    <3> QED
      BY <3>1, <3>2, <3>3, TotalMonotone DEF Counted
  <2>4. Counted(c) < Limit /\ Counted(c) \in Nat
    <3>1. IsFiniteSet(Ages \ Pruned(c)) /\ \A a \in Ages \ Pruned(c) : zset[a] \in Nat
      <4>1. IsFiniteSet(Ages)
        BY AgeTypes, FS_Interval DEF Ages
      <4> QED
        BY <1>0, <4>1, FS_Difference DEF TypeOK
    <3> QED
      BY <3>1, TotalTypes DEF Counted, Admit
  <2>5. /\ Total(admitted', 0..(Window - MaxDelay - 1))
             = Total(admitted, 0..(Window - MaxDelay - 1)) + 1
        /\ Total(admitted, 0..(Window - MaxDelay - 1)) \in Nat
    BY <1>2, <2>1
  <2>6. Total(zset, 0..m) \in Nat /\ Cardinality(RejectedUpTo(m)) \in Nat
    BY <1>0, <2>1, UpTo, RejectedCounts
  <2> HIDE DEF m
  <2> QED
    BY <2>2, <2>3, <2>4, <2>5, <2>6 DEF RateBound
<1> QED
  BY <1>3, <1>4, <1>5

(* A pipeline that admits nobody keeps the bound. *)
LEMMA OtherPipelineBound ==
    ASSUME BoundInv, NEW c \in Clients, pc[c] = "stamped", Pipeline(c),
           Reject(c) \/ PipelineFails(c)
    PROVE  BoundFacts' /\ KeyFacts' /\ RateBound'
<1>0. /\ LimiterInv /\ TypeOK /\ keyLeft' = KeyTTL /\ admitted' = admitted
      /\ \A d \in Clients \ {c} : pc'[d] = pc[d]
  BY DEF BoundInv, LimiterInv, TypeOK, Reject, PipelineFails, Goto, Pipeline
<1>1. BoundFacts'
  <2> SUFFICES ASSUME NEW m \in 0..(Window - 1)
               PROVE  Total(admitted, 0..(m - MaxDelay)) + Cardinality(RejectedUpTo(m)')
                        <= Total(zset', 0..m)
    BY <1>0 DEF BoundFacts
  <2>1. Total(zset', 0..m) = Total(zset, 0..m) + (IF stamp[c] <= m THEN 1 ELSE 0)
    BY <1>0, PipelineAdds
  <2>2. Cardinality(RejectedUpTo(m)') = Cardinality(RejectedUpTo(m))
             + (IF pc'[c] = "rejected" /\ stamp[c] <= m THEN 1 ELSE 0)
    BY <1>0, PipelineRejected
  <2>3. Total(admitted, 0..(m - MaxDelay)) + Cardinality(RejectedUpTo(m)) <= Total(zset, 0..m)
    BY DEF BoundInv, BoundFacts
  <2>4. /\ Total(zset, 0..m) \in Nat /\ Cardinality(RejectedUpTo(m)) \in Nat
        /\ Total(admitted, 0..(m - MaxDelay)) \in Nat
    BY <1>0, UpTo, RejectedCounts
  <2> QED
    BY <2>1, <2>2, <2>3, <2>4
<1>2. KeyFacts'
  <2>1. \A b \in Ages : b + KeyTTL >= KeyTTL
    BY AgeTypes
  <2> QED
    BY <1>0, <2>1 DEF KeyFacts
<1>3. RateBound'
  BY <1>0 DEF RateBound, BoundInv
<1> QED
  BY <1>1, <1>2, <1>3

(* A removal takes the member of a rejected request and of nobody else. *)
LEMMA RemoveBound ==
    ASSUME BoundInv, NEW c \in Clients, RemoveRejected(c)
    PROVE  BoundFacts' /\ KeyFacts' /\ RateBound'
<1>0. /\ TypeOK /\ admitted' = admitted /\ keyLeft' = keyLeft /\ stamp' = stamp
      /\ pc[c] = "rejected" /\ pc'[c] = "idle" /\ \A d \in Clients \ {c} : pc'[d] = pc[d]
      /\ stamp[c] \in 0..Gone /\ Gone = MaxAge + 1 /\ MaxAge \in Nat /\ Window <= MaxAge
  BY DEF BoundInv, LimiterInv, TypeOK, RemoveRejected, Goto, Gone, MaxAge
<1>1. BoundFacts'
  <2> SUFFICES ASSUME NEW m \in 0..(Window - 1)
               PROVE  Total(admitted, 0..(m - MaxDelay)) + Cardinality(RejectedUpTo(m)')
                        <= Total(zset', 0..m)
    BY <1>0 DEF BoundFacts
  <2>1. Total(admitted, 0..(m - MaxDelay)) + Cardinality(RejectedUpTo(m)) <= Total(zset, 0..m)
    BY DEF BoundInv, BoundFacts
  <2>2. /\ Total(zset, 0..m) \in Nat /\ Cardinality(RejectedUpTo(m)) \in Nat
        /\ IsFiniteSet(RejectedUpTo(m)) /\ Total(admitted, 0..(m - MaxDelay)) \in Nat
    BY <1>0, UpTo, RejectedCounts
  <2>3. /\ IsFiniteSet(0..m)
        /\ \A a \in 0..m : a \in Ages /\ a # Gone /\ zset[a] \in Nat
    BY <1>0, UpTo
  <2>4. RejectedUpTo(m)' = RejectedUpTo(m) \ {c}
    BY <1>0 DEF RejectedUpTo
  <2>5. CASE stamp[c] <= m
    <3>1. stamp[c] \in 0..m /\ stamp[c] # Gone
      BY <1>0, <2>5
    <3>2. zset' = [zset EXCEPT ![stamp[c]] = zset[stamp[c]] - 1]
      BY <3>1 DEF RemoveRejected
    <3>3. zset \in [Ages -> Nat] /\ zset' \in [Ages -> Nat]
      BY LimiterStep DEF BoundInv, LimiterInv, TypeOK, Step
    <3>4. /\ zset[stamp[c]] = zset'[stamp[c]] + 1
          /\ \A a \in (0..m) \ {stamp[c]} : zset[a] = zset'[a]
      BY <2>3, <3>1, <3>2, <3>3
    <3>5. \A a \in 0..m : zset'[a] \in Nat
      BY <2>3, <3>3
    <3>6. Total(zset, 0..m) = Total(zset', 0..m) + 1
      BY <2>3, <3>1, <3>4, <3>5, TotalAdd
    <3>7. Total(zset', 0..m) \in Nat
      BY <2>3, <3>5, TotalTypes
    <3>8. c \in RejectedUpTo(m)
      BY <1>0, <2>5 DEF RejectedUpTo
    <3>9. Cardinality(RejectedUpTo(m)') = Cardinality(RejectedUpTo(m)) - 1
      BY <2>2, <2>4, <3>8, FS_RemoveElement
    <3> QED
      BY <2>1, <2>2, <3>6, <3>7, <3>9
  <2>6. CASE ~(stamp[c] <= m)
    <3>1. c \notin RejectedUpTo(m)
      BY <2>6 DEF RejectedUpTo
    <3>2. RejectedUpTo(m)' = RejectedUpTo(m)
      BY <2>4, <3>1
    <3>3. \A a \in 0..m : zset'[a] = zset[a]
      BY <1>0, <2>3, <2>6 DEF RemoveRejected, TypeOK
    <3>4. Total(zset', 0..m) = Total(zset, 0..m)
      BY <3>3, TotalAgrees
    <3> QED
      BY <2>1, <3>2, <3>4
  <2> QED
    BY <2>5, <2>6
<1>2. KeyFacts'
  BY <1>0 DEF BoundInv, KeyFacts
<1>3. RateBound'
  BY <1>0 DEF RateBound, BoundInv
<1> QED
  BY <1>1, <1>2, <1>3

(* A step that leaves the set alone rejects nobody. *)
LEMMA QuietBound ==
    ASSUME BoundInv, UNCHANGED <<zset, keyLeft, admitted>>,
           \A m \in 0..(Window - 1) : RejectedUpTo(m)' \subseteq RejectedUpTo(m)
    PROVE  BoundFacts' /\ KeyFacts' /\ RateBound'
<1>1. BoundFacts'
  <2> SUFFICES ASSUME NEW m \in 0..(Window - 1)
               PROVE  Total(admitted, 0..(m - MaxDelay)) + Cardinality(RejectedUpTo(m)')
                        <= Total(zset, 0..m)
    BY DEF BoundFacts
  <2>1. Total(admitted, 0..(m - MaxDelay)) + Cardinality(RejectedUpTo(m)) <= Total(zset, 0..m)
    BY DEF BoundInv, BoundFacts
  <2>2. RejectedUpTo(m)' \subseteq RejectedUpTo(m) /\ IsFiniteSet(RejectedUpTo(m))
    BY RejectedCounts
  <2>3. /\ Cardinality(RejectedUpTo(m)') <= Cardinality(RejectedUpTo(m))
        /\ Cardinality(RejectedUpTo(m)') \in Nat
    BY <2>2, FS_Subset, FS_CardinalityType
  <2>4. /\ Total(zset, 0..m) \in Nat /\ Cardinality(RejectedUpTo(m)) \in Nat
        /\ Total(admitted, 0..(m - MaxDelay)) \in Nat
    BY UpTo, RejectedCounts DEF BoundInv, LimiterInv
  <2> QED
    BY <2>1, <2>3, <2>4
<1>2. KeyFacts' /\ RateBound'
  BY DEF BoundInv, KeyFacts, RateBound
<1> QED
  BY <1>1, <1>2

LEMMA BoundStep ==
    ASSUME BoundInv, NEW c \in Clients, Step(c)
    PROVE  BoundInv'
<1>0. LimiterInv'
  BY LimiterStep DEF BoundInv
<1>1. /\ pc \in [Clients -> {"idle", "stamped", "rejected"}] /\ stamp \in [Clients -> 0..Gone]
  BY DEF BoundInv, LimiterInv, TypeOK
<1>2. CASE ReadClock(c) \/ RemoveFails(c) \/ (PipelineFails(c) /\ UNCHANGED <<zset, keyLeft, stamp>>)
  <2>1. /\ UNCHANGED <<zset, keyLeft, admitted>> /\ pc'[c] # "rejected"
        /\ \A d \in Clients \ {c} : pc'[d] = pc[d] /\ stamp'[d] = stamp[d]
    BY <1>1, <1>2 DEF ReadClock, RemoveFails, PipelineFails, Goto
  <2>2. \A m \in 0..(Window - 1) : RejectedUpTo(m)' \subseteq RejectedUpTo(m)
    BY <2>1 DEF RejectedUpTo
  <2> QED
    BY <1>0, <2>1, <2>2, QuietBound DEF BoundInv
<1>3. CASE Admit(c)
  BY <1>0, <1>3, AdmitBound DEF BoundInv
<1>4. CASE pc[c] = "stamped" /\ Pipeline(c) /\ (Reject(c) \/ PipelineFails(c))
  BY <1>0, <1>4, OtherPipelineBound DEF BoundInv
<1>5. CASE RemoveRejected(c)
  BY <1>0, <1>5, RemoveBound DEF BoundInv
<1> QED
  BY <1>2, <1>3, <1>4, <1>5 DEF Step, Reject, PipelineFails

(* Time ages the admissions, the members and the rejections alike. *)
LEMMA BoundTick ==
    ASSUME BoundInv, Tick
    PROVE  BoundInv'
<1>0. /\ LimiterInv' /\ LimiterInv /\ TypeOK
      /\ admitted \in [Ages -> Nat] /\ zset \in [Ages -> Nat] /\ keyLeft \in 0..KeyTTL
      /\ pc \in [Clients -> {"idle", "stamped", "rejected"}] /\ pc' = pc
      /\ stamp \in [Clients -> 0..Gone]
  BY LimiterTick DEF BoundInv, LimiterInv, TypeOK, Tick
<1>1. Older(admitted) \in [Ages -> Nat]
  BY <1>0 DEF Older, Ages, MaxAge
<1>2. \A n \in Int : n < Window => Total(admitted', 0..n) = Total(admitted, 0..(n - 1))
  <2> SUFFICES ASSUME NEW n \in Int, n < Window
               PROVE  Total(admitted', 0..n) = Total(admitted, 0..(n - 1))
    OBVIOUS
  <2>1. n < MaxAge /\ \A a \in 0..n : a \in Ages /\ a # MaxAge
    BY <1>0, UpTo
  <2>2. \A a \in 0..n : admitted'[a] = Older(admitted)[a]
    BY <1>1, <2>1 DEF Tick
  <2>3. Total(admitted', 0..n) = Total(Older(admitted), 0..n)
    BY <2>2, TotalAgrees
  <2> QED
    BY <1>0, <2>1, <2>3, TotalOlder
<1>3. \A c \in Clients : pc[c] = "rejected" =>
          stamp'[c] = IF stamp[c] = Gone \/ KeyExpires THEN Gone
                      ELSE IF stamp[c] < MaxAge THEN stamp[c] + 1 ELSE MaxAge
  BY DEF Tick
<1>4. BoundFacts'
  <2> SUFFICES ASSUME NEW m \in 0..(Window - 1)
               PROVE  Total(admitted', 0..(m - MaxDelay)) + Cardinality(RejectedUpTo(m)')
                        <= Total(zset', 0..m)
    BY DEF BoundFacts
  <2>0. /\ m < MaxAge /\ m - MaxDelay \in Int /\ m - MaxDelay < Window
        /\ ~(MaxAge <= m) /\ ~(Gone <= m) /\ MaxAge \in Nat /\ Gone = MaxAge + 1
    BY DEF MaxAge, Gone
  <2>1. Total(admitted', 0..(m - MaxDelay)) = Total(admitted, 0..(m - MaxDelay - 1))
    BY <1>2, <2>0
  <2>2. CASE KeyExpires
    <3>1. \A a \in 0..(m - MaxDelay - 1) : admitted[a] = 0
      <4> SUFFICES ASSUME NEW a \in 0..(m - MaxDelay - 1) PROVE admitted[a] = 0
        OBVIOUS
      <4>1. a \in Ages /\ a < Window - 1 /\ admitted[a] \in Nat
        BY <1>0 DEF Ages, MaxAge
      <4>2. admitted[a] > 0 => a + keyLeft >= KeyTTL
        BY <4>1 DEF BoundInv, KeyFacts
      <4>3. keyLeft <= 1
        BY <2>2 DEF KeyExpires
      <4> QED
        BY <1>0, <4>1, <4>2, <4>3
    <3>2. Total(admitted, 0..(m - MaxDelay - 1)) = 0
      BY <3>1, TotalEmpty
    <3>3. RejectedUpTo(m)' = {}
      BY <1>0, <1>3, <2>0, <2>2 DEF RejectedUpTo
    <3>4. Total(zset', 0..m) \in Nat
      <4>1. TypeOK'
        BY <1>0 DEF LimiterInv
      <4>2. zset' \in [Ages -> Nat]
        BY <4>1 DEF TypeOK
      <4>3. IsFiniteSet(0..m) /\ \A a \in 0..m : zset'[a] \in Nat
        BY <1>0, <4>2, UpTo
      <4> QED
        BY <4>3, TotalTypes
    <3> QED
      BY <2>1, <3>2, <3>3, <3>4, FS_EmptySet
  <2>3. CASE ~KeyExpires
    <3>1. Total(zset', 0..m) = Total(zset, 0..(m - 1))
      <4>1. zset' = Older(zset)
        BY <2>3 DEF Tick
      <4> QED
        BY <1>0, <2>0, <4>1, TotalOlder
    <3>2. RejectedUpTo(m)' \subseteq RejectedUpTo(m - 1)
      <4> SUFFICES ASSUME NEW c \in Clients, pc[c] = "rejected", stamp'[c] <= m
                   PROVE  stamp[c] <= m - 1
        BY <1>0 DEF RejectedUpTo
      <4>1. stamp[c] \in 0..Gone
        BY <1>0
      <4> QED
        BY <1>3, <2>0, <4>1
    <3>3. /\ Cardinality(RejectedUpTo(m)') <= Cardinality(RejectedUpTo(m - 1))
          /\ Cardinality(RejectedUpTo(m)') \in Nat
      <4>1. IsFiniteSet(RejectedUpTo(m - 1))
        BY RejectedCounts
      <4> QED
        BY <3>2, <4>1, FS_Subset, FS_CardinalityType
    <3>4. CASE m = 0
      <4>1. RejectedUpTo(m - 1) = {}
        BY <1>0, <3>4 DEF RejectedUpTo
      <4>2. Total(admitted, 0..(m - MaxDelay - 1)) = 0
        <5>1. 0..(m - MaxDelay - 1) = {}
          BY <3>4
        <5> QED
          BY <5>1, TotalEmpty
      <4>3. Total(zset, 0..(m - 1)) = 0
        <5>1. 0..(m - 1) = {}
          BY <3>4
        <5> QED
          BY <5>1, TotalEmpty
      <4>4. Cardinality(RejectedUpTo(m)') = 0
        BY <3>2, <4>1, FS_EmptySet
      <4> QED
        BY <2>1, <3>1, <4>2, <4>3, <4>4
    <3>5. CASE m # 0
      <4>1. m - 1 \in 0..(Window - 1) /\ (m - 1) - MaxDelay = m - MaxDelay - 1
        BY <3>5
      <4>2. Total(admitted, 0..(m - MaxDelay - 1)) + Cardinality(RejectedUpTo(m - 1))
              <= Total(zset, 0..(m - 1))
        BY <4>1 DEF BoundInv, BoundFacts
      <4>3. /\ Total(admitted, 0..(m - MaxDelay - 1)) \in Nat
            /\ Total(zset, 0..(m - 1)) \in Nat
            /\ Cardinality(RejectedUpTo(m - 1)) \in Nat
        BY <1>0, <4>1, UpTo, RejectedCounts
      <4> QED
        BY <2>1, <3>1, <3>3, <4>2, <4>3
    <3> QED
      BY <3>4, <3>5
  <2> QED
    BY <2>2, <2>3
<1>5. KeyFacts'
  <2> SUFFICES ASSUME NEW b \in Ages, admitted'[b] > 0 PROVE b + keyLeft' >= KeyTTL
    BY DEF KeyFacts
  <2>1. b # MaxAge /\ admitted'[b] = Older(admitted)[b]
    BY <1>1, AgeTypes DEF Tick
  <2>2. b \in 0..MaxAge /\ MaxAge \in Nat
    BY DEF Ages, MaxAge
  <2>3. b # 0 /\ admitted'[b] = admitted[b - 1] /\ b - 1 \in Ages
    BY <1>0, <2>1, <2>2 DEF Older, Ages
  <2>4. b - 1 + keyLeft >= KeyTTL
    BY <2>3 DEF BoundInv, KeyFacts
  <2>5. keyLeft' = IF keyLeft <= 1 THEN 0 ELSE keyLeft - 1
    BY DEF Tick, KeyExpires
  <2> QED
    BY <1>0, <2>2, <2>4, <2>5
<1>6. RateBound'
  <2> DEFINE n == Window - MaxDelay - 1
  <2>1. n \in Nat /\ n < Window /\ n - 1 < Window /\ n - 1 \in Int /\ 0..(n - 1) \subseteq 0..n
    OBVIOUS
  <2> HIDE DEF n
  <2>2. /\ IsFiniteSet(0..n) /\ Total(admitted, 0..n) \in Nat
        /\ \A a \in 0..n : admitted[a] \in Nat
    BY <1>0, <2>1, UpTo
  <2>3. Total(admitted, 0..(n - 1)) \in Nat
    BY <1>0, <2>1, UpTo
  <2>4. Total(admitted, 0..(n - 1)) <= Total(admitted, 0..n)
    BY <2>1, <2>2, TotalMonotone
  <2>5. Total(admitted', 0..n) = Total(admitted, 0..(n - 1))
    BY <1>2, <2>1
  <2>6. Total(admitted, 0..n) <= Limit
    BY DEF BoundInv, RateBound, n
  <2> QED
    BY <2>2, <2>3, <2>4, <2>5, <2>6 DEF RateBound, n
<1> QED
  BY <1>0, <1>4, <1>5, <1>6 DEF BoundInv

(* The limit holds in real time for any number of clients, any limit and window, stamps as
   late as the bound allows and any number of errors: what the count of a pipeline shows is
   at least what was admitted within the window less the delay. *)
THEOREM LimitHolds == Spec => []RateBound
<1>1. Init => BoundInv
  <2> SUFFICES ASSUME Init PROVE BoundInv
    OBVIOUS
  <2>1. LimiterInv
    BY InitLimiter
  <2>2. \A m \in Int : m < Window => Total(admitted, 0..m) = 0 /\ Total(zset, 0..m) \in Nat
    <3> SUFFICES ASSUME NEW m \in Int, m < Window
                 PROVE  Total(admitted, 0..m) = 0 /\ Total(zset, 0..m) \in Nat
      OBVIOUS
    <3>1. \A a \in 0..m : a \in Ages
      BY <2>1, UpTo DEF LimiterInv
    <3>2. \A a \in 0..m : admitted[a] = 0
      BY <3>1 DEF Init
    <3> QED
      BY <2>1, <3>2, UpTo, TotalEmpty DEF LimiterInv
  <2>3. \A m : RejectedUpTo(m) = {}
    BY DEF Init, RejectedUpTo
  <2>4. BoundFacts
    <3> SUFFICES ASSUME NEW m \in 0..(Window - 1)
                 PROVE  Total(admitted, 0..(m - MaxDelay)) + Cardinality(RejectedUpTo(m))
                          <= Total(zset, 0..m)
      BY DEF BoundFacts
    <3>1. Total(admitted, 0..(m - MaxDelay)) = 0 /\ Total(zset, 0..m) \in Nat
      BY <2>2
    <3>2. Cardinality(RejectedUpTo(m)) = 0
      BY <2>3, FS_EmptySet
    <3> QED
      BY <3>1, <3>2
  <2>5. KeyFacts
    BY DEF Init, KeyFacts
  <2>6. RateBound
    <3>1. Window - MaxDelay - 1 \in Int /\ Window - MaxDelay - 1 < Window
      OBVIOUS
    <3> QED
      BY <2>2, <3>1 DEF RateBound
  <2> QED
    BY <2>1, <2>4, <2>5, <2>6 DEF BoundInv
<1>2. BoundInv /\ [Next]_vars => BoundInv'
  <2> SUFFICES ASSUME BoundInv, [Next]_vars PROVE BoundInv'
    OBVIOUS
  <2>1. CASE UNCHANGED vars
    <3>1. LimiterInv'
      BY <2>1, LimiterUnchanged DEF BoundInv
    <3>2. /\ UNCHANGED <<zset, keyLeft, admitted>>
          /\ \A m \in 0..(Window - 1) : RejectedUpTo(m)' \subseteq RejectedUpTo(m)
      BY <2>1 DEF vars, RejectedUpTo
    <3> QED
      BY <3>1, <3>2, QuietBound DEF BoundInv
  <2> QED
    BY <2>1, BoundStep, BoundTick DEF Next
<1>3. BoundInv => RateBound
  BY DEF BoundInv
<1> QED
  BY <1>1, <1>2, <1>3, PTL DEF Spec

-----------------------------------------------------------------------------
(* The reasons of a rejection *)

(* Conversely every member of the set is that of a request admitted no longer ago, of a
   rejected one that is to take it away, or was left by an error. *)
CoverFacts == \A m \in 0..(MaxAge - 1) :
    Total(zset, 0..m) <= Total(admitted, 0..m) + Cardinality(RejectedUpTo(m)) + faults

CoverInv == LimiterInv /\ CoverFacts

(* All ages but the last, at which the pipeline prunes. *)
LEMMA Within ==
    ASSUME TypeOK, NEW m \in Int, m < MaxAge
    PROVE  /\ IsFiniteSet(0..m)
           /\ \A a \in 0..m : a \in Ages /\ a # MaxAge /\ a # Gone
                              /\ zset[a] \in Nat /\ admitted[a] \in Nat
           /\ Total(zset, 0..m) \in Nat /\ Total(admitted, 0..m) \in Nat
           /\ faults \in Nat
<1>1. IsFiniteSet(0..m) /\ faults \in Nat
  BY FS_Interval DEF TypeOK
<1>2. \A a \in 0..m : a \in Ages /\ a # MaxAge /\ a # Gone
  BY DEF Ages, MaxAge, Gone
<1>3. \A a \in 0..m : zset[a] \in Nat /\ admitted[a] \in Nat
  BY <1>2 DEF TypeOK
<1>4. Total(zset, 0..m) \in Nat /\ Total(admitted, 0..m) \in Nat
  BY <1>1, <1>3, TotalTypes
<1> QED
  BY <1>1, <1>2, <1>3, <1>4

(* Ages without members count for nothing. *)
LEMMA TotalTail ==
    ASSUME NEW count, NEW A, NEW B, A \subseteq B, \A b \in B \ A : count[b] = 0
    PROVE  Total(count, B) = Total(count, A)
<1>1. Units(count, B) = Units(count, A)
  <2>1. \A x : x \in Units(count, B) <=> x \in Units(count, A)
    <3> SUFFICES ASSUME NEW x
                 PROVE  (\E a \in B : \E i \in 1..count[a] : x = <<a, i>>)
                        <=> \E a \in A : \E i \in 1..count[a] : x = <<a, i>>
      BY UnitsElements
    <3>1. \A b \in B \ A : 1..count[b] = {}
      OBVIOUS
    <3> QED
      BY <3>1
  <2> QED
    BY <2>1
<1> QED
  BY <1>1 DEF Total

(* What the pipeline of c counts up to age m: the ages it does not prune. *)
Kept(c, m) == IF m < stamp[c] + Window THEN m ELSE stamp[c] + Window - 1

LEMMA KeptTypes ==
    ASSUME LimiterInv, NEW c \in Clients, pc[c] = "stamped", NEW m \in 0..(MaxAge - 1)
    PROVE  /\ stamp[c] \in 0..MaxDelay /\ stamp[c] < MaxAge
           /\ Kept(c, m) \in 0..(MaxAge - 1) /\ Kept(c, m) <= m
           /\ stamp[c] <= m <=> stamp[c] <= Kept(c, m)
           /\ \A a \in 0..m : a \in Pruned(c) <=> ~(a <= Kept(c, m))
<1>1. stamp[c] \in 0..MaxDelay
  BY DEF LimiterInv, TypeOK, StampFacts
<1> QED
  BY <1>1 DEF Kept, Pruned, Ages, MaxAge

LEMMA PipelineCounts ==
    ASSUME LimiterInv, NEW c \in Clients, pc[c] = "stamped", Pipeline(c),
           NEW m \in 0..(MaxAge - 1)
    PROVE  Total(zset', 0..m) = Total(zset, 0..Kept(c, m)) + (IF stamp[c] <= m THEN 1 ELSE 0)
<1> DEFINE k    == Kept(c, m)
           kept == [a \in Ages |-> IF a \in Pruned(c) THEN 0 ELSE zset[a]]
<1>0. /\ TypeOK /\ m \in Int /\ m < MaxAge /\ stamp[c] \in 0..MaxDelay
      /\ k \in Int /\ k < MaxAge /\ k <= m
      /\ \A a \in 0..m : a \in Pruned(c) <=> ~(a <= k)
  BY KeptTypes, AgeTypes DEF LimiterInv
<1> HIDE DEF k
<1>1. /\ IsFiniteSet(0..m) /\ 0..k \subseteq 0..m
      /\ \A a \in 0..m : a \in Ages /\ zset[a] \in Nat
  BY <1>0, Within
<1>2. /\ \A a \in 0..k : kept[a] = zset[a]
      /\ \A a \in (0..m) \ (0..k) : kept[a] = 0
      /\ \A a \in 0..m : kept[a] \in Nat
  BY <1>0, <1>1
<1>3. \A a \in 0..m : zset'[a] = kept[a] + (IF a = stamp[c] THEN 1 ELSE 0)
  BY <1>1 DEF Pipeline
<1> HIDE DEF kept
<1>4. Total(kept, 0..m) = Total(zset, 0..k)
  <2>1. Total(kept, 0..m) = Total(kept, 0..k)
    BY <1>1, <1>2, TotalTail
  <2>2. Total(kept, 0..k) = Total(zset, 0..k)
    BY <1>2, TotalAgrees
  <2> QED
    BY <2>1, <2>2
<1>5. CASE stamp[c] <= m
  <2>1. stamp[c] \in 0..m
    BY <1>0, <1>5
  <2>2. /\ zset'[stamp[c]] = kept[stamp[c]] + 1
        /\ \A a \in (0..m) \ {stamp[c]} : zset'[a] = kept[a]
    BY <1>2, <1>3, <2>1
  <2>3. Total(zset', 0..m) = Total(kept, 0..m) + 1
    BY <1>1, <1>2, <2>1, <2>2, TotalAdd
  <2> QED
    BY <1>4, <1>5, <2>3 DEF k
<1>6. CASE ~(stamp[c] <= m)
  <2>1. \A a \in 0..m : zset'[a] = kept[a]
    BY <1>0, <1>2, <1>3, <1>6
  <2>2. Total(zset', 0..m) = Total(kept, 0..m)
    BY <2>1, TotalAgrees
  <2>3. Total(zset, 0..k) \in Nat
    BY <1>0, Within
  <2> QED
    BY <1>4, <1>6, <2>2, <2>3 DEF k
<1> QED
  BY <1>5, <1>6

LEMMA PipelineLeaves ==
    ASSUME LimiterInv, NEW c \in Clients, pc[c] = "stamped", Pipeline(c),
           \A d \in Clients \ {c} : pc'[d] = pc[d],
           NEW m \in 0..(MaxAge - 1)
    PROVE  Cardinality(RejectedUpTo(m)') = Cardinality(RejectedUpTo(Kept(c, m)))
             + (IF pc'[c] = "rejected" /\ stamp[c] <= m THEN 1 ELSE 0)
<1> DEFINE k == Kept(c, m)
<1>1. /\ stamp'[c] = stamp[c] /\ stamp \in [Clients -> 0..Gone]
      /\ \A d \in Clients : pc[d] = "rejected" =>
            stamp'[d] = IF stamp[d] \in Pruned(c) THEN Gone ELSE stamp[d]
  BY PipelineTypes DEF Pipeline, LimiterInv, TypeOK
<1>2. /\ k \in 0..(MaxAge - 1) /\ k <= m /\ ~(Gone <= m) /\ Gone \in Nat
      /\ \A a \in 0..m : a \in Pruned(c) <=> ~(a <= k)
  BY KeptTypes, AgeTypes DEF Gone
<1> HIDE DEF k
<1>3. \A d \in Clients : pc[d] = "rejected" => (stamp'[d] <= m <=> stamp[d] <= k)
  <2> SUFFICES ASSUME NEW d \in Clients, pc[d] = "rejected"
               PROVE  stamp'[d] <= m <=> stamp[d] <= k
    OBVIOUS
  <2>1. stamp[d] \in 0..Gone
    BY <1>1
  <2>2. CASE stamp[d] \in 0..m
    BY <1>1, <1>2, <2>2
  <2>3. CASE ~(stamp[d] <= m)
    BY <1>1, <1>2, <2>1, <2>3
  <2> QED
    BY <2>1, <2>2, <2>3
<1>4. /\ IsFiniteSet(RejectedUpTo(k)) /\ Cardinality(RejectedUpTo(k)) \in Nat
      /\ c \notin RejectedUpTo(k)
  BY RejectedCounts DEF RejectedUpTo
<1>5. CASE pc'[c] = "rejected" /\ stamp[c] <= m
  <2>1. RejectedUpTo(m)' = RejectedUpTo(k) \cup {c}
    BY <1>1, <1>3, <1>5 DEF RejectedUpTo
  <2> QED
    BY <1>4, <1>5, <2>1, FS_AddElement DEF k
<1>6. CASE ~(pc'[c] = "rejected" /\ stamp[c] <= m)
  <2>1. RejectedUpTo(m)' = RejectedUpTo(k)
    BY <1>1, <1>3, <1>6 DEF RejectedUpTo
  <2> QED
    BY <1>4, <1>6, <2>1 DEF k
<1> QED
  BY <1>5, <1>6

(* A pipeline adds a member for the request it admits or rejects, or one for its error. *)
LEMMA PipelineCover ==
    ASSUME CoverInv, NEW c \in Clients, pc[c] = "stamped", Pipeline(c),
           Admit(c) \/ Reject(c) \/ PipelineFails(c)
    PROVE  CoverFacts'
<1>0. /\ LimiterInv /\ TypeOK /\ LimiterInv' /\ TypeOK'
      /\ pc \in [Clients -> {"idle", "stamped", "rejected"}]
      /\ MaxAge \in Nat /\ 0 \in Ages
  BY LimiterStep, AgeTypes DEF CoverInv, LimiterInv, TypeOK, Step
<1>1. /\ \A d \in Clients \ {c} : pc'[d] = pc[d]
      /\ pc'[c] = IF Reject(c) THEN "rejected" ELSE "idle"
  <2>1. CASE Admit(c)
    <3>1. ~Reject(c)
      BY <1>0, <2>1 DEF Admit, Reject, Goto
    <3> QED
      BY <1>0, <2>1, <3>1 DEF Admit, Goto
  <2>2. CASE Reject(c)
    BY <1>0, <2>2 DEF Reject, Goto
  <2>3. CASE PipelineFails(c)
    <3>1. ~Reject(c)
      BY <1>0, <2>3 DEF PipelineFails, Reject, Goto
    <3> QED
      BY <1>0, <2>3, <3>1 DEF PipelineFails, Goto
  <2> QED
    BY <2>1, <2>2, <2>3
<1> SUFFICES ASSUME NEW m \in 0..(MaxAge - 1)
             PROVE  Total(zset', 0..m)
                      <= Total(admitted', 0..m) + Cardinality(RejectedUpTo(m)') + faults'
  BY DEF CoverFacts
<1> DEFINE k == Kept(c, m)
           e == IF stamp[c] <= m THEN 1 ELSE 0
           R == Cardinality(RejectedUpTo(k))
<1>2. k \in 0..(MaxAge - 1) /\ k <= m /\ m \in Int /\ m < MaxAge /\ k \in Int /\ k < MaxAge
  BY <1>0, KeptTypes
<1>3. Total(zset', 0..m) = Total(zset, 0..k) + e
  BY <1>0, PipelineCounts
<1>4. Cardinality(RejectedUpTo(m)')
        = R + (IF pc'[c] = "rejected" /\ stamp[c] <= m THEN 1 ELSE 0)
  BY <1>0, <1>1, PipelineLeaves
<1> HIDE DEF k
<1>5. Total(zset, 0..k) <= Total(admitted, 0..k) + R + faults
  BY <1>2 DEF CoverInv, CoverFacts
<1>6. /\ Total(zset, 0..k) \in Nat /\ Total(admitted, 0..k) \in Nat /\ R \in Nat
      /\ Total(admitted, 0..m) \in Nat /\ faults \in Nat /\ e \in {0, 1}
  BY <1>0, <1>2, Within, RejectedCounts
<1>7. Total(admitted, 0..k) <= Total(admitted, 0..m)
  <2>1. 0..k \subseteq 0..m /\ IsFiniteSet(0..m) /\ \A a \in 0..m : admitted[a] \in Nat
    BY <1>0, <1>2, Within
  <2> QED
    BY <2>1, TotalMonotone
<1> HIDE DEF R
<1>8. CASE Admit(c)
  <2>1. admitted' = [admitted EXCEPT ![0] = admitted[0] + 1] /\ faults' = faults
    BY <1>8 DEF Admit
  <2>2. admitted \in [Ages -> Nat]
    BY <1>0 DEF TypeOK
  <2>3. /\ IsFiniteSet(0..m) /\ 0 \in 0..m
        /\ \A a \in 0..m : a \in Ages /\ admitted[a] \in Nat
    BY <1>0, <1>2, Within
  <2>4. admitted'[0] = admitted[0] + 1 /\ \A a \in (0..m) \ {0} : admitted'[a] = admitted[a]
    BY <1>0, <2>1, <2>2, <2>3
  <2>5. Total(admitted', 0..m) = Total(admitted, 0..m) + 1
    BY <2>3, <2>4, TotalAdd
  <2>6. Cardinality(RejectedUpTo(m)') = R \/ Cardinality(RejectedUpTo(m)') = R + 1
    BY <1>4, <1>6
  <2> QED
    BY <1>3, <1>5, <1>6, <1>7, <2>1, <2>5, <2>6
<1>9. CASE Reject(c)
  <2>1. admitted' = admitted /\ faults' = faults
    BY <1>9 DEF Reject
  <2>2. Cardinality(RejectedUpTo(m)') = R + e
    BY <1>1, <1>4, <1>9
  <2> QED
    BY <1>3, <1>5, <1>6, <1>7, <2>1, <2>2
<1>10. CASE PipelineFails(c)
  <2>1. admitted' = admitted /\ faults' = faults + 1
    BY <1>10 DEF PipelineFails
  <2>2. Cardinality(RejectedUpTo(m)') = R \/ Cardinality(RejectedUpTo(m)') = R + 1
    BY <1>4, <1>6
  <2> QED
    BY <1>3, <1>5, <1>6, <1>7, <2>1, <2>2
<1> QED
  BY <1>8, <1>9, <1>10

(* A removal takes one member and one rejected request. *)
LEMMA RemoveCover ==
    ASSUME CoverInv, NEW c \in Clients, RemoveRejected(c)
    PROVE  CoverFacts'
<1>0. /\ TypeOK /\ zset \in [Ages -> Nat] /\ zset' \in [Ages -> Nat]
      /\ admitted' = admitted /\ faults' = faults /\ stamp' = stamp
      /\ pc[c] = "rejected" /\ pc'[c] = "idle" /\ \A d \in Clients \ {c} : pc'[d] = pc[d]
      /\ stamp[c] \in 0..Gone /\ Gone = MaxAge + 1 /\ MaxAge \in Nat
  BY LimiterStep, AgeTypes DEF CoverInv, LimiterInv, TypeOK, RemoveRejected, Goto, Gone, Step
<1> SUFFICES ASSUME NEW m \in 0..(MaxAge - 1)
             PROVE  Total(zset', 0..m)
                      <= Total(admitted, 0..m) + Cardinality(RejectedUpTo(m)') + faults
  BY <1>0 DEF CoverFacts
<1>1. Total(zset, 0..m) <= Total(admitted, 0..m) + Cardinality(RejectedUpTo(m)) + faults
  BY DEF CoverInv, CoverFacts
<1>2. /\ Total(zset, 0..m) \in Nat /\ Total(admitted, 0..m) \in Nat /\ faults \in Nat
      /\ Cardinality(RejectedUpTo(m)) \in Nat /\ IsFiniteSet(RejectedUpTo(m))
  BY <1>0, Within, RejectedCounts
<1>3. IsFiniteSet(0..m) /\ \A a \in 0..m : a \in Ages /\ a # Gone /\ zset[a] \in Nat
  BY <1>0, Within
<1>4. RejectedUpTo(m)' = RejectedUpTo(m) \ {c}
  BY <1>0 DEF RejectedUpTo
<1>5. CASE stamp[c] <= m
  <2>1. stamp[c] \in 0..m /\ stamp[c] # Gone
    BY <1>0, <1>5
  <2>2. zset' = [zset EXCEPT ![stamp[c]] = zset[stamp[c]] - 1]
    BY <2>1 DEF RemoveRejected
  <2>3. /\ zset[stamp[c]] = zset'[stamp[c]] + 1
        /\ \A a \in (0..m) \ {stamp[c]} : zset[a] = zset'[a]
    BY <1>0, <1>3, <2>1, <2>2
  <2>4. \A a \in 0..m : zset'[a] \in Nat
    BY <1>0, <1>3
  <2>5. Total(zset, 0..m) = Total(zset', 0..m) + 1
    BY <1>3, <2>1, <2>3, <2>4, TotalAdd
  <2>6. Total(zset', 0..m) \in Nat
    BY <1>3, <2>4, TotalTypes
  <2>7. c \in RejectedUpTo(m)
    BY <1>0, <1>5 DEF RejectedUpTo
  <2>8. Cardinality(RejectedUpTo(m)') = Cardinality(RejectedUpTo(m)) - 1
    BY <1>2, <1>4, <2>7, FS_RemoveElement
  <2> QED
    BY <1>1, <1>2, <2>5, <2>6, <2>8
<1>6. CASE ~(stamp[c] <= m)
  <2>1. c \notin RejectedUpTo(m)
    BY <1>6 DEF RejectedUpTo
  <2>2. RejectedUpTo(m)' = RejectedUpTo(m)
    BY <1>4, <2>1
  <2>3. \A a \in 0..m : zset'[a] = zset[a]
    BY <1>0, <1>3, <1>6 DEF RemoveRejected
  <2>4. Total(zset', 0..m) = Total(zset, 0..m)
    BY <2>3, TotalAgrees
  <2> QED
    BY <1>1, <2>2, <2>4
<1> QED
  BY <1>5, <1>6

(* A step that leaves the set alone lets a rejected request go only by an error. *)
LEMMA QuietCover ==
    ASSUME CoverInv, UNCHANGED <<zset, admitted>>,
           \/ faults' = faults /\ \A m \in 0..(MaxAge - 1) : RejectedUpTo(m)' = RejectedUpTo(m)
           \/ /\ faults' = faults + 1
              /\ \E c \in Clients : \A m \in 0..(MaxAge - 1) :
                    RejectedUpTo(m)' = RejectedUpTo(m) \ {c}
    PROVE  CoverFacts'
<1> SUFFICES ASSUME NEW m \in 0..(MaxAge - 1)
             PROVE  Total(zset, 0..m)
                      <= Total(admitted, 0..m) + Cardinality(RejectedUpTo(m)') + faults'
  BY DEF CoverFacts
<1>1. Total(zset, 0..m) <= Total(admitted, 0..m) + Cardinality(RejectedUpTo(m)) + faults
  BY DEF CoverInv, CoverFacts
<1>2. TypeOK /\ m \in Int /\ m < MaxAge
  BY AgeTypes DEF CoverInv, LimiterInv
<1>3. /\ Total(zset, 0..m) \in Nat /\ Total(admitted, 0..m) \in Nat /\ faults \in Nat
      /\ Cardinality(RejectedUpTo(m)) \in Nat /\ IsFiniteSet(RejectedUpTo(m))
  BY <1>2, Within, RejectedCounts
<1>4. CASE faults' = faults /\ RejectedUpTo(m)' = RejectedUpTo(m)
  BY <1>1, <1>4
<1>5. ASSUME NEW c \in Clients, RejectedUpTo(m)' = RejectedUpTo(m) \ {c}, faults' = faults + 1
      PROVE  Total(zset, 0..m)
               <= Total(admitted, 0..m) + Cardinality(RejectedUpTo(m)') + faults'
  <2>1. \/ Cardinality(RejectedUpTo(m)') = Cardinality(RejectedUpTo(m)) - 1
        \/ Cardinality(RejectedUpTo(m)') = Cardinality(RejectedUpTo(m))
    BY <1>3, <1>5, FS_RemoveElement
  <2> QED
    BY <1>1, <1>3, <1>5, <2>1
<1> QED
  BY <1>4, <1>5

LEMMA CoverStep ==
    ASSUME CoverInv, NEW c \in Clients, Step(c)
    PROVE  CoverInv'
<1>0. LimiterInv'
  BY LimiterStep DEF CoverInv
<1>1. /\ pc \in [Clients -> {"idle", "stamped", "rejected"}] /\ stamp \in [Clients -> 0..Gone]
  BY DEF CoverInv, LimiterInv, TypeOK
<1>2. CASE ReadClock(c)
  <2>1. /\ UNCHANGED <<zset, admitted, faults>> /\ pc[c] # "rejected" /\ pc'[c] # "rejected"
        /\ \A d \in Clients \ {c} : pc'[d] = pc[d] /\ stamp'[d] = stamp[d]
    BY <1>1, <1>2 DEF ReadClock, Goto
  <2>2. \A m \in 0..(MaxAge - 1) : RejectedUpTo(m)' = RejectedUpTo(m)
    BY <2>1 DEF RejectedUpTo
  <2> QED
    BY <1>0, <2>1, <2>2, QuietCover DEF CoverInv
<1>3. CASE RemoveFails(c) \/ (PipelineFails(c) /\ UNCHANGED <<zset, keyLeft, stamp>>)
  <2>1. /\ UNCHANGED <<zset, admitted>> /\ faults' = faults + 1 /\ pc'[c] # "rejected"
        /\ \A d \in Clients \ {c} : pc'[d] = pc[d] /\ stamp'[d] = stamp[d]
    BY <1>1, <1>3 DEF RemoveFails, PipelineFails, Goto
  <2>2. \A m \in 0..(MaxAge - 1) : RejectedUpTo(m)' = RejectedUpTo(m) \ {c}
    BY <2>1 DEF RejectedUpTo
  <2> QED
    BY <1>0, <2>1, <2>2, QuietCover DEF CoverInv
<1>4. CASE pc[c] = "stamped" /\ Pipeline(c) /\ (Admit(c) \/ Reject(c) \/ PipelineFails(c))
  BY <1>0, <1>4, PipelineCover DEF CoverInv
<1>5. CASE RemoveRejected(c)
  BY <1>0, <1>5, RemoveCover DEF CoverInv
<1> QED
  BY <1>2, <1>3, <1>4, <1>5 DEF Step, Admit, Reject, PipelineFails

LEMMA CoverTick ==
    ASSUME CoverInv, Tick
    PROVE  CoverInv'
<1>0. /\ LimiterInv' /\ TypeOK /\ TypeOK' /\ faults' = faults
      /\ admitted \in [Ages -> Nat] /\ zset \in [Ages -> Nat] /\ faults \in Nat
      /\ pc \in [Clients -> {"idle", "stamped", "rejected"}] /\ pc' = pc
      /\ stamp \in [Clients -> 0..Gone] /\ MaxAge \in Nat /\ Gone = MaxAge + 1
  BY LimiterTick, AgeTypes DEF CoverInv, LimiterInv, TypeOK, Tick, Gone
<1>1. CoverFacts'
  <2> SUFFICES ASSUME NEW m \in 0..(MaxAge - 1)
               PROVE  Total(zset', 0..m)
                        <= Total(admitted', 0..m) + Cardinality(RejectedUpTo(m)') + faults
    BY <1>0 DEF CoverFacts
  <2>0. m \in Int /\ m < MaxAge /\ m - 1 \in Int /\ m - 1 < MaxAge
    BY <1>0
  <2>1. /\ IsFiniteSet(0..m) /\ \A a \in 0..m : a \in Ages /\ a # MaxAge
    BY <1>0, <2>0, Within
  <2>2. Total(admitted', 0..m) = Total(admitted, 0..(m - 1))
    <3>1. Older(admitted) \in [Ages -> Nat]
      BY <1>0 DEF Older, Ages
    <3>2. \A a \in 0..m : admitted'[a] = Older(admitted)[a]
      BY <2>1, <3>1 DEF Tick
    <3>3. Total(admitted', 0..m) = Total(Older(admitted), 0..m)
      BY <3>2, TotalAgrees
    <3> QED
      BY <1>0, <2>0, <3>3, TotalOlder
  <2>3. /\ Total(admitted, 0..(m - 1)) \in Nat /\ Total(zset, 0..(m - 1)) \in Nat
        /\ IsFiniteSet(RejectedUpTo(m)') /\ Cardinality(RejectedUpTo(m)') \in Nat
        /\ Cardinality(RejectedUpTo(m - 1)) \in Nat
    <3>1. RejectedUpTo(m)' \subseteq Clients
      BY DEF RejectedUpTo
    <3>2. IsFiniteSet(RejectedUpTo(m)')
      BY <3>1, FS_Subset
    <3> QED
      BY <1>0, <2>0, <3>2, Within, RejectedCounts, FS_CardinalityType
  <2>4. CASE KeyExpires
    <3>1. zset' = [a \in Ages |-> 0]
      BY <2>4 DEF Tick
    <3>2. Total(zset', 0..m) = 0
      BY <2>1, <3>1, TotalEmpty
    <3> QED
      BY <1>0, <2>2, <2>3, <3>2
  <2>5. CASE ~KeyExpires
    <3>1. Total(zset', 0..m) = Total(zset, 0..(m - 1))
      <4>1. zset' = Older(zset)
        BY <2>5 DEF Tick
      <4> QED
        BY <1>0, <2>0, <4>1, TotalOlder
    <3>2. RejectedUpTo(m - 1) \subseteq RejectedUpTo(m)'
      <4> SUFFICES ASSUME NEW c \in Clients, pc[c] = "rejected", stamp[c] <= m - 1
                   PROVE  stamp'[c] <= m
        BY <1>0 DEF RejectedUpTo
      <4>1. stamp[c] \in 0..Gone
        BY <1>0
      <4>2. stamp'[c] = stamp[c] + 1
        BY <1>0, <2>0, <2>5, <4>1 DEF Tick
      <4> QED
        BY <2>0, <4>1, <4>2
    <3>3. Cardinality(RejectedUpTo(m - 1)) <= Cardinality(RejectedUpTo(m)')
      BY <2>3, <3>2, FS_Subset
    <3>4. CASE m = 0
      <4>1. 0..(m - 1) = {}
        BY <3>4
      <4>2. Total(zset, 0..(m - 1)) = 0
        BY <4>1, TotalEmpty
      <4> QED
        BY <1>0, <2>2, <2>3, <3>1, <4>2
    <3>5. CASE m # 0
      <4>1. m - 1 \in 0..(MaxAge - 1)
        BY <1>0, <3>5
      <4>2. Total(zset, 0..(m - 1))
              <= Total(admitted, 0..(m - 1)) + Cardinality(RejectedUpTo(m - 1)) + faults
        BY <4>1 DEF CoverInv, CoverFacts
      <4> QED
        BY <1>0, <2>2, <2>3, <3>1, <3>3, <4>2
    <3> QED
      BY <3>4, <3>5
  <2> QED
    BY <2>4, <2>5
<1> QED
  BY <1>0, <1>1 DEF CoverInv

LEMMA CoverInductive == Spec => []CoverInv
<1>1. Init => CoverInv
  <2> SUFFICES ASSUME Init PROVE CoverInv
    OBVIOUS
  <2>1. LimiterInv /\ TypeOK /\ MaxAge \in Nat
    BY InitLimiter, AgeTypes DEF LimiterInv
  <2> SUFFICES ASSUME NEW m \in 0..(MaxAge - 1)
               PROVE  Total(zset, 0..m)
                        <= Total(admitted, 0..m) + Cardinality(RejectedUpTo(m)) + faults
    BY <2>1 DEF CoverInv, CoverFacts
  <2>2. /\ Total(admitted, 0..m) \in Nat /\ faults \in Nat /\ \A a \in 0..m : a \in Ages
        /\ Cardinality(RejectedUpTo(m)) \in Nat
    BY <2>1, Within, RejectedCounts
  <2>3. \A a \in 0..m : zset[a] = 0
    BY <2>2 DEF Init
  <2>4. Total(zset, 0..m) = 0
    BY <2>3, TotalEmpty
  <2> QED
    BY <2>2, <2>4
<1>2. CoverInv /\ [Next]_vars => CoverInv'
  <2> SUFFICES ASSUME CoverInv, [Next]_vars PROVE CoverInv'
    OBVIOUS
  <2>1. CASE UNCHANGED vars
    <3>1. LimiterInv'
      BY <2>1, LimiterUnchanged DEF CoverInv
    <3>2. /\ UNCHANGED <<zset, admitted, faults>>
          /\ \A m \in 0..(MaxAge - 1) : RejectedUpTo(m)' = RejectedUpTo(m)
      BY <2>1 DEF vars, RejectedUpTo
    <3> QED
      BY <3>1, <3>2, QuietCover DEF CoverInv
  <2> QED
    BY <2>1, CoverStep, CoverTick DEF Next
<1> QED
  BY <1>1, <1>2, PTL DEF Spec

(* For any number of clients, any limit and window, and whatever fails: as many requests as
   the limit were admitted within the window of who is rejected or since, up to the members
   of rejected requests still to be removed and one for each error. *)
THEOREM RejectionsHaveReasons == Spec => RejectedOnlyWhenFull
<1> DEFINE Full == \A c \in Clients :
                     pc[c] = "stamped" /\ pc'[c] = "rejected" =>
                         Total(admitted, 0..(stamp[c] + Window - 1))
                           + Cardinality({d \in Clients : pc[d] = "rejected"}) + faults >= Limit
<1>1. CoverInv /\ [Next]_vars => [Full]_vars
  <2> SUFFICES ASSUME CoverInv, [Next]_vars, NEW c \in Clients,
                      pc[c] = "stamped", pc'[c] = "rejected"
               PROVE  Total(admitted, 0..(stamp[c] + Window - 1))
                        + Cardinality({d \in Clients : pc[d] = "rejected"}) + faults >= Limit
    BY Zenon
  <2>0. /\ LimiterInv /\ TypeOK /\ pc \in [Clients -> {"idle", "stamped", "rejected"}]
        /\ stamp[c] \in 0..MaxDelay /\ MaxAge \in Nat
    BY AgeTypes DEF CoverInv, LimiterInv, TypeOK, StampFacts
  <2>1. Reject(c)
    <3>1. PICK d \in Clients : Step(d)
      BY DEF Next, vars, Tick
    <3>2. d = c
      BY <2>0, <3>1 DEF Step, ReadClock, Admit, Reject, PipelineFails, RemoveRejected,
                        RemoveFails, Goto
    <3> QED
      BY <2>0, <3>1, <3>2 DEF Step, ReadClock, Admit, PipelineFails, RemoveRejected,
                              RemoveFails, Goto
  <2> DEFINE m    == stamp[c] + Window - 1
             Wait == {d \in Clients : pc[d] = "rejected"}
  <2>2. m \in 0..(MaxAge - 1) /\ m \in Int /\ m < MaxAge
    BY <2>0 DEF MaxAge
  <2>3. Ages \ Pruned(c) = 0..m
    BY <2>0, <2>2 DEF Ages, Pruned
  <2> HIDE DEF m
  <2>4. Total(zset, 0..m) >= Limit
    BY <2>1, <2>3 DEF Reject, Counted
  <2>5. Total(zset, 0..m) <= Total(admitted, 0..m) + Cardinality(RejectedUpTo(m)) + faults
    BY <2>2 DEF CoverInv, CoverFacts
  <2>6. Cardinality(RejectedUpTo(m)) <= Cardinality(Wait) /\ Cardinality(Wait) \in Nat
    <3>1. Wait \subseteq Clients /\ RejectedUpTo(m) \subseteq Wait
      BY DEF RejectedUpTo
    <3>2. IsFiniteSet(Wait)
      BY <3>1, FS_Subset
    <3> QED
      BY <3>1, <3>2, FS_Subset, FS_CardinalityType
  <2>7. /\ Total(zset, 0..m) \in Nat /\ Total(admitted, 0..m) \in Nat /\ faults \in Nat
        /\ Cardinality(RejectedUpTo(m)) \in Nat
    BY <2>0, <2>2, Within, RejectedCounts
  <2>8. Total(admitted, 0..m) + Cardinality(Wait) + faults >= Limit
    <3> HIDE DEF Wait
    <3> QED
      BY <2>4, <2>5, <2>6, <2>7
  <2> QED
    BY <2>8 DEF m
<1> QED
  BY <1>1, CoverInductive, PTL DEF Spec, RejectedOnlyWhenFull
=============================================================================
