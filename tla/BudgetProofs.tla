---------------------------- MODULE BudgetProofs ----------------------------
(* Proofs about Budget for any set of clients, any limit, any TTL and delays, and any
   number of days, rows in flight and errors. *)
EXTENDS Budget, TLAPS

USE LimitAssumption, DelayAssumption, BoundAssumption

LEMMA SpanType == /\ Span \in Nat
                  /\ ViewPeriod + MaxDelay \in 0..Span
                  /\ ViewPeriod \in 0..Span
                  /\ 0 \in 0..Span
  BY DEF Span

LEMMA Zeros == 0 \in Days /\ 0 \in Spend /\ 0 \in 0..MaxDelay /\ Limit \in Spend
  BY DEF Days, Spend

-----------------------------------------------------------------------------
(* Type correctness *)

LEMMA TypeInit == Init => TypeOK
  BY SpanType DEF Init, TypeOK, Days, Spend, NoRow, Absent, Stages

LEMMA CheckType ==
    ASSUME TypeOK, NEW c \in Clients, Step(c)
    PROVE  TypeOK'
<1> USE Zeros DEF Goto, Return, Stages
<1>1. CASE CheckBudget(c)
  BY <1>1 DEF CheckBudget, TypeOK
<1>2. CASE CacheHit(c)
  BY <1>2 DEF CacheHit, Decide, TypeOK
<1>3. CASE CacheMiss(c) \/ NoViewRow(c) \/ SumFails(c)
  <2>1. faults' \in 0..MaxFaults
    BY <1>3 DEF CacheMiss, NoViewRow, SumFails, Fault, TypeOK
  <2>2. UNCHANGED <<found, late, day, cached, total, view, viewAge, pending, past>>
    BY <1>3 DEF CacheMiss, NoViewRow, SumFails
  <2>3. pc' \in [Clients -> Stages] /\ today' \in [Clients -> Days]
    BY <1>3 DEF CacheMiss, NoViewRow, SumFails, TypeOK
  <2> QED
    BY <2>1, <2>2, <2>3 DEF TypeOK
<1>4. CASE ViewRow(c) \/ SumLogs(c)
  <2>1. PICK spent \in Spend : Read(c, spent)
    BY <1>4 DEF ViewRow, SumLogs, NoRow, Spend, TypeOK
  <2>2. UNCHANGED <<today, day, cached, total, view, viewAge, pending, past, faults>>
    BY <1>4 DEF ViewRow, SumLogs
  <2>3. /\ pc' \in [Clients -> Stages] /\ found' \in [Clients -> Spend]
        /\ late' \in [Clients -> 0..MaxDelay]
    BY <2>1 DEF Read, TypeOK
  <2> QED
    BY <2>2, <2>3 DEF TypeOK
<1>5. CASE StoreSpend(c)
  <2>1. [value |-> found[c], left |-> CacheTTL] \in [value: Spend, left: 0..CacheTTL]
    BY DEF TypeOK
  <2>2. cached' \in [Days -> [value: Spend, left: 0..CacheTTL]]
    BY <1>5, <2>1 DEF StoreSpend, CacheSpend, TypeOK
  <2>3. faults' \in 0..MaxFaults
    BY <1>5 DEF StoreSpend, Fault, TypeOK
  <2>4. UNCHANGED <<today, day, total, view, viewAge, pending, past>>
    BY <1>5 DEF StoreSpend
  <2>5. /\ pc' \in [Clients -> Stages] /\ found' \in [Clients -> Spend]
        /\ late' \in [Clients -> 0..MaxDelay]
    BY <1>5 DEF StoreSpend, Decide, TypeOK
  <2> QED
    BY <2>2, <2>3, <2>4, <2>5 DEF TypeOK
<1>6. CASE Refuse(c) \/ ServeFree(c) \/ ServeCharged(c)
  <2>1. pending' \in 0..MaxPending
    BY <1>6 DEF Refuse, ServeFree, ServeCharged, TypeOK
  <2>2. UNCHANGED <<found, late, day, cached, total, view, viewAge, past, faults>>
    BY <1>6 DEF Refuse, ServeFree, ServeCharged
  <2>3. pc' \in [Clients -> Stages] /\ today' \in [Clients -> Days]
    BY <1>6 DEF Refuse, ServeFree, ServeCharged, TypeOK
  <2> QED
    BY <2>1, <2>2, <2>3 DEF TypeOK
<1> QED
  BY <1>1, <1>2, <1>3, <1>4, <1>5, <1>6 DEF Step

LEMMA TickType == TypeOK /\ Tick => TypeOK'
<1> SUFFICES ASSUME TypeOK, Tick PROVE TypeOK'
  OBVIOUS
<1>1. late' \in [Clients -> 0..MaxDelay]
  BY DEF Tick, TypeOK
<1>2. cached' \in [Days -> [value: Spend, left: 0..CacheTTL]]
  <2> SUFFICES ASSUME NEW d \in Days
               PROVE  (IF cached[d].left > 1 THEN [cached[d] EXCEPT !.left = @ - 1] ELSE Absent)
                          \in [value: Spend, left: 0..CacheTTL]
    BY DEF Tick
  <2>1. cached[d] \in [value: Spend, left: 0..CacheTTL]
    BY DEF TypeOK
  <2> QED
    BY <2>1 DEF Absent, Spend
<1>3. viewAge' \in 0..ViewPeriod
  BY DEF Tick, TypeOK
<1>4. past' \in [0..Span -> Spend]
  <2> SUFFICES ASSUME NEW a \in 0..Span
               PROVE  (IF a = 0 THEN total[day] ELSE past[a - 1]) \in Spend
    BY DEF Tick
  <2>1. a # 0 => a - 1 \in 0..Span
    BY SpanType
  <2> QED
    BY <2>1 DEF TypeOK
<1> QED
  BY <1>1, <1>2, <1>3, <1>4 DEF Tick, TypeOK

LEMMA TypeNext == TypeOK /\ [Next]_vars => TypeOK'
<1> SUFFICES ASSUME TypeOK, [Next]_vars PROVE TypeOK'
  OBVIOUS
<1>1. CASE UNCHANGED vars
  BY <1>1 DEF vars, checkVars, TypeOK
<1>2. CASE InsertLog
  BY <1>2 DEF InsertLog, checkVars, Spend, TypeOK
<1>3. CASE LogLost
  BY <1>3 DEF LogLost, Fault, checkVars, TypeOK
<1>4. CASE RefreshView
  BY <1>4 DEF RefreshView, checkVars, Spend, NoRow, TypeOK
<1>5. CASE Midnight
  BY <1>5 DEF Midnight, checkVars, Days, Spend, NoRow, TypeOK
<1> QED
  BY <1>1, <1>2, <1>3, <1>4, <1>5, CheckType, TickType DEF Next, Log

(* Type correctness of the budget, for all constants. *)
THEOREM TypeCorrect == Spec => []TypeOK
  BY TypeInit, TypeNext, PTL DEF Spec

-----------------------------------------------------------------------------
(* Who is refused *)

SpentSince(d) == \E e \in Days : e >= d /\ total[e] >= Limit

(* A spend that reaches the limit, wherever it waits to be compared, was reached on the
   day whose budget it stands for or later. *)
SpentFacts ==
    /\ \A c \in Clients : today[c] <= day
    /\ view # NoRow => view <= total[day]
    /\ \A c \in Clients : pc[c] = "store" /\ found[c] >= Limit => SpentSince(today[c])
    /\ \A d \in Days : cached[d].left > 0 /\ cached[d].value >= Limit => SpentSince(d)
    /\ RefusedOnlySpent

LEMMA SpentInit == Init => SpentFacts
  BY DEF Init, SpentFacts, RefusedOnlySpent, Absent, Days

(* What is spent stays spent. *)
LEMMA SpentStays ==
    ASSUME TypeOK, [Next]_vars
    PROVE  /\ \A d \in Days : total'[d] >= total[d]
           /\ \A d \in Days : SpentSince(d) => SpentSince(d)'
<1>1. UNCHANGED total \/ InsertLog
  BY DEF Next, vars, Step, CheckBudget, CacheHit, CacheMiss, ViewRow, NoViewRow, SumLogs,
         SumFails, StoreSpend, Refuse, ServeCharged, ServeFree, Log, LogLost, RefreshView,
         Midnight, Tick
<1>2. \A d \in Days : total'[d] >= total[d]
  <2>1. CASE UNCHANGED total
    BY <2>1 DEF TypeOK, Spend
  <2>2. CASE InsertLog
    <3>1. \A d \in Days : total[d] \in 0..Limit /\ day \in Days
      BY DEF TypeOK, Spend
    <3>2. \A d \in Days : total'[d] = IF d # day THEN total[d]
                                    ELSE IF total[d] < Limit THEN total[d] + 1 ELSE Limit
      BY <2>2 DEF InsertLog, TypeOK
    <3> QED
      BY <3>1, <3>2
  <2> QED
    BY <1>1, <2>1, <2>2
<1>3. \A d \in Days : total[d] \in Nat /\ total'[d] \in Nat
  BY TypeNext DEF TypeOK, Spend
<1> QED
  BY <1>2, <1>3 DEF SpentSince

(* So it is enough that a step keeps the facts with respect to what is spent before it. *)
LEMMA SpentStep ==
    ASSUME TypeOK, [Next]_vars,
           \A q \in Clients : today'[q] <= day',
           view' # NoRow => view' <= total'[day'],
           \A q \in Clients : pc'[q] = "store" /\ found'[q] >= Limit => SpentSince(today'[q]),
           \A q \in Clients : pc'[q] = "refused" => SpentSince(today'[q]),
           \A d \in Days : cached'[d].left > 0 /\ cached'[d].value >= Limit => SpentSince(d)
    PROVE  SpentFacts'
<1>1. TypeOK'
  BY TypeNext
<1>2. \A q \in Clients : today'[q] \in Days
  BY <1>1 DEF TypeOK
<1>3. \A d \in Days : SpentSince(d) => \E e \in Days : e >= d /\ total'[e] >= Limit
  BY SpentStays DEF SpentSince
<1> QED
  BY <1>2, <1>3 DEF SpentFacts, SpentSince, RefusedOnlySpent

LEMMA SpentCheck ==
    ASSUME TypeOK, SpentFacts, NEW c \in Clients, Step(c)
    PROVE  SpentFacts'
<1> USE DEF Goto, Return
<1>0. /\ [Next]_vars
      /\ \A q \in Clients : pc[q] = "refused" => SpentSince(today[q])
      /\ \A q \in Clients : today[q] \in Days
      /\ day \in Days /\ day \in Nat
  BY DEF Next, SpentFacts, RefusedOnlySpent, SpentSince, TypeOK, Days
<1>1. CASE CheckBudget(c)
  BY <1>0, <1>1, SpentStep DEF CheckBudget, SpentFacts, TypeOK
<1>2. CASE CacheHit(c)
  <2>1. cached[today[c]].value >= Limit => SpentSince(today[c])
    BY <1>0, <1>2 DEF CacheHit, SpentFacts
  <2> QED
    BY <1>0, <1>2, <2>1, SpentStep DEF CacheHit, Decide, SpentFacts, TypeOK
<1>3. CASE CacheMiss(c) \/ NoViewRow(c)
  <2>1. \A q \in Clients : pc'[q] \in {"store", "refused"} => pc'[q] = pc[q]
    BY <1>3 DEF CacheMiss, NoViewRow, TypeOK
  <2>2. UNCHANGED <<today, found, day, cached, total, view>>
    BY <1>3 DEF CacheMiss, NoViewRow
  <2> QED
    BY <1>0, <2>1, <2>2, SpentStep DEF SpentFacts
<1>4. CASE ViewRow(c) \/ SumLogs(c)
  <2>1. PICK spent : Read(c, spent) /\ ((spent = view /\ view # NoRow) \/ spent = total[day])
    BY <1>4 DEF ViewRow, SumLogs
  <2>2. spent >= Limit => total[day] >= Limit
    BY <1>0, <2>1 DEF SpentFacts, TypeOK, NoRow, Spend
  <2>3. spent >= Limit => SpentSince(today[c])
    BY <1>0, <2>2 DEF SpentSince, SpentFacts, Days
  <2>4. UNCHANGED <<today, day, cached, total, view>>
    BY <1>4 DEF ViewRow, SumLogs
  <2>5. \A q \in Clients :
            /\ pc'[q] = "store" => q = c \/ (pc[q] = "store" /\ found'[q] = found[q])
            /\ pc'[q] = "refused" => pc[q] = "refused"
            /\ found'[c] = spent
    BY <2>1 DEF Read, TypeOK
  <2> QED
    BY <1>0, <2>3, <2>4, <2>5, SpentStep DEF SpentFacts
<1>5. CASE StoreSpend(c)
  <2>1. found[c] >= Limit => SpentSince(today[c])
    BY <1>5 DEF StoreSpend, SpentFacts
  <2>2. UNCHANGED <<today, day, total, view>>
    BY <1>5 DEF StoreSpend
  <2>3. \A q \in Clients :
            /\ pc'[q] = "store" => pc[q] = "store" /\ found'[q] = found[q]
            /\ pc'[q] = "refused" => pc[q] = "refused" \/ (q = c /\ found[c] >= Limit)
    BY <1>5 DEF StoreSpend, Decide, TypeOK
  <2>4. \A d \in Days : cached'[d] = cached[d] \/ (d = today[c] /\ cached'[d].value = found[c])
    BY <1>5 DEF StoreSpend, CacheSpend, TypeOK
  <2> QED
    BY <1>0, <2>1, <2>2, <2>3, <2>4, SpentStep DEF SpentFacts
<1>6. CASE SumFails(c) \/ Refuse(c) \/ ServeCharged(c) \/ ServeFree(c)
  <2>1. UNCHANGED <<found, day, cached, total, view>> /\ Return(c)
    BY <1>6 DEF SumFails, Refuse, ServeCharged, ServeFree
  <2>2. \A q \in Clients : IF q = c THEN pc'[q] = "idle" /\ today'[q] = 0
                           ELSE pc'[q] = pc[q] /\ today'[q] = today[q]
    BY <2>1 DEF TypeOK
  <2>3. \A q \in Clients :
            /\ today'[q] <= day'
            /\ pc'[q] = "store" /\ found'[q] >= Limit => SpentSince(today'[q])
            /\ pc'[q] = "refused" => SpentSince(today'[q])
    BY <1>0, <2>1, <2>2 DEF SpentFacts
  <2> QED
    BY <1>0, <2>1, <2>2, <2>3, SpentStep DEF SpentFacts
<1> QED
  BY <1>1, <1>2, <1>3, <1>4, <1>5, <1>6 DEF Step

LEMMA SpentNext == TypeOK /\ SpentFacts /\ [Next]_vars => SpentFacts'
<1> SUFFICES ASSUME TypeOK, SpentFacts, [Next]_vars PROVE SpentFacts'
  OBVIOUS
<1>0. /\ \A q \in Clients : pc[q] = "refused" => SpentSince(today[q])
      /\ \A q \in Clients : today[q] \in Days /\ today[q] \in Nat
      /\ day \in Days /\ day \in Nat
  BY DEF SpentFacts, RefusedOnlySpent, SpentSince, TypeOK, Days
<1>1. CASE UNCHANGED vars \/ LogLost
  BY <1>0, <1>1, SpentStep DEF vars, checkVars, LogLost, SpentFacts
<1>2. CASE InsertLog
  <2>0. TypeOK'
    BY TypeNext
  <2>1. total'[day] >= total[day] /\ total'[day] \in Nat /\ total[day] \in Nat /\ view \in Nat
    <3>1. total[day] \in Nat /\ view \in Nat
      BY <1>0 DEF TypeOK, Spend, NoRow
    <3>2. total'[day] \in Nat
      BY <1>0, <2>0 DEF TypeOK, Spend
    <3> QED
      BY <1>0, <3>1, <3>2, SpentStays
  <2>2. view # NoRow => view <= total'[day]
    BY <2>1 DEF SpentFacts
  <2> QED
    BY <1>0, <1>2, <2>2, SpentStep DEF InsertLog, checkVars, SpentFacts
<1>3. CASE RefreshView
  <2>1. view' # NoRow => view' <= total[day]
    BY <1>0, <1>3 DEF RefreshView, TypeOK, Spend
  <2> QED
    BY <1>0, <1>3, <2>1, SpentStep DEF RefreshView, checkVars, SpentFacts
<1>4. CASE Midnight
  <2>1. \A q \in Clients : today'[q] <= day'
    BY <1>0, <1>4 DEF Midnight, checkVars, SpentFacts
  <2> QED
    BY <1>0, <1>4, <2>1, SpentStep DEF Midnight, checkVars, SpentFacts
<1>5. CASE Tick
  <2>1. \A d \in Days : cached'[d].left > 0 => cached[d].left > 0 /\ cached'[d].value = cached[d].value
    <3> SUFFICES ASSUME NEW d \in Days, cached'[d].left > 0
                 PROVE  cached[d].left > 0 /\ cached'[d].value = cached[d].value
      OBVIOUS
    <3>1. cached[d] \in [value: Spend, left: 0..CacheTTL]
      BY DEF TypeOK
    <3>2. cached[d].left > 1 /\ cached'[d] = [cached[d] EXCEPT !.left = @ - 1]
      BY <1>5 DEF Tick, Absent
    <3> QED
      BY <3>1, <3>2
  <2> QED
    BY <1>0, <1>5, <2>1, SpentStep DEF Tick, SpentFacts
<1> QED
  BY <1>1, <1>2, <1>3, <1>4, <1>5, SpentCheck DEF Next, Log

(* Nobody is refused before the limit is reached, for any number of days, whatever is
   cached, late or broken. *)
THEOREM RefusedOnlySpentHolds == Spec => []RefusedOnlySpent
<1>1. SpentFacts => RefusedOnlySpent
  BY DEF SpentFacts
<1> QED
  BY <1>1, TypeInit, TypeNext, SpentInit, SpentNext, PTL DEF Spec

-----------------------------------------------------------------------------
(* How old a spend can be when it is compared *)

(* Along a day the spend grows, and every copy of it is younger than its place on the way
   from the view to the comparison allows. *)
AgeFacts ==
    /\ \A a, b \in 0..Span : a <= b => past[b] <= past[a]
    /\ \A a \in 0..Span : past[a] <= total[day]
    /\ view # NoRow => past[viewAge] <= view
    /\ \A c \in Clients : pc[c] = "store" => past[late[c] + ViewPeriod] <= found[c]
    /\ \A d \in Days : cached[d].left > 0 =>
           past[CacheTTL - cached[d].left + MaxDelay + ViewPeriod] <= cached[d].value

LEMMA AgeTypes ==
    ASSUME TypeOK
    PROVE  /\ viewAge \in 0..Span
           /\ \A c \in Clients : late[c] \in Nat /\ late[c] + ViewPeriod \in 0..Span
           /\ \A d \in Days : cached[d].left \in Nat /\ (cached[d].left > 0 =>
                  CacheTTL - cached[d].left + MaxDelay + ViewPeriod \in 0..Span)
           /\ \A a \in 0..Span : past[a] \in 0..Limit
           /\ \A d \in Days : total[d] \in 0..Limit /\ cached[d].value \in 0..Limit
           /\ \A c \in Clients : found[c] \in 0..Limit
           /\ day \in Days
<1>1. viewAge \in 0..Span
  BY SpanType DEF TypeOK, Span
<1>2. \A c \in Clients : late[c] \in Nat /\ late[c] + ViewPeriod \in 0..Span
  BY DEF TypeOK, Span
<1>3. \A d \in Days : cached[d] \in [value: Spend, left: 0..CacheTTL]
  BY DEF TypeOK
<1>4. \A d \in Days : cached[d].left \in 0..CacheTTL /\ cached[d].value \in 0..Limit
  BY <1>3 DEF Spend
<1>5. \A d \in Days : cached[d].left > 0 =>
                     CacheTTL - cached[d].left + MaxDelay + ViewPeriod \in 0..Span
  BY <1>4 DEF Span
<1>6. \A a \in 0..Span : past[a] \in 0..Limit
  BY DEF TypeOK, Spend
<1>7. /\ \A d \in Days : total[d] \in 0..Limit
      /\ \A c \in Clients : found[c] \in 0..Limit
      /\ day \in Days
  BY DEF TypeOK, Spend
<1> QED
  BY <1>1, <1>2, <1>4, <1>5, <1>6, <1>7

LEMMA AgeInit == Init => AgeFacts
<1> SUFFICES ASSUME Init PROVE AgeFacts
  OBVIOUS
<1>1. \A a \in 0..Span : past[a] = 0
  BY DEF Init
<1>2. 0 \in Days /\ total[day] = 0
  BY Zeros DEF Init
<1>3. view = NoRow /\ (\A c \in Clients : pc[c] # "store")
  BY DEF Init
<1>4. \A d \in Days : cached[d].left = 0
  BY DEF Init, Absent
<1> QED
  BY <1>1, <1>2, <1>3, <1>4 DEF AgeFacts

(* A step within a day and a unit of time. *)
LEMMA AgeStep ==
    ASSUME TypeOK, AgeFacts, UNCHANGED <<day, past>>, total'[day] >= total[day],
           total'[day] \in Nat,
           view' # NoRow => past[viewAge'] <= view',
           \A q \in Clients : pc'[q] = "store" => past[late'[q] + ViewPeriod] <= found'[q],
           \A d \in Days : cached'[d] = cached[d] \/
               past[CacheTTL - cached'[d].left + MaxDelay + ViewPeriod] <= cached'[d].value
    PROVE  AgeFacts'
<1>1. \A a \in 0..Span : past'[a] <= total'[day']
  BY AgeTypes DEF AgeFacts
<1>2. \A d \in Days : cached'[d].left > 0 =>
          past[CacheTTL - cached'[d].left + MaxDelay + ViewPeriod] <= cached'[d].value
  BY DEF AgeFacts
<1> QED
  BY <1>1, <1>2 DEF AgeFacts

LEMMA AgeCheck ==
    ASSUME TypeOK, AgeFacts, NEW c \in Clients, Step(c)
    PROVE  AgeFacts'
<1> USE DEF Goto, Return
<1>0. /\ total[day] \in Nat /\ total[day] >= total[day]
      /\ view # NoRow => past[viewAge] <= view
      /\ \A q \in Clients : pc[q] = "store" => past[late[q] + ViewPeriod] <= found[q]
  BY AgeTypes DEF AgeFacts
<1>1. CASE CheckBudget(c) \/ CacheMiss(c) \/ NoViewRow(c) \/ SumFails(c) \/ Refuse(c)
           \/ ServeCharged(c) \/ ServeFree(c)
  <2>1. /\ UNCHANGED <<found, late, day, cached, total, view, viewAge, past>>
        /\ \E stage \in {"lookup", "view", "sum", "idle"} : pc' = [pc EXCEPT ![c] = stage]
    BY <1>1 DEF CheckBudget, CacheMiss, NoViewRow, SumFails, Refuse, ServeCharged, ServeFree
  <2>2. \A q \in Clients : pc'[q] = "store" => pc[q] = "store"
    BY <2>1 DEF TypeOK
  <2> QED
    BY <1>0, <2>1, <2>2, AgeStep
<1>2. CASE CacheHit(c)
  <2>1. \A q \in Clients : pc'[q] = "store" => pc[q] = "store"
    BY <1>2 DEF CacheHit, Decide, TypeOK
  <2> QED
    BY <1>0, <1>2, <2>1, AgeStep DEF CacheHit
<1>3. CASE ViewRow(c) \/ SumLogs(c)
  <2>1. PICK spent : Read(c, spent) /\ ((spent = view /\ view # NoRow) \/ spent = total[day])
    BY <1>3 DEF ViewRow, SumLogs
  <2>2. /\ ViewPeriod \in 0..Span /\ viewAge \in 0..Span /\ viewAge <= ViewPeriod
        /\ view \in Nat
    BY AgeTypes, SpanType DEF TypeOK, NoRow
  <2>3. past[ViewPeriod] <= spent
    <3>1. CASE spent = total[day]
      BY <2>2, <3>1 DEF AgeFacts
    <3>2. CASE spent = view /\ view # NoRow
      <4>1. past[ViewPeriod] <= past[viewAge] /\ past[viewAge] <= view
        BY <2>2, <3>2 DEF AgeFacts
      <4> QED
        BY <2>2, <3>2, <4>1, AgeTypes
    <3> QED
      BY <2>1, <3>1, <3>2
  <2>4. \A q \in Clients : pc'[q] = "store" =>
            \/ q = c /\ found'[q] = spent /\ late'[q] = 0
            \/ pc[q] = "store" /\ found'[q] = found[q] /\ late'[q] = late[q]
    BY <2>1 DEF Read, TypeOK
  <2>5. \A q \in Clients : pc'[q] = "store" => past[late'[q] + ViewPeriod] <= found'[q]
    BY <1>0, <2>3, <2>4
  <2>6. UNCHANGED <<day, cached, total, view, viewAge, past>>
    BY <1>3 DEF ViewRow, SumLogs
  <2> QED
    BY <1>0, <2>5, <2>6, AgeStep
<1>4. CASE StoreSpend(c)
  <2>1. past[late[c] + ViewPeriod] <= found[c]
    BY <1>0, <1>4 DEF StoreSpend
  <2>2. past[MaxDelay + ViewPeriod] <= found[c]
    <3>1. late[c] + ViewPeriod <= MaxDelay + ViewPeriod /\ MaxDelay + ViewPeriod \in 0..Span
      BY SpanType, AgeTypes DEF TypeOK
    <3>2. past[MaxDelay + ViewPeriod] <= past[late[c] + ViewPeriod]
      BY <3>1, AgeTypes DEF AgeFacts
    <3> QED
      BY <2>1, <3>1, <3>2, AgeTypes
  <2>3. \A d \in Days : cached'[d] = cached[d] \/
            (cached'[d].left = CacheTTL /\ cached'[d].value = found[c])
    BY <1>4 DEF StoreSpend, CacheSpend, TypeOK
  <2>4. CacheTTL - CacheTTL + MaxDelay + ViewPeriod = MaxDelay + ViewPeriod
    OBVIOUS
  <2>5. \A q \in Clients : pc'[q] = "store" =>
            pc[q] = "store" /\ found'[q] = found[q] /\ late'[q] = late[q]
    BY <1>4 DEF StoreSpend, Decide, TypeOK
  <2>6. UNCHANGED <<day, total, view, viewAge, past>>
    BY <1>4 DEF StoreSpend
  <2> QED
    BY <1>0, <2>2, <2>3, <2>4, <2>5, <2>6, AgeStep
<1> QED
  BY <1>1, <1>2, <1>3, <1>4 DEF Step

LEMMA AgeTick == TypeOK /\ AgeFacts /\ Tick => AgeFacts'
<1> SUFFICES ASSUME TypeOK, AgeFacts, Tick PROVE AgeFacts'
  OBVIOUS
<1>1. \A a \in 0..Span : past'[a] = IF a = 0 THEN total[day] ELSE past[a - 1]
  BY DEF Tick
<1>2. \A a \in 0..Span : a # 0 => a - 1 \in 0..Span
  BY SpanType
<1>3. \A a \in 0..Span : a + 1 \in 0..Span => past'[a + 1] = past[a]
  BY <1>1
<1>4. \A a, b \in 0..Span : a <= b => past'[b] <= past'[a]
  <2> SUFFICES ASSUME NEW a \in 0..Span, NEW b \in 0..Span, a <= b
               PROVE  past'[b] <= past'[a]
    OBVIOUS
  <2>1. CASE b = 0
    BY <1>1, <2>1, AgeTypes
  <2>2. CASE a = 0 /\ b # 0
    BY <1>1, <1>2, <2>2 DEF AgeFacts
  <2>3. CASE a # 0 /\ b # 0
    BY <1>1, <1>2, <2>3, SpanType DEF AgeFacts
  <2> QED
    BY <2>1, <2>2, <2>3
<1>5. \A a \in 0..Span : past'[a] <= total'[day']
  BY <1>1, <1>2, AgeTypes DEF Tick, AgeFacts
<1>6. ASSUME view' # NoRow PROVE past'[viewAge'] <= view'
  <2>1. /\ view # NoRow /\ view' = view /\ viewAge' = viewAge + 1 /\ viewAge < ViewPeriod
        /\ viewAge \in 0..Span /\ viewAge + 1 \in 0..Span
    <3>1. view # NoRow /\ view' = view /\ viewAge' = viewAge + 1 /\ viewAge < ViewPeriod
      BY <1>6 DEF Tick
    <3> QED
      BY <3>1, AgeTypes, SpanType
  <2> QED
    BY <1>3, <2>1 DEF AgeFacts
<1>7. ASSUME NEW c \in Clients, pc'[c] = "store"
      PROVE  past'[late'[c] + ViewPeriod] <= found'[c]
  <2>1. /\ pc[c] = "store" /\ found'[c] = found[c] /\ late'[c] = late[c] + 1
        /\ late[c] < MaxDelay
    BY <1>7 DEF Tick
  <2>2. /\ late'[c] + ViewPeriod = (late[c] + ViewPeriod) + 1
        /\ late[c] + ViewPeriod \in 0..Span /\ (late[c] + ViewPeriod) + 1 \in 0..Span
    BY <2>1, AgeTypes, SpanType
  <2> QED
    BY <1>3, <2>1, <2>2 DEF AgeFacts
<1>8. ASSUME NEW d \in Days, cached'[d].left > 0
      PROVE  past'[CacheTTL - cached'[d].left + MaxDelay + ViewPeriod] <= cached'[d].value
  <2>1. cached[d] \in [value: Spend, left: 0..CacheTTL]
    BY DEF TypeOK
  <2>2. cached[d].left > 1 /\ cached'[d] = [cached[d] EXCEPT !.left = @ - 1]
    BY <1>8 DEF Tick, Absent
  <2>3. cached'[d].left = cached[d].left - 1 /\ cached'[d].value = cached[d].value
    BY <2>1, <2>2
  <2> DEFINE i == CacheTTL - cached[d].left + MaxDelay + ViewPeriod
  <2>4. /\ i \in 0..Span /\ past[i] <= cached[d].value
        /\ CacheTTL - cached'[d].left + MaxDelay + ViewPeriod = i + 1 /\ i + 1 \in 0..Span
    BY <2>1, <2>2, <2>3, AgeTypes DEF AgeFacts, Span
  <2> QED
    BY <1>3, <2>3, <2>4
<1> QED
  BY <1>4, <1>5, <1>6, <1>7, <1>8 DEF AgeFacts

LEMMA AgeNext == TypeOK /\ AgeFacts /\ [Next]_vars => AgeFacts'
<1> SUFFICES ASSUME TypeOK, AgeFacts, [Next]_vars PROVE AgeFacts'
  OBVIOUS
<1>0. /\ total[day] \in Nat /\ total[day] >= total[day]
      /\ view # NoRow => past[viewAge] <= view
      /\ \A q \in Clients : pc[q] = "store" => past[late[q] + ViewPeriod] <= found[q]
  BY AgeTypes DEF AgeFacts
<1>1. CASE UNCHANGED vars \/ LogLost
  BY <1>0, <1>1, AgeStep DEF vars, checkVars, LogLost
<1>2. CASE InsertLog
  <2>1. TypeOK' /\ day' = day
    BY <1>2, TypeNext DEF InsertLog
  <2>2. total'[day] \in Nat
    BY <2>1 DEF TypeOK, Spend
  <2>3. total'[day] >= total[day]
    BY SpentStays DEF TypeOK
  <2> QED
    BY <1>0, <1>2, <2>2, <2>3, AgeStep DEF InsertLog, checkVars
<1>3. CASE RefreshView
  <2>1. view' # NoRow => view' = total[day] /\ viewAge' = 0 /\ past[0] <= total[day]
    BY <1>3, SpanType DEF RefreshView, AgeFacts
  <2>2. view' # NoRow => past[viewAge'] <= view'
    BY <2>1
  <2> QED
    BY <1>0, <1>3, <2>2, AgeStep DEF RefreshView, checkVars
<1>4. CASE Midnight
  <2>1. /\ \A a \in 0..Span : past'[a] = 0
        /\ view' = NoRow
        /\ UNCHANGED <<pc, found, late, cached, total>> /\ day' \in Days
    BY <1>4, TypeNext DEF Midnight, checkVars, TypeOK
  <2>2. total'[day'] \in 0..Limit
    BY <2>1, AgeTypes
  <2> QED
    BY <2>1, <2>2, AgeTypes DEF AgeFacts
<1> QED
  BY <1>1, <1>2, <1>3, <1>4, AgeCheck, AgeTick DEF Next, Log

(* The limit bites: the spend of more than Span units of time ago was under the limit when
   a request is let through.  For any TTL, any delay of a check, any lag of the view and any
   number of errors. *)
THEOREM LimitBitesAlways == Spec => LimitBites
<1> DEFINE Bites == \A c \in Clients : pc[c] # "serving" /\ pc'[c] = "serving"
                                         => past[Span] < Limit
<1>1. TypeOK /\ AgeFacts /\ [Next]_vars => [Bites]_vars
  <2> SUFFICES ASSUME TypeOK, AgeFacts, [Next]_vars,
                      NEW c \in Clients, pc[c] # "serving", pc'[c] = "serving"
               PROVE  past[Span] < Limit
    OBVIOUS
  <2>1. CacheHit(c) \/ StoreSpend(c)
    <3>1. pc' # pc
      OBVIOUS
    <3>2. PICK q \in Clients : Step(q)
      BY <3>1 DEF Next, vars, Log, InsertLog, LogLost, RefreshView, Midnight, Tick, checkVars
    <3>3. q = c
      BY <3>2 DEF Step, CheckBudget, CacheHit, CacheMiss, ViewRow, NoViewRow, SumLogs, SumFails,
                  StoreSpend, Refuse, ServeCharged, ServeFree, Read, Return, Decide, Goto, TypeOK
    <3>4. ~(CheckBudget(c) \/ CacheMiss(c) \/ ViewRow(c) \/ NoViewRow(c) \/ SumLogs(c))
      BY DEF CheckBudget, CacheMiss, ViewRow, NoViewRow, SumLogs, Read, Goto, TypeOK
    <3>5. ~(SumFails(c) \/ Refuse(c) \/ ServeCharged(c) \/ ServeFree(c))
      BY DEF SumFails, Refuse, ServeCharged, ServeFree, Return, Goto, TypeOK
    <3> QED
      BY <3>2, <3>3, <3>4, <3>5 DEF Step
  <2>2. \A a \in 0..Span, n \in 0..Limit : past[a] <= n /\ n < Limit => past[Span] < Limit
    BY SpanType, AgeTypes DEF AgeFacts
  <2>3. CASE CacheHit(c)
    <3>1. cached[today[c]].left > 0 /\ today[c] \in Days /\ ~(cached[today[c]].value >= Limit)
      BY <2>3 DEF CacheHit, Decide, Goto, TypeOK
    <3> QED
      BY <2>2, <3>1, AgeTypes DEF AgeFacts
  <2>4. CASE StoreSpend(c)
    <3>1. pc[c] = "store" /\ ~(found[c] >= Limit)
      BY <2>4 DEF StoreSpend, Decide, Goto, TypeOK
    <3> QED
      BY <2>2, <3>1, AgeTypes DEF AgeFacts
  <2> QED
    BY <2>1, <2>3, <2>4
<1> QED
  BY <1>1, TypeInit, TypeNext, AgeInit, AgeNext, PTL DEF Spec, LimitBites
=============================================================================
