------------------------------- MODULE Budget -------------------------------
(* The daily budget of one API key: BudgetEnforcer.CheckBudget with its cache in
   Redis, Store.GetDailySpend with the materialised view and its fallback, and the
   log rows the spend is computed from, which Handler.logAsync writes after the
   answer.  Keys do not share budgets, so one key with a budget is enough.

   Spend is counted in units and saturates at Limit, the only value it is compared
   with.  A day is a number; the processes and the database agree on it.  A log row
   costs one unit or nothing; rows that cost nothing are left out. *)
EXTENDS Naturals

CONSTANTS
    Clients,     \* callers that keep sending requests with the key
    Limit,       \* DailyBudgetUSD, in units
    CacheTTL,    \* ticks a cached spend lives (60 s in the code)
    MaxDelay,    \* bound on the ticks from reading the spend to caching it
    ViewPeriod,  \* bound on the age of today's row of the view, once there is one
    MaxPending,  \* bound on the log rows being written
    LastDay,     \* bound on the days
    MaxFaults    \* bound on the errors of Redis and Postgres

ASSUME LimitAssumption == Limit \in Nat \ {0} /\ LastDay \in Nat
ASSUME DelayAssumption == /\ CacheTTL \in Nat \ {0} /\ MaxDelay \in Nat
                          /\ ViewPeriod \in Nat
ASSUME BoundAssumption == MaxPending \in Nat /\ MaxFaults \in Nat

VARIABLES
    pc,         \* where each client's request stands
    today,      \* the date its check put into the cache key
    found,      \* the spend it read from the database
    late,       \* ticks since it read that
    day,        \* the date
    cached,     \* Redis: [value, left] by date; absent when left is 0
    total,      \* Postgres: the spend in request_logs by date
    view,       \* Postgres: today's row of daily_spend_mv
    viewAge,    \* ticks since that row was computed
    pending,    \* rows on their way to request_logs
    past,       \* history: total[day] before the last tick, the one before it, ...
    faults      \* errors so far

checkVars == <<pc, today, found, late>>
vars == <<checkVars, day, cached, total, view, viewAge, pending, past, faults>>

Days  == 0..LastDay
Span  == CacheTTL + MaxDelay + ViewPeriod - 1
Spend == 0..Limit
NoRow == Limit + 1

Stages == {"idle", "lookup", "view", "sum", "store", "serving", "refused"}

TypeOK ==
    /\ pc \in [Clients -> Stages]
    /\ today \in [Clients -> Days]
    /\ found \in [Clients -> Spend]
    /\ late \in [Clients -> 0..MaxDelay]
    /\ day \in Days
    /\ cached \in [Days -> [value: Spend, left: 0..CacheTTL]]
    /\ total \in [Days -> Spend]
    /\ view \in 0..NoRow
    /\ viewAge \in 0..ViewPeriod
    /\ pending \in 0..MaxPending
    /\ past \in [0..Span -> Spend]
    /\ faults \in 0..MaxFaults

Absent == [value |-> 0, left |-> 0]

Init ==
    /\ pc = [c \in Clients |-> "idle"]
    /\ today = [c \in Clients |-> 0]
    /\ found = [c \in Clients |-> 0]
    /\ late = [c \in Clients |-> 0]
    /\ day = 0
    /\ cached = [d \in Days |-> Absent]
    /\ total = [d \in Days |-> 0]
    /\ view = NoRow
    /\ viewAge = 0
    /\ pending = 0
    /\ past = [a \in 0..Span |-> 0]
    /\ faults = 0

-----------------------------------------------------------------------------

Goto(c, stage) == pc' = [pc EXCEPT ![c] = stage]

(* The request is over, its locals are gone. *)
Return(c) == Goto(c, "idle") /\ today' = [today EXCEPT ![c] = 0]

(* The operation fails, or meets a broken Redis or Postgres. *)
Fault == faults < MaxFaults /\ faults' = faults + 1

CheckBudget(c) ==
    /\ pc[c] = "idle"
    /\ Goto(c, "lookup")
    /\ today' = [today EXCEPT ![c] = day]
    /\ UNCHANGED <<found, late, day, cached, total, view, viewAge, pending, past, faults>>

(* The comparison at the end of CheckBudget. *)
Decide(c, spent) == Goto(c, IF spent >= Limit THEN "refused" ELSE "serving")

(* Mutant: the cache key has no date. *)
CacheHit_NoDate(c) ==
    /\ pc[c] = "lookup"
    /\ \E d \in Days : cached[d].left > 0 /\ Decide(c, cached[d].value)
    /\ UNCHANGED <<today, found, late, day, cached, total, view, viewAge, pending,
                   past, faults>>

CacheHit(c) ==
    /\ pc[c] = "lookup"
    /\ cached[today[c]].left > 0
    /\ Decide(c, cached[today[c]].value)
    /\ UNCHANGED <<today, found, late, day, cached, total, view, viewAge, pending,
                   past, faults>>

(* Mutant: an error of Redis lets the request through. *)
CacheMiss_FailsOpen(c) ==
    /\ pc[c] = "lookup"
    /\ IF cached[today[c]].left > 0 THEN Fault ELSE UNCHANGED faults
    /\ Goto(c, IF cached[today[c]].left > 0 THEN "serving" ELSE "view")
    /\ UNCHANGED <<today, found, late, day, cached, total, view, viewAge, pending, past>>

(* An error of Redis counts as a miss. *)
CacheMiss(c) ==
    /\ pc[c] = "lookup"
    /\ IF cached[today[c]].left > 0 THEN Fault ELSE UNCHANGED faults
    /\ Goto(c, "view")
    /\ UNCHANGED <<today, found, late, day, cached, total, view, viewAge, pending, past>>

Read(c, spent) ==
    /\ found' = [found EXCEPT ![c] = spent]
    /\ late' = [late EXCEPT ![c] = 0]
    /\ Goto(c, "store")

(* GetDailySpend: the row of the view, if there is one for today. *)
ViewRow(c) ==
    /\ pc[c] = "view"
    /\ view # NoRow
    /\ Read(c, view)
    /\ UNCHANGED <<today, day, cached, total, view, viewAge, pending, past, faults>>

(* No row, or an error. *)
NoViewRow(c) ==
    /\ pc[c] = "view"
    /\ IF view # NoRow THEN Fault ELSE UNCHANGED faults
    /\ Goto(c, "sum")
    /\ UNCHANGED <<today, found, late, day, cached, total, view, viewAge, pending, past>>

(* GetDailySpend: the fallback over request_logs, from the database's midnight on. *)
SumLogs(c) ==
    /\ pc[c] = "sum"
    /\ Read(c, total[day])
    /\ UNCHANGED <<today, day, cached, total, view, viewAge, pending, past, faults>>

(* 500 *)
SumFails(c) ==
    /\ pc[c] = "sum"
    /\ Fault
    /\ Return(c)
    /\ UNCHANGED <<found, late, day, cached, total, view, viewAge, pending, past>>

(* Mutant: the cached spend is kept for twice as long. *)
CacheSpend_Longer(c) ==
    cached' = [cached EXCEPT ![today[c]] = [value |-> found[c], left |-> CacheTTL + 1]]

(* Overwrites whatever a later reader has put there. *)
CacheSpend(c) ==
    cached' = [cached EXCEPT ![today[c]] = [value |-> found[c], left |-> CacheTTL]]

(* The SET of CheckBudget, whose error is ignored, and the comparison. *)
StoreSpend(c) ==
    /\ pc[c] = "store"
    /\ \/ CacheSpend(c) /\ UNCHANGED faults
       \/ Fault /\ UNCHANGED cached
    /\ Decide(c, found[c])
    /\ found' = [found EXCEPT ![c] = 0]
    /\ late' = [late EXCEPT ![c] = 0]
    /\ UNCHANGED <<today, day, total, view, viewAge, pending, past>>

(* 402 *)
Refuse(c) ==
    /\ pc[c] = "refused"
    /\ Return(c)
    /\ UNCHANGED <<found, late, day, cached, total, view, viewAge, pending, past, faults>>

(* The request is answered, from a provider or with the cost of the cached answer,
   and logAsync starts to write its row. *)
ServeCharged(c) ==
    /\ pc[c] = "serving"
    /\ pending < MaxPending
    /\ pending' = pending + 1
    /\ Return(c)
    /\ UNCHANGED <<found, late, day, cached, total, view, viewAge, past, faults>>

(* Refused further down, or answered at no cost (a stream's usage is never filled in). *)
ServeFree(c) ==
    /\ pc[c] = "serving"
    /\ Return(c)
    /\ UNCHANGED <<found, late, day, cached, total, view, viewAge, pending, past, faults>>

(* The row gets the date of its insertion. *)
InsertLog ==
    /\ pending > 0
    /\ pending' = pending - 1
    /\ total' = [total EXCEPT ![day] = IF @ < Limit THEN @ + 1 ELSE Limit]
    /\ UNCHANGED <<checkVars, day, cached, view, viewAge, past, faults>>

(* The five seconds of logAsync are over, or the database refuses the row. *)
LogLost ==
    /\ pending > 0
    /\ Fault
    /\ pending' = pending - 1
    /\ UNCHANGED <<checkVars, day, cached, total, view, viewAge, past>>

-----------------------------------------------------------------------------
(* Nothing in the code refreshes the view; whoever operates the database may. *)
RefreshView ==
    /\ view' \in {total[day]} \cup (IF total[day] = 0 THEN {NoRow} ELSE {})
    /\ viewAge' = 0
    /\ UNCHANGED <<checkVars, day, cached, total, pending, past, faults>>

Midnight ==
    /\ day < LastDay
    /\ day' = day + 1
    /\ view' = NoRow
    /\ viewAge' = 0
    /\ past' = [a \in 0..Span |-> 0]
    /\ UNCHANGED <<checkVars, cached, total, pending, faults>>

Less(n) == IF n = 0 THEN 0 ELSE n - 1

(* One unit of time.  It waits for a check that is MaxDelay late and for a refresh
   that is due. *)
Tick ==
    /\ \A c \in Clients : pc[c] = "store" => late[c] < MaxDelay
    /\ view # NoRow => viewAge < ViewPeriod
    /\ late' = [c \in Clients |-> IF pc[c] = "store" THEN late[c] + 1 ELSE 0]
    /\ cached' = [d \in Days |-> IF cached[d].left > 1
                                 THEN [cached[d] EXCEPT !.left = @ - 1] ELSE Absent]
    /\ viewAge' = IF view = NoRow THEN 0 ELSE viewAge + 1
    /\ past' = [a \in 0..Span |-> IF a = 0 THEN total[day] ELSE past[a - 1]]
    /\ UNCHANGED <<pc, today, found, day, total, view, pending, faults>>

Step(c) ==
    \/ CheckBudget(c)
    \/ CacheHit(c) \/ CacheMiss(c)
    \/ ViewRow(c) \/ NoViewRow(c) \/ SumLogs(c) \/ SumFails(c)
    \/ StoreSpend(c) \/ Refuse(c)
    \/ ServeCharged(c) \/ ServeFree(c)

Log == InsertLog \/ LogLost

Next == \/ \E c \in Clients : Step(c)
        \/ Log \/ RefreshView \/ Midnight \/ Tick

Spec == Init /\ [][Next]_vars

-----------------------------------------------------------------------------
(* A key whose logged spend reached its limit is let through for no longer than a
   cached spend lives, a check takes between reading and caching it, and the view
   lags: a check that overwrites a newer entry with an older one, a broken Redis or a
   broken view cannot stretch this any further. *)
LimitBites ==
    [][\A c \in Clients : pc[c] # "serving" /\ pc'[c] = "serving"
                              => past[Span] < Limit]_vars

(* Nobody is refused before the limit is reached: the spend of a day refuses no
   request whose check began on a later one, whatever is in the cache. *)
RefusedOnlySpent ==
    \A c \in Clients : pc[c] = "refused" =>
        \E d \in Days : d >= today[c] /\ total[d] >= Limit
=============================================================================
