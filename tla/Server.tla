------------------------------- MODULE Server -------------------------------
(* The life of one gateway process and the Postgres pool everything in it shares: start,
   requests with their authentication, the administration of keys, the goroutines that
   write after the answer, graceful shutdown and the closing of the pool.

   What happens between the lookup in the semantic cache and the answer is one step
   here (Complete): it uses no connection.  A request is handled once. *)
EXTENDS Naturals, FiniteSets

CONSTANTS
    Requests,     \* the requests
    Kind,         \* "complete", "create", "list" (or statistics) or "health"
    InitialKeys,  \* the API keys that were seeded
    Key,          \* the key each request presents: an initial one, or the one that a
                  \* request of kind "create" makes, which is named after it
    Admins,       \* those of them with is_admin
    MaxConns,     \* size of the pool (20 in the code)
    Grace         \* ticks that Shutdown waits (30 s in the code)

Makers == {r \in Requests : Kind[r] = "create"}
Keys   == InitialKeys \cup Makers

ASSUME RequestAssumption == /\ InitialKeys \cap Requests = {} /\ Admins \subseteq InitialKeys
                            /\ Kind \in [Requests -> {"complete", "create", "list", "health"}]
                            /\ Key \in [Requests -> Keys]
ASSUME SizeAssumption    == MaxConns \in Nat \ {0} /\ Grace \in Nat

VARIABLES
    phase,    \* of the process
    grace,    \* what is left of Shutdown's time
    at,       \* where each request's handler stands
    reply,    \* what it answered
    log,      \* the goroutine of logAsync
    store,    \* the goroutine that publishes, stores in or updates the semantic cache
    holds,    \* who has a connection of the pool
    keys,     \* Postgres: the rows of api_keys
    alive     \* history: was the key active when the request arrived?

process == <<phase, grace>>
vars == <<process, at, reply, log, store, holds, keys, alive>>

Handler(r) == <<"handler", r>>
Logger(r)  == <<"log", r>>
Storer(r)  == <<"store", r>>
Users == {"handler", "log", "store"} \X Requests

(* The stages of a handler that are one query each. *)
Queries == {"ping", "auth", "create", "list", "spend", "sum", "lookup"}

TypeOK ==
    /\ phase \in {"starting", "serving", "draining", "closing", "exited", "killed"}
    /\ grace \in 0..Grace
    /\ at \in [Requests -> Queries \cup {"new", "connected", "call", "done"}]
    /\ reply \in [Requests -> {"none", "200", "201", "401", "403", "refused", "500", "503"}]
    /\ log \in [Requests -> {"none", "insert", "done", "lost"}]
    /\ store \in [Requests -> {"none", "publish", "insert", "done"}]
    /\ holds \subseteq Users /\ Cardinality(holds) <= MaxConns
    /\ keys \in [Keys -> {"absent", "active", "admin", "revoked"}]
    /\ alive \in [Requests -> BOOLEAN]

Init ==
    /\ phase = "starting"
    /\ grace = Grace
    /\ at = [r \in Requests |-> "new"]
    /\ reply = [r \in Requests |-> "none"]
    /\ log = [r \in Requests |-> "none"]
    /\ store = [r \in Requests |-> "none"]
    /\ holds = {}
    /\ keys = [k \in Keys |-> IF k \in Makers THEN "absent"
                             ELSE IF k \in Admins THEN "admin" ELSE "active"]
    /\ alive = [r \in Requests |-> FALSE]

-----------------------------------------------------------------------------

Live == {"active", "admin"}

Running == phase \in {"serving", "draining", "closing"}

Waiting(u) == CASE u[1] = "handler" -> at[u[2]] \in Queries
                [] u[1] = "log"     -> log[u[2]] = "insert"
                [] u[1] = "store"   -> store[u[2]] = "insert"

(* Mutant: the pool hands out one connection more than it has. *)
Acquire_OneMore(u) ==
    /\ phase \in {"serving", "draining"}
    /\ Waiting(u) /\ u \notin holds
    /\ Cardinality(holds) <= MaxConns
    /\ holds' = holds \cup {u}
    /\ UNCHANGED <<process, at, reply, log, store, keys, alive>>

(* The pool gives a waiting user a connection; a closed pool gives none. *)
Acquire(u) ==
    /\ phase \in {"serving", "draining"}
    /\ Waiting(u) /\ u \notin holds
    /\ Cardinality(holds) < MaxConns
    /\ holds' = holds \cup {u}
    /\ UNCHANGED <<process, at, reply, log, store, keys, alive>>

(* The handler goes on to another stage without its connection, or answers. *)
Goto(r, stage) ==
    /\ at' = [at EXCEPT ![r] = stage]
    /\ holds' = holds \ {Handler(r)}
    /\ UNCHANGED reply

Answer(r, code) ==
    /\ at' = [at EXCEPT ![r] = "done"]
    /\ reply' = [reply EXCEPT ![r] = code]
    /\ holds' = holds \ {Handler(r)}

(* The answer of a query the handler has a connection for. *)
Result(r, stage) == Running /\ at[r] = stage /\ Handler(r) \in holds

(* The listener accepts a connection, which carries one request. *)
Connect(r) ==
    /\ phase = "serving"
    /\ at[r] = "new"
    /\ at' = [at EXCEPT ![r] = "connected"]
    /\ UNCHANGED <<process, reply, log, store, holds, keys, alive>>

(* Shutdown closes a connection on which nothing was sent for five seconds. *)
HangUp(r) ==
    /\ phase = "draining"
    /\ at[r] = "connected"
    /\ at' = [at EXCEPT ![r] = "new"]
    /\ UNCHANGED <<process, reply, log, store, holds, keys, alive>>

(* The request is read, if need be while the server shuts down.  A client presents the
   key of a create request only after it was told the key. *)
Accept(r) ==
    /\ Running
    /\ at[r] = "connected"
    /\ Key[r] \in Makers => reply[Key[r]] = "201"
    /\ at' = [at EXCEPT ![r] = IF Kind[r] = "health" THEN "ping" ELSE "auth"]
    /\ alive' = [alive EXCEPT ![r] = keys[Key[r]] \in Live]
    /\ UNCHANGED <<process, reply, log, store, holds, keys>>

(* Always 200, with the state of Postgres and Redis in the body. *)
Health(r) ==
    /\ Result(r, "ping")
    /\ Answer(r, "200")
    /\ UNCHANGED <<process, log, store, keys, alive>>

(* Behind Auth: AdminAccess; or the rate limit and the budget, which know the spend or
   have to ask for it, or turn the request away (402, 429, 500).  A stream is not looked up. *)
Admit(r) ==
    IF Kind[r] = "complete"
    THEN \/ \E stage \in {"spend", "lookup", "call"} : Goto(r, stage)
         \/ Answer(r, "refused")
    ELSE IF keys[Key[r]] = "admin" THEN Goto(r, Kind[r]) ELSE Answer(r, "403")

(* Mutant: the query does not look at is_active. *)
GetAPIKey_Inactive(r) ==
    /\ Result(r, "auth")
    /\ IF keys[Key[r]] # "absent" THEN Admit(r) ELSE Answer(r, "401")
    /\ UNCHANGED <<process, log, store, keys, alive>>

GetAPIKey(r) ==
    /\ Result(r, "auth")
    /\ IF keys[Key[r]] \in Live THEN Admit(r) ELSE Answer(r, "401")
    /\ UNCHANGED <<process, log, store, keys, alive>>

(* Mutant: the fallback query starts with the rows of the first one still open. *)
GetDailySpend_Nested(r) ==
    /\ \/ Result(r, "spend") /\ at' = [at EXCEPT ![r] = "sum"] /\ UNCHANGED <<reply, holds>>
       \/ /\ Result(r, "sum") /\ Cardinality(holds) < MaxConns
          /\ Answer(r, "refused") \/ Goto(r, "lookup") \/ Goto(r, "call")
    /\ UNCHANGED <<process, log, store, keys, alive>>

(* The view, then the fallback query on another connection, and the budget's verdict. *)
GetDailySpend(r) ==
    /\ \/ Result(r, "spend") /\ Goto(r, "sum")
       \/ \E stage \in {"spend", "sum"} :
              Result(r, stage) /\ (Answer(r, "refused") \/ Goto(r, "lookup") \/ Goto(r, "call"))
    /\ UNCHANGED <<process, log, store, keys, alive>>

(* A hit is answered, logged, and counted in its row by a goroutine. *)
FindSimilar(r) ==
    /\ Result(r, "lookup")
    /\ \/ Goto(r, "call") /\ UNCHANGED <<log, store>>
       \/ /\ Answer(r, "200")
          /\ log' = [log EXCEPT ![r] = "insert"]
          /\ store' = [store EXCEPT ![r] = "insert"]
    /\ UNCHANGED <<process, keys, alive>>

(* Stats and ListKeys *)
ListKeys(r) ==
    /\ Result(r, "list")
    /\ Answer(r, "200")
    /\ UNCHANGED <<process, log, store, keys, alive>>

Insert(r) == \E rank \in Live : keys' = [keys EXCEPT ![r] = rank]

(* Mutant: the key is handed out before it is inserted. *)
CreateKey_Early(r) ==
    /\ Running /\ at[r] = "create"
    /\ \E rank \in Live :
           keys' = [keys EXCEPT ![r] = IF Handler(r) \in holds THEN rank ELSE @]
    /\ Answer(r, "201")
    /\ UNCHANGED <<process, log, store, alive>>

CreateKey(r) ==
    /\ Result(r, "create")
    /\ Insert(r)
    /\ Answer(r, "201")
    /\ UNCHANGED <<process, log, store, alive>>

(* A query fails, or the wait for a connection: Postgres is in trouble, the client has
   left, or the pool is closed.  A key may have been inserted all the same. *)
QueryFails(r) ==
    /\ Running
    /\ at[r] \in Queries
    /\ CASE at[r] = "lookup" -> Goto(r, "call")
         [] at[r] = "spend"  -> Goto(r, "sum")
         [] at[r] = "ping"   -> Answer(r, "200")
         [] OTHER            -> Answer(r, "500")
    /\ \/ UNCHANGED keys
       \/ at[r] = "create" /\ Handler(r) \in holds /\ Insert(r)
    /\ UNCHANGED <<process, log, store, alive>>

(* The exact cache and the providers. *)
Complete(r) ==
    /\ Running
    /\ at[r] = "call"
    /\ \/ /\ Answer(r, "200")
          /\ log' = [log EXCEPT ![r] = "insert"]
          /\ \E goroutine \in {"none", "publish"} : store' = [store EXCEPT ![r] = goroutine]
       \/ Answer(r, "503") /\ UNCHANGED <<log, store>>
    /\ UNCHANGED <<process, keys, alive>>

-----------------------------------------------------------------------------
(* The goroutines that outlive the answer. *)

InsertLog(r) ==
    /\ Running
    /\ log[r] = "insert" /\ Logger(r) \in holds
    /\ log' = [log EXCEPT ![r] = "done"]
    /\ holds' = holds \ {Logger(r)}
    /\ UNCHANGED <<process, at, reply, store, keys, alive>>

(* Mutant: the goroutine has no timeout and waits until it is told. *)
LogLost_NoTimeout(r) ==
    /\ phase = "closing"
    /\ log[r] = "insert" /\ Logger(r) \notin holds
    /\ log' = [log EXCEPT ![r] = "lost"]
    /\ UNCHANGED <<process, at, reply, store, holds, keys, alive>>

(* Five seconds are over, with or without a connection; or the row is refused. *)
LogLost(r) ==
    /\ Running
    /\ log[r] = "insert"
    /\ log' = [log EXCEPT ![r] = "lost"]
    /\ holds' = holds \ {Logger(r)}
    /\ UNCHANGED <<process, at, reply, store, keys, alive>>

(* PublishResult, whatever became of it. *)
PublishResult(r) ==
    /\ Running
    /\ store[r] = "publish"
    /\ store' = [store EXCEPT ![r] = "insert"]
    /\ UNCHANGED <<process, at, reply, log, holds, keys, alive>>

(* The row is inserted or updated, refused, or the pool is closed.  No timeout. *)
StoreRow(r) ==
    /\ Running
    /\ store[r] = "insert"
    /\ Storer(r) \in holds \/ phase = "closing"
    /\ store' = [store EXCEPT ![r] = "done"]
    /\ holds' = holds \ {Storer(r)}
    /\ UNCHANGED <<process, at, reply, log, keys, alive>>

(* No code deactivates a key; whoever operates the database may. *)
Revoke(k) ==
    /\ keys[k] \in Live
    /\ keys' = [keys EXCEPT ![k] = "revoked"]
    /\ UNCHANGED <<process, at, reply, log, store, holds, alive>>

-----------------------------------------------------------------------------
(* main *)

rest == <<at, reply, log, store, holds, keys, alive>>

(* Postgres and Redis answer, and the listener starts; or log.Fatalf. *)
Start ==
    /\ phase = "starting"
    /\ phase' \in {"serving", "killed"}
    /\ UNCHANGED <<grace, rest>>

(* ListenAndServe returns an error: log.Fatalf runs no deferred call. *)
ListenFails ==
    /\ phase = "serving"
    /\ phase' = "killed"
    /\ UNCHANGED <<grace, rest>>

(* SIGINT or SIGTERM; Shutdown closes the listener.  Another signal changes nothing until
   stop has run, which is deferred: then it kills the process. *)
Signal ==
    /\ phase \in {"serving", "closing"}
    /\ phase' = IF phase = "serving" THEN "draining" ELSE "killed"
    /\ UNCHANGED <<grace, rest>>

Tick ==
    /\ phase = "draining" /\ grace > 0
    /\ grace' = grace - 1
    /\ UNCHANGED <<phase, rest>>

InFlight == {r \in Requests : at[r] \notin {"new", "done"}}

(* Mutants: Shutdown does not wait for requests that are still to be read, or has no
   deadline. *)
Shutdown_NotTheUnread ==
    /\ phase = "draining"
    /\ (\A r \in InFlight : at[r] = "connected") \/ grace = 0
    /\ phase' = "closing"
    /\ UNCHANGED <<grace, rest>>
Shutdown_NoDeadline ==
    /\ phase = "draining"
    /\ InFlight = {}
    /\ phase' = "closing"
    /\ UNCHANGED <<grace, rest>>

(* Shutdown returns when no request is in flight or its context is over. *)
Shutdown ==
    /\ phase = "draining"
    /\ InFlight = {} \/ grace = 0
    /\ phase' = "closing"
    /\ UNCHANGED <<grace, rest>>

(* The deferred Close waits for the connections that are out; then main returns. *)
Close ==
    /\ phase = "closing"
    /\ holds = {}
    /\ phase' = "exited"
    /\ UNCHANGED <<grace, rest>>

Query(r) == \/ Health(r) \/ GetAPIKey(r) \/ GetDailySpend(r) \/ FindSimilar(r)
            \/ ListKeys(r) \/ CreateKey(r)

Handle(r) == Connect(r) \/ HangUp(r) \/ Accept(r) \/ Query(r) \/ QueryFails(r) \/ Complete(r)

Background(r) == InsertLog(r) \/ LogLost(r) \/ PublishResult(r) \/ StoreRow(r)

Main == Start \/ ListenFails \/ Signal \/ Tick \/ Shutdown \/ Close

Next ==
    \/ Main
    \/ \E r \in Requests : Handle(r) \/ Background(r)
    \/ \E u \in Users : Running /\ Acquire(u)
    \/ \E k \in Keys : Running /\ Revoke(k)

Spec == Init /\ [][Next]_vars

(* Postgres answers a handler's query and a storing goroutine's in the end, timeouts run
   out and connections are handed on.  A client may be slow for ever (the server has
   no timeout of its own), and nothing is assumed of the insertion of a log row. *)
Fairness ==
    /\ WF_vars(Tick) /\ WF_vars(Shutdown) /\ WF_vars(Close)
    /\ \A r \in Requests : WF_vars(Query(r)) /\ WF_vars(LogLost(r)) /\ WF_vars(StoreRow(r))
    /\ \A u \in Users : WF_vars(Acquire(u))

FairSpec == Spec /\ Fairness

-----------------------------------------------------------------------------
(* A request that arrives with a key that is not active leaves no trace, whatever is
   revoked or created while it waits for a connection: it is answered 401 or 500, no
   provider's answer is logged or stored for it, and it makes no key. *)
OnlyLiveKeysAct ==
    \A r \in Requests : at[r] \notin {"new", "connected"} /\ Kind[r] # "health" /\ ~alive[r] =>
        /\ reply[r] \in {"none", "401", "500"}
        /\ log[r] = "none" /\ store[r] = "none"
        /\ r \in Makers => keys[r] = "absent"

(* A key that was seeded or handed out with a 201 is honoured until it is revoked. *)
KeysHonoured == \A r \in Requests : reply[r] = "401" => keys[Key[r]] = "revoked"

(* Unless the grace period ran out, nobody is cut off: the pool is not closed, nor does
   the process exit, before every accepted connection had its answer, the one included
   whose request was read after the signal, or was given up because nothing came on it. *)
DrainedAnswered == phase \in {"closing", "exited"} /\ grace > 0 => InFlight = {}

(* A handler that waits for a connection or an answer of Postgres gets on, however many
   goroutines compete with it and while the process lasts. *)
PoolServes ==
    \A r \in Requests : at[r] \in Queries ~> at[r] \notin Queries \/ ~Running

(* The goroutines of logAsync end, even when no row can ever be inserted. *)
LogGoroutinesEnd ==
    \A r \in Requests : log[r] = "insert" ~> log[r] # "insert" \/ ~Running

(* A process that was told to stop does, even if a client never reads its answer. *)
ShutdownCompletes == phase = "draining" ~> phase \in {"exited", "killed"}
=============================================================================
