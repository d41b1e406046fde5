---------------------------- MODULE ServerProofs ----------------------------
(* Proofs about Server for every set of requests and keys, any size of the pool and
   any grace period. *)
EXTENDS Server, FiniteSetTheorems, TLAPS

USE RequestAssumption, SizeAssumption

(* The stages of a request of each kind: what a handler waits for fits its request. *)
StageFacts ==
    \A r \in Requests :
        /\ at[r] = "ping" => Kind[r] = "health"
        /\ at[r] \in {"auth", "create", "list"} => Kind[r] # "health"
        /\ at[r] = "create" => r \in Makers
        /\ at[r] # "done" => reply[r] = "none" /\ log[r] = "none" /\ store[r] = "none"

(* A key comes into being at most once, when the request that makes it ends, and it
   exists before anybody presents it. *)
KeyFacts ==
    /\ \A k \in InitialKeys : keys[k] # "absent"
    /\ \A r \in Requests :
           /\ r \in Makers /\ at[r] # "done" => keys[r] = "absent"
           /\ reply[r] = "201" => r \in Makers /\ keys[r] # "absent"
           /\ at[r] \notin {"new", "connected"} => keys[Key[r]] # "absent"

(* A request whose key was not active on arrival gets no further than Auth. *)
DeadKeyFacts ==
    \A r \in Requests :
        at[r] \notin {"new", "connected"} /\ Kind[r] # "health" /\ ~alive[r] =>
            at[r] \in {"auth", "done"} /\ keys[Key[r]] = "revoked"

PoolFacts == IsFiniteSet(holds)

-----------------------------------------------------------------------------

LEMMA KeysAreKeys ==
    /\ Key \in [Requests -> Keys]
    /\ Makers \subseteq Keys /\ InitialKeys \subseteq Keys
    /\ \A r \in Requests : Key[r] \in Makers <=> Key[r] \notin InitialKeys
  BY DEF Keys, Makers

(* A handler that goes on, or answers, keeps the types and gives its connection back. *)
LEMMA HandlerMoves ==
    ASSUME TypeOK, PoolFacts, NEW r \in Requests,
           \/ \E stage \in Queries \cup {"call"} : Goto(r, stage)
           \/ \E code \in {"200", "201", "401", "403", "refused", "500", "503"} :
                  Answer(r, code)
    PROVE  /\ at' \in [Requests -> Queries \cup {"new", "connected", "call", "done"}]
           /\ reply' \in [Requests -> {"none", "200", "201", "401", "403", "refused",
                                       "500", "503"}]
           /\ holds' \subseteq Users /\ Cardinality(holds') <= MaxConns
           /\ PoolFacts'
<1>1. holds' = holds \ {Handler(r)}
  BY DEF Goto, Answer
<1>2. IsFiniteSet(holds') /\ Cardinality(holds') <= Cardinality(holds)
  BY <1>1, FS_Subset DEF PoolFacts
<1>3. Cardinality(holds) \in Nat /\ Cardinality(holds') \in Nat
  BY <1>2, FS_CardinalityType DEF PoolFacts
<1>4. holds' \subseteq Users /\ Cardinality(holds') <= MaxConns /\ PoolFacts'
  BY <1>1, <1>2, <1>3 DEF TypeOK, PoolFacts
<1> QED
  BY <1>4 DEF TypeOK, Goto, Answer

(* So does anybody else who gives a connection back. *)
LEMMA Released ==
    ASSUME TypeOK, PoolFacts, NEW u, holds' = holds \ {u}
    PROVE  holds' \subseteq Users /\ Cardinality(holds') <= MaxConns /\ PoolFacts'
<1>1. IsFiniteSet(holds') /\ Cardinality(holds') <= Cardinality(holds)
  BY FS_Subset DEF PoolFacts
<1>2. Cardinality(holds) \in Nat /\ Cardinality(holds') \in Nat
  BY <1>1, FS_CardinalityType DEF PoolFacts
<1> QED
  BY <1>1, <1>2 DEF TypeOK, PoolFacts

-----------------------------------------------------------------------------
(* Type correctness *)

LEMMA TypeInit == Init => TypeOK /\ PoolFacts /\ StageFacts
<1> SUFFICES ASSUME Init PROVE TypeOK /\ PoolFacts /\ StageFacts
  OBVIOUS
<1>1. /\ at \in [Requests -> Queries \cup {"new", "connected", "call", "done"}]
      /\ reply \in [Requests -> {"none", "200", "201", "401", "403", "refused", "500", "503"}]
      /\ log \in [Requests -> {"none", "insert", "done", "lost"}]
      /\ store \in [Requests -> {"none", "publish", "insert", "done"}]
      /\ keys \in [Keys -> {"absent", "active", "admin", "revoked"}]
  BY DEF Init
<1>2. alive \in [Requests -> BOOLEAN]
  BY DEF Init
<1>3. holds \subseteq Users /\ Cardinality(holds) <= MaxConns /\ PoolFacts
  BY FS_EmptySet DEF Init, PoolFacts
<1>4. StageFacts
  BY DEF Init, StageFacts
<1>5. grace \in 0..Grace /\ phase = "starting"
  BY DEF Init
<1> QED
  BY <1>1, <1>2, <1>3, <1>4, <1>5 DEF TypeOK

LEMMA QueryType ==
    ASSUME TypeOK, PoolFacts, StageFacts, NEW r \in Requests, Query(r) \/ QueryFails(r)
    PROVE  TypeOK' /\ PoolFacts'
<1>1. CASE Health(r) \/ ListKeys(r)
  BY <1>1, HandlerMoves DEF Health, ListKeys, TypeOK, process
<1>2. CASE GetAPIKey(r)
  <2>1. CASE Kind[r] = "complete" \/ keys[Key[r]] \notin Live
    BY <1>2, <2>1, HandlerMoves DEF GetAPIKey, Admit, Queries, TypeOK, process
  <2>2. CASE Kind[r] # "complete"
    <3>1. Kind[r] \in Queries
      BY <1>2, <2>2 DEF GetAPIKey, Result, StageFacts, Queries
    <3> QED
      BY <1>2, <2>2, <3>1, HandlerMoves DEF GetAPIKey, Admit, TypeOK, process
  <2> QED
    BY <2>1, <2>2
<1>3. CASE GetDailySpend(r)
  BY <1>3, HandlerMoves DEF GetDailySpend, Queries, TypeOK, process
<1>4. CASE FindSimilar(r)
  BY <1>4, HandlerMoves DEF FindSimilar, TypeOK, process
<1>5. CASE CreateKey(r)
  <2>1. keys' \in [Keys -> {"absent", "active", "admin", "revoked"}]
    BY <1>5 DEF CreateKey, Insert, Live, TypeOK
  <2>2. Answer(r, "201") /\ UNCHANGED <<process, log, store, alive>>
    BY <1>5 DEF CreateKey
  <2> QED
    BY <2>1, <2>2, HandlerMoves DEF TypeOK, process
<1>6. CASE QueryFails(r)
  <2>1. \/ \E stage \in Queries \cup {"call"} : Goto(r, stage)
        \/ \E code \in {"200", "500"} : Answer(r, code)
    BY <1>6, Zenon DEF QueryFails, Queries
  <2>2. keys' \in [Keys -> {"absent", "active", "admin", "revoked"}]
    BY <1>6 DEF QueryFails, Insert, Live, TypeOK
  <2> QED
    BY <1>6, <2>1, <2>2, HandlerMoves DEF QueryFails, TypeOK, process
<1> QED
  BY <1>1, <1>2, <1>3, <1>4, <1>5, <1>6 DEF Query

LEMMA BackgroundType ==
    ASSUME TypeOK, PoolFacts, NEW r \in Requests, Background(r)
    PROVE  TypeOK' /\ PoolFacts'
<1>1. CASE InsertLog(r) \/ LogLost(r)
  BY <1>1, Released DEF InsertLog, LogLost, TypeOK, process
<1>2. CASE PublishResult(r)
  BY <1>2 DEF PublishResult, TypeOK, PoolFacts, process
<1>3. CASE StoreRow(r)
  BY <1>3, Released DEF StoreRow, TypeOK, process
<1> QED
  BY <1>1, <1>2, <1>3 DEF Background

LEMMA MainType ==
    ASSUME TypeOK, PoolFacts, Main
    PROVE  TypeOK' /\ PoolFacts'
<1>1. UNCHANGED rest /\ PoolFacts'
  BY DEF Main, Start, ListenFails, Signal, Tick, Shutdown, Close, rest, PoolFacts
<1>2. grace' \in 0..Grace
  BY DEF Main, Start, ListenFails, Signal, Tick, Shutdown, Close, TypeOK
<1>3. phase' \in {"starting", "serving", "draining", "closing", "exited", "killed"}
  BY DEF Main, Start, ListenFails, Signal, Tick, Shutdown, Close, TypeOK
<1> QED
  BY <1>1, <1>2, <1>3 DEF TypeOK, rest

LEMMA AcquireType ==
    ASSUME TypeOK, PoolFacts, NEW u \in Users, Acquire(u)
    PROVE  TypeOK' /\ PoolFacts'
<1>1. IsFiniteSet(holds') /\ Cardinality(holds') = Cardinality(holds) + 1
  BY FS_AddElement DEF Acquire, PoolFacts
<1>2. Cardinality(holds) \in Nat /\ Cardinality(holds) < MaxConns
  BY FS_CardinalityType DEF Acquire, PoolFacts
<1>3. Cardinality(holds') <= MaxConns
  BY <1>1, <1>2
<1>4. holds' \subseteq Users
  BY DEF Acquire, TypeOK
<1> QED
  BY <1>1, <1>3, <1>4 DEF Acquire, TypeOK, PoolFacts, process

LEMMA TypeNext == TypeOK /\ PoolFacts /\ StageFacts /\ [Next]_vars => TypeOK' /\ PoolFacts'
<1> SUFFICES ASSUME TypeOK, PoolFacts, StageFacts, [Next]_vars PROVE TypeOK' /\ PoolFacts'
  OBVIOUS
<1>1. CASE UNCHANGED vars
  BY <1>1 DEF vars, process, TypeOK, PoolFacts
<1>2. ASSUME NEW r \in Requests, Accept(r) PROVE TypeOK' /\ PoolFacts'
  <2>1. alive' \in [Requests -> BOOLEAN]
    BY <1>2 DEF Accept, TypeOK
  <2>2. at' \in [Requests -> Queries \cup {"new", "connected", "call", "done"}]
    BY <1>2 DEF Accept, TypeOK, Queries
  <2> QED
    BY <1>2, <2>1, <2>2 DEF Accept, TypeOK, PoolFacts, process
<1>3. ASSUME NEW r \in Requests, Complete(r) PROVE TypeOK' /\ PoolFacts'
  BY <1>3, HandlerMoves DEF Complete, TypeOK, process
<1>4. ASSUME NEW k \in Keys, Revoke(k) PROVE TypeOK' /\ PoolFacts'
  BY <1>4 DEF Revoke, TypeOK, PoolFacts, process
<1>5. ASSUME NEW r \in Requests, Connect(r) \/ HangUp(r) PROVE TypeOK' /\ PoolFacts'
  BY <1>5 DEF Connect, HangUp, TypeOK, PoolFacts, process
<1> QED
  BY <1>1, <1>2, <1>3, <1>4, <1>5, QueryType, BackgroundType, MainType, AcquireType
     DEF Next, Handle

LEMMA StageNext == TypeOK /\ StageFacts /\ [Next]_vars => StageFacts'
<1> SUFFICES ASSUME TypeOK, StageFacts, [Next]_vars PROVE StageFacts'
  OBVIOUS
<1>1. CASE UNCHANGED vars
  BY <1>1 DEF vars, StageFacts
<1>2. CASE Main \/ \E k \in Keys : Revoke(k)
  BY <1>2 DEF Main, Start, ListenFails, Signal, Tick, Shutdown, Close, Revoke, rest,
              StageFacts
<1>3. CASE \E u \in Users : Acquire(u)
  BY <1>3 DEF Acquire, StageFacts
<1>4. ASSUME NEW r \in Requests, Background(r) PROVE StageFacts'
  BY <1>4 DEF Background, InsertLog, LogLost, PublishResult, StoreRow, TypeOK, StageFacts
<1>5. ASSUME NEW r \in Requests, Connect(r) \/ HangUp(r) \/ Accept(r) \/ Complete(r)
      PROVE  StageFacts'
  BY <1>5 DEF Connect, HangUp, Accept, Complete, Answer, TypeOK, StageFacts
<1>6. ASSUME NEW r \in Requests, Query(r) PROVE StageFacts'
  <2>1. CASE Health(r) \/ ListKeys(r) \/ CreateKey(r)
    BY <1>6, <2>1 DEF Health, ListKeys, CreateKey, Answer, TypeOK, StageFacts
  <2>2. CASE GetAPIKey(r)
    <3>1. Kind[r] = "create" => r \in Makers
      BY DEF Makers
    <3>2. at[r] = "auth"
      BY <2>2 DEF GetAPIKey, Result
    <3> QED
      BY <2>2, <3>1, <3>2 DEF GetAPIKey, Admit, Goto, Answer, TypeOK, StageFacts
  <2>3. CASE GetDailySpend(r)
    BY <2>3 DEF GetDailySpend, Result, Goto, Answer, TypeOK, StageFacts
  <2>4. CASE FindSimilar(r)
    BY <2>4 DEF FindSimilar, Result, Goto, Answer, TypeOK, StageFacts
  <2> QED
    BY <1>6, <2>1, <2>2, <2>3, <2>4 DEF Query
<1>7. ASSUME NEW r \in Requests, QueryFails(r) PROVE StageFacts'
  BY <1>7 DEF QueryFails, Goto, Answer, TypeOK, StageFacts, Queries
<1> QED
  BY <1>1, <1>2, <1>3, <1>4, <1>5, <1>6, <1>7 DEF Next, Handle

(* Type correctness, and with it that the pool never hands out more connections than
   it has, for all constants. *)
THEOREM TypeCorrect == Spec => []TypeOK
  BY TypeInit, TypeNext, StageNext, PTL DEF Spec

-----------------------------------------------------------------------------
(* Keys *)

(* The life of a key: absent, active, revoked, in this order. *)
Ages(k) == \/ keys'[k] = keys[k]
           \/ keys[k] = "absent" /\ keys'[k] \in Live
           \/ keys[k] \in Live /\ keys'[k] = "revoked"

LEMMA KeyLife ==
    ASSUME TypeOK, StageFacts, KeyFacts, [Next]_vars
    PROVE  \A k \in Keys : Ages(k)
<1>1. CASE UNCHANGED keys
  BY <1>1 DEF Ages
<1>2. ASSUME NEW k \in Keys, Revoke(k) PROVE \A q \in Keys : Ages(q)
  BY <1>2 DEF Revoke, Ages, TypeOK
<1>3. ASSUME NEW r \in Requests, CreateKey(r) \/ QueryFails(r) PROVE \A k \in Keys : Ages(k)
  <2>1. UNCHANGED keys \/ (at[r] = "create" /\ Insert(r))
    BY <1>3 DEF CreateKey, QueryFails, Result
  <2>2. CASE at[r] = "create" /\ Insert(r)
    BY <2>2 DEF Insert, Ages, StageFacts, KeyFacts, TypeOK
  <2> QED
    BY <1>1, <2>1, <2>2
<1> QED
  BY <1>1, <1>2, <1>3
     DEF Next, vars, Main, Start, ListenFails, Signal, Tick, Shutdown, Close, rest,
         Handle, Connect, HangUp, Accept, Query, Health, GetAPIKey, GetDailySpend, FindSimilar,
         ListKeys,
         Complete, Background, InsertLog, LogLost, PublishResult, StoreRow, Acquire

LEMMA KeyFactsInit == Init => KeyFacts /\ DeadKeyFacts
<1>1. Init => \A k \in InitialKeys : keys[k] # "absent"
  BY DEF Init, Keys, Makers
<1>2. Init => \A r \in Makers : keys[r] = "absent"
  BY KeysAreKeys DEF Init
<1> QED
  BY <1>1, <1>2 DEF Init, KeyFacts, DeadKeyFacts

(* A step that starts no request, ends none and creates no key keeps what is known. *)
LEMMA KeyQuiet ==
    ASSUME TypeOK, StageFacts, KeyFacts, DeadKeyFacts, [Next]_vars,
           UNCHANGED alive,
           \A q \in Requests :
               /\ \/ at'[q] = at[q]
                  \/ at[q] \notin {"new", "connected", "done"}
                     /\ at'[q] \notin {"new", "connected"}
               /\ reply'[q] = reply[q] \/ reply'[q] # "201"
               /\ alive[q] \/ Kind[q] = "health" \/ at'[q] \in {at[q], "done"}
               /\ q \in Makers /\ at'[q] # "done" => keys'[q] = keys[q]
    PROVE  KeyFacts' /\ DeadKeyFacts'
<1>1. \A k \in Keys : Ages(k)
  BY KeyLife
<1>2. \A k \in Keys : keys[k] # "absent" => keys'[k] # "absent"
  BY <1>1 DEF Ages, Live
<1>4. KeyFacts'
  <2>1. \A k \in InitialKeys : keys'[k] # "absent"
    BY <1>2, KeysAreKeys DEF KeyFacts
  <2>2. \A r \in Makers : at'[r] # "done" => keys'[r] = "absent"
    BY DEF KeyFacts, Makers
  <2>3. \A r \in Requests : reply'[r] = "201" => r \in Makers /\ keys'[r] # "absent"
    BY <1>2, KeysAreKeys DEF KeyFacts
  <2>4. \A r \in Requests : at'[r] \notin {"new", "connected"} => keys'[Key[r]] # "absent"
    BY <1>2, KeysAreKeys DEF KeyFacts
  <2> QED
    BY <2>1, <2>2, <2>3, <2>4 DEF KeyFacts
<1>3. DeadKeyFacts'
  BY <1>1, KeysAreKeys DEF DeadKeyFacts, Ages, Live
<1> QED
  BY <1>3, <1>4

LEMMA KeyNext ==
    TypeOK /\ StageFacts /\ KeyFacts /\ DeadKeyFacts /\ [Next]_vars
        => KeyFacts' /\ DeadKeyFacts'
<1> SUFFICES ASSUME TypeOK, StageFacts, KeyFacts, DeadKeyFacts, [Next]_vars
             PROVE  KeyFacts' /\ DeadKeyFacts'
  OBVIOUS
<1>1. CASE UNCHANGED <<at, reply, alive, keys>>
  BY <1>1 DEF KeyFacts, DeadKeyFacts
<1>2. ASSUME NEW k \in Keys, Revoke(k) PROVE KeyFacts' /\ DeadKeyFacts'
  <2>1. \A q \in Requests : q \in Makers /\ at[q] # "done" => keys'[q] = keys[q]
    BY <1>2, KeysAreKeys DEF Revoke, KeyFacts, Live, TypeOK
  <2> QED
    BY <1>2, <2>1, KeyQuiet DEF Revoke
<1>3. ASSUME NEW r \in Requests, Accept(r) PROVE KeyFacts' /\ DeadKeyFacts'
  <2>1. keys[Key[r]] # "absent"
    <3>1. CASE Key[r] \in Makers
      BY <1>3, <3>1 DEF Accept, KeyFacts, Makers
    <3>2. CASE Key[r] \in InitialKeys
      BY <3>2 DEF KeyFacts
    <3> QED
      BY <3>1, <3>2, KeysAreKeys DEF Keys
  <2>2. KeyFacts'
    BY <1>3, <2>1 DEF Accept, KeyFacts, TypeOK
  <2>3. alive[r]' \/ keys[Key[r]] = "revoked"
    BY <1>3, <2>1, KeysAreKeys DEF Accept, Live, TypeOK
  <2>4. DeadKeyFacts'
    BY <1>3, <2>3 DEF Accept, DeadKeyFacts, TypeOK
  <2> QED
    BY <2>2, <2>4
<1>8. ASSUME NEW r \in Requests, Connect(r) \/ HangUp(r) PROVE KeyFacts' /\ DeadKeyFacts'
  BY <1>8 DEF Connect, HangUp, KeyFacts, DeadKeyFacts, TypeOK
<1>4. ASSUME NEW r \in Requests, Health(r) \/ ListKeys(r) \/ GetDailySpend(r) \/ FindSimilar(r)
                                 \/ Complete(r)
      PROVE  KeyFacts' /\ DeadKeyFacts'
  <2>1. /\ at[r] \in {"ping", "list", "spend", "sum", "lookup", "call"}
        /\ Goto(r, "sum") \/ Goto(r, "lookup") \/ Goto(r, "call")
           \/ (\E code \in {"200", "refused", "503"} : Answer(r, code))
        /\ UNCHANGED <<keys, alive>>
    BY <1>4 DEF Health, ListKeys, GetDailySpend, FindSimilar, Complete, Result
  <2>2. alive[r] \/ Kind[r] = "health"
    BY <2>1 DEF DeadKeyFacts
  <2> QED
    BY <2>1, <2>2, KeyQuiet DEF Goto, Answer, TypeOK
<1>5. ASSUME NEW r \in Requests, GetAPIKey(r) PROVE KeyFacts' /\ DeadKeyFacts'
  <2>1. at[r] = "auth" /\ UNCHANGED <<keys, alive>>
    BY <1>5 DEF GetAPIKey, Result
  <2>2. CASE keys[Key[r]] \in Live
    <3>1. alive[r]
      BY <2>1, <2>2 DEF DeadKeyFacts, StageFacts, Live
    <3>2. \/ \E stage \in {"spend", "lookup", "call", Kind[r]} : Goto(r, stage)
          \/ \E code \in {"refused", "403"} : Answer(r, code)
      BY <1>5, <2>2 DEF GetAPIKey, Admit
    <3>3. Kind[r] \in {"complete", "create", "list", "health"}
      OBVIOUS
    <3> QED
      BY <2>1, <3>1, <3>2, <3>3, KeyQuiet DEF Goto, Answer, TypeOK
  <2>3. CASE keys[Key[r]] \notin Live
    BY <1>5, <2>1, <2>3, KeyQuiet DEF GetAPIKey, Answer, TypeOK
  <2> QED
    BY <2>2, <2>3
<1>6. ASSUME NEW r \in Requests, CreateKey(r) PROVE KeyFacts' /\ DeadKeyFacts'
  <2>1. /\ at[r] = "create" /\ r \in Makers /\ Insert(r) /\ Answer(r, "201")
        /\ UNCHANGED alive
    BY <1>6 DEF CreateKey, Result, StageFacts
  <2>2. \A k \in Keys : Ages(k)
    BY KeyLife
  <2>3. keys'[r] \in Live
    BY <2>1, KeysAreKeys DEF Insert, TypeOK
  <2>4. KeyFacts'
    BY <2>1, <2>2, <2>3, KeysAreKeys DEF Insert, Answer, KeyFacts, Ages, Live, Keys, TypeOK
  <2>5. DeadKeyFacts'
    BY <2>1, <2>2, KeysAreKeys DEF Answer, DeadKeyFacts, Ages, Live, TypeOK
  <2> QED
    BY <2>4, <2>5
<1>7. ASSUME NEW r \in Requests, QueryFails(r) PROVE KeyFacts' /\ DeadKeyFacts'
  <2>1. /\ at[r] \in Queries /\ UNCHANGED alive
        /\ \/ Goto(r, "call") /\ at[r] = "lookup"
           \/ Goto(r, "sum") /\ at[r] = "spend"
           \/ \E code \in {"200", "500"} : Answer(r, code)
    BY <1>7, Zenon DEF QueryFails
  <2>2. \A q \in Makers : q # r => keys'[q] = keys[q]
    <3>1. UNCHANGED keys \/ Insert(r)
      BY <1>7, Zenon DEF QueryFails
    <3> QED
      BY <3>1, KeysAreKeys DEF Insert, TypeOK
  <2>3. \A q \in Requests : q \in Makers /\ at'[q] # "done" => keys'[q] = keys[q]
    <3>1. UNCHANGED keys \/ at[r] = "create"
      BY <1>7 DEF QueryFails
    <3>2. at[r] = "create" => at'[r] = "done"
      BY <2>1 DEF Answer, TypeOK
    <3> QED
      BY <2>2, <3>1, <3>2
  <2>4. alive[r] \/ Kind[r] = "health" \/ at'[r] = "done"
    BY <2>1 DEF DeadKeyFacts, Goto, Answer, TypeOK
  <2>5. \A q \in Requests :
           /\ \/ at'[q] = at[q]
              \/ at[q] \notin {"new", "connected", "done"}
                 /\ at'[q] \notin {"new", "connected"}
           /\ reply'[q] = reply[q] \/ reply'[q] # "201"
    BY <2>1 DEF Goto, Answer, TypeOK, Queries
  <2>6. \A q \in Requests : alive[q] \/ Kind[q] = "health" \/ at'[q] \in {at[q], "done"}
    BY <2>1, <2>4 DEF Goto, Answer, TypeOK
  <2> QED
    BY <2>1, <2>3, <2>5, <2>6, KeyQuiet
<1> QED
  BY <1>1, <1>2, <1>3, <1>4, <1>5, <1>6, <1>7, <1>8
     DEF Next, vars, Main, Start, ListenFails, Signal, Tick, Shutdown, Close, rest,
         Handle, Query, Background, InsertLog, LogLost, PublishResult, StoreRow, Acquire

(* A key that is handed out or was seeded is honoured until it is revoked, for any
   number of keys and requests, whatever fails. *)
THEOREM KeysHonouredHolds == Spec => []KeysHonoured
<1>1. Init => KeysHonoured
  BY DEF Init, KeysHonoured
<1>2. TypeOK /\ StageFacts /\ KeyFacts /\ KeysHonoured /\ [Next]_vars => KeysHonoured'
  <2> SUFFICES ASSUME TypeOK, StageFacts, KeyFacts, KeysHonoured, [Next]_vars,
                      NEW r \in Requests, reply'[r] = "401"
               PROVE  keys'[Key[r]] = "revoked"
    BY DEF KeysHonoured
  <2>1. Ages(Key[r])
    BY KeyLife, KeysAreKeys
  <2>2. CASE reply[r] = "401"
    BY <2>1, <2>2 DEF KeysHonoured, Ages, Live
  <2>3. CASE reply[r] # "401"
    <3>1. GetAPIKey(r) /\ keys[Key[r]] \notin Live
      BY <2>3 DEF Next, vars, Main, Start, ListenFails, Signal, Tick, Shutdown, Close, rest,
                  Revoke, Handle, Connect, HangUp, Accept, Query, Health, GetAPIKey, Admit,
                  GetDailySpend,
                  FindSimilar, ListKeys, CreateKey, QueryFails, Complete, Goto, Answer,
                  Background, InsertLog, LogLost, PublishResult, StoreRow, Acquire, TypeOK
    <3>2. keys' = keys /\ keys[Key[r]] # "absent"
      BY <3>1 DEF GetAPIKey, Result, KeyFacts
    <3> QED
      BY <3>1, <3>2, KeysAreKeys DEF Live, TypeOK
  <2> QED
    BY <2>2, <2>3
<1> QED
  BY <1>1, <1>2, TypeInit, TypeNext, StageNext, KeyFactsInit, KeyNext, PTL DEF Spec

(* Nothing is done on behalf of a key that was not active when its request arrived. *)
THEOREM OnlyLiveKeysActHolds == Spec => []OnlyLiveKeysAct
<1>1. Init => OnlyLiveKeysAct
  BY DEF Init, OnlyLiveKeysAct
<1>2. TypeOK /\ StageFacts /\ KeyFacts /\ DeadKeyFacts /\ OnlyLiveKeysAct /\ [Next]_vars
          => OnlyLiveKeysAct'
  <2> SUFFICES ASSUME TypeOK, StageFacts, KeyFacts, DeadKeyFacts, OnlyLiveKeysAct, [Next]_vars,
                      NEW r \in Requests, at'[r] \notin {"new", "connected"}, Kind[r] # "health",
                      ~alive'[r]
               PROVE  /\ reply'[r] \in {"none", "401", "500"}
                      /\ log'[r] = "none" /\ store'[r] = "none"
                      /\ r \in Makers => keys'[r] = "absent"
    BY DEF OnlyLiveKeysAct
  <2>1. CASE Accept(r)
    BY <2>1, KeysAreKeys DEF Accept, StageFacts, KeyFacts
  <2>2. CASE GetAPIKey(r)
    <3>1. at[r] = "auth" /\ ~alive[r] /\ keys' = keys
      BY <2>2 DEF GetAPIKey, Result
    <3>2. Answer(r, "401")
      BY <2>2, <3>1 DEF GetAPIKey, DeadKeyFacts, Live
    <3> QED
      BY <2>2, <3>1, <3>2 DEF GetAPIKey, Answer, OnlyLiveKeysAct, TypeOK
  <2>3. CASE QueryFails(r)
    <3>1. at[r] = "auth"
      BY <2>3 DEF QueryFails, DeadKeyFacts, Queries
    <3> QED
      BY <2>3, <3>1 DEF QueryFails, Answer, OnlyLiveKeysAct, TypeOK
  <2>4. CASE ~(Accept(r) \/ GetAPIKey(r) \/ QueryFails(r))
    <3>1. at[r] \notin {"new", "connected"} /\ ~alive[r]
      BY <2>4 DEF Next, vars, Main, Start, ListenFails, Signal, Tick, Shutdown, Close, rest,
                  Revoke, Handle, Connect, HangUp, Accept, Query, Health, GetAPIKey, Admit,
                  GetDailySpend, Result,
                  FindSimilar, ListKeys, CreateKey, QueryFails, Complete, Goto, Answer,
                  Background, InsertLog, LogLost, PublishResult, StoreRow, Acquire, TypeOK, Queries
    <3>2. /\ at[r] \in {"auth", "done"}
          /\ reply[r] \in {"none", "401", "500"} /\ log[r] = "none" /\ store[r] = "none"
          /\ r \in Makers => keys[r] = "absent"
      BY <3>1 DEF DeadKeyFacts, OnlyLiveKeysAct
    <3>3. UNCHANGED <<reply[r], log[r], store[r]>>
      BY <2>4, <3>2
         DEF Next, vars, Main, Start, ListenFails, Signal, Tick, Shutdown, Close, rest,
             Revoke, Handle, Connect, HangUp, Accept, Query, Health, GetAPIKey, Admit,
             GetDailySpend,
             FindSimilar, ListKeys, CreateKey, QueryFails, Complete, Goto, Answer, Result,
             Background, InsertLog, LogLost, PublishResult, StoreRow, Acquire, TypeOK
    <3>4. r \in Makers => keys'[r] = "absent"
      <4>1. CASE \E q \in Requests : CreateKey(q) \/ QueryFails(q)
        BY <2>4, <3>2, <4>1, KeysAreKeys
           DEF CreateKey, QueryFails, Result, Insert, TypeOK
      <4>2. CASE \E k \in Keys : Revoke(k)
        BY <3>2, <4>2, KeysAreKeys DEF Revoke, Live, TypeOK
      <4>3. UNCHANGED keys \/ (\E q \in Requests : CreateKey(q) \/ QueryFails(q))
               \/ \E k \in Keys : Revoke(k)
        BY DEF Next, vars, Main, Start, ListenFails, Signal, Tick, Shutdown, Close, rest,
               Handle, Connect, HangUp, Accept, Query, Health, GetAPIKey, GetDailySpend,
               FindSimilar,
               ListKeys, Complete, Background, InsertLog, LogLost, PublishResult, StoreRow,
               Acquire
      <4> QED
        BY <3>2, <4>1, <4>2, <4>3
    <3> QED
      BY <3>2, <3>3, <3>4
  <2> QED
    BY <2>1, <2>2, <2>3, <2>4
<1> QED
  BY <1>1, <1>2, TypeInit, TypeNext, StageNext, KeyFactsInit, KeyNext, PTL DEF Spec

-----------------------------------------------------------------------------
(* Shutdown *)

(* A shutdown that does not run out of time leaves no request unanswered whose connection
   was accepted, for any number of requests and any grace period. *)
THEOREM DrainedAnsweredHolds == Spec => []DrainedAnswered
<1>1. Init => DrainedAnswered
  BY DEF Init, DrainedAnswered
<1>2. TypeOK /\ DrainedAnswered /\ [Next]_vars => DrainedAnswered'
  <2> SUFFICES ASSUME TypeOK, DrainedAnswered, [Next]_vars,
                      phase' \in {"closing", "exited"}, grace' > 0
               PROVE  InFlight' = {}
    BY DEF DrainedAnswered
  <2>1. CASE Shutdown
    <3>1. InFlight = {}
      BY <2>1 DEF Shutdown
    <3> QED
      BY <2>1, <3>1 DEF Shutdown, InFlight, rest
  <2>2. CASE ~Shutdown
    <3>1. phase \in {"closing", "exited"} /\ grace' = grace
      BY <2>2 DEF Next, vars, Main, Start, ListenFails, Signal, Tick, Close,
                  Revoke, Handle, Connect, HangUp, Accept, Query, Health, GetAPIKey,
                  GetDailySpend, FindSimilar, ListKeys, CreateKey, QueryFails, Complete,
                  Background, InsertLog, LogLost, PublishResult, StoreRow, Acquire, process
    <3>2. InFlight = {} /\ \A q \in Requests : at[q] \in {"new", "done"}
      BY <3>1 DEF DrainedAnswered, InFlight
    <3>3. at' = at
      <4>1. ASSUME NEW q \in Requests, Handle(q) PROVE FALSE
        <5>1. at[q] \in {"new", "done"}
          BY <3>2
        <5> QED
          BY <3>1, <4>1, <5>1 DEF Handle, Connect, HangUp, Accept, Query, Health, GetAPIKey,
             GetDailySpend, FindSimilar, ListKeys, CreateKey, QueryFails, Complete, Result,
             Queries
      <4> QED
        BY <4>1 DEF Next, vars, Main, Start, ListenFails, Signal, Tick, Shutdown, Close, rest,
             Revoke, Background, InsertLog, LogLost, PublishResult, StoreRow, Acquire
    <3> QED
      BY <3>2, <3>3 DEF InFlight
  <2> QED
    BY <2>1, <2>2
<1> QED
  BY <1>1, <1>2, TypeInit, TypeNext, StageNext, PTL DEF Spec
=============================================================================
