------------------------------ MODULE Metrics -------------------------------
(***************************************************************************)
(* Requests handled by several threads at once: the router's chain with    *)
(* its counting middleware, the routes, and /metrics with refresh_qps, one *)
(* step per access to an atomic that other threads write.                  *)
(*                                                                         *)
(* Time is in units of the window refresh_qps wants between two rates.     *)
(***************************************************************************)
EXTENDS Integers, FiniteSets

CONSTANTS
    Threads,      \* threads that run handlers
    MaxRequests,  \* bound: requests begun
    MaxTime,      \* bound: the clock
    Word          \* the integers of the code are modulo this (2^64)

ASSUME MetricsAssumption ==
    /\ IsFiniteSet(Threads) /\ MaxRequests \in Nat /\ MaxTime \in Nat \ {0}
    /\ Word \in Nat /\ Word > MaxRequests

VARIABLES
    total,      \* total_requests
    lastCount,  \* qps_last_count
    lastTs,     \* qps_last_ts_ms
    current,    \* qps_current
    clock,      \* steady_clock::now()
    pc,         \* where a thread is in its request
    local,      \* its variables in refresh_qps
    \* --- history
    begun, answered   \* requests begun and answered

shared == <<total, lastCount, lastTs, current>>
vars == <<shared, clock, pc, local, begun, answered>>

Counts == 0..MaxRequests
Refreshing == {"load1", "load2", "load3", "rate", "storeCount", "storeTs"}
Zero == [now |-> 0, ts |-> 0, last |-> 0, cur |-> 0]

TypeOK ==
    /\ total \in Counts /\ lastCount \in Counts /\ lastTs \in 0..MaxTime
    /\ current \in 0..Word - 1 /\ clock \in 0..MaxTime
    /\ pc \in [Threads -> Refreshing \cup {"idle", "now", "count", "reply"}]
    /\ local \in [Threads -> [now : 0..MaxTime, ts : 0..MaxTime, last : Counts, cur : Counts]]
    /\ begun \in Counts /\ answered \in Counts

\* steady_clock counts from the start of the machine: the first window is over
Init ==
    /\ total = 0 /\ lastCount = 0 /\ lastTs = 0 /\ current = 0 /\ clock = 1
    /\ pc = [t \in Threads |-> "idle"] /\ local = [t \in Threads |-> Zero]
    /\ begun = 0 /\ answered = 0

Goto(t, from, to) == pc[t] = from /\ pc' = [pc EXCEPT ![t] = to]

-----------------------------------------------------------------------------
\* HttpRouter::handle: the middleware calls the rest of the chain and counts
\* when it has returned.  What the chain did, run a route, answer an exception
\* with a 500 or an unknown path with a 404, is all the same to the counters.
Handle(t) ==
    /\ begun < MaxRequests
    /\ Goto(t, "idle", "count")
    /\ begun' = begun + 1
    /\ UNCHANGED <<shared, clock, local, answered>>

\* ... or the route is /metrics, and to_json calls refresh_qps
HandleMetrics(t) ==
    /\ begun < MaxRequests
    /\ Goto(t, "idle", "now")
    /\ begun' = begun + 1
    /\ UNCHANGED <<shared, clock, local, answered>>

Now(t) ==
    /\ Goto(t, "now", "load1")
    /\ local' = [local EXCEPT ![t].now = clock]
    /\ UNCHANGED <<shared, clock, begun, answered>>

LoadMutant(l, k) ==
    CASE k = 1 -> [l EXCEPT !.ts = lastTs]
      [] k = 2 -> [l EXCEPT !.cur = total]
      [] k = 3 -> [l EXCEPT !.last = lastCount]

\* The three atomics refresh_qps loads, in its order
Load(l, k) ==
    CASE k = 1 -> [l EXCEPT !.ts = lastTs]
      [] k = 2 -> [l EXCEPT !.last = lastCount]
      [] k = 3 -> [l EXCEPT !.cur = total]

LoadFirst(t) ==
    /\ Goto(t, "load1", "load2")
    /\ local' = [local EXCEPT ![t] = Load(@, 1)]
    /\ UNCHANGED <<shared, clock, begun, answered>>

LoadSecond(t) ==
    /\ Goto(t, "load2", "load3")
    /\ local' = [local EXCEPT ![t] = Load(@, 2)]
    /\ UNCHANGED <<shared, clock, begun, answered>>

\* dt < 1 returns the rate that is there
LoadThird(t) ==
    /\ Goto(t, "load3", IF local[t].now - local[t].ts >= 1 THEN "rate" ELSE "count")
    /\ local' = [local EXCEPT ![t] = Load(@, 3)]
    /\ UNCHANGED <<shared, clock, begun, answered>>

\* (cur_cnt - last_count) / dt, in unsigned integers
Rate(l) == ((l.cur - l.last) % Word) \div (l.now - l.ts)

StoreRate(t) ==
    /\ Goto(t, "rate", "storeCount")
    /\ current' = Rate(local[t])
    /\ UNCHANGED <<total, lastCount, lastTs, clock, local, begun, answered>>

StoreCount(t) ==
    /\ Goto(t, "storeCount", "storeTs")
    /\ lastCount' = local[t].cur
    /\ UNCHANGED <<total, lastTs, current, clock, local, begun, answered>>

StoreTs(t) ==
    /\ Goto(t, "storeTs", "count")
    /\ lastTs' = local[t].now
    /\ UNCHANGED <<total, lastCount, current, clock, local, begun, answered>>

\* total_requests.fetch_add, when the chain has returned to the middleware
Count(t) ==
    /\ Goto(t, "count", "reply")
    /\ total' = total + 1
    /\ UNCHANGED <<lastCount, lastTs, current, clock, local, begun, answered>>

\* handle_http_request sends the response
Respond(t) ==
    /\ Goto(t, "reply", "idle")
    /\ answered' = answered + 1
    /\ local' = [local EXCEPT ![t] = Zero]
    /\ UNCHANGED <<shared, clock, begun>>

Tick ==
    /\ clock < MaxTime
    /\ clock' = clock + 1
    /\ UNCHANGED <<shared, pc, local, begun, answered>>

RefreshQps(t) ==
    \/ Now(t) \/ LoadFirst(t) \/ LoadSecond(t) \/ LoadThird(t)
    \/ StoreRate(t) \/ StoreCount(t) \/ StoreTs(t)

Terminated ==
    /\ begun = MaxRequests /\ clock = MaxTime /\ \A t \in Threads : pc[t] = "idle"
    /\ UNCHANGED vars

Next ==
    \/ \E t \in Threads :
          \/ Handle(t) \/ HandleMetrics(t) \/ RefreshQps(t) \/ Count(t) \/ Respond(t)
    \/ Tick \/ Terminated

Spec == Init /\ [][Next]_vars

-----------------------------------------------------------------------------
(* The state is of its types, and the rate reported is never more than the  *)
(* number of requests there were: the unsigned difference of refresh_qps    *)
(* does not wrap around, because qps_last_count is read before              *)
(* total_requests, whatever other threads count and store in between.       *)
RateIsPlausible == TypeOK /\ current <= total
=============================================================================
