---------------------------- MODULE MetricsProofs ---------------------------
(***************************************************************************)
(* The request counter and the rate of refresh_qps, for any number of      *)
(* threads and requests.                                                   *)
(***************************************************************************)
EXTENDS Metrics, FiniteSetTheorems, TLAPS

(* Threads that are in a request, and those that are about to answer one.   *)
Busy == {t \in Threads : pc[t] # "idle"}
Replying == {t \in Threads : pc[t] = "reply"}

(* What is begun is answered or in somebody's hands, and what is counted is *)
(* answered or about to be; without it nothing keeps the counter within the *)
(* number of requests.                                                      *)
CountInv ==
    /\ TypeOK
    /\ total = answered + Cardinality(Replying)
    /\ begun = answered + Cardinality(Busy)

(* A thread inside refresh_qps has read a last count that the counter had   *)
(* already reached, and before it read the counter.                         *)
LocalInv(t) ==
    /\ pc[t] = "load3" => local[t].last <= total
    /\ pc[t] \in {"rate", "storeCount"} =>
           local[t].last <= local[t].cur /\ local[t].cur <= total
    /\ pc[t] = "rate" => local[t].now - local[t].ts >= 1

RateInv ==
    /\ lastCount <= total
    /\ current <= total
    /\ \A t \in Threads : LocalInv(t)

-----------------------------------------------------------------------------
(* Arithmetic of the rate.                                                  *)

(* A number below the word is not changed by reduction to it.               *)
LEMMA ModSmall == ASSUME NEW x \in Nat, NEW w \in Nat, x < w PROVE x % w = x
  OBVIOUS

(* A quotient is not more than the number that was divided.                 *)
LEMMA DivSmall == ASSUME NEW x \in Nat, NEW d \in Nat, d >= 1 PROVE x \div d \in 0..x
  OBVIOUS

(* refresh_qps's rate over a window of at least one unit, whose counts are  *)
(* in order, is at most the count at its end: nothing wraps around.         *)
LEMMA RateBound ==
  ASSUME NEW l \in [now : 0..MaxTime, ts : 0..MaxTime, last : Counts, cur : Counts],
         l.last <= l.cur, l.now - l.ts >= 1
  PROVE  Rate(l) \in 0..l.cur
<1> DEFINE x == l.cur - l.last
           d == l.now - l.ts
<1>1. x \in Nat /\ x < Word /\ x <= l.cur /\ d \in Nat /\ d >= 1 /\ Word \in Nat
  BY MetricsAssumption DEF Counts
<1>2. Rate(l) = x \div d
  BY <1>1, ModSmall DEF Rate
<1> QED
  BY <1>1, <1>2, DivSmall DEF Counts

-----------------------------------------------------------------------------
(* Counting threads.                                                        *)

(* Both sets of threads are finite.                                         *)
LEMMA ThreadsFinite ==
  /\ IsFiniteSet(Busy) /\ IsFiniteSet(Replying)
  /\ Cardinality(Busy) \in Nat /\ Cardinality(Replying) \in Nat
BY MetricsAssumption, FS_Subset, FS_CardinalityType DEF Busy, Replying

(* The threads in a request after one thread has moved.                     *)
LEMMA BusyAfter ==
  ASSUME TypeOK, NEW t \in Threads, NEW to, pc' = [pc EXCEPT ![t] = to]
  PROVE  /\ pc[t] = "idle" /\ to # "idle" => Cardinality(Busy') = Cardinality(Busy) + 1
         /\ pc[t] # "idle" /\ to = "idle" => Cardinality(Busy') = Cardinality(Busy) - 1
         /\ pc[t] # "idle" /\ to # "idle" => Cardinality(Busy') = Cardinality(Busy)
<1>1. to # "idle" => Busy' = Busy \cup {t}
  BY DEF Busy, TypeOK
<1>2. to = "idle" => Busy' = Busy \ {t}
  BY DEF Busy, TypeOK
<1>3. t \in Busy <=> pc[t] # "idle"
  BY DEF Busy
<1> QED
  BY <1>1, <1>2, <1>3, ThreadsFinite, FS_AddElement, FS_RemoveElement

(* The threads about to answer after one thread has moved.                  *)
LEMMA ReplyingAfter ==
  ASSUME TypeOK, NEW t \in Threads, NEW to, pc' = [pc EXCEPT ![t] = to]
  PROVE  /\ pc[t] # "reply" /\ to = "reply" =>
                Cardinality(Replying') = Cardinality(Replying) + 1
         /\ pc[t] = "reply" /\ to # "reply" =>
                Cardinality(Replying') = Cardinality(Replying) - 1
         /\ pc[t] # "reply" /\ to # "reply" => Cardinality(Replying') = Cardinality(Replying)
<1>1. to = "reply" => Replying' = Replying \cup {t}
  BY DEF Replying, TypeOK
<1>2. to # "reply" => Replying' = Replying \ {t}
  BY DEF Replying, TypeOK
<1>3. t \in Replying <=> pc[t] = "reply"
  BY DEF Replying
<1>4. pc[t] # "reply" /\ to # "reply" => Replying' = Replying
  BY <1>2, <1>3
<1> QED
  BY <1>1, <1>2, <1>3, <1>4, ThreadsFinite, FS_AddElement, FS_RemoveElement

(* A request that is not yet counted is one of those that are begun, so     *)
(* there is room in the counter for it.                                     *)
LEMMA RoomToCount ==
  ASSUME CountInv, NEW t \in Threads, pc[t] = "count"
  PROVE  total + 1 <= begun
<1>1. Replying \cup {t} \subseteq Busy /\ t \notin Replying
  BY DEF Busy, Replying
<1>2. Cardinality(Replying \cup {t}) = Cardinality(Replying) + 1
  BY <1>1, ThreadsFinite, FS_AddElement
<1>3. Cardinality(Replying \cup {t}) <= Cardinality(Busy)
  BY <1>1, ThreadsFinite, FS_Subset
<1> QED
  BY <1>2, <1>3, ThreadsFinite
     DEF CountInv, Replying, TypeOK, Counts

-----------------------------------------------------------------------------
(* The inductive invariant.  The rate stays within the word only because it *)
(* is plausible, and the counter within its bound only because it counts    *)
(* requests that were begun, so the parts are proved together.              *)
Inv == CountInv /\ RateInv

Locals == [now : 0..MaxTime, ts : 0..MaxTime, last : Counts, cur : Counts]

(* The three loads, one at a time.                                          *)
LEMMA LoadCases ==
  ASSUME TypeOK, NEW l \in Locals
  PROVE  /\ Load(l, 1) \in Locals
         /\ Load(l, 2) \in Locals /\ Load(l, 2).last = lastCount
         /\ Load(l, 3) \in Locals /\ Load(l, 3).cur = total /\ Load(l, 3).last = l.last
         /\ Load(l, 3).now = l.now /\ Load(l, 3).ts = l.ts
<1>1. Load(l, 1) = [l EXCEPT !.ts = lastTs]
  BY DEF Load
<1>2. Load(l, 2) = [l EXCEPT !.last = lastCount]
  BY DEF Load
<1>3. Load(l, 3) = [l EXCEPT !.cur = total]
  BY DEF Load
<1>4. [l EXCEPT !.ts = lastTs] \in Locals
  BY DEF Locals, TypeOK
<1>5. [l EXCEPT !.last = lastCount] \in Locals /\ [l EXCEPT !.last = lastCount].last = lastCount
  BY DEF Locals, TypeOK
<1>6. /\ [l EXCEPT !.cur = total] \in Locals /\ [l EXCEPT !.cur = total].cur = total
      /\ [l EXCEPT !.cur = total].last = l.last /\ [l EXCEPT !.cur = total].now = l.now
      /\ [l EXCEPT !.cur = total].ts = l.ts
  BY DEF Locals, TypeOK
<1>7. Load(l, 1) \in Locals
  BY <1>1, <1>4, Zenon
<1>8. Load(l, 2) \in Locals /\ Load(l, 2).last = lastCount
  BY <1>2, <1>5, Zenon
<1>9. /\ Load(l, 3) \in Locals /\ Load(l, 3).cur = total /\ Load(l, 3).last = l.last
      /\ Load(l, 3).now = l.now /\ Load(l, 3).ts = l.ts
  BY <1>3, <1>6, Zenon
<1> QED
  BY <1>7, <1>8, <1>9

(* A step of refresh_qps neither begins, counts nor answers a request.      *)
LEMMA RefreshFrame ==
  ASSUME CountInv, NEW t \in Threads, RefreshQps(t), TypeOK'
  PROVE  CountInv'
<1>1. TypeOK
  BY DEF CountInv
<1>2. UNCHANGED <<total, begun, answered>> /\ pc[t] \notin {"idle", "reply"}
  <2>1. CASE Now(t)
    BY <2>1, Zenon DEF Now, Goto, shared
  <2>2. CASE LoadFirst(t) \/ LoadSecond(t) \/ LoadThird(t)
    BY <2>2 DEF LoadFirst, LoadSecond, LoadThird, Goto, shared
  <2>3. CASE StoreRate(t) \/ StoreCount(t) \/ StoreTs(t)
    BY <2>3 DEF StoreRate, StoreCount, StoreTs, Goto
  <2> QED
    BY <2>1, <2>2, <2>3 DEF RefreshQps
<1>3. PICK to \in {"load1", "load2", "load3", "rate", "storeCount", "storeTs", "count"} :
          pc' = [pc EXCEPT ![t] = to]
  <2>1. CASE Now(t)
    BY <2>1 DEF Now, Goto
  <2>2. CASE LoadFirst(t) \/ LoadSecond(t) \/ LoadThird(t)
    BY <2>2 DEF LoadFirst, LoadSecond, LoadThird, Goto
  <2>3. CASE StoreRate(t) \/ StoreCount(t) \/ StoreTs(t)
    BY <2>3 DEF StoreRate, StoreCount, StoreTs, Goto
  <2> QED
    BY <2>1, <2>2, <2>3 DEF RefreshQps
<1>4. Cardinality(Busy') = Cardinality(Busy)
  BY <1>1, <1>2, <1>3, BusyAfter
<1>5. Cardinality(Replying') = Cardinality(Replying)
  BY <1>1, <1>2, <1>3, ReplyingAfter
<1> QED
  BY <1>2, <1>4, <1>5 DEF CountInv, Replying

(* refresh_qps preserves the invariant, whatever the other threads have     *)
(* stored since it began.                                                   *)
LEMMA RefreshStep ==
  ASSUME Inv, NEW t \in Threads, RefreshQps(t) PROVE Inv'
<1>1. TypeOK /\ RateInv
  BY DEF Inv, CountInv
<1>2. local[t] \in Locals /\ lastTs \in 0..MaxTime /\ lastCount \in Counts
      /\ total \in Counts /\ clock \in 0..MaxTime
  BY <1>1 DEF TypeOK, Locals
<1>3. SUFFICES TypeOK' /\ RateInv'
  BY RefreshFrame DEF Inv
<1>4. ASSUME NEW l \in Locals, NEW to,
             to \in {"load1", "load2", "load3", "rate", "storeCount", "storeTs", "count"},
             local' = [local EXCEPT ![t] = l], pc' = [pc EXCEPT ![t] = to],
             UNCHANGED <<total, lastCount, lastTs, clock, begun, answered>>,
             current' \in 0..total,
             to = "load3" => l.last <= total,
             to \in {"rate", "storeCount"} => l.last <= l.cur /\ l.cur <= total,
             to = "rate" => l.now - l.ts >= 1
      PROVE  TypeOK' /\ RateInv'
  <2>1. TypeOK'
    BY <1>1, <1>4, MetricsAssumption DEF TypeOK, Locals, Counts, Refreshing
  <2>2. ASSUME NEW u \in Threads PROVE LocalInv(u)'
    <3>1. CASE u = t
      BY <1>1, <1>4, <3>1 DEF TypeOK, LocalInv
    <3>2. CASE u # t
      BY <1>1, <1>4, <3>2 DEF TypeOK, RateInv, LocalInv
    <3> QED
      BY <3>1, <3>2
  <2> QED
    BY <1>1, <1>4, <2>1, <2>2 DEF RateInv, TypeOK, Counts
<1>5. CASE Now(t)
  <2> DEFINE l == [local[t] EXCEPT !.now = clock]
  <2>1. l \in Locals
    BY <1>2 DEF Locals
  <2>2. local' = [local EXCEPT ![t] = l] /\ pc' = [pc EXCEPT ![t] = "load1"]
        /\ UNCHANGED <<total, lastCount, lastTs, clock, begun, answered, current>>
    BY <1>1, <1>5 DEF Now, Goto, shared, TypeOK
  <2>3. current' \in 0..total /\ lastCount <= total
    BY <1>1, <2>2 DEF RateInv, TypeOK, Counts
  <2> HIDE DEF l
  <2> QED
    BY <1>4, <2>1, <2>2, <2>3
<1>6. CASE LoadFirst(t)
  <2> DEFINE l == Load(local[t], 1)
  <2>1. l \in Locals
    BY <1>1, <1>2, LoadCases
  <2>2. local' = [local EXCEPT ![t] = l] /\ pc' = [pc EXCEPT ![t] = "load2"]
        /\ UNCHANGED <<total, lastCount, lastTs, clock, begun, answered, current>>
    BY <1>6 DEF LoadFirst, Goto, shared
  <2>3. current' \in 0..total /\ lastCount <= total
    BY <1>1, <2>2 DEF RateInv, TypeOK, Counts
  <2> HIDE DEF l
  <2> QED
    BY <1>4, <2>1, <2>2, <2>3
<1>7. CASE LoadSecond(t)
  <2> DEFINE l == Load(local[t], 2)
  <2>1. l \in Locals /\ l.last = lastCount
    BY <1>1, <1>2, LoadCases
  <2>2. local' = [local EXCEPT ![t] = l] /\ pc' = [pc EXCEPT ![t] = "load3"]
        /\ UNCHANGED <<total, lastCount, lastTs, clock, begun, answered, current>>
    BY <1>7 DEF LoadSecond, Goto, shared
  <2>3. current' \in 0..total /\ lastCount <= total
    BY <1>1, <2>2 DEF RateInv, TypeOK, Counts
  <2> HIDE DEF l
  <2> QED
    BY <1>4, <2>1, <2>2, <2>3
<1>8. CASE LoadThird(t)
  <2> DEFINE l == Load(local[t], 3)
             to == IF local[t].now - local[t].ts >= 1 THEN "rate" ELSE "count"
  <2>1. l \in Locals /\ l.cur = total /\ l.last = local[t].last
        /\ l.now = local[t].now /\ l.ts = local[t].ts
    BY <1>1, <1>2, LoadCases
  <2>2. local' = [local EXCEPT ![t] = l] /\ pc' = [pc EXCEPT ![t] = to] /\ pc[t] = "load3"
        /\ UNCHANGED <<total, lastCount, lastTs, clock, begun, answered, current>>
    BY <1>8 DEF LoadThird, Goto, shared
  <2>3. l.last <= total
    BY <1>1, <2>1, <2>2 DEF RateInv, LocalInv
  <2>4. to \in {"rate", "count"} /\ (to = "rate" => l.now - l.ts >= 1)
    BY <2>1
  <2>5. current' \in 0..total /\ total <= total
    BY <1>1, <2>2 DEF RateInv, TypeOK, Counts
  <2> HIDE DEF l, to
  <2> QED
    BY <1>4, <2>1, <2>2, <2>3, <2>4, <2>5
<1>9. CASE StoreRate(t)
  <2>1. pc[t] = "rate" /\ pc' = [pc EXCEPT ![t] = "storeCount"] /\ current' = Rate(local[t])
        /\ UNCHANGED <<total, lastCount, lastTs, clock, local, begun, answered>>
    BY <1>9 DEF StoreRate, Goto
  <2>2. local[t].last <= local[t].cur /\ local[t].cur <= total /\ local[t].now - local[t].ts >= 1
    BY <1>1, <2>1 DEF RateInv, LocalInv
  <2>3. current' \in 0..total
    BY <1>2, <2>1, <2>2, RateBound DEF Locals, Counts
  <2>4. local' = [local EXCEPT ![t] = local[t]]
    BY <1>1, <2>1 DEF TypeOK
  <2> QED
    BY <1>2, <1>4, <2>1, <2>2, <2>3, <2>4
<1>10. CASE StoreCount(t)
  <2>1. /\ pc[t] = "storeCount" /\ pc' = [pc EXCEPT ![t] = "storeTs"] /\ lastCount' = local[t].cur
        /\ UNCHANGED <<total, current, lastTs, clock, local, begun, answered>>
    BY <1>10 DEF StoreCount, Goto
  <2>2. TypeOK'
    BY <1>1, <1>2, <2>1 DEF TypeOK, Refreshing, Locals
  <2>3. lastCount' <= total'
    BY <1>1, <2>1 DEF RateInv, LocalInv
  <2>4. \A u \in Threads : LocalInv(u)'
    BY <1>1, <2>1 DEF RateInv, LocalInv, TypeOK
  <2> QED
    BY <1>1, <2>1, <2>2, <2>3, <2>4 DEF RateInv
<1>11. CASE StoreTs(t)
  <2>1. /\ pc' = [pc EXCEPT ![t] = "count"] /\ lastTs' = local[t].now
        /\ UNCHANGED <<total, current, lastCount, clock, local, begun, answered>>
    BY <1>11 DEF StoreTs, Goto
  <2>2. TypeOK'
    BY <1>1, <1>2, <2>1 DEF TypeOK, Locals
  <2>3. \A u \in Threads : LocalInv(u)'
    BY <1>1, <2>1 DEF RateInv, LocalInv, TypeOK
  <2> QED
    BY <1>1, <2>1, <2>2, <2>3 DEF RateInv
<1> QED
  BY <1>5, <1>6, <1>7, <1>8, <1>9, <1>10, <1>11 DEF RefreshQps

(* Beginning, counting and answering a request.                             *)
LEMMA RequestStep ==
  ASSUME Inv, NEW t \in Threads,
         Handle(t) \/ HandleMetrics(t) \/ Count(t) \/ Respond(t)
  PROVE  Inv'
<1>1. CountInv /\ TypeOK /\ RateInv
  BY DEF Inv, CountInv
<1>2. Cardinality(Busy) \in Nat /\ Cardinality(Replying) \in Nat
  BY ThreadsFinite
<1>3. CASE Handle(t) \/ HandleMetrics(t)
  <2>1. /\ pc[t] = "idle" /\ begun < MaxRequests /\ begun' = begun + 1
        /\ UNCHANGED <<total, lastCount, lastTs, current, clock, local, answered>>
    BY <1>3 DEF Handle, HandleMetrics, Goto, shared
  <2>2. PICK to \in {"count", "now"} : pc' = [pc EXCEPT ![t] = to]
    BY <1>3 DEF Handle, HandleMetrics, Goto
  <2>3. TypeOK'
    BY <1>1, <2>1, <2>2, MetricsAssumption DEF TypeOK, Counts
  <2>4. Cardinality(Busy') = Cardinality(Busy) + 1 /\ Cardinality(Replying') = Cardinality(Replying)
    BY <1>1, <2>1, <2>2, BusyAfter, ReplyingAfter
  <2>5. CountInv'
    BY <1>1, <1>2, <2>1, <2>3, <2>4
       DEF CountInv, Replying, TypeOK, Counts
  <2>6. RateInv'
    BY <1>1, <2>1, <2>2 DEF RateInv, LocalInv, TypeOK
  <2> QED
    BY <2>5, <2>6 DEF Inv
<1>4. CASE Count(t)
  <2>1. /\ pc[t] = "count" /\ pc' = [pc EXCEPT ![t] = "reply"] /\ total' = total + 1
        /\ UNCHANGED <<lastCount, lastTs, current, clock, local, begun, answered>>
    BY <1>4 DEF Count, Goto
  <2>2. TypeOK'
    BY <1>1, <2>1, RoomToCount, MetricsAssumption DEF TypeOK, Counts
  <2>3. Cardinality(Busy') = Cardinality(Busy) /\ Cardinality(Replying') = Cardinality(Replying) + 1
    <3>1. Cardinality(Busy') = Cardinality(Busy)
      <4>1. pc[t] # "idle" /\ "reply" # "idle"
        BY <2>1
      <4> QED
        BY <1>1, <2>1, <4>1, BusyAfter, Zenon
    <3>2. Cardinality(Replying') = Cardinality(Replying) + 1
      BY <1>1, <2>1, ReplyingAfter
    <3> QED
      BY <3>1, <3>2
  <2>4. CountInv'
    BY <1>1, <1>2, <2>1, <2>2, <2>3
       DEF CountInv, Replying, TypeOK, Counts
  <2>5. ASSUME NEW u \in Threads PROVE LocalInv(u)'
    BY <1>1, <2>1, MetricsAssumption DEF RateInv, LocalInv, TypeOK, Counts
  <2>6. RateInv'
    BY <1>1, <2>1, <2>5, MetricsAssumption DEF RateInv, TypeOK, Counts
  <2> QED
    BY <2>4, <2>6 DEF Inv
<1>5. CASE Respond(t)
  <2>1. /\ pc[t] = "reply" /\ pc' = [pc EXCEPT ![t] = "idle"] /\ answered' = answered + 1
        /\ local' = [local EXCEPT ![t] = Zero]
        /\ UNCHANGED <<total, lastCount, lastTs, current, clock, begun>>
    BY <1>5 DEF Respond, Goto, shared
  <2>2. Cardinality(Busy') = Cardinality(Busy) - 1 /\ Cardinality(Replying') = Cardinality(Replying) - 1
    <3>1. Cardinality(Busy') = Cardinality(Busy) - 1
      BY <1>1, <2>1, BusyAfter
    <3>2. Cardinality(Replying') = Cardinality(Replying) - 1
      <4>1. pc[t] = "reply" /\ "idle" # "reply"
        BY <2>1
      <4> QED
        BY <1>1, <2>1, <4>1, ReplyingAfter, Zenon
    <3> QED
      BY <3>1, <3>2
  <2>3. Cardinality(Busy') \in Nat
    <3>1. Busy' \subseteq Threads
      BY DEF Busy
    <3> QED
      BY <3>1, MetricsAssumption, FS_Subset, FS_CardinalityType
  <2>4. TypeOK'
    <3>1. Zero \in Locals
      BY MetricsAssumption DEF Zero, Locals, Counts
    <3>2. answered' \in Counts
      BY <1>1, <1>2, <2>1, <2>2, <2>3, MetricsAssumption DEF CountInv, TypeOK, Counts
    <3> HIDE DEF Zero
    <3> QED
      BY <1>1, <2>1, <3>1, <3>2 DEF TypeOK, Locals
  <2>5. CountInv'
    BY <1>1, <1>2, <2>1, <2>2, <2>4
       DEF CountInv, Replying, TypeOK, Counts
  <2>6. ASSUME NEW u \in Threads PROVE LocalInv(u)'
    BY <1>1, <2>1 DEF RateInv, LocalInv, TypeOK
  <2>7. RateInv'
    BY <1>1, <2>1, <2>6 DEF RateInv
  <2> QED
    BY <2>5, <2>7 DEF Inv
<1> QED
  BY <1>3, <1>4, <1>5

(* The invariant holds in every state of every instance.                    *)
LEMMA InvHolds == Spec => []Inv
<1>1. Init => Inv
  <2> SUFFICES ASSUME Init PROVE Inv
    OBVIOUS
  <2>1. Busy = {} /\ Replying = {}
    BY DEF Init, Busy, Replying
  <2>2. Cardinality(Busy) = 0 /\ Cardinality(Replying) = 0
    BY <2>1, FS_EmptySet
  <2>3. TypeOK
    BY MetricsAssumption DEF Init, TypeOK, Counts, Zero
  <2> QED
    BY <2>2, <2>3 DEF Init, Inv, CountInv, Replying, RateInv,
       LocalInv
<1>2. Inv /\ [Next]_vars => Inv'
  <2> SUFFICES ASSUME Inv, [Next]_vars PROVE Inv'
    OBVIOUS
  <2>1. CASE Tick
    <3>1. TypeOK'
      BY <2>1, MetricsAssumption DEF Inv, CountInv, TypeOK, Tick, shared
    <3> QED
      BY <2>1, <3>1 DEF Inv, CountInv, Busy, Replying, RateInv, LocalInv, Tick, shared
  <2>2. CASE UNCHANGED vars
    BY <2>2 DEF vars, shared, Inv, CountInv, TypeOK, Busy, Replying, RateInv,
       LocalInv
  <2> QED
    BY <2>1, <2>2, RefreshStep, RequestStep DEF Next, Terminated
<1> QED
  BY <1>1, <1>2, PTL DEF Spec

-----------------------------------------------------------------------------
(* For any number of threads, however their calls of refresh_qps and their  *)
(* counting interleave, the rate never wraps around.                        *)
THEOREM RateNeverWraps == Spec => []RateIsPlausible
<1>1. Inv => RateIsPlausible
  BY DEF Inv, CountInv, RateInv, RateIsPlausible
<1> QED
  BY <1>1, InvHolds, PTL
=============================================================================
