--------------------------- MODULE UrbQueues_proofs ---------------------------
(***************************************************************************)
(* Every request is in exactly one place, for every number of requests and *)
(* of ring entries.  RequestAccounted is not inductive: that nothing is    *)
(* queued twice needs that a thread which is about to forward a request is *)
(* the only one that has it.  QueuesInv says who has a request: the        *)
(* RequestQueue, once; one drainer, which waits without the lock; the      *)
(* backend; or its own dispatch thread.  The bound of RequeuedCount, which *)
(* is never compared with anything but zero, needs the threads that may    *)
(* still count: the drainers with a request to put back and the requests   *)
(* whose dispatch thread has not decided.                                  *)
(***************************************************************************)
EXTENDS UrbQueues, FiniteSetTheorems, SequenceTheorems, TLAPS

-------------------------------------------------------------------------------
(* The invariant.                                                          *)

RequestsOf(q) == {q[i] : i \in 1 .. Len(q)}
OnceEach(q) == \A i, j \in 1 .. Len(q) : q[i] = q[j] => i = j

Placed(where) == {r \in Reqs : place[r] = where}

QueueExact == OnceEach(requestQueue) /\ RequestsOf(requestQueue) = Placed("requestQueue")

ThreadsAgree ==
  \A r \in Reqs :
    /\ place[r] \in {"new", "urbQueue"} => thread[r] = "idle"
    /\ place[r] = "handler" <=> thread[r] \in {"enter", "stop", "forward", "config"}

\* A drainer that waits with a request owns it, and no other drainer does.
OwnsOne ==
  \A d \in Drainers :
    /\ own[d] # NULL <=> drainer[d] \in {"stop", "forward", "config"}
    /\ own[d] # NULL => place[own[d]] = "drainer"
    /\ \A e \in Drainers : own[d] = own[e] /\ own[d] # NULL => d = e

HasDrainer == \A r \in Reqs : place[r] = "drainer" => \E d \in Drainers : own[d] = r

RingExact ==
  /\ ring \cap answered \cap Reqs = {}
  /\ \A r \in Reqs : r \in ring \cup answered <=> place[r] = "ring"

\* Who may still add one to RequeuedCount.
CountingDrainers == {d \in Drainers : drainer[d] \in {"stop", "forward", "count"}}
CountingThreads ==
  {r \in Reqs : \/ place[r] \in {"new", "urbQueue"}
                \/ thread[r] \in {"enter", "stop", "forward", "count"}}

CountBounded ==
  requeuedCount + Cardinality(CountingDrainers) + Cardinality(CountingThreads)
    <= Cardinality(Reqs) + Cardinality(Drainers)

QueuesInv ==
  /\ QueuesTypeOK /\ CountBounded /\ ThreadsAgree
  /\ QueueExact /\ OwnsOne /\ HasDrainer /\ RingExact

-------------------------------------------------------------------------------
(* Queues.                                                                 *)

\* A request appended to a queue that does not hold it.
LEMMA AppendExact ==
  ASSUME NEW q \in Seq(Reqs), OnceEach(q), NEW r \in Reqs, r \notin RequestsOf(q)
  PROVE  /\ Append(q, r) \in Seq(Reqs)
         /\ OnceEach(Append(q, r))
         /\ RequestsOf(Append(q, r)) = RequestsOf(q) \cup {r}
<1> DEFINE p == Append(q, r)
<1>1. p \in Seq(Reqs) /\ Len(p) = Len(q) + 1 /\ Len(q) \in Nat
  OBVIOUS
<1>2. \A i \in 1 .. Len(q) : p[i] = q[i]
  OBVIOUS
<1>3. p[Len(q) + 1] = r
  OBVIOUS
<1> HIDE DEF p
<1>4. OnceEach(p)
  BY <1>1, <1>2, <1>3 DEF OnceEach, RequestsOf
<1>5. RequestsOf(p) \subseteq RequestsOf(q) \cup {r}
  BY <1>1, <1>2, <1>3 DEF RequestsOf
<1>6. RequestsOf(q) \cup {r} \subseteq RequestsOf(p)
  <2>1. r \in RequestsOf(p)
    BY <1>1, <1>3 DEF RequestsOf
  <2>2. \A i \in 1 .. Len(q) : i \in 1 .. Len(p) /\ q[i] = p[i]
    BY <1>1, <1>2
  <2>. QED BY <2>1, <2>2 DEF RequestsOf
<1>. QED BY <1>1, <1>4, <1>5, <1>6 DEF p

\* A request put back at the head of a queue that does not hold it.
LEMMA PutBackExact ==
  ASSUME NEW q \in Seq(Reqs), OnceEach(q), NEW r \in Reqs, r \notin RequestsOf(q)
  PROVE  /\ <<r>> \o q \in Seq(Reqs)
         /\ OnceEach(<<r>> \o q)
         /\ RequestsOf(<<r>> \o q) = RequestsOf(q) \cup {r}
<1> DEFINE p == <<r>> \o q
<1>1. p \in Seq(Reqs) /\ Len(p) = Len(q) + 1 /\ Len(q) \in Nat
  OBVIOUS
<1>2. \A i \in 1 .. Len(q) : p[i + 1] = q[i]
  OBVIOUS
<1>3. p[1] = r
  OBVIOUS
<1> HIDE DEF p
<1>4. \A j \in 1 .. Len(p) : j = 1 \/ (j - 1 \in 1 .. Len(q) /\ p[j] = q[j - 1])
  BY <1>1, <1>2
<1>5. OnceEach(p)
  <2> SUFFICES ASSUME NEW i \in 1 .. Len(p), NEW j \in 1 .. Len(p), p[i] = p[j]
               PROVE  i = j
    BY DEF OnceEach
  <2>1. \A l \in 1 .. Len(q) : q[l] # r
    BY DEF RequestsOf
  <2>2. i = 1 <=> j = 1
    BY <1>3, <1>4, <2>1
  <2>3. ASSUME i # 1 PROVE i - 1 = j - 1
    BY <1>4, <2>2, <2>3 DEF OnceEach
  <2>. QED BY <1>1, <2>2, <2>3
<1>6. RequestsOf(p) \subseteq RequestsOf(q) \cup {r}
  BY <1>1, <1>3, <1>4 DEF RequestsOf
<1>7. RequestsOf(q) \cup {r} \subseteq RequestsOf(p)
  <2>1. r \in RequestsOf(p)
    BY <1>1, <1>3 DEF RequestsOf
  <2>2. \A i \in 1 .. Len(q) : i + 1 \in 1 .. Len(p) /\ q[i] = p[i + 1]
    BY <1>1, <1>2
  <2>. QED BY <2>1, <2>2 DEF RequestsOf
<1>. QED BY <1>1, <1>5, <1>6, <1>7 DEF p

\* What is left of a queue when the request at place k is taken out.
LEMMA LeftExact ==
  ASSUME NEW q \in Seq(Reqs), OnceEach(q), NEW k \in 1 .. Len(q),
         NEW p \in Seq(Reqs), Len(p) = Len(q) - 1,
         \A i \in 1 .. Len(p) : i < k => p[i] = q[i],
         \A i \in 1 .. Len(p) : i >= k => p[i] = q[i + 1]
  PROVE  /\ OnceEach(p)
         /\ RequestsOf(p) = RequestsOf(q) \ {q[k]}
<1>0. Len(q) \in Nat
  OBVIOUS
<1>1. OnceEach(p)
  <2> SUFFICES ASSUME NEW i \in 1 .. Len(p), NEW j \in 1 .. Len(p), p[i] = p[j]
               PROVE  i = j
    BY DEF OnceEach
  <2>1. CASE i < k /\ j < k
    BY <2>1 DEF OnceEach
  <2>2. CASE i < k /\ j >= k
    <3>1. /\ q[i] = q[j + 1] /\ i # j + 1
          /\ i \in 1 .. Len(q) /\ j + 1 \in 1 .. Len(q)
      BY <1>0, <2>2
    <3>. QED BY <3>1 DEF OnceEach
  <2>3. CASE i >= k /\ j < k
    <3>1. /\ q[i + 1] = q[j] /\ i + 1 # j
          /\ i + 1 \in 1 .. Len(q) /\ j \in 1 .. Len(q)
      BY <1>0, <2>3
    <3>. QED BY <3>1 DEF OnceEach
  <2>4. CASE i >= k /\ j >= k
    <3>1. q[i + 1] = q[j + 1] /\ i + 1 \in 1 .. Len(q) /\ j + 1 \in 1 .. Len(q)
      BY <1>0, <2>4
    <3>2. i + 1 = j + 1
      BY <3>1 DEF OnceEach
    <3>. QED BY <1>0, <3>2
  <2>. QED BY <2>1, <2>2, <2>3, <2>4
<1>2. ASSUME NEW i \in 1 .. Len(p)
      PROVE  p[i] \in RequestsOf(q) \ {q[k]}
  <2>1. CASE i < k
    <3>1. p[i] = q[i] /\ i \in 1 .. Len(q) /\ i # k
      BY <1>0, <2>1
    <3>. QED BY <3>1 DEF OnceEach, RequestsOf
  <2>2. CASE i >= k
    <3>1. p[i] = q[i + 1] /\ i + 1 \in 1 .. Len(q) /\ i + 1 # k
      BY <1>0, <2>2
    <3>. QED BY <3>1 DEF OnceEach, RequestsOf
  <2>. QED BY <2>1, <2>2
<1>3. ASSUME NEW i \in 1 .. Len(q), q[i] # q[k]
      PROVE  q[i] \in RequestsOf(p)
  <2>1. CASE i < k
    <3>1. i \in 1 .. Len(p) /\ p[i] = q[i]
      BY <1>0, <2>1
    <3>. QED BY <3>1 DEF RequestsOf
  <2>2. CASE i > k
    <3>1. i - 1 \in 1 .. Len(p) /\ p[i - 1] = q[(i - 1) + 1] /\ (i - 1) + 1 = i
      BY <1>0, <2>2
    <3>. QED BY <3>1 DEF RequestsOf
  <2>. QED BY <1>3, <2>1, <2>2
<1>. QED BY <1>1, <1>2, <1>3 DEF RequestsOf

\* Any one request taken out of a queue.
LEMMA TakeOutExact ==
  ASSUME NEW q \in Seq(Reqs), OnceEach(q), NEW k \in 1 .. Len(q)
  PROVE  LET p == SubSeq(q, 1, k - 1) \o SubSeq(q, k + 1, Len(q))
         IN  /\ p \in Seq(Reqs)
             /\ OnceEach(p)
             /\ RequestsOf(p) = RequestsOf(q) \ {q[k]}
<1> DEFINE a == SubSeq(q, 1, k - 1)
           b == SubSeq(q, k + 1, Len(q))
           p == a \o b
<1>0. Len(q) \in Nat /\ \A i \in 1 .. Len(q) : q[i] \in Reqs
  OBVIOUS
<1>1. a \in Seq(Reqs) /\ b \in Seq(Reqs) /\ Len(a) = k - 1 /\ Len(b) = Len(q) - k
  BY <1>0
<1>2. \A i \in 1 .. k - 1 : a[i] = q[i]
  BY <1>0
<1>3. \A i \in 1 .. Len(q) - k : b[i] = q[k + i]
  BY <1>0
<1> HIDE DEF a, b
<1>4. p \in Seq(Reqs) /\ Len(p) = Len(a) + Len(b)
  BY <1>1, ConcatProperties, Zenon
<1>5. \A i \in 1 .. Len(a) : p[i] = a[i]
  BY <1>1
<1>6. \A i \in Len(a) + 1 .. Len(a) + Len(b) : p[i] = b[i - Len(a)]
  <2>1. \A i \in 1 .. Len(a) + Len(b) : p[i] = IF i <= Len(a) THEN a[i] ELSE b[i - Len(a)]
    BY <1>1, ConcatProperties, Zenon
  <2> HIDE DEF p
  <2>. QED BY <1>0, <1>1, <2>1
<1> HIDE DEF p
<1>7. Len(p) = Len(q) - 1
  BY <1>0, <1>1, <1>4
<1>8. \A i \in 1 .. Len(p) : i < k => p[i] = q[i]
  BY <1>0, <1>1, <1>2, <1>5, <1>7
<1>9. ASSUME NEW i \in 1 .. Len(p), i >= k
      PROVE  p[i] = q[i + 1]
  <2>1. p[i] = b[i - Len(a)] /\ i - Len(a) \in 1 .. Len(q) - k /\ k + (i - Len(a)) = i + 1
    BY <1>0, <1>1, <1>6, <1>7, <1>9
  <2>. QED BY <1>3, <2>1
<1>10. OnceEach(p) /\ RequestsOf(p) = RequestsOf(q) \ {q[k]}
  BY <1>4, <1>7, <1>8, <1>9, LeftExact
<1>. QED BY <1>4, <1>10 DEF p, a, b

\* The next request taken from a queue.
LEMMA TailExact ==
  ASSUME NEW q \in Seq(Reqs), OnceEach(q), q # <<>>
  PROVE  /\ Tail(q) \in Seq(Reqs)
         /\ OnceEach(Tail(q))
         /\ Head(q) \in Reqs
         /\ RequestsOf(Tail(q)) = RequestsOf(q) \ {Head(q)}
         /\ Head(q) \in RequestsOf(q)
<1>1. Len(q) \in Nat /\ Len(q) # 0 /\ Head(q) = q[1] /\ Head(q) \in Reqs
  OBVIOUS
<1> DEFINE p == Tail(q)
<1>2. p \in Seq(Reqs) /\ Len(p) = Len(q) - 1 /\ \A i \in 1 .. Len(p) : p[i] = q[i + 1]
  OBVIOUS
<1> HIDE DEF p
<1>3. OnceEach(p)
  BY <1>1, <1>2 DEF OnceEach
<1>4. RequestsOf(p) \subseteq RequestsOf(q) \ {q[1]}
  BY <1>1, <1>2 DEF OnceEach, RequestsOf
<1>5. \A i \in 1 .. Len(q) : i = 1 \/ (i - 1 \in 1 .. Len(p) /\ p[i - 1] = q[i])
  BY <1>1, <1>2
<1>6. RequestsOf(q) \ {q[1]} \subseteq RequestsOf(p)
  BY <1>1, <1>5 DEF RequestsOf
<1>7. q[1] \in RequestsOf(q)
  BY <1>1 DEF RequestsOf
<1>. QED BY <1>1, <1>2, <1>3, <1>4, <1>6, <1>7 DEF p

\* In such a queue a request occurs once or not at all.
LEMMA CountInQueue ==
  ASSUME NEW q \in Seq(Reqs), OnceEach(q), NEW r \in Reqs
  PROVE  Cardinality({i \in DOMAIN q : q[i] = r}) = IF r \in RequestsOf(q) THEN 1 ELSE 0
<1>1. DOMAIN q = 1 .. Len(q)
  OBVIOUS
<1>2. CASE r \in RequestsOf(q)
  <2>1. PICK k \in 1 .. Len(q) : q[k] = r
    BY <1>2 DEF RequestsOf
  <2>2. {i \in DOMAIN q : q[i] = r} = {k}
    BY <1>1, <2>1 DEF OnceEach
  <2>. QED BY <1>2, <2>2, FS_Singleton
<1>3. CASE r \notin RequestsOf(q)
  <2>1. {i \in DOMAIN q : q[i] = r} = {}
    BY <1>1, <1>3 DEF RequestsOf
  <2>. QED BY <1>3, <2>1, FS_EmptySet
<1>. QED BY <1>2, <1>3

-------------------------------------------------------------------------------
(* What the cardinalities count.                                           *)

\* Three threads drain.
LEMMA DrainersFinite == IsFiniteSet(Drainers)
<1>1. IsFiniteSet({"dpc"}) /\ IsFiniteSet({"timer"}) /\ IsFiniteSet({"passive"})
  BY FS_Singleton
<1>2. Drainers = ({"dpc"} \cup {"timer"}) \cup {"passive"}
  BY DEF Drainers
<1>. QED BY <1>1, <1>2, FS_Union

-------------------------------------------------------------------------------
(* Types.                                                                  *)

USE DEF reqVars, queueVars, drainVars, hwVars, padVars, devVars, Move, Goto, Lock

\* The types hold at the start.
LEMMA TypesInit == QueuesInit => QueuesTypeOK
<1> SUFFICES ASSUME QueuesInit PROVE QueuesTypeOK
  OBVIOUS
<1>1. Cardinality(Reqs) \in Nat /\ Cardinality(Drainers) \in Nat
  BY FS_CardinalityType, DrainersFinite, QueuesAssumption
<1>2. /\ place \in [Reqs -> {"new", "urbQueue", "handler", "requestQueue", "drainer", "ring",
                           "done"}]
      /\ thread \in [Reqs -> {"idle", "enter", "stop", "forward", "count", "config"}]
  BY DEF QueuesInit
<1>3. /\ drainer \in [Drainers -> {"idle", "drain", "start", "relock", "local", "stop",
                                 "forward", "count", "config"}]
      /\ own \in [Drainers -> Reqs \cup {NULL}]
  BY DEF QueuesInit
<1>4. requestQueue \in Seq(Reqs) /\ configs \in 0 .. Configs
      /\ requeuedCount \in 0 .. Cardinality(Reqs) + Cardinality(Drainers)
  BY <1>1, QueuesAssumption DEF QueuesInit
<1>. QED BY <1>2, <1>3, <1>4 DEF QueuesInit, QueuesTypeOK

\* A request's own thread keeps the types.
LEMMA HandlerTypes ==
  ASSUME QueuesTypeOK, QueueExact,
         requeuedCount' \in 0 .. Cardinality(Reqs) + Cardinality(Drainers),
         NEW r \in Reqs,
         Arrive(r) \/ Dispatch(r) \/ HandlerStep(r) \/ QueuedCancelled(r)
  PROVE  QueuesTypeOK'
<1>1. CASE Arrive(r)
  BY <1>1 DEF QueuesTypeOK, Arrive
<1>2. CASE Dispatch(r)
  BY <1>2 DEF QueuesTypeOK, Dispatch
<1>3. CASE HandlerCompletes(r)
  BY <1>3 DEF QueuesTypeOK, HandlerCompletes, SelectEnds
<1>4. CASE HandlerSelects(r)
  BY <1>4 DEF QueuesTypeOK, HandlerSelects
<1>5. CASE HandlerSelected(r)
  BY <1>5 DEF QueuesTypeOK, HandlerSelected
<1>6. CASE HandlerSubmits(r)
  BY <1>6 DEF QueuesTypeOK, HandlerSubmits
<1>7. CASE HandlerRequeues(r)
  BY <1>7 DEF QueuesTypeOK, HandlerRequeues
<1>8. CASE HandlerStopsQueue(r)
  BY <1>8 DEF QueuesTypeOK, HandlerStopsQueue
<1>9. CASE HandlerForwardFails(r)
  BY <1>9 DEF QueuesTypeOK, HandlerForwardFails
<1>10. CASE HandlerCounts(r)
  BY <1>10 DEF QueuesTypeOK, HandlerCounts
<1>11. CASE HandlerForwards(r)
  BY <1>11 DEF QueuesTypeOK, HandlerForwards
<1>12. CASE QueuedCancelled(r)
  <2>1. requestQueue' \in Seq(Reqs)
    <3>1. requestQueue \in Seq(Reqs) /\ OnceEach(requestQueue)
      BY DEF QueuesTypeOK, QueueExact
    <3>2. CASE UNCHANGED requestQueue
      BY <3>1, <3>2
    <3>3. CASE \E i \in 1 .. Len(requestQueue) :
                 requestQueue' = SubSeq(requestQueue, 1, i - 1)
                                 \o SubSeq(requestQueue, i + 1, Len(requestQueue))
      BY <3>1, <3>3, TakeOutExact, Zenon
    <3>. QED BY <1>12, <3>2, <3>3 DEF QueuedCancelled
  <2>2. place' = [place EXCEPT ![r] = "done"]
    BY <1>12 DEF QueuedCancelled
  <2>3. UNCHANGED <<thread, urbStarted, requeuedCount, drainVars, hwVars, devVars>>
    BY <1>12 DEF QueuedCancelled
  <2>. QED BY <2>1, <2>2, <2>3 DEF QueuesTypeOK
<1>. QED BY <1>1, <1>2, <1>3, <1>4, <1>5, <1>6, <1>7, <1>8, <1>9, <1>10, <1>11, <1>12
            DEF HandlerStep

\* A drainer keeps them.
LEMMA DrainerTypes ==
  ASSUME QueuesTypeOK, OwnsOne,
         requeuedCount' \in 0 .. Cardinality(Reqs) + Cardinality(Drainers),
         NEW d \in Drainers, DrainStep(d)
  PROVE  QueuesTypeOK'
<1>1. CASE DrainEmpty(d)
  BY <1>1 DEF QueuesTypeOK, DrainEmpty
<1>2. CASE DrainStartsQueue(d)
  BY <1>2 DEF QueuesTypeOK, DrainStartsQueue
<1>3. CASE DrainCompletes(d)
  BY <1>3 DEF QueuesTypeOK, DrainCompletes, Retrieves, Next1
<1>4. CASE Relock(d)
  BY <1>4 DEF QueuesTypeOK, Relock
<1>5. CASE DrainSubmits(d)
  BY <1>5 DEF QueuesTypeOK, DrainSubmits, Retrieves, Next1
<1>6. CASE DrainLocal(d)
  <2>1. /\ requestQueue' = Tail(requestQueue) /\ requestQueue # <<>>
        /\ place' = [place EXCEPT ![Next1] = "done"]
        /\ fdoLock' = NULL
        /\ drainer' = [drainer EXCEPT ![d] = "local"]
        /\ configBusy' \in BOOLEAN
    BY <1>6 DEF QueuesTypeOK, DrainLocal, Retrieves, SelectEnds
  <2>2. UNCHANGED <<thread, urbStarted, own, passiveQueued, hwVars, resetInProgress,
                    deviceUnplugged, padVars>>
    BY <1>6 DEF DrainLocal
  <2>3. requestQueue' \in Seq(Reqs)
    BY <2>1 DEF QueuesTypeOK
  <2>4. /\ place' \in [Reqs -> {"new", "urbQueue", "handler", "requestQueue", "drainer",
                              "ring", "done"}]
        /\ drainer' \in [Drainers -> {"idle", "drain", "start", "relock", "local", "stop",
                                     "forward", "count", "config"}]
    BY <2>1 DEF QueuesTypeOK
  <2>. QED BY <2>1, <2>2, <2>3, <2>4 DEF QueuesTypeOK
<1>7. CASE DrainLocalDone(d)
  BY <1>7 DEF QueuesTypeOK, DrainLocalDone
<1>8. CASE DrainSelects(d)
  BY <1>8 DEF QueuesTypeOK, DrainSelects, Retrieves, Next1
<1>9. CASE DrainSelected(d)
  BY <1>9 DEF QueuesTypeOK, DrainSelected
<1>10. CASE DrainRequeues(d)
  BY <1>10 DEF QueuesTypeOK, DrainRequeues, Retrieves, Drains, Next1
<1>11. CASE DrainStopsQueue(d)
  BY <1>11 DEF QueuesTypeOK, DrainStopsQueue
<1>12. CASE DrainForwards(d)
  BY <1>12 DEF QueuesTypeOK, DrainForwards, OwnsOne
<1>13. CASE DrainForwardFails(d)
  BY <1>13 DEF QueuesTypeOK, DrainForwardFails
<1>14. CASE DrainCounts(d)
  BY <1>14 DEF QueuesTypeOK, DrainCounts
<1>. QED BY <1>1, <1>2, <1>3, <1>4, <1>5, <1>6, <1>7, <1>8, <1>9, <1>10, <1>11, <1>12,
            <1>13, <1>14 DEF DrainStep

\* So does who starts a drain, and the backend.
LEMMA OtherTypes ==
  ASSUME QueuesTypeOK, requeuedCount' \in 0 .. Cardinality(Reqs) + Cardinality(Drainers),
         \/ Dpc \/ TimerRunsDpc \/ TimerUnplugs \/ PassiveDrain
         \/ \E j \in ring : BackendAnswers(j)
         \/ ConfigStarts \/ ConfigEnds
  PROVE  QueuesTypeOK'
<1>1. CASE Dpc
  <2>1. "dpc" \in Drainers
    BY DEF Drainers
  <2>. QED BY <1>1, <2>1 DEF QueuesTypeOK, Dpc, RunDpc
<1>2. CASE TimerRunsDpc
  <2>1. "timer" \in Drainers
    BY DEF Drainers
  <2>. QED BY <1>2, <2>1 DEF QueuesTypeOK, TimerRunsDpc, RunDpc
<1>3. CASE TimerUnplugs
  BY <1>3 DEF QueuesTypeOK, TimerUnplugs
<1>7. CASE PassiveDrain
  <2>1. "passive" \in Drainers
    BY DEF Drainers
  <2>. QED BY <1>7, <2>1 DEF QueuesTypeOK, PassiveDrain
<1>4. CASE \E j \in ring : BackendAnswers(j)
  BY <1>4 DEF QueuesTypeOK, BackendAnswers
<1>5. CASE ConfigStarts
  BY <1>5, QueuesAssumption DEF QueuesTypeOK, ConfigStarts
<1>6. CASE ConfigEnds
  BY <1>6 DEF QueuesTypeOK, ConfigEnds
<1>. QED BY <1>1, <1>2, <1>3, <1>4, <1>5, <1>6, <1>7

-------------------------------------------------------------------------------
(* Who has a request.                                                      *)

\* No name of a request is the scratch pad's, and the kinds are disjoint.
LEMMA Kinds ==
  /\ NULL \notin Reqs /\ "scratch" \notin Reqs /\ NULL \notin Drainers
  /\ PortResets \cap Urbs = {} /\ Transfers \subseteq Reqs /\ PortResets \subseteq Reqs
BY QueuesAssumption DEF Reqs, Urbs

\* What is in the RequestQueue is placed there.
LEMMA InQueue ==
  ASSUME QueueExact, NEW i \in 1 .. Len(requestQueue)
  PROVE  requestQueue[i] \in Reqs /\ place[requestQueue[i]] = "requestQueue"
<1>1. requestQueue[i] \in RequestsOf(requestQueue)
  BY DEF RequestsOf
<1>. QED BY <1>1 DEF QueueExact, Placed

\* A client cancels a request that is in a queue.
LEMMA CancelledInQueue ==
  ASSUME QueueExact, NEW r \in Reqs, QueuedCancelled(r)
  PROVE  place[r] \in {"urbQueue", "requestQueue"}
<1>1. place[r] = "urbQueue" \/ \E i \in 1 .. Len(requestQueue) : requestQueue[i] = r
  BY Zenon DEF QueuedCancelled
<1>. QED BY <1>1, InQueue

\* A dispatch thread, with its request in the handler or on its way into it.
LEMMA HandlerThreads ==
  ASSUME QueuesTypeOK, ThreadsAgree, QueueExact, NEW r \in Reqs,
         Arrive(r) \/ Dispatch(r) \/ HandlerStep(r) \/ QueuedCancelled(r)
  PROVE  ThreadsAgree'
<1>1. CASE Arrive(r)
  BY <1>1 DEF QueuesTypeOK, ThreadsAgree, Arrive
<1>2. CASE Dispatch(r)
  BY <1>2 DEF QueuesTypeOK, ThreadsAgree, Dispatch
<1>3. CASE HandlerCompletes(r)
  BY <1>3 DEF QueuesTypeOK, ThreadsAgree, HandlerCompletes, Enters
<1>4. CASE HandlerSelects(r)
  BY <1>4 DEF QueuesTypeOK, ThreadsAgree, HandlerSelects, Enters
<1>5. CASE HandlerSelected(r)
  BY <1>5 DEF QueuesTypeOK, ThreadsAgree, HandlerSelected
<1>6. CASE HandlerSubmits(r)
  BY <1>6 DEF QueuesTypeOK, ThreadsAgree, HandlerSubmits, Enters
<1>7. CASE HandlerRequeues(r)
  BY <1>7 DEF QueuesTypeOK, ThreadsAgree, HandlerRequeues, Enters
<1>8. CASE HandlerStopsQueue(r)
  BY <1>8 DEF QueuesTypeOK, ThreadsAgree, HandlerStopsQueue
<1>9. CASE HandlerForwards(r)
  BY <1>9 DEF QueuesTypeOK, ThreadsAgree, HandlerForwards
<1>10. CASE HandlerForwardFails(r)
  BY <1>10 DEF QueuesTypeOK, ThreadsAgree, HandlerForwardFails
<1>11. CASE HandlerCounts(r)
  BY <1>11 DEF QueuesTypeOK, ThreadsAgree, HandlerCounts
<1>12. CASE QueuedCancelled(r)
  <2>1. place[r] \in {"urbQueue", "requestQueue"}
    BY <1>12, CancelledInQueue
  <2>2. place' = [place EXCEPT ![r] = "done"] /\ UNCHANGED thread
    BY <1>12 DEF QueuedCancelled
  <2>. QED BY <2>1, <2>2 DEF QueuesTypeOK, ThreadsAgree
<1>. QED BY <1>1, <1>2, <1>3, <1>4, <1>5, <1>6, <1>7, <1>8, <1>9, <1>10, <1>11, <1>12
            DEF HandlerStep

\* It is in nobody else's hands.
LEMMA HandlerOwners ==
  ASSUME QueuesTypeOK, ThreadsAgree, QueueExact, OwnsOne, HasDrainer, RingExact, NEW r \in Reqs,
         Arrive(r) \/ Dispatch(r) \/ HandlerStep(r) \/ QueuedCancelled(r)
  PROVE  /\ OwnsOne' /\ HasDrainer'
         /\ RingExact'
<1>1. CASE Arrive(r)
  <2>1. OwnsOne' /\ HasDrainer'
    BY <1>1, Kinds DEF QueuesTypeOK, ThreadsAgree, OwnsOne, HasDrainer, Arrive
  <2>2. RingExact'
    BY <1>1, Kinds DEF QueuesTypeOK, ThreadsAgree, RingExact, Arrive
  <2>. QED BY <2>1, <2>2
<1>2. CASE Dispatch(r)
  <2>1. OwnsOne' /\ HasDrainer'
    BY <1>2, Kinds DEF QueuesTypeOK, ThreadsAgree, OwnsOne, HasDrainer, Dispatch
  <2>2. RingExact'
    BY <1>2, Kinds DEF QueuesTypeOK, ThreadsAgree, RingExact, Dispatch
  <2>. QED BY <2>1, <2>2
<1>3. CASE HandlerCompletes(r)
  <2>1. OwnsOne' /\ HasDrainer'
    BY <1>3, Kinds DEF QueuesTypeOK, ThreadsAgree, OwnsOne, HasDrainer, HandlerCompletes,
       Enters
  <2>2. RingExact'
    BY <1>3, Kinds DEF QueuesTypeOK, ThreadsAgree, RingExact, HandlerCompletes, Enters
  <2>. QED BY <2>1, <2>2
<1>4. CASE HandlerSelects(r)
  <2>1. OwnsOne' /\ HasDrainer'
    BY <1>4, Kinds DEF QueuesTypeOK, ThreadsAgree, OwnsOne, HasDrainer, HandlerSelects,
       Enters
  <2>2. RingExact'
    BY <1>4, Kinds DEF QueuesTypeOK, ThreadsAgree, RingExact, HandlerSelects, Enters
  <2>. QED BY <2>1, <2>2
<1>5. CASE HandlerSelected(r)
  <2>1. OwnsOne' /\ HasDrainer'
    BY <1>5, Kinds DEF QueuesTypeOK, ThreadsAgree, OwnsOne, HasDrainer, HandlerSelected
  <2>2. RingExact'
    BY <1>5, Kinds DEF QueuesTypeOK, ThreadsAgree, RingExact, HandlerSelected
  <2>. QED BY <2>1, <2>2
<1>6. CASE HandlerSubmits(r)
  <2>1. OwnsOne' /\ HasDrainer'
    BY <1>6, Kinds DEF QueuesTypeOK, ThreadsAgree, OwnsOne, HasDrainer, HandlerSubmits,
       Enters
  <2>2. RingExact'
    BY <1>6, Kinds DEF QueuesTypeOK, ThreadsAgree, RingExact, HandlerSubmits, Enters
  <2>. QED BY <2>1, <2>2
<1>7. CASE HandlerRequeues(r)
  <2>1. OwnsOne' /\ HasDrainer'
    BY <1>7, Kinds DEF QueuesTypeOK, ThreadsAgree, OwnsOne, HasDrainer, HandlerRequeues,
       Enters
  <2>2. RingExact'
    BY <1>7, Kinds DEF QueuesTypeOK, ThreadsAgree, RingExact, HandlerRequeues, Enters
  <2>. QED BY <2>1, <2>2
<1>8. CASE HandlerStopsQueue(r)
  <2>1. OwnsOne' /\ HasDrainer'
    BY <1>8, Kinds DEF QueuesTypeOK, ThreadsAgree, OwnsOne, HasDrainer, HandlerStopsQueue
  <2>2. RingExact'
    BY <1>8, Kinds DEF QueuesTypeOK, ThreadsAgree, RingExact, HandlerStopsQueue
  <2>. QED BY <2>1, <2>2
<1>9. CASE HandlerForwards(r)
  <2>1. OwnsOne' /\ HasDrainer'
    BY <1>9, Kinds DEF QueuesTypeOK, ThreadsAgree, OwnsOne, HasDrainer, HandlerForwards
  <2>2. RingExact'
    BY <1>9, Kinds DEF QueuesTypeOK, ThreadsAgree, RingExact, HandlerForwards
  <2>. QED BY <2>1, <2>2
<1>10. CASE HandlerForwardFails(r)
  <2>1. OwnsOne' /\ HasDrainer'
    BY <1>10, Kinds DEF QueuesTypeOK, ThreadsAgree, OwnsOne, HasDrainer, HandlerForwardFails
  <2>2. RingExact'
    BY <1>10, Kinds DEF QueuesTypeOK, ThreadsAgree, RingExact, HandlerForwardFails
  <2>. QED BY <2>1, <2>2
<1>11. CASE HandlerCounts(r)
  <2>1. OwnsOne' /\ HasDrainer'
    BY <1>11, Kinds DEF QueuesTypeOK, ThreadsAgree, OwnsOne, HasDrainer, HandlerCounts
  <2>2. RingExact'
    BY <1>11, Kinds DEF QueuesTypeOK, ThreadsAgree, RingExact, HandlerCounts
  <2>. QED BY <2>1, <2>2
<1>12. CASE QueuedCancelled(r)
  <2>1. place[r] \in {"urbQueue", "requestQueue"}
    BY <1>12, CancelledInQueue
  <2>2. /\ place' = [place EXCEPT ![r] = "done"]
        /\ UNCHANGED <<thread, drainVars, hwVars>>
    BY <1>12 DEF QueuedCancelled
  <2>3. OwnsOne' /\ HasDrainer'
    BY <2>1, <2>2, Kinds DEF QueuesTypeOK, OwnsOne, HasDrainer
  <2>4. RingExact'
    BY <2>1, <2>2 DEF QueuesTypeOK, RingExact
  <2>. QED BY <2>3, <2>4
<1>. QED BY <1>1, <1>2, <1>3, <1>4, <1>5, <1>6, <1>7, <1>8, <1>9, <1>10, <1>11, <1>12
            DEF HandlerStep

\* The RequestQueue gets what its own thread forwards.
LEMMA HandlerQueue ==
  ASSUME QueuesTypeOK, ThreadsAgree, QueueExact, NEW r \in Reqs,
         Arrive(r) \/ Dispatch(r) \/ HandlerStep(r) \/ QueuedCancelled(r)
  PROVE  QueueExact'
<1>1. CASE Arrive(r)
  <2>1. requestQueue' = requestQueue /\ Placed("requestQueue")' = Placed("requestQueue")
    BY <1>1 DEF QueuesTypeOK, ThreadsAgree, Placed, Arrive
  <2>. QED BY <2>1 DEF QueueExact
<1>2. CASE Dispatch(r)
  <2>1. requestQueue' = requestQueue /\ Placed("requestQueue")' = Placed("requestQueue")
    BY <1>2 DEF QueuesTypeOK, ThreadsAgree, Placed, Dispatch
  <2>. QED BY <2>1 DEF QueueExact
<1>3. CASE HandlerCompletes(r)
  <2>1. requestQueue' = requestQueue /\ Placed("requestQueue")' = Placed("requestQueue")
    BY <1>3 DEF QueuesTypeOK, ThreadsAgree, Placed, HandlerCompletes, Enters
  <2>. QED BY <2>1 DEF QueueExact
<1>4. CASE HandlerSelects(r)
  <2>1. requestQueue' = requestQueue /\ Placed("requestQueue")' = Placed("requestQueue")
    BY <1>4 DEF QueuesTypeOK, ThreadsAgree, Placed, HandlerSelects, Enters
  <2>. QED BY <2>1 DEF QueueExact
<1>5. CASE HandlerSelected(r)
  <2>1. requestQueue' = requestQueue /\ Placed("requestQueue")' = Placed("requestQueue")
    BY <1>5 DEF QueuesTypeOK, ThreadsAgree, Placed, HandlerSelected
  <2>. QED BY <2>1 DEF QueueExact
<1>6. CASE HandlerSubmits(r)
  <2>1. requestQueue' = requestQueue /\ Placed("requestQueue")' = Placed("requestQueue")
    BY <1>6 DEF QueuesTypeOK, ThreadsAgree, Placed, HandlerSubmits, Enters
  <2>. QED BY <2>1 DEF QueueExact
<1>7. CASE HandlerRequeues(r)
  <2>1. requestQueue' = requestQueue /\ Placed("requestQueue")' = Placed("requestQueue")
    BY <1>7 DEF QueuesTypeOK, ThreadsAgree, Placed, HandlerRequeues, Enters
  <2>. QED BY <2>1 DEF QueueExact
<1>8. CASE HandlerStopsQueue(r)
  <2>1. requestQueue' = requestQueue /\ Placed("requestQueue")' = Placed("requestQueue")
    BY <1>8 DEF QueuesTypeOK, ThreadsAgree, Placed, HandlerStopsQueue
  <2>. QED BY <2>1 DEF QueueExact
<1>9. CASE HandlerForwardFails(r)
  <2>1. requestQueue' = requestQueue /\ Placed("requestQueue")' = Placed("requestQueue")
    BY <1>9 DEF QueuesTypeOK, ThreadsAgree, Placed, HandlerForwardFails
  <2>. QED BY <2>1 DEF QueueExact
<1>10. CASE HandlerCounts(r)
  <2>1. requestQueue' = requestQueue /\ Placed("requestQueue")' = Placed("requestQueue")
    BY <1>10 DEF QueuesTypeOK, ThreadsAgree, Placed, HandlerCounts
  <2>. QED BY <2>1 DEF QueueExact
<1>11. CASE HandlerForwards(r)
  <2>1. place[r] = "handler"
    BY <1>11 DEF HandlerForwards, ThreadsAgree
  <2>2. /\ requestQueue' = Append(requestQueue, r)
        /\ place' = [place EXCEPT ![r] = "requestQueue"]
    BY <1>11 DEF HandlerForwards
  <2>3. requestQueue \in Seq(Reqs) /\ OnceEach(requestQueue) /\ r \notin RequestsOf(requestQueue)
    BY <2>1 DEF QueuesTypeOK, QueueExact, Placed
  <2>4. OnceEach(requestQueue') /\ RequestsOf(requestQueue') = RequestsOf(requestQueue) \cup {r}
    BY <2>2, <2>3, AppendExact
  <2>5. Placed("requestQueue")' = Placed("requestQueue") \cup {r}
    BY <2>2 DEF Placed, QueuesTypeOK
  <2>. QED BY <2>4, <2>5 DEF QueueExact
<1>12. CASE QueuedCancelled(r)
  <2>1. place' = [place EXCEPT ![r] = "done"]
    BY <1>12 DEF QueuedCancelled
  <2>2. requestQueue \in Seq(Reqs) /\ OnceEach(requestQueue)
    BY DEF QueuesTypeOK, QueueExact
  <2>3. CASE place[r] = "urbQueue" /\ UNCHANGED requestQueue
    <3>1. Placed("requestQueue")' = Placed("requestQueue")
      BY <2>1, <2>3 DEF Placed, QueuesTypeOK
    <3>. QED BY <2>3, <3>1 DEF QueueExact
  <2>4. ASSUME NEW i \in 1 .. Len(requestQueue), requestQueue[i] = r,
               requestQueue' = SubSeq(requestQueue, 1, i - 1)
                               \o SubSeq(requestQueue, i + 1, Len(requestQueue))
        PROVE  QueueExact'
    <3>1. OnceEach(requestQueue') /\ RequestsOf(requestQueue') = RequestsOf(requestQueue) \ {r}
      BY <2>2, <2>4, TakeOutExact, Zenon
    <3>2. Placed("requestQueue")' = Placed("requestQueue") \ {r}
      BY <2>1 DEF Placed, QueuesTypeOK
    <3>. QED BY <3>1, <3>2 DEF QueueExact
  <2>. QED BY <1>12, <2>3, <2>4 DEF QueuedCancelled
<1>. QED BY <1>1, <1>2, <1>3, <1>4, <1>5, <1>6, <1>7, <1>8, <1>9, <1>10, <1>11, <1>12
            DEF HandlerStep

\* A drainer takes the next request from the RequestQueue.
LEMMA Taken ==
  ASSUME QueuesTypeOK, QueueExact, NEW d \in Drainers, Retrieves(d)
  PROVE  /\ Next1 \in Reqs /\ place[Next1] = "requestQueue"
         /\ requestQueue' \in Seq(Reqs) /\ OnceEach(requestQueue')
         /\ RequestsOf(requestQueue') = Placed("requestQueue") \ {Next1}
         /\ drainer[d] = "drain"
<1>1. /\ requestQueue \in Seq(Reqs) /\ OnceEach(requestQueue) /\ requestQueue # <<>>
      /\ requestQueue' = Tail(requestQueue) /\ drainer[d] = "drain"
  BY DEF QueuesTypeOK, QueueExact, Retrieves, Drains
<1>2. /\ requestQueue' \in Seq(Reqs) /\ OnceEach(requestQueue')
      /\ Head(requestQueue) \in Reqs /\ Head(requestQueue) \in RequestsOf(requestQueue)
      /\ RequestsOf(requestQueue') = RequestsOf(requestQueue) \ {Head(requestQueue)}
  BY <1>1, TailExact
<1>. QED BY <1>1, <1>2 DEF Next1, QueueExact, Placed

\* What it forwards or completes it owned.
LEMMA Owned ==
  ASSUME OwnsOne, QueuesTypeOK, NEW d \in Drainers, drainer[d] \in {"stop", "forward", "config"}
  PROVE  own[d] \in Reqs /\ place[own[d]] = "drainer"
BY DEF OwnsOne, QueuesTypeOK

\* A drainer empties the RequestQueue from its head, and puts a request back there.
LEMMA DrainerQueue ==
  ASSUME QueuesTypeOK, QueueExact, OwnsOne, NEW d \in Drainers, DrainStep(d)
  PROVE  QueueExact'
<1>1. CASE DrainEmpty(d) \/ DrainStartsQueue(d) \/ Relock(d)
           \/ DrainLocalDone(d) \/ DrainStopsQueue(d) \/ DrainCounts(d)
  <2>1. UNCHANGED <<place, requestQueue>>
    BY <1>1 DEF DrainEmpty, DrainStartsQueue, Relock, DrainLocalDone,
             DrainStopsQueue, DrainCounts
  <2>. QED BY <2>1 DEF QueueExact, Placed
<1>2. CASE DrainCompletes(d) \/ DrainSubmits(d) \/ DrainLocal(d)
           \/ DrainSelects(d) \/ DrainRequeues(d)
  <2>1. Retrieves(d)
    BY <1>2 DEF DrainCompletes, DrainSubmits, DrainLocal, DrainSelects, DrainRequeues
  <2>2. \E w \in {"done", "ring", "drainer"} : place' = [place EXCEPT ![Next1] = w]
    BY <1>2 DEF DrainCompletes, DrainSubmits, DrainLocal, DrainSelects, DrainRequeues
  <2>3. Placed("requestQueue")' = Placed("requestQueue") \ {Next1}
    BY <2>1, <2>2, Taken DEF Placed, QueuesTypeOK
  <2>. QED BY <2>1, <2>3, Taken DEF QueueExact
<1>3. CASE DrainSelected(d) \/ DrainForwardFails(d)
  <2>1. place' = [place EXCEPT ![own[d]] = "done"] /\ UNCHANGED requestQueue
    BY <1>3 DEF DrainSelected, DrainForwardFails
  <2>2. own[d] \in Reqs /\ place[own[d]] = "drainer"
    BY <1>3, Owned DEF DrainSelected, DrainForwardFails
  <2>3. Placed("requestQueue")' = Placed("requestQueue")
    BY <2>1, <2>2 DEF Placed, QueuesTypeOK
  <2>. QED BY <2>1, <2>3 DEF QueueExact
<1>4. CASE DrainForwards(d)
  <2>1. /\ place' = [place EXCEPT ![own[d]] = "requestQueue"]
        /\ requestQueue' = <<own[d]>> \o requestQueue
    BY <1>4 DEF DrainForwards
  <2>2. own[d] \in Reqs /\ place[own[d]] = "drainer"
    BY <1>4, Owned DEF DrainForwards
  <2>3. /\ requestQueue \in Seq(Reqs) /\ OnceEach(requestQueue)
        /\ own[d] \notin RequestsOf(requestQueue)
    BY <2>2 DEF QueuesTypeOK, QueueExact, Placed
  <2>4. /\ OnceEach(requestQueue')
        /\ RequestsOf(requestQueue') = RequestsOf(requestQueue) \cup {own[d]}
    BY <2>1, <2>2, <2>3, PutBackExact
  <2>5. Placed("requestQueue")' = Placed("requestQueue") \cup {own[d]}
    BY <2>1, <2>2 DEF Placed, QueuesTypeOK
  <2>. QED BY <2>4, <2>5 DEF QueueExact
<1>. QED BY <1>1, <1>2, <1>3, <1>4 DEF DrainStep

\* A drainer takes over what it took from the queue, and hands it on.
LEMMA DrainerOwners ==
  ASSUME QueuesTypeOK, ThreadsAgree, QueueExact, OwnsOne, HasDrainer, RingExact,
         NEW d \in Drainers, DrainStep(d)
  PROVE  /\ OwnsOne' /\ HasDrainer'
         /\ RingExact'
         /\ ThreadsAgree'
<1>1. CASE DrainEmpty(d) \/ DrainStartsQueue(d) \/ Relock(d)
           \/ DrainLocalDone(d) \/ DrainStopsQueue(d) \/ DrainCounts(d)
  <2>1. OwnsOne' /\ HasDrainer'
    BY <1>1, Kinds DEF QueuesTypeOK, OwnsOne, HasDrainer, Drains, DrainEmpty,
       DrainStartsQueue, Relock,
             DrainLocalDone, DrainStopsQueue, DrainCounts
  <2>2. RingExact' /\ ThreadsAgree'
    BY <1>1 DEF RingExact, ThreadsAgree, DrainEmpty, DrainStartsQueue, Relock,
             DrainLocalDone, DrainStopsQueue, DrainCounts
  <2>. QED BY <2>1, <2>2
<1>2. CASE DrainCompletes(d) \/ DrainLocal(d)
  <2>1. Next1 \in Reqs /\ place[Next1] = "requestQueue" /\ drainer[d] = "drain"
    BY <1>2, Taken DEF DrainCompletes, DrainLocal
  <2>2. /\ place' = [place EXCEPT ![Next1] = "done"]
        /\ UNCHANGED <<thread, own, ring, answered>>
        /\ \E w \in {"relock", "local"} : drainer' = [drainer EXCEPT ![d] = w]
    BY <1>2 DEF DrainCompletes, DrainLocal
  <2>3. OwnsOne' /\ HasDrainer'
    BY <2>1, <2>2, Kinds DEF QueuesTypeOK, OwnsOne, HasDrainer
  <2>4. RingExact' /\ ThreadsAgree'
    BY <2>1, <2>2 DEF QueuesTypeOK, RingExact, ThreadsAgree
  <2>. QED BY <2>3, <2>4
<1>3. CASE DrainSubmits(d)
  <2>1. Next1 \in Reqs /\ place[Next1] = "requestQueue" /\ drainer[d] = "drain"
    BY <1>3, Taken DEF DrainSubmits
  <2>2. /\ place' = [place EXCEPT ![Next1] = "ring"] /\ ring' = ring \cup {Next1}
        /\ UNCHANGED <<thread, own, drainer, answered>>
    BY <1>3 DEF DrainSubmits
  <2>3. OwnsOne' /\ HasDrainer'
    BY <2>1, <2>2, Kinds DEF QueuesTypeOK, OwnsOne, HasDrainer
  <2>4. RingExact' /\ ThreadsAgree'
    BY <2>1, <2>2 DEF QueuesTypeOK, RingExact, ThreadsAgree
  <2>. QED BY <2>3, <2>4
<1>4. CASE DrainSelects(d) \/ DrainRequeues(d)
  <2>1. Next1 \in Reqs /\ place[Next1] = "requestQueue" /\ drainer[d] = "drain"
    BY <1>4, Taken DEF DrainSelects, DrainRequeues
  <2>2. /\ place' = [place EXCEPT ![Next1] = "drainer"]
        /\ own' = [own EXCEPT ![d] = Next1]
        /\ ring' \in {ring, ring \cup {"scratch"}}
        /\ UNCHANGED <<thread, answered>>
        /\ \E w \in {"stop", "config"} : drainer' = [drainer EXCEPT ![d] = w]
    BY <1>4 DEF DrainSelects, DrainRequeues
  <2>3. OwnsOne' /\ HasDrainer'
    BY <2>1, <2>2, Kinds DEF QueuesTypeOK, OwnsOne, HasDrainer
  <2>4. RingExact' /\ ThreadsAgree'
    BY <2>1, <2>2, Kinds DEF QueuesTypeOK, RingExact, ThreadsAgree
  <2>. QED BY <2>3, <2>4
<1>5. CASE DrainSelected(d) \/ DrainForwards(d) \/ DrainForwardFails(d)
  <2>1. /\ own[d] \in Reqs /\ place[own[d]] = "drainer"
        /\ drainer[d] \in {"forward", "config"}
    BY <1>5, Owned DEF DrainSelected, DrainForwards, DrainForwardFails
  <2>2. /\ \E w \in {"done", "requestQueue"} : place' = [place EXCEPT ![own[d]] = w]
        /\ own' = [own EXCEPT ![d] = NULL]
        /\ UNCHANGED <<thread, ring, answered>>
        /\ \E w \in {"local", "count"} : drainer' = [drainer EXCEPT ![d] = w]
    BY <1>5 DEF DrainSelected, DrainForwards, DrainForwardFails
  <2>3. OwnsOne' /\ HasDrainer'
    BY <2>1, <2>2, Kinds DEF QueuesTypeOK, OwnsOne, HasDrainer
  <2>4. RingExact' /\ ThreadsAgree'
    BY <2>1, <2>2 DEF QueuesTypeOK, RingExact, ThreadsAgree
  <2>. QED BY <2>3, <2>4
<1>. QED BY <1>1, <1>2, <1>3, <1>4, <1>5 DEF DrainStep

\* The DPC completes what the backend answered and nothing else.
LEMMA DpcOwners ==
  ASSUME QueuesTypeOK, ThreadsAgree, QueueExact, OwnsOne, HasDrainer, RingExact,
         NEW d \in Drainers, drainer[d] = "idle", RunDpc(d),
         UNCHANGED <<thread, requestQueue, own>>
  PROVE  /\ QueueExact' /\ OwnsOne' /\ HasDrainer' /\ RingExact' /\ ThreadsAgree'
<1>1. \E w \in {"drain", "relock"} : drainer' = [drainer EXCEPT ![d] = w]
  BY DEF RunDpc
<1>2. CASE deviceUnplugged
  <2>1. UNCHANGED <<ring, answered>> /\ place' = [r \in Reqs |-> place[r]]
    BY <1>2 DEF RunDpc
  <2>2. place' = place
    BY <2>1 DEF QueuesTypeOK
  <2>3. OwnsOne' /\ HasDrainer'
    BY <1>1, <2>2 DEF QueuesTypeOK, OwnsOne, HasDrainer
  <2>4. QueueExact' /\ RingExact' /\ ThreadsAgree'
    BY <2>1, <2>2 DEF QueueExact, Placed, RingExact, ThreadsAgree
  <2>. QED BY <2>3, <2>4
<1>3. CASE ~deviceUnplugged
  <2>1. /\ answered' = {} /\ ring' = ring
        /\ place' = [r \in Reqs |-> IF r \in answered THEN "done" ELSE place[r]]
    BY <1>3 DEF RunDpc
  <2>2. \A r \in Reqs : r \in answered => place[r] = "ring" /\ place'[r] = "done"
    BY <2>1 DEF RingExact
  <2>3. \A r \in Reqs : r \notin answered => place'[r] = place[r]
    BY <2>1
  <2>4. OwnsOne'
    <3>1. \A e \in Drainers : own[e] # NULL => own[e] \in Reqs /\ place'[own[e]] = "drainer"
      BY <2>2, <2>3 DEF QueuesTypeOK, OwnsOne
    <3>. QED BY <1>1, <3>1 DEF QueuesTypeOK, OwnsOne
  <2>5. HasDrainer'
    BY <2>2, <2>3 DEF HasDrainer
  <2>6. RingExact'
    BY <2>1, <2>2, <2>3 DEF RingExact
  <2>7. ThreadsAgree'
    BY <2>2, <2>3 DEF ThreadsAgree
  <2>8. Placed("requestQueue")' = Placed("requestQueue")
    BY <2>2, <2>3 DEF Placed
  <2>. QED BY <2>4, <2>5, <2>6, <2>7, <2>8 DEF QueueExact
<1>. QED BY <1>2, <1>3 DEF QueuesTypeOK

\* Nor do the watchdog, the work item, the backend and the scratch pad take a request.
LEMMA OtherOwners ==
  ASSUME QueuesTypeOK, ThreadsAgree, QueueExact, OwnsOne, HasDrainer, RingExact,
         \/ Dpc \/ TimerRunsDpc \/ TimerUnplugs \/ PassiveDrain
         \/ \E j \in ring : BackendAnswers(j)
         \/ ConfigStarts \/ ConfigEnds
  PROVE  /\ QueueExact' /\ OwnsOne' /\ HasDrainer' /\ RingExact' /\ ThreadsAgree'
<1>1. "dpc" \in Drainers /\ "timer" \in Drainers /\ "passive" \in Drainers
  BY DEF Drainers
<1>2. CASE Dpc
  BY <1>1, <1>2, DpcOwners DEF Dpc
<1>3. CASE TimerRunsDpc
  BY <1>1, <1>3, DpcOwners DEF TimerRunsDpc
<1>4. CASE TimerUnplugs \/ PassiveDrain
  <2>1. /\ UNCHANGED <<place, thread, requestQueue, own, ring, answered>>
        /\ \E d \in Drainers, w \in {"relock", "drain"} :
             drainer[d] = "idle" /\ drainer' = [drainer EXCEPT ![d] = w]
    BY <1>1, <1>4 DEF TimerUnplugs, PassiveDrain
  <2>2. OwnsOne' /\ HasDrainer'
    BY <2>1 DEF QueuesTypeOK, OwnsOne, HasDrainer
  <2>. QED BY <2>1, <2>2 DEF QueueExact, Placed, RingExact, ThreadsAgree
<1>5. CASE \/ \E j \in ring : BackendAnswers(j)
           \/ ConfigStarts \/ ConfigEnds
  <2>1. UNCHANGED <<place, thread, requestQueue, own, drainer>>
    BY <1>5 DEF BackendAnswers, ConfigStarts, ConfigEnds
  <2>2. \/ \E j \in ring : ring' = ring \ {j} /\ answered' = answered \cup {j}
        \/ ring' = ring \cup {"scratch"} /\ answered' = answered
        \/ ring' = ring /\ answered' = answered
    BY <1>5 DEF BackendAnswers, ConfigStarts, ConfigEnds
  <2>3. RingExact'
    BY <2>1, <2>2, Kinds DEF RingExact
  <2>. QED BY <2>1, <2>3 DEF QueueExact, Placed, OwnsOne, HasDrainer, ThreadsAgree
<1>. QED BY <1>2, <1>3, <1>4, <1>5

-------------------------------------------------------------------------------
(* How large RequeuedCount may get.                                        *)

\* The sets counted are finite.
LEMMA CountingFinite ==
  /\ IsFiniteSet(CountingDrainers) /\ Cardinality(CountingDrainers) \in Nat
  /\ IsFiniteSet(CountingThreads) /\ Cardinality(CountingThreads) \in Nat
  /\ Cardinality(Reqs) \in Nat /\ Cardinality(Drainers) \in Nat
  /\ Cardinality(CountingDrainers) <= Cardinality(Drainers)
  /\ Cardinality(CountingThreads) <= Cardinality(Reqs)
<1>1. IsFiniteSet(Reqs) /\ IsFiniteSet(Drainers)
  BY QueuesAssumption, DrainersFinite
<1>2. CountingDrainers \subseteq Drainers /\ CountingThreads \subseteq Reqs
  BY DEF CountingDrainers, CountingThreads
<1>. QED BY <1>1, <1>2, FS_Subset, FS_CardinalityType

\* The same after a step.
LEMMA CountingFiniteNext ==
  /\ IsFiniteSet(CountingDrainers') /\ Cardinality(CountingDrainers') \in Nat
  /\ IsFiniteSet(CountingThreads') /\ Cardinality(CountingThreads') \in Nat
  /\ Cardinality(CountingDrainers') <= Cardinality(Drainers)
  /\ Cardinality(CountingThreads') <= Cardinality(Reqs)
<1>1. IsFiniteSet(Reqs) /\ IsFiniteSet(Drainers)
  BY QueuesAssumption, DrainersFinite
<1>2. CountingDrainers' \subseteq Drainers /\ CountingThreads' \subseteq Reqs
  BY DEF CountingDrainers, CountingThreads
<1>. QED BY <1>1, <1>2, FS_Subset, FS_CardinalityType

\* Nobody counts, and nobody more may count: the bound stays.
LEMMA NobodyCounts ==
  ASSUME QueuesTypeOK, CountBounded, UNCHANGED requeuedCount,
         CountingDrainers' \subseteq CountingDrainers, CountingThreads' \subseteq CountingThreads
  PROVE  CountBounded'
<1>1. /\ Cardinality(CountingDrainers') <= Cardinality(CountingDrainers)
      /\ Cardinality(CountingThreads') <= Cardinality(CountingThreads)
  BY CountingFinite, FS_Subset
<1>2. requeuedCount \in Nat
  BY CountingFinite DEF QueuesTypeOK
<1>. QED BY <1>1, <1>2, CountingFinite, CountingFiniteNext DEF CountBounded

\* Whoever retrieves a request and resets the count cannot break it.
LEMMA CountReset ==
  ASSUME requeuedCount' = 0
  PROVE  CountBounded'
BY CountingFinite, CountingFiniteNext DEF CountBounded

\* A dispatch thread counts once.
LEMMA HandlerCount ==
  ASSUME QueuesTypeOK, CountBounded, ThreadsAgree, QueueExact, NEW r \in Reqs,
         Arrive(r) \/ Dispatch(r) \/ HandlerStep(r) \/ QueuedCancelled(r)
  PROVE  CountBounded'
<1>1. CASE Arrive(r)
  <2>1. /\ UNCHANGED requeuedCount /\ CountingDrainers' \subseteq CountingDrainers
        /\ CountingThreads' \subseteq CountingThreads
    BY <1>1 DEF QueuesTypeOK, ThreadsAgree, CountingDrainers, CountingThreads, Arrive
  <2>. QED BY <2>1, NobodyCounts
<1>2. CASE Dispatch(r)
  <2>1. /\ UNCHANGED requeuedCount /\ CountingDrainers' \subseteq CountingDrainers
        /\ CountingThreads' \subseteq CountingThreads
    BY <1>2 DEF QueuesTypeOK, ThreadsAgree, CountingDrainers, CountingThreads, Dispatch
  <2>. QED BY <2>1, NobodyCounts
<1>3. CASE HandlerCompletes(r)
  <2>1. /\ UNCHANGED requeuedCount /\ CountingDrainers' \subseteq CountingDrainers
        /\ CountingThreads' \subseteq CountingThreads
    BY <1>3 DEF QueuesTypeOK, ThreadsAgree, CountingDrainers, CountingThreads,
       HandlerCompletes, Enters
  <2>. QED BY <2>1, NobodyCounts
<1>4. CASE HandlerSelects(r)
  <2>1. /\ UNCHANGED requeuedCount /\ CountingDrainers' \subseteq CountingDrainers
        /\ CountingThreads' \subseteq CountingThreads
    BY <1>4 DEF QueuesTypeOK, ThreadsAgree, CountingDrainers, CountingThreads,
       HandlerSelects, Enters
  <2>. QED BY <2>1, NobodyCounts
<1>5. CASE HandlerSelected(r)
  <2>1. /\ UNCHANGED requeuedCount /\ CountingDrainers' \subseteq CountingDrainers
        /\ CountingThreads' \subseteq CountingThreads
    BY <1>5 DEF QueuesTypeOK, ThreadsAgree, CountingDrainers, CountingThreads,
       HandlerSelected
  <2>. QED BY <2>1, NobodyCounts
<1>6. CASE HandlerSubmits(r)
  <2>1. /\ UNCHANGED requeuedCount /\ CountingDrainers' \subseteq CountingDrainers
        /\ CountingThreads' \subseteq CountingThreads
    BY <1>6 DEF QueuesTypeOK, ThreadsAgree, CountingDrainers, CountingThreads,
       HandlerSubmits, Enters
  <2>. QED BY <2>1, NobodyCounts
<1>7. CASE HandlerRequeues(r)
  <2>1. /\ UNCHANGED requeuedCount /\ CountingDrainers' \subseteq CountingDrainers
        /\ CountingThreads' \subseteq CountingThreads
    BY <1>7 DEF QueuesTypeOK, ThreadsAgree, CountingDrainers, CountingThreads,
       HandlerRequeues, Enters
  <2>. QED BY <2>1, NobodyCounts
<1>8. CASE HandlerStopsQueue(r)
  <2>1. /\ UNCHANGED requeuedCount /\ CountingDrainers' \subseteq CountingDrainers
        /\ CountingThreads' \subseteq CountingThreads
    BY <1>8 DEF QueuesTypeOK, ThreadsAgree, CountingDrainers, CountingThreads,
       HandlerStopsQueue
  <2>. QED BY <2>1, NobodyCounts
<1>9. CASE HandlerForwards(r)
  <2>1. /\ UNCHANGED requeuedCount /\ CountingDrainers' \subseteq CountingDrainers
        /\ CountingThreads' \subseteq CountingThreads
    BY <1>9 DEF QueuesTypeOK, ThreadsAgree, CountingDrainers, CountingThreads,
       HandlerForwards
  <2>. QED BY <2>1, NobodyCounts
<1>10. CASE HandlerForwardFails(r)
  <2>1. /\ UNCHANGED requeuedCount /\ CountingDrainers' \subseteq CountingDrainers
        /\ CountingThreads' \subseteq CountingThreads
    BY <1>10 DEF QueuesTypeOK, ThreadsAgree, CountingDrainers, CountingThreads,
       HandlerForwardFails
  <2>. QED BY <2>1, NobodyCounts
<1>11. CASE HandlerCounts(r)
  <2>1. CountingDrainers' = CountingDrainers
    BY <1>11 DEF HandlerCounts, CountingDrainers
  <2>2. r \in CountingThreads /\ CountingThreads' = CountingThreads \ {r}
    BY <1>11 DEF QueuesTypeOK, ThreadsAgree, CountingThreads, HandlerCounts
  <2>3. Cardinality(CountingThreads') = Cardinality(CountingThreads) - 1
    BY <2>2, CountingFinite, FS_RemoveElement
  <2>4. requeuedCount' = requeuedCount + 1 /\ requeuedCount \in Nat
    BY <1>11, CountingFinite DEF HandlerCounts, QueuesTypeOK
  <2>. QED BY <2>1, <2>3, <2>4, CountingFinite DEF CountBounded
<1>12. CASE QueuedCancelled(r)
  <2>1. /\ UNCHANGED <<requeuedCount, drainer, thread>>
        /\ place' = [place EXCEPT ![r] = "done"]
    BY <1>12 DEF QueuedCancelled
  <2>2. /\ CountingDrainers' \subseteq CountingDrainers
        /\ CountingThreads' \subseteq CountingThreads
    BY <2>1 DEF QueuesTypeOK, CountingDrainers, CountingThreads
  <2>. QED BY <2>1, <2>2, NobodyCounts
<1>. QED BY <1>1, <1>2, <1>3, <1>4, <1>5, <1>6, <1>7, <1>8, <1>9, <1>10, <1>11, <1>12
            DEF HandlerStep

\* A drainer counts once for each request it takes back, and has reset the count
\* before.
LEMMA DrainerCount ==
  ASSUME QueuesTypeOK, CountBounded, QueueExact, OwnsOne, NEW d \in Drainers, DrainStep(d)
  PROVE  CountBounded'
<1>1. CASE DrainSubmits(d) \/ DrainLocal(d) \/ DrainSelects(d) \/ DrainRequeues(d)
  <2>1. requeuedCount' = 0
    BY <1>1 DEF DrainSubmits, DrainLocal, DrainSelects, DrainRequeues
  <2>. QED BY <2>1, CountReset
<1>2. CASE DrainEmpty(d) \/ DrainStartsQueue(d) \/ Relock(d)
           \/ DrainLocalDone(d) \/ DrainStopsQueue(d)
  <2>1. UNCHANGED <<requeuedCount, place, thread>>
    BY <1>2 DEF DrainEmpty, DrainStartsQueue, Relock, DrainLocalDone,
             DrainStopsQueue
  <2>2. CountingDrainers' \subseteq CountingDrainers
    BY <1>2 DEF QueuesTypeOK, CountingDrainers, DrainEmpty, DrainStartsQueue, Relock,
             DrainLocalDone, DrainStopsQueue
  <2>3. CountingThreads' = CountingThreads
    BY <2>1 DEF CountingThreads
  <2>. QED BY <2>1, <2>2, <2>3, NobodyCounts
<1>3. CASE DrainCompletes(d)
  <2>1. Next1 \in Reqs /\ place[Next1] = "requestQueue"
    BY <1>3, Taken DEF DrainCompletes
  <2>2. /\ UNCHANGED <<requeuedCount, thread>>
        /\ place' = [place EXCEPT ![Next1] = "done"]
        /\ drainer' = [drainer EXCEPT ![d] = "relock"]
    BY <1>3 DEF DrainCompletes
  <2>3. CountingDrainers' \subseteq CountingDrainers
    BY <2>2 DEF QueuesTypeOK, CountingDrainers
  <2>4. CountingThreads' \subseteq CountingThreads
    BY <2>1, <2>2 DEF QueuesTypeOK, CountingThreads
  <2>. QED BY <2>2, <2>3, <2>4, NobodyCounts
<1>4. CASE DrainSelected(d) \/ DrainForwards(d) \/ DrainForwardFails(d)
  <2>1. own[d] \in Reqs /\ drainer[d] \in {"forward", "config"}
    BY <1>4, Owned DEF DrainSelected, DrainForwards, DrainForwardFails
  <2>2. /\ UNCHANGED <<requeuedCount, thread>>
        /\ \E w \in {"done", "requestQueue"} : place' = [place EXCEPT ![own[d]] = w]
    BY <1>4 DEF DrainSelected, DrainForwards, DrainForwardFails
  <2>3. CountingDrainers' \subseteq CountingDrainers
    BY <1>4 DEF QueuesTypeOK, CountingDrainers, DrainSelected, DrainForwards,
       DrainForwardFails
  <2>4. CountingThreads' \subseteq CountingThreads
    BY <2>1, <2>2 DEF QueuesTypeOK, CountingThreads
  <2>. QED BY <2>2, <2>3, <2>4, NobodyCounts
<1>5. CASE DrainCounts(d)
  <2>1. CountingThreads' = CountingThreads
    BY <1>5 DEF DrainCounts, CountingThreads
  <2>2. d \in CountingDrainers /\ CountingDrainers' = CountingDrainers \ {d}
    BY <1>5 DEF QueuesTypeOK, CountingDrainers, DrainCounts
  <2>3. Cardinality(CountingDrainers') = Cardinality(CountingDrainers) - 1
    BY <2>2, CountingFinite, FS_RemoveElement
  <2>4. requeuedCount' = requeuedCount + 1 /\ requeuedCount \in Nat
    BY <1>5, CountingFinite DEF DrainCounts, QueuesTypeOK
  <2>. QED BY <2>1, <2>3, <2>4, CountingFinite DEF CountBounded
<1>. QED BY <1>1, <1>2, <1>3, <1>4, <1>5 DEF DrainStep

\* Nobody else counts.
LEMMA OtherCount ==
  ASSUME QueuesTypeOK, CountBounded, RingExact,
         \/ Dpc \/ TimerRunsDpc \/ TimerUnplugs \/ PassiveDrain
         \/ \E j \in ring : BackendAnswers(j)
         \/ ConfigStarts \/ ConfigEnds
  PROVE  CountBounded'
<1>1. CASE Dpc \/ TimerRunsDpc
  <2>1. UNCHANGED <<requeuedCount, thread>>
    BY <1>1 DEF Dpc, TimerRunsDpc
  <2>2. \E d \in Drainers : drainer[d] = "idle" /\ RunDpc(d)
    BY <1>1 DEF Dpc, TimerRunsDpc, Drainers
  <2>3. \E d \in Drainers, w \in {"drain", "relock"} : drainer' = [drainer EXCEPT ![d] = w]
    BY <2>2 DEF RunDpc
  <2>4. \A r \in Reqs : place'[r] \in {"done", place[r]}
    BY <2>2 DEF RunDpc
  <2>5. CountingDrainers' \subseteq CountingDrainers
    BY <2>3 DEF QueuesTypeOK, CountingDrainers
  <2>6. CountingThreads' \subseteq CountingThreads
    BY <2>1, <2>4 DEF CountingThreads
  <2>. QED BY <2>1, <2>5, <2>6, NobodyCounts
<1>2. CASE TimerUnplugs \/ PassiveDrain
  <2>1. UNCHANGED <<requeuedCount, place, thread>>
    BY <1>2 DEF TimerUnplugs, PassiveDrain
  <2>2. CountingDrainers' \subseteq CountingDrainers
    BY <1>2 DEF QueuesTypeOK, CountingDrainers, TimerUnplugs, PassiveDrain, Drainers
  <2>3. CountingThreads' = CountingThreads
    BY <2>1 DEF CountingThreads
  <2>. QED BY <2>1, <2>2, <2>3, NobodyCounts
<1>3. CASE \/ \E j \in ring : BackendAnswers(j)
           \/ ConfigStarts \/ ConfigEnds
  <2>1. UNCHANGED <<requeuedCount, place, thread, drainer>>
    BY <1>3 DEF BackendAnswers, ConfigStarts, ConfigEnds
  <2>2. CountingDrainers' = CountingDrainers /\ CountingThreads' = CountingThreads
    BY <2>1 DEF CountingDrainers, CountingThreads
  <2>. QED BY <2>1, <2>2, NobodyCounts
<1>. QED BY <1>1, <1>2, <1>3

-------------------------------------------------------------------------------
(* The theorems.                                                           *)

\* The invariant holds at the start.
LEMMA InvInit == QueuesInit => QueuesInv
<1> SUFFICES ASSUME QueuesInit PROVE QueuesInv
  OBVIOUS
<1>1. QueuesTypeOK
  BY TypesInit
<1>2. CountBounded
  <2>1. CountingDrainers = {}
    BY DEF QueuesInit, CountingDrainers
  <2>2. Cardinality(CountingDrainers) = 0
    BY <2>1, FS_EmptySet
  <2>. QED BY <2>2, CountingFinite DEF QueuesInit, CountBounded
<1>3. ThreadsAgree /\ OwnsOne /\ HasDrainer /\ RingExact
  BY Kinds DEF QueuesInit, ThreadsAgree, OwnsOne, HasDrainer, RingExact
<1>4. QueueExact
  BY DEF QueuesInit, QueueExact, OnceEach, RequestsOf, Placed
<1>. QED BY <1>1, <1>2, <1>3, <1>4 DEF QueuesInv

\* Every step keeps it.
LEMMA InvNext == QueuesInv /\ [QueuesNext]_queueSpecVars => QueuesInv'
<1> SUFFICES ASSUME QueuesInv, [QueuesNext]_queueSpecVars PROVE QueuesInv'
  OBVIOUS
<1> DEFINE Others == \/ Dpc \/ TimerRunsDpc \/ TimerUnplugs \/ PassiveDrain
                     \/ \E j \in ring : BackendAnswers(j)
                     \/ ConfigStarts \/ ConfigEnds
<1>1. /\ QueuesTypeOK /\ CountBounded /\ ThreadsAgree
      /\ QueueExact /\ OwnsOne /\ HasDrainer /\ RingExact
  BY DEF QueuesInv
<1>2. ASSUME CountBounded', requeuedCount' \in Nat
      PROVE  requeuedCount' \in 0 .. Cardinality(Reqs) + Cardinality(Drainers)
  BY <1>2, CountingFinite, CountingFiniteNext DEF CountBounded
<1>3. requeuedCount \in Nat
  BY <1>1, CountingFinite DEF QueuesTypeOK
<1>4. ASSUME NEW r \in Reqs, Arrive(r) \/ Dispatch(r) \/ HandlerStep(r) \/ QueuedCancelled(r)
      PROVE  QueuesInv'
  <2>1. requeuedCount' \in Nat
    <3>1. CASE QueuedCancelled(r)
      <4>1. UNCHANGED requeuedCount
        BY <3>1 DEF QueuedCancelled
      <4>. QED BY <1>3, <4>1
    <3>2. CASE Arrive(r) \/ Dispatch(r) \/ HandlerStep(r)
      BY <1>3, <3>2 DEF Arrive, Dispatch, HandlerStep, HandlerCompletes, HandlerSelects,
                        HandlerSelected, HandlerSubmits, HandlerRequeues, HandlerStopsQueue,
                        HandlerForwards, HandlerForwardFails, HandlerCounts
    <3>. QED BY <1>4, <3>1, <3>2
  <2>2. CountBounded'
    BY <1>1, <1>4, HandlerCount
  <2>3. QueuesTypeOK'
    BY <1>1, <1>2, <1>4, <2>1, <2>2, HandlerTypes
  <2>. QED BY <1>1, <1>4, <2>2, <2>3, HandlerThreads, HandlerOwners, HandlerQueue
              DEF QueuesInv
<1>5. ASSUME NEW d \in Drainers, DrainStep(d)
      PROVE  QueuesInv'
  <2>1. requeuedCount' \in Nat
    BY <1>3, <1>5 DEF DrainStep, DrainEmpty, DrainStartsQueue, DrainCompletes, Relock,
                      DrainSubmits, DrainLocal, DrainLocalDone, DrainSelects, DrainSelected,
                      DrainRequeues, DrainStopsQueue, DrainForwards, DrainForwardFails,
                      DrainCounts
  <2>2. CountBounded'
    BY <1>1, <1>5, DrainerCount
  <2>3. QueuesTypeOK'
    BY <1>1, <1>2, <1>5, <2>1, <2>2, DrainerTypes
  <2>. QED BY <1>1, <1>5, <2>2, <2>3, DrainerQueue, DrainerOwners DEF QueuesInv
<1>6. CASE Others
  <2>1. requeuedCount' \in Nat
    BY <1>3, <1>6 DEF Dpc, TimerRunsDpc, TimerUnplugs, PassiveDrain, BackendAnswers,
                      ConfigStarts, ConfigEnds
  <2>2. CountBounded'
    BY <1>1, <1>6, OtherCount
  <2>3. QueuesTypeOK'
    BY <1>1, <1>2, <1>6, <2>1, <2>2, OtherTypes
  <2>. QED BY <1>1, <1>6, <2>2, <2>3, OtherOwners DEF QueuesInv
<1>7. CASE UNCHANGED queueSpecVars
  <2>1. QueuesTypeOK' /\ CountBounded'
    BY <1>1, <1>7 DEF queueSpecVars, QueuesTypeOK, CountBounded, CountingDrainers,
       CountingThreads
  <2>2. ThreadsAgree' /\ QueueExact' /\ OwnsOne' /\ HasDrainer' /\ RingExact'
    BY <1>1, <1>7 DEF queueSpecVars, ThreadsAgree, QueueExact, Placed, OwnsOne, HasDrainer,
                      RingExact
  <2>. QED BY <2>1, <2>2 DEF QueuesInv
<1>. QED BY <1>4, <1>5, <1>6, <1>7 DEF QueuesNext

\* QueuesInv is an invariant: who has a request, with the bound of RequeuedCount.
THEOREM QueuesInvariant == QueuesSpec => []QueuesInv
<1>. QED BY InvInit, InvNext, PTL DEF QueuesSpec

\* Every variable of the queues keeps its range, RequeuedCount at most one for each
\* thread that can requeue, however often requests are put back.
THEOREM QueuesTypes == QueuesSpec => []QueuesTypeOK
<1>1. QueuesInv => QueuesTypeOK
  BY DEF QueuesInv
<1>. QED BY QueuesInvariant, <1>1, PTL

\* The invariant counts every request in the places RequestAccounted names.
LEMMA InvAccounts == QueuesInv => RequestAccounted
<1> SUFFICES ASSUME QueuesInv, NEW r \in Reqs
             PROVE  /\ Cardinality({i \in DOMAIN requestQueue : requestQueue[i] = r})
                         = IF place[r] = "requestQueue" THEN 1 ELSE 0
                    /\ Cardinality({d \in Drainers : /\ own[d] = r
                                                     /\ drainer[d] \in {"stop", "forward", "config"}})
                         = IF place[r] = "drainer" THEN 1 ELSE 0
                    /\ r \in ring \cup answered => place[r] = "ring"
                    /\ place[r] = "ring" => r \in ring \cup answered
                    /\ place[r] = "handler" => thread[r] # "idle"
  BY DEF RequestAccounted
<1>1. Cardinality({i \in DOMAIN requestQueue : requestQueue[i] = r})
        = IF place[r] = "requestQueue" THEN 1 ELSE 0
  <2>1. requestQueue \in Seq(Reqs) /\ OnceEach(requestQueue)
    BY DEF QueuesInv, QueuesTypeOK, QueueExact
  <2>2. r \in RequestsOf(requestQueue) <=> place[r] = "requestQueue"
    BY DEF QueuesInv, QueueExact, Placed
  <2>. QED BY <2>1, <2>2, CountInQueue
<1>2. Cardinality({d \in Drainers : own[d] = r /\ drainer[d] \in {"stop", "forward", "config"}})
        = IF place[r] = "drainer" THEN 1 ELSE 0
  <2> DEFINE Owners == {d \in Drainers : /\ own[d] = r
                                          /\ drainer[d] \in {"stop", "forward", "config"}}
  <2>1. CASE place[r] = "drainer"
    <3>1. PICK d \in Drainers : own[d] = r
      BY <2>1 DEF QueuesInv, HasDrainer
    <3>2. Owners = {d}
      BY <3>1, Kinds DEF QueuesInv, OwnsOne
    <3>. QED BY <2>1, <3>2, FS_Singleton
  <2>2. CASE place[r] # "drainer"
    <3>1. Owners = {}
      BY <2>2, Kinds DEF QueuesInv, OwnsOne
    <3>. QED BY <2>2, <3>1, FS_EmptySet
  <2>. QED BY <2>1, <2>2
<1>. QED BY <1>1, <1>2 DEF QueuesInv, RingExact, ThreadsAgree

\* However dispatch threads, drainers and cancellation interleave, a request is in
\* exactly one place: it is neither lost nor in two hands.
THEOREM RequestsAccounted == QueuesSpec => []RequestAccounted
<1>. QED BY QueuesInvariant, InvAccounts, PTL

===============================================================================
