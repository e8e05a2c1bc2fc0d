----------------------------- MODULE RootHub_proofs -----------------------------
(***************************************************************************)
(* What every behaviour of the root hub keeps: requests are completed once, *)
(* the event a port reset waits for is its own, a port that is gone is seen *)
(* to be gone, and a change does not wait for a parked request.             *)
(*                                                                         *)
(* The steps a thread has still to take are data of the model.  The part of *)
(* the invariant that the others rest on, HubSteps, says what such a        *)
(* sequence looks like: which steps it can hold, and which step still       *)
(* follows which.                                                          *)
(***************************************************************************)
EXTENDS RootHub, SequenceTheorems, TLAPS

Finishing == {"complete", "forward", "park"}
Others    == {"check", "probe", "clearEvent", "wait", "retrieve", "report", "cycle",
              "resetDevice"}

HubStep ==
  [do : Finishing \cup Others]
    \cup [do : {"update"}, word : {"status", "change"}, add : SUBSET Features,
          del : SUBSET Features, silent : BOOLEAN]
    \cup [do : {"sample"}, gone : BOOLEAN]

HubTypes ==
  /\ word \in [status : SUBSET Features, change : SUBSET Features]
  /\ parked \in Seq(StatusRequests)
  /\ hubPower \in {"Dx", "entry", "D0", "stopping", "exit"}
  /\ portConnected \in BOOLEAN /\ resetCompleteEvent \in BOOLEAN
  /\ todo \in [Threads -> Seq(HubStep)]
  /\ loaded \in [Threads -> SUBSET SUBSET Features]
  /\ taken \in [Threads -> SUBSET StatusRequests]
  /\ holder \in [Requests -> {"client", "handler", "queue", "parent"}]
  /\ completions \in [Requests -> Nat]
  /\ hubOp \in [HubRequests -> AllHubOps]
  /\ stopped \subseteq Requests /\ signalled \subseteq HubRequests
  /\ overlapped \subseteq HubRequests
  /\ lostUpdate \in BOOLEAN /\ unreported \in BOOLEAN /\ goneSeen \in BOOLEAN

--------------------------------------------------------------------------------
(* What follows what in the steps of a thread.                              *)
Has(q, D) == \E i \in 1..Len(q) : q[i].do \in D

OnlyOne(q, D) == \A i, j \in 1..Len(q) : q[i].do \in D /\ q[j].do \in D => i = j

\* What a handler does before it gives its request away.
Early == {"probe", "sample", "clearEvent"}

FinishFollows(q) ==
  \A i \in 1..Len(q) : q[i].do \in Early => \E j \in (i + 1)..Len(q) : q[j].do \in Finishing

\* A step after which the hub driver has to be told.
Tells(s) ==
  s.do = "park" \/ (s.do = "update" /\ s.word = "change" /\ s.add # {} /\ ~s.silent)

CheckFollows(q) ==
  \A i \in 1..Len(q) : Tells(q[i]) => \E j \in (i + 1)..Len(q) : q[j].do = "check"

ConnectsPort(s)    == s.do = "update" /\ s.word = "status" /\ "CONNECT" \in s.add
DisconnectsPort(s) == s.do = "update" /\ s.word = "status" /\ "CONNECT" \in s.del

\* The event of a reset is cleared before anything else.
ClearsFirst(q) == \A i \in 1..Len(q) : q[i].do = "clearEvent" => i = 1

Orderly(q) ==
  /\ OnlyOne(q, Finishing) /\ OnlyOne(q, {"wait"})
  /\ ClearsFirst(q) /\ FinishFollows(q) /\ CheckFollows(q)

ResetOps == {"RESET_PORT", "CYCLE_PORT"}

\* Whose steps they are.
HubSteps ==
  /\ \A t \in Threads : Orderly(todo[t])
  /\ \A r \in Requests : \A i \in 1..Len(todo[r]) : ~ConnectsPort(todo[r][i])
  /\ \A r \in HubRequests : /\ ~Has(todo[r], {"park"})
                            /\ Has(todo[r], {"clearEvent", "wait", "cycle"})
                                 => hubOp[r] \in ResetOps
  /\ \A r \in StatusRequests :
       ~Has(todo[r], {"forward", "clearEvent", "wait", "cycle"})
  /\ hubPower # "entry" => \A i \in 1..Len(todo["pnp"]) : ~ConnectsPort(todo["pnp"][i])
  /\ hubPower \in {"Dx", "stopping"} => todo["pnp"] = <<>>

--------------------------------------------------------------------------------
(* The parts of the invariant.                                              *)
TakenByOne(r) == \A t, u \in Threads : r \in taken[t] /\ r \in taken[u] => t = u

\* Some thread will give r away or complete it.
Held(r) == Has(todo[r], Finishing) \/ \E t \in Threads : r \in taken[t]

RequestOwned(r) ==
  /\ r \in stopped => holder[r] = "client"
  /\ r \notin stopped /\ Held(r) => holder[r] = "handler"
  /\ r \notin stopped => completions[r] <= 1 /\ (completions[r] = 1 => holder[r] = "client")
  /\ Has(todo[r], Finishing) => \A t \in Threads : r \notin taken[t]
  /\ TakenByOne(r)
  /\ holder[r] = "parent" => r \in HubRequests
  /\ holder[r] = "handler" => hubPower \in {"D0", "stopping"}

ParkedOnce ==
  /\ \A i \in 1..Len(parked) : holder[parked[i]] = "queue"
  /\ \A i, j \in 1..Len(parked) : parked[i] = parked[j] => i = j

ResetAlone ==
  \A r \in ResetsUnderWay : r \notin overlapped => ResetsUnderWay \subseteq {r}

\* From the clearing of the event to the end of the wait.
EventOwned ==
  \A r \in HubRequests :
    /\ Has(todo[r], Finishing) => r \notin signalled
    /\ Has(todo[r], {"wait"}) /\ ~Has(todo[r], {"clearEvent"}) /\ r \notin overlapped
         => (resetCompleteEvent <=> r \in signalled)
    /\ Has(todo[r], {"cycle"}) => ~Has(todo[r], {"wait"})

\* An answer that was found gone reads a word without CONNECT, or clears it first.
GoneCleared ==
  \A r \in Requests : \A i \in 1..Len(todo[r]) :
    todo[r][i].do = "sample" /\ todo[r][i].gone /\ r \notin stopped /\ ~lostUpdate =>
      "CONNECT" \notin word.status \/ \E j \in 1..(i - 1) : DisconnectsPort(todo[r][j])

HubInv ==
  /\ HubTypes
  /\ HubSteps
  /\ \A r \in Requests : RequestOwned(r)
  /\ ParkedOnce
  /\ ResetAlone
  /\ EventOwned
  /\ GoneCleared
  /\ GoneIsSeen

--------------------------------------------------------------------------------
(* The steps of a thread.                                                   *)

\* The rest of a sequence, behind the steps a thread has found it has to take.
LEMMA Behind ==
  ASSUME NEW q \in Seq(HubStep), q # <<>>, NEW s \in Seq(HubStep)
  PROVE  LET p == s \o Tail(q)
         IN  /\ p \in Seq(HubStep)
             /\ Len(p) = Len(s) + Len(q) - 1
             /\ \A i \in 1..Len(s) : p[i] = s[i]
             /\ \A i \in 2..Len(q) : p[Len(s) + i - 1] = q[i]
<1> DEFINE z == Tail(q)
<1>1. z \in Seq(HubStep) /\ Len(z) = Len(q) - 1 /\ Len(q) >= 1 /\ Len(q) \in Nat
  OBVIOUS
<1>2. \A i \in 1..(Len(q) - 1) : z[i] = q[i + 1]
  OBVIOUS
<1> HIDE DEF z
<1>3. Len(s \o z) = Len(s) + Len(z) /\ Len(s) \in Nat /\ s \o z \in Seq(HubStep)
  BY <1>1
<1>4. \A i \in 1..Len(s) : (s \o z)[i] = s[i]
  BY <1>1
<1>5. \A i \in 1..Len(z) : (s \o z)[Len(s) + i] = z[i]
  BY <1>1
<1>6. ASSUME NEW i \in 2..Len(q) PROVE (s \o z)[Len(s) + i - 1] = q[i]
  <2>1. i - 1 \in 1..Len(z) /\ Len(s) + (i - 1) = Len(s) + i - 1 /\ (i - 1) + 1 = i
    BY <1>1, <1>3
  <2>. QED BY <2>1, <1>1, <1>2, <1>5
<1>7. s \o z = s \o Tail(q)
  BY DEF z
<1>. QED BY <1>1, <1>3, <1>4, <1>6, <1>7

\* A thread that has taken its first step.
LEMMA Rest ==
  ASSUME NEW q \in Seq(HubStep), q # <<>>
  PROVE  /\ Head(q) = q[1] /\ Head(q) \in HubStep /\ Len(q) \in Nat /\ Len(q) >= 1
         /\ Tail(q) = <<>> \o Tail(q) /\ <<>> \in Seq(HubStep) /\ Len(<<>>) = 0
<1>1. /\ Len(q) \in Nat /\ Len(q) >= 1 /\ Tail(q) \in Seq(HubStep)
      /\ Head(q) = q[1] /\ Head(q) \in HubStep
  OBVIOUS
<1>2. Tail(q) = <<>> \o Tail(q)
  BY <1>1
<1>3. <<>> \in Seq(HubStep) /\ Len(<<>>) = 0
  OBVIOUS
<1>. QED BY <1>1, <1>2, <1>3

\* What is left over after a step, with the steps it adds.
LEMMA Onward ==
  ASSUME NEW q \in Seq(HubStep), q # <<>>, NEW s \in Seq(HubStep)
  PROVE  LET p == s \o Tail(q)
         IN  /\ \A D : Has(p, D) => Has(s, D) \/ Has(q, D)
             /\ \A D : q[1].do \notin D /\ Has(q, D) => Has(p, D)
             /\ \A D : OnlyOne(q, D) /\ ~Has(s, D) => OnlyOne(p, D)
             /\ \A D : OnlyOne(q, D) /\ q[1].do \in D /\ ~Has(s, D) => ~Has(p, D)
<1> DEFINE p == s \o Tail(q)
<1>1. /\ p \in Seq(HubStep) /\ Len(p) = Len(s) + Len(q) - 1
      /\ \A i \in 1..Len(s) : p[i] = s[i]
      /\ \A i \in 2..Len(q) : p[Len(s) + i - 1] = q[i]
  BY Behind
<1>2. Len(q) \in Nat /\ Len(q) >= 1 /\ Len(s) \in Nat
  OBVIOUS
<1> HIDE DEF p
\* The place in q of a step behind those added.
<1>3. ASSUME NEW i \in 1..Len(p), i \notin 1..Len(s)
      PROVE  i + 1 - Len(s) \in 2..Len(q) /\ p[i] = q[i + 1 - Len(s)]
  <2>1. i + 1 - Len(s) \in 2..Len(q) /\ Len(s) + (i + 1 - Len(s)) - 1 = i
    BY <1>1, <1>2, <1>3
  <2>. QED BY <2>1, <1>1
<1>4. \A D : Has(p, D) => Has(s, D) \/ Has(q, D)
  <2>1. SUFFICES ASSUME NEW D, NEW i \in 1..Len(p), p[i].do \in D PROVE Has(s, D) \/ Has(q, D)
    BY DEF Has
  <2>2. CASE i \in 1..Len(s)
    BY <2>1, <2>2, <1>1 DEF Has
  <2>3. CASE i \notin 1..Len(s)
    <3>1. i + 1 - Len(s) \in 1..Len(q) /\ q[i + 1 - Len(s)].do \in D
      BY <2>1, <2>3, <1>2, <1>3
    <3>. QED BY <3>1 DEF Has
  <2>. QED BY <2>2, <2>3
<1>5. ASSUME NEW D, q[1].do \notin D, Has(q, D) PROVE Has(p, D)
  <2>1. PICK i \in 1..Len(q) : q[i].do \in D
    BY <1>5 DEF Has
  <2>2. i \in 2..Len(q) /\ Len(s) + i - 1 \in 1..Len(p)
    BY <2>1, <1>1, <1>2, <1>5
  <2>. QED BY <2>1, <2>2, <1>1 DEF Has
<1>6. ASSUME NEW D, OnlyOne(q, D), ~Has(s, D) PROVE OnlyOne(p, D)
  <2>1. SUFFICES ASSUME NEW i \in 1..Len(p), NEW j \in 1..Len(p), p[i].do \in D, p[j].do \in D
                 PROVE  i = j
    BY DEF OnlyOne
  <2>2. i \notin 1..Len(s) /\ j \notin 1..Len(s)
    BY <2>1, <1>1, <1>6 DEF Has
  <2>3. /\ i + 1 - Len(s) \in 1..Len(q) /\ q[i + 1 - Len(s)].do \in D
        /\ j + 1 - Len(s) \in 1..Len(q) /\ q[j + 1 - Len(s)].do \in D
    BY <2>1, <2>2, <1>2, <1>3
  <2>4. i + 1 - Len(s) = j + 1 - Len(s)
    BY <2>3, <1>6 DEF OnlyOne
  <2>. QED BY <2>4, <1>2
<1>7. ASSUME NEW D, OnlyOne(q, D), q[1].do \in D, ~Has(s, D) PROVE ~Has(p, D)
  <2>1. SUFFICES ASSUME NEW i \in 1..Len(p), p[i].do \in D PROVE FALSE
    BY DEF Has
  <2>2. i \notin 1..Len(s)
    BY <2>1, <1>1, <1>7 DEF Has
  <2>3. i + 1 - Len(s) \in 2..Len(q) /\ q[i + 1 - Len(s)].do \in D
    BY <2>1, <2>2, <1>3
  <2>4. i + 1 - Len(s) = 1
    <3>1. 1 \in 1..Len(q) /\ i + 1 - Len(s) \in 1..Len(q)
      BY <2>3, <1>2
    <3>. QED BY <3>1, <2>3, <1>7 DEF OnlyOne
  <2>. QED BY <2>3, <2>4
<1>. QED BY <1>4, <1>5, <1>6, <1>7 DEF p

\* Steps that a thread may add to its own: nothing is given away or waited for,
\* and the port is not connected.
Added(s, q) ==
  /\ s \in Seq(HubStep)
  /\ ~Has(s, Finishing) /\ ~Has(s, {"wait", "clearEvent", "probe", "cycle"})
  /\ Has(s, {"sample"}) => q[1].do \in Early
  /\ \A i \in 1..Len(s) : ~Tells(s[i]) /\ ~ConnectsPort(s[i])

\* What has to follow still follows.
LEMMA OrderKept ==
  ASSUME NEW q \in Seq(HubStep), q # <<>>, Orderly(q), NEW s, Added(s, q)
  PROVE  Orderly(s \o Tail(q))
<1> DEFINE p == s \o Tail(q)
<1>0. /\ s \in Seq(HubStep) /\ ~Has(s, Finishing) /\ ~Has(s, {"wait"})
      /\ ~Has(s, {"clearEvent", "probe"})
  BY DEF Added, Has
<1>1. /\ p \in Seq(HubStep) /\ Len(p) = Len(s) + Len(q) - 1
      /\ \A i \in 1..Len(s) : p[i] = s[i]
      /\ \A i \in 2..Len(q) : p[Len(s) + i - 1] = q[i]
  BY <1>0, Behind
<1>2. Len(q) \in Nat /\ Len(q) >= 1 /\ Len(s) \in Nat
  BY <1>0
<1>3. OnlyOne(p, Finishing) /\ OnlyOne(p, {"wait"})
  BY <1>0, Onward DEF Orderly
<1> HIDE DEF p
<1>4. FinishFollows(p)
  <2>1. SUFFICES ASSUME NEW i \in 1..Len(p), p[i].do \in Early
                 PROVE  \E j \in (i + 1)..Len(p) : p[j].do \in Finishing
    BY DEF FinishFollows
  <2>2. CASE i \in 1..Len(s)
    <3>1. q[1].do \in Early
      BY <2>1, <2>2, <1>0, <1>1 DEF Added, Has, Early
    <3>2. PICK k \in 2..Len(q) : q[k].do \in Finishing
      BY <3>1, <1>2 DEF Orderly, FinishFollows
    <3>3. Len(s) + k - 1 \in (i + 1)..Len(p) /\ p[Len(s) + k - 1] = q[k]
      BY <3>2, <2>2, <1>1, <1>2
    <3>. QED BY <3>2, <3>3
  <2>3. CASE i \notin 1..Len(s)
    <3> DEFINE m == i + 1 - Len(s)
    <3>1. m \in 2..Len(q) /\ Len(s) + m - 1 = i
      BY <2>3, <1>1, <1>2
    <3>2. PICK k \in (m + 1)..Len(q) : q[k].do \in Finishing
      <4>1. m \in 1..Len(q) /\ q[m].do \in Early
        BY <3>1, <2>1, <1>1, <1>2
      <4>. QED BY <4>1 DEF Orderly, FinishFollows
    <3>3. k \in 2..Len(q) /\ Len(s) + k - 1 \in (i + 1)..Len(p)
      BY <3>1, <3>2, <1>1, <1>2
    <3>. QED BY <3>2, <3>3, <1>1
  <2>. QED BY <2>2, <2>3
<1>5. CheckFollows(p)
  <2>1. SUFFICES ASSUME NEW i \in 1..Len(p), Tells(p[i])
                 PROVE  \E j \in (i + 1)..Len(p) : p[j].do = "check"
    BY DEF CheckFollows
  <2>2. i \notin 1..Len(s)
    BY <2>1, <1>1 DEF Added
  <2> DEFINE m == i + 1 - Len(s)
  <2>3. m \in 2..Len(q) /\ Len(s) + m - 1 = i
    BY <2>2, <1>1, <1>2
  <2>4. PICK k \in (m + 1)..Len(q) : q[k].do = "check"
    <3>1. m \in 1..Len(q) /\ Tells(q[m])
      BY <2>1, <2>3, <1>1, <1>2
    <3>. QED BY <3>1 DEF Orderly, CheckFollows
  <2>5. k \in 2..Len(q) /\ Len(s) + k - 1 \in (i + 1)..Len(p)
    BY <2>3, <2>4, <1>1, <1>2
  <2>. QED BY <2>4, <2>5, <1>1
<1>6. ClearsFirst(p)
  <2>1. SUFFICES ASSUME NEW i \in 1..Len(p), p[i].do = "clearEvent" PROVE FALSE
    BY DEF ClearsFirst
  <2>2. i \notin 1..Len(s)
    BY <2>1, <1>1 DEF Added, Has
  <2> DEFINE m == i + 1 - Len(s)
  <2>3. m \in 2..Len(q) /\ Len(s) + m - 1 = i
    BY <2>2, <1>1, <1>2
  <2> HIDE DEF m
  <2>4. m \in 1..Len(q) /\ m # 1
    BY <2>3, <1>2
  <2>5. p[Len(s) + m - 1] = q[m]
    BY <2>3, <1>1
  <2>. QED BY <2>1, <2>3, <2>4, <2>5 DEF Orderly, ClearsFirst
<1>. QED BY <1>3, <1>4, <1>5, <1>6 DEF Orderly, p

\* A thread is given steps: by the dispatch of its request, or by the framework.
LEMMA StepsGiven ==
  ASSUME HubTypes, HubSteps, NEW t \in Threads, NEW q \in Seq(HubStep), Orderly(q),
         todo' = [todo EXCEPT ![t] = q],
         t \in Requests => hubPower' = hubPower /\ \A i \in 1..Len(q) : ~ConnectsPort(q[i]),
         t \in HubRequests => /\ ~Has(q, {"park"})
                              /\ Has(q, {"clearEvent", "wait", "cycle"}) => hubOp'[t] \in ResetOps,
         t \in StatusRequests => ~Has(q, {"forward", "clearEvent", "wait", "cycle"}),
         t = "pnp" => /\ hubPower' # "entry" => \A i \in 1..Len(q) : ~ConnectsPort(q[i])
                      /\ hubPower' \notin {"Dx", "stopping"},
         \A r \in HubRequests : r # t => hubOp'[r] = hubOp[r]
  PROVE  HubSteps'
<1>0. /\ HubRequests \subseteq Threads /\ StatusRequests \subseteq Threads
      /\ Requests \subseteq Threads /\ "pnp" \in Threads
      /\ "pnp" \notin Requests /\ Threads = Requests \cup {"pnp"}
      /\ HubRequests \cap StatusRequests = {} /\ Requests = HubRequests \cup StatusRequests
  BY HubRequestsAssumption DEF Threads, Requests
<1>1. todo'[t] = q /\ \A u \in Threads : u # t => todo'[u] = todo[u]
  BY DEF HubTypes
<1>2. \A u \in Threads : Orderly(todo'[u])
  BY <1>1 DEF HubSteps
<1>3. \A r \in Requests : \A i \in 1..Len(todo'[r]) : ~ConnectsPort(todo'[r][i])
  BY <1>0, <1>1 DEF HubSteps
<1>4. ASSUME NEW r \in HubRequests
      PROVE  /\ ~Has(todo'[r], {"park"})
             /\ Has(todo'[r], {"clearEvent", "wait", "cycle"}) => hubOp'[r] \in ResetOps
  BY <1>0, <1>1 DEF HubSteps
<1>5. \A r \in StatusRequests : ~Has(todo'[r], {"forward", "clearEvent", "wait", "cycle"})
  BY <1>0, <1>1 DEF HubSteps
<1>6. /\ hubPower' # "entry" => \A i \in 1..Len(todo'["pnp"]) : ~ConnectsPort(todo'["pnp"][i])
      /\ hubPower' \in {"Dx", "stopping"} => todo'["pnp"] = <<>>
  <2>1. CASE t = "pnp"
    BY <2>1, <1>1
  <2>2. CASE t # "pnp"
    BY <2>2, <1>0, <1>1 DEF HubSteps
  <2>. QED BY <2>1, <2>2
<1>. QED BY <1>2, <1>3, <1>4, <1>5, <1>6 DEF HubSteps

\* Taking a step keeps what the sequences look like.
LEMMA StepTaken ==
  ASSUME HubTypes, HubSteps, NEW t \in Threads, todo[t] # <<>>, NEW s, Added(s, todo[t]),
         todo' = [todo EXCEPT ![t] = s \o Tail(todo[t])],
         hubPower' = hubPower, hubOp' = hubOp
  PROVE  HubSteps' /\ todo' \in [Threads -> Seq(HubStep)]
<1> DEFINE q == todo[t]
           p == s \o Tail(q)
<1>0. q \in Seq(HubStep) /\ q # <<>> /\ s \in Seq(HubStep) /\ Added(s, q) /\ Orderly(q)
  BY DEF HubTypes, HubSteps, Added
<1>1. /\ p \in Seq(HubStep) /\ Len(p) = Len(s) + Len(q) - 1
      /\ \A i \in 1..Len(s) : p[i] = s[i]
      /\ \A i \in 2..Len(q) : p[Len(s) + i - 1] = q[i]
  BY <1>0, Behind
<1>2. Len(q) \in Nat /\ Len(q) >= 1 /\ Len(s) \in Nat
  BY <1>0
<1>3. \A D : Has(p, D) => Has(s, D) \/ Has(q, D)
  BY <1>0, Onward
<1>4. Orderly(p)
  BY <1>0, OrderKept
<1>5. todo' = [todo EXCEPT ![t] = p]
  OBVIOUS
<1> HIDE DEF p, q
<1>6. ~Has(s, {"park"}) /\ ~Has(s, {"clearEvent", "wait", "cycle"})
      /\ ~Has(s, {"forward", "clearEvent", "wait", "cycle"})
  BY <1>0 DEF Added, Has, Finishing
<1>7. (\A i \in 1..Len(q) : ~ConnectsPort(q[i])) => \A i \in 1..Len(p) : ~ConnectsPort(p[i])
  <2>1. SUFFICES ASSUME \A i \in 1..Len(q) : ~ConnectsPort(q[i]), NEW i \in 1..Len(p)
                 PROVE  ~ConnectsPort(p[i])
    OBVIOUS
  <2>2. CASE i \in 1..Len(s)
    BY <2>2, <1>0, <1>1 DEF Added
  <2>3. CASE i \notin 1..Len(s)
    <3>1. i + 1 - Len(s) \in 2..Len(q) /\ Len(s) + (i + 1 - Len(s)) - 1 = i
      BY <2>3, <1>1, <1>2
    <3>2. p[i] = q[i + 1 - Len(s)] /\ i + 1 - Len(s) \in 1..Len(q)
      BY <3>1, <1>1, <1>2
    <3>. QED BY <3>2, <2>1
  <2>. QED BY <2>2, <2>3
<1>8. HubSteps'
  <2>0. "pnp" \notin Requests /\ HubRequests \subseteq Requests /\ StatusRequests \subseteq Requests
    BY HubRequestsAssumption DEF Requests
  <2>1. t \in Requests => \A i \in 1..Len(q) : ~ConnectsPort(q[i])
    BY DEF HubSteps, q
  <2>2. t \in HubRequests => /\ ~Has(q, {"park"})
                             /\ Has(q, {"clearEvent", "wait", "cycle"}) => hubOp[t] \in ResetOps
    BY DEF HubSteps, q
  <2>3. t \in StatusRequests => ~Has(q, {"forward", "clearEvent", "wait", "cycle"})
    BY DEF HubSteps, q
  <2>4. t = "pnp" => /\ hubPower # "entry" => \A i \in 1..Len(q) : ~ConnectsPort(q[i])
                     /\ hubPower \notin {"Dx", "stopping"}
    BY <1>0 DEF HubSteps, q
  <2>5. t \in HubRequests => /\ ~Has(p, {"park"})
                             /\ Has(p, {"clearEvent", "wait", "cycle"}) => hubOp'[t] \in ResetOps
    BY <2>2, <1>3, <1>6
  <2>6. t \in StatusRequests => ~Has(p, {"forward", "clearEvent", "wait", "cycle"})
    BY <2>3, <1>3, <1>6
  <2>7. t \in Requests => hubPower' = hubPower /\ \A i \in 1..Len(p) : ~ConnectsPort(p[i])
    BY <2>1, <1>7
  <2>8. t = "pnp" => /\ hubPower' # "entry" => \A i \in 1..Len(p) : ~ConnectsPort(p[i])
                     /\ hubPower' \notin {"Dx", "stopping"}
    BY <2>4, <1>7
  <2>9. \A r \in HubRequests : r # t => hubOp'[r] = hubOp[r]
    OBVIOUS
  <2>. QED BY <2>5, <2>6, <2>7, <2>8, <2>9, <1>1, <1>4, <1>5, StepsGiven
<1>9. todo' \in [Threads -> Seq(HubStep)]
  BY <1>1, <1>5 DEF HubTypes
<1>. QED BY <1>8, <1>9

\* Short sequences.
LEMMA ShortSteps ==
  ASSUME NEW a \in HubStep, NEW b \in HubStep, NEW c \in HubStep, NEW d \in HubStep
  PROVE  /\ <<>> \in Seq(HubStep) /\ Len(<<>>) = 0
         /\ <<a>> \in Seq(HubStep) /\ Len(<<a>>) = 1 /\ <<a>>[1] = a
         /\ <<a, b>> \in Seq(HubStep) /\ Len(<<a, b>>) = 2 /\ <<a, b>>[1] = a /\ <<a, b>>[2] = b
         /\ <<a, b, c>> \in Seq(HubStep) /\ Len(<<a, b, c>>) = 3
         /\ <<a, b, c>>[1] = a /\ <<a, b, c>>[2] = b /\ <<a, b, c>>[3] = c
         /\ <<a, b, c, d>> \in Seq(HubStep) /\ Len(<<a, b, c, d>>) = 4
         /\ <<a, b, c, d>>[1] = a /\ <<a, b, c, d>>[2] = b
         /\ <<a, b, c, d>>[3] = c /\ <<a, b, c, d>>[4] = d
  OBVIOUS

\* Short sequences put together.
LEMMA Joined ==
  ASSUME NEW a \in HubStep, NEW b \in HubStep, NEW c \in HubStep
  PROVE  /\ <<a>> \o <<b>> = <<a, b>> /\ <<a, b>> \o <<c>> = <<a, b, c>>
         /\ <<>> \o <<a>> = <<a>> /\ <<a, b>> \o <<>> = <<a, b>>
<1>1. <<a>> \o <<b>> = <<a, b>>
  <2> DEFINE p == <<a>> \o <<b>>
             q == <<a, b>>
  <2>1. p \in Seq(HubStep) /\ Len(p) = 2 /\ p[1] = a /\ p[2] = b
    OBVIOUS
  <2>2. q \in Seq(HubStep) /\ Len(q) = 2 /\ q[1] = a /\ q[2] = b /\ 1..2 = {1, 2}
    OBVIOUS
  <2> HIDE DEF p, q
  <2>3. \A i \in 1..Len(p) : p[i] = q[i]
    BY <2>1, <2>2
  <2>4. p = q
    BY <2>1, <2>2, <2>3
  <2>. QED BY <2>4 DEF p, q
<1>2. <<a, b>> \o <<c>> = <<a, b, c>>
  <2> DEFINE p == <<a, b>> \o <<c>>
             q == <<a, b, c>>
  <2>1. p \in Seq(HubStep) /\ Len(p) = 3 /\ p[1] = a /\ p[2] = b /\ p[3] = c
    OBVIOUS
  <2>2. q \in Seq(HubStep) /\ Len(q) = 3 /\ q[1] = a /\ q[2] = b /\ q[3] = c /\ 1..3 = {1, 2, 3}
    OBVIOUS
  <2> HIDE DEF p, q
  <2>3. \A i \in 1..Len(p) : p[i] = q[i]
    BY <2>1, <2>2
  <2>4. p = q
    BY <2>1, <2>2, <2>3
  <2>. QED BY <2>4 DEF p, q
<1>3. <<a>> \in Seq(HubStep) /\ <<a, b>> \in Seq(HubStep)
  OBVIOUS
<1>4. <<>> \o <<a>> = <<a>> /\ <<a, b>> \o <<>> = <<a, b>>
  BY <1>3, ConcatEmptySeq
<1>. QED BY <1>1, <1>2, <1>4

\* The steps of the model.
LEMMA StepKinds ==
  /\ \A x \in Finishing \cup Others : Do(x) \in HubStep /\ Do(x).do = x
  /\ Check \in HubStep /\ Check.do = "check" /\ Complete \in HubStep /\ Complete.do = "complete"
  /\ \A w \in {"status", "change"}, S \in SUBSET Features :
       /\ Set(w, S) \in HubStep /\ Set(w, S).do = "update" /\ Set(w, S).word = w
       /\ Set(w, S).add = S /\ Set(w, S).del = {} /\ ~Set(w, S).silent
       /\ Clear(w, S) \in HubStep /\ Clear(w, S).do = "update" /\ Clear(w, S).word = w
       /\ Clear(w, S).add = {} /\ Clear(w, S).del = S /\ ~Clear(w, S).silent
  BY DEF HubStep, Do, Set, Clear, Check, Complete, Finishing, Others

\* What the dispatch routines give a handler to do.
Handler(q, op) ==
  /\ q \in Seq(HubStep) /\ Orderly(q)
  /\ \A i \in 1..Len(q) : ~ConnectsPort(q[i]) /\ q[i].do \notin {"park", "sample"}
  /\ Has(q, {"clearEvent", "wait", "cycle"}) => op \in ResetOps
  /\ Has(q, {"wait"}) => Has(q, {"clearEvent"}) /\ ~Has(q, {"cycle"})

\* SET_FEATURE: an update of the status, and one of the change that is told of.
LEMMA SetFeatureHandler ==
  ASSUME NEW op \in {"SET_PORT_RESET", "SET_PORT_POWER"}
  PROVE  Handler(SetFeatureSteps(op), op)
<1> DEFINE a == Set("status", {"ENABLE", "RESET"})
           b == Set("change", {"RESET"})
           c == Do("resetDevice")
           q == <<a, b, c, Complete, Check>>
           e == Set("status", {"POWER"})
           z == <<e, Complete>>
<1>1. /\ a \in HubStep /\ b \in HubStep /\ c \in HubStep /\ e \in HubStep
      /\ Complete \in HubStep /\ Check \in HubStep
      /\ a.do = "update" /\ a.word = "status" /\ "CONNECT" \notin a.add
      /\ e.do = "update" /\ e.word = "status" /\ "CONNECT" \notin e.add
      /\ b.do = "update" /\ b.word = "change"
      /\ c.do = "resetDevice" /\ Complete.do = "complete" /\ Check.do = "check"
  BY StepKinds DEF Features, Others
<1>2. /\ q \in Seq(HubStep) /\ Len(q) = 5 /\ q[1] = a /\ q[2] = b /\ q[3] = c
      /\ q[4] = Complete /\ q[5] = Check
      /\ z \in Seq(HubStep) /\ Len(z) = 2 /\ z[1] = e /\ z[2] = Complete
  BY <1>1, ShortSteps
<1>3. SetFeatureSteps(op) = q \/ SetFeatureSteps(op) = z
  BY DEF SetFeatureSteps
<1> HIDE DEF a, b, c, q, e, z
<1>4. 1..5 = {1, 2, 3, 4, 5} /\ 1..2 = {1, 2}
  OBVIOUS
<1>5. Orderly(q)
  BY <1>1, <1>2, <1>4
  DEF Orderly, OnlyOne, ClearsFirst, FinishFollows, CheckFollows, Tells, Finishing, Early
<1>6. Orderly(z)
  BY <1>1, <1>2, <1>4
  DEF Orderly, OnlyOne, ClearsFirst, FinishFollows, CheckFollows, Tells, Finishing, Early
<1>7. Handler(q, op)
  BY <1>1, <1>2, <1>4, <1>5 DEF Handler, Has, ConnectsPort
<1>8. Handler(z, op)
  BY <1>1, <1>2, <1>4, <1>6 DEF Handler, Has, ConnectsPort
<1>. QED BY <1>3, <1>7, <1>8

\* A handler of one step, of two, and of an update that is told of.
LEMMA OneStep ==
  ASSUME NEW op, NEW a \in HubStep, a.do \in {"complete", "forward"}
  PROVE  Handler(<<a>>, op)
<1> DEFINE q == <<a>>
<1>1. q \in Seq(HubStep) /\ Len(q) = 1 /\ q[1] = a
  BY ShortSteps
<1> HIDE DEF q
<1>2. 1..1 = {1}
  OBVIOUS
<1>3. Orderly(q)
  BY <1>1, <1>2
  DEF Orderly, OnlyOne, ClearsFirst, FinishFollows, CheckFollows, Tells, Finishing, Early
<1>4. Handler(q, op)
  BY <1>1, <1>2, <1>3 DEF Handler, Has, ConnectsPort
<1>. QED BY <1>4 DEF q

\* A handler that does one thing and completes its request.
LEMMA TwoSteps ==
  ASSUME NEW op, NEW a \in HubStep, a.do \in {"update", "probe", "cycle"}, ~Tells(a),
         ~ConnectsPort(a), a.do = "cycle" => op \in ResetOps
  PROVE  Handler(<<a, Complete>>, op)
<1> DEFINE q == <<a, Complete>>
<1>1. q \in Seq(HubStep) /\ Len(q) = 2 /\ q[1] = a /\ q[2] = Complete
  BY ShortSteps, StepKinds
<1> HIDE DEF q
<1>2. 1..2 = {1, 2} /\ Complete.do = "complete"
  BY StepKinds
<1>3. Orderly(q)
  BY <1>1, <1>2
  DEF Orderly, OnlyOne, ClearsFirst, FinishFollows, CheckFollows, Tells, Finishing, Early
<1>4. Handler(q, op)
  BY <1>1, <1>2, <1>3 DEF Handler, Has, ConnectsPort
<1>. QED BY <1>4 DEF q

\* CLEAR_FEATURE.
LEMMA ClearFeatureHandler ==
  ASSUME NEW op \in {"CLEAR_PORT_ENABLE", "CLEAR_C_CONNECTION", "CLEAR_C_ENABLE", "CLEAR_C_RESET"}
  PROVE  Handler(ClearFeatureSteps(op), op)
<1> DEFINE a == Clear("status", {"ENABLE"})
           b == Set("change", {"ENABLE"})
           q == <<a, b, Complete, Check>>
<1>1. /\ a \in HubStep /\ b \in HubStep /\ Complete \in HubStep /\ Check \in HubStep
      /\ a.do = "update" /\ a.word = "status" /\ a.add = {}
      /\ b.do = "update" /\ b.word = "change"
      /\ Complete.do = "complete" /\ Check.do = "check"
  BY StepKinds DEF Features
<1>2. q \in Seq(HubStep) /\ Len(q) = 4 /\ q[1] = a /\ q[2] = b /\ q[3] = Complete /\ q[4] = Check
  BY <1>1, ShortSteps
<1> HIDE DEF a, b, q
<1>3. 1..4 = {1, 2, 3, 4}
  OBVIOUS
<1>4. Orderly(q)
  BY <1>1, <1>2, <1>3
  DEF Orderly, OnlyOne, ClearsFirst, FinishFollows, CheckFollows, Tells, Finishing, Early
<1>5. Handler(q, op)
  BY <1>1, <1>2, <1>3, <1>4 DEF Handler, Has, ConnectsPort
<1>6. CASE op = "CLEAR_PORT_ENABLE"
  BY <1>5, <1>6 DEF ClearFeatureSteps, q, a, b
<1>7. CASE op # "CLEAR_PORT_ENABLE"
  <2>1. PICK S \in SUBSET Features : ClearFeatureSteps(op) = <<Clear("change", S), Complete>>
    BY <1>7 DEF ClearFeatureSteps, Features
  <2> DEFINE e == Clear("change", S)
  <2>2. e \in HubStep /\ e.do = "update" /\ e.word = "change" /\ e.add = {}
    BY StepKinds
  <2> HIDE DEF e
  <2>3. ~Tells(e) /\ ~ConnectsPort(e)
    BY <2>2 DEF Tells, ConnectsPort
  <2>4. Handler(<<e, Complete>>, op)
    BY <2>2, <2>3, TwoSteps
  <2>. QED BY <2>1, <2>4 DEF e
<1>. QED BY <1>6, <1>7

\* The port reset IOCTL: the event is cleared, the request forwarded, the answer
\* waited for.
LEMMA ResetPortHandler ==
  ASSUME NEW unplugged \in BOOLEAN, NEW passive \in BOOLEAN
  PROVE  Handler(ResetPortSteps(unplugged, passive), "RESET_PORT")
<1> DEFINE a == Do("clearEvent")
           b == Do("forward")
           c == Do("wait")
           q == <<a, b>>
           z == <<a, b, c>>
<1>1. /\ a \in HubStep /\ b \in HubStep /\ c \in HubStep
      /\ a.do = "clearEvent" /\ b.do = "forward" /\ c.do = "wait"
  BY StepKinds DEF Finishing, Others
<1>2. /\ q \in Seq(HubStep) /\ Len(q) = 2 /\ q[1] = a /\ q[2] = b
      /\ z \in Seq(HubStep) /\ Len(z) = 3 /\ z[1] = a /\ z[2] = b /\ z[3] = c
  BY <1>1, ShortSteps
<1>3. ResetPortSteps(unplugged, passive) \in {<<b>>, q \o <<>>, q \o <<c>>}
  BY DEF ResetPortSteps
<1>4. q \o <<>> = q /\ q \o <<c>> = z
  <2> HIDE DEF a, b, c
  <2>. QED BY <1>1, Joined
<1> HIDE DEF a, b, c, q, z
<1>5. 1..2 = {1, 2} /\ 1..3 = {1, 2, 3}
  OBVIOUS
<1>6. Orderly(q)
  BY <1>1, <1>2, <1>5
  DEF Orderly, OnlyOne, ClearsFirst, FinishFollows, CheckFollows, Tells, Finishing, Early
<1>7. Orderly(z)
  BY <1>1, <1>2, <1>5
  DEF Orderly, OnlyOne, ClearsFirst, FinishFollows, CheckFollows, Tells, Finishing, Early
<1>8. Handler(q, "RESET_PORT")
  BY <1>1, <1>2, <1>5, <1>6 DEF Handler, Has, ConnectsPort, ResetOps
<1>9. Handler(z, "RESET_PORT")
  BY <1>1, <1>2, <1>5, <1>7 DEF Handler, Has, ConnectsPort, ResetOps
<1>10. Handler(<<b>>, "RESET_PORT")
  BY <1>1, OneStep
<1>. QED BY <1>3, <1>4, <1>8, <1>9, <1>10

\* Every operation of the hub driver.
LEMMA HandlerStepsOrderly ==
  ASSUME NEW op \in AllHubOps, NEW unplugged \in BOOLEAN, NEW passive \in BOOLEAN
  PROVE  Handler(HandlerSteps(op, unplugged, passive), op)
<1>1. CASE op \in {"SET_PORT_RESET", "SET_PORT_POWER"}
  <2>1. HandlerSteps(op, unplugged, passive) = SetFeatureSteps(op)
    BY <1>1 DEF HandlerSteps
  <2>. QED BY <2>1, <1>1, SetFeatureHandler
<1>2. CASE op \in {"CLEAR_PORT_ENABLE", "CLEAR_C_CONNECTION", "CLEAR_C_ENABLE", "CLEAR_C_RESET"}
  <2>1. HandlerSteps(op, unplugged, passive) = ClearFeatureSteps(op)
    BY <1>2 DEF HandlerSteps
  <2>. QED BY <2>1, <1>2, ClearFeatureHandler
<1>3. CASE op = "GET_PORT_STATUS"
  <2>1. HandlerSteps(op, unplugged, passive) = <<Do("probe"), Complete>>
    BY <1>3 DEF HandlerSteps, GetStatusSteps
  <2>2. Do("probe") \in HubStep /\ Do("probe").do = "probe"
    BY StepKinds DEF Others
  <2>3. ~Tells(Do("probe")) /\ ~ConnectsPort(Do("probe"))
    BY <2>2 DEF Tells, ConnectsPort
  <2>. QED BY <2>1, <2>2, <2>3, TwoSteps
<1>4. CASE op = "IOCTL_PORT_STATUS"
  <2> DEFINE e == Clear("status", {"CONNECT"})
  <2>1. /\ HandlerSteps(op, unplugged, passive) = GetPortStatusSteps(unplugged)
        /\ GetPortStatusSteps(unplugged) \in {<<e>> \o <<Complete>>, <<>> \o <<Complete>>}
    BY <1>4 DEF HandlerSteps, GetPortStatusSteps
  <2>2. e \in HubStep /\ e.do = "update" /\ e.word = "status" /\ e.add = {}
    BY StepKinds DEF Features
  <2> HIDE DEF e
  <2>3. ~Tells(e) /\ ~ConnectsPort(e)
    BY <2>2 DEF Tells, ConnectsPort
  <2>4. <<e>> \o <<Complete>> = <<e, Complete>> /\ <<>> \o <<Complete>> = <<Complete>>
    <3>1. Complete \in HubStep
      BY StepKinds
    <3>. QED BY <3>1, <2>2, Joined
  <2>5. Handler(<<e, Complete>>, op)
    BY <2>2, <2>3, TwoSteps
  <2>6. Handler(<<Complete>>, op)
    BY StepKinds, OneStep
  <2>. QED BY <2>1, <2>4, <2>5, <2>6
<1>5. CASE op = "RESET_PORT"
  <2>1. HandlerSteps(op, unplugged, passive) = ResetPortSteps(unplugged, passive)
    BY <1>5 DEF HandlerSteps
  <2>. QED BY <2>1, <1>5, ResetPortHandler
<1>6. CASE op = "CYCLE_PORT"
  <2>1. HandlerSteps(op, unplugged, passive) = <<Do("cycle"), Complete>>
    BY <1>6 DEF HandlerSteps
  <2>2. Do("cycle") \in HubStep /\ Do("cycle").do = "cycle"
    BY StepKinds DEF Others
  <2>3. ~Tells(Do("cycle")) /\ ~ConnectsPort(Do("cycle"))
    BY <2>2 DEF Tells, ConnectsPort
  <2>. QED BY <2>1, <2>2, <2>3, <1>6, TwoSteps DEF ResetOps
<1>7. CASE op = "TO_DEVICE"
  <2>1. HandlerSteps(op, unplugged, passive) = <<Do("forward")>>
    BY <1>7 DEF HandlerSteps, ToDeviceSteps
  <2>2. Do("forward") \in HubStep /\ Do("forward").do = "forward"
    BY StepKinds DEF Finishing
  <2>. QED BY <2>1, <2>2, OneStep
<1>8. CASE op = "LOCAL"
  <2>1. HandlerSteps(op, unplugged, passive) = <<Complete>>
    BY <1>8 DEF HandlerSteps
  <2>. QED BY <2>1, StepKinds, OneStep
<1>. QED BY <1>1, <1>2, <1>3, <1>4, <1>5, <1>6, <1>7, <1>8 DEF AllHubOps

\* An interrupt transfer.
LEMMA InterruptOrderly ==
  ASSUME NEW steps \in {<<Complete>>, InterruptRequestSteps}
  PROVE  /\ steps \in Seq(HubStep) /\ Orderly(steps)
         /\ \A i \in 1..Len(steps) : steps[i].do \in {"complete", "park", "check"}
<1>1. CASE steps = <<Complete>>
  <2>1. Handler(steps, "LOCAL") /\ Len(steps) = 1 /\ steps[1] = Complete /\ Complete.do = "complete"
    BY <1>1, StepKinds, OneStep, ShortSteps
  <2>. QED BY <2>1 DEF Handler
<1>2. CASE steps = InterruptRequestSteps
  <2> DEFINE a == Do("park")
             q == <<a, Check>>
  <2>1. /\ a \in HubStep /\ a.do = "park" /\ Check \in HubStep /\ Check.do = "check"
    BY StepKinds DEF Finishing
  <2>2. q \in Seq(HubStep) /\ Len(q) = 2 /\ q[1] = a /\ q[2] = Check
    BY <2>1, ShortSteps
  <2>3. steps = q
    BY <1>2 DEF InterruptRequestSteps
  <2> HIDE DEF a, q
  <2>4. 1..2 = {1, 2}
    OBVIOUS
  <2>5. Orderly(q)
    BY <2>1, <2>2, <2>4
    DEF Orderly, OnlyOne, ClearsFirst, FinishFollows, CheckFollows, Tells, Finishing, Early
  <2>. QED BY <2>1, <2>2, <2>3, <2>4, <2>5
<1>. QED BY <1>1, <1>2

\* The PnP thread.
LEMMA PnpOrderly ==
  ASSUME NEW steps \in {ConnectSteps, DisconnectSteps}
  PROVE  /\ steps \in Seq(HubStep) /\ Orderly(steps)
         /\ \A i \in 1..Len(steps) : steps[i].do \in {"update", "check"}
         /\ steps = DisconnectSteps => \A i \in 1..Len(steps) : ~ConnectsPort(steps[i])
<1>0. Check \in HubStep /\ Check.do = "check" /\ 1..3 = {1, 2, 3} /\ {"CONNECT"} \in SUBSET Features
  BY StepKinds DEF Features
<1>1. ASSUME NEW a \in HubStep, a.do = "update", a.word = "status",
             NEW b \in HubStep, b.do = "update", b.word = "change",
             NEW q, q = <<a, b, Check>>
      PROVE  /\ q \in Seq(HubStep) /\ Orderly(q)
             /\ \A i \in 1..Len(q) : q[i].do \in {"update", "check"}
             /\ "CONNECT" \notin a.add => \A i \in 1..Len(q) : ~ConnectsPort(q[i])
  <2>1. q \in Seq(HubStep) /\ Len(q) = 3 /\ q[1] = a /\ q[2] = b /\ q[3] = Check
    BY <1>0, <1>1, ShortSteps
  <2>2. Orderly(q)
    BY <2>1, <1>0, <1>1
    DEF Orderly, OnlyOne, ClearsFirst, FinishFollows, CheckFollows, Tells, Finishing, Early
  <2>. QED BY <2>1, <2>2, <1>0, <1>1 DEF ConnectsPort
<1>2. CASE steps = DisconnectSteps
  <2> DEFINE a == Clear("status", {"CONNECT"})
             b == Set("change", {"CONNECT"})
  <2>1. /\ a \in HubStep /\ a.do = "update" /\ a.word = "status" /\ a.add = {}
        /\ b \in HubStep /\ b.do = "update" /\ b.word = "change"
    BY <1>0, StepKinds
  <2>2. steps = <<a, b, Check>>
    BY <1>2 DEF DisconnectSteps
  <2> HIDE DEF a, b
  <2>. QED BY <2>1, <2>2, <1>1
<1>3. CASE steps = ConnectSteps /\ steps # DisconnectSteps
  <2> DEFINE a == Set("status", {"CONNECT"})
             b == Set("change", {"CONNECT"})
  <2>1. /\ a \in HubStep /\ a.do = "update" /\ a.word = "status"
        /\ b \in HubStep /\ b.do = "update" /\ b.word = "change"
    BY <1>0, StepKinds
  <2>2. steps = <<a, b, Check>> \/ steps = <<>>
    BY <1>3 DEF ConnectSteps
  <2> HIDE DEF a, b
  <2>3. ASSUME steps = <<>>
        PROVE  /\ steps \in Seq(HubStep) /\ Orderly(steps)
               /\ \A i \in 1..Len(steps) : steps[i].do \in {"update", "check"}
    <3>1. steps \in Seq(HubStep) /\ Len(steps) = 0
      BY <2>3
    <3>. QED BY <3>1 DEF Orderly, OnlyOne, ClearsFirst, FinishFollows, CheckFollows
  <2>. QED BY <2>1, <2>2, <2>3, <1>1, <1>3
<1>. QED BY <1>2, <1>3

--------------------------------------------------------------------------------
(* A step of a thread, and what its sequence holds after it.                *)
Advanced(t, s) ==
  /\ todo[t] # <<>> /\ Added(s, todo[t])
  /\ todo' = [todo EXCEPT ![t] = s \o Tail(todo[t])]

\* A step that adds nothing.
LEMMA AdvanceIs ==
  ASSUME HubTypes, NEW t \in Threads, todo[t] # <<>>, Advance(t)
  PROVE  Advanced(t, <<>>)
<1>1. todo[t] \in Seq(HubStep)
  BY DEF HubTypes
<1>2. Tail(todo[t]) = <<>> \o Tail(todo[t]) /\ <<>> \in Seq(HubStep) /\ Len(<<>>) = 0
  BY <1>1, Rest
<1>3. Added(<<>>, todo[t])
  BY <1>2 DEF Added, Has
<1>. QED BY <1>2, <1>3 DEF Advanced, Advance

\* A step that adds steps.
LEMMA ContinueIs ==
  ASSUME HubTypes, NEW t \in Threads, todo[t] # <<>>, NEW s, Added(s, todo[t]), Continue(t, s)
  PROVE  Advanced(t, s)
BY DEF Advanced, Continue

\* The steps that are added one at a time.
LEMMA OneAdded ==
  ASSUME NEW q, NEW a \in HubStep,
         \/ a.do \in {"retrieve", "report"}
         \/ a.do = "sample" /\ q[1].do \in Early
         \/ a.do = "update" /\ a.word = "status" /\ "CONNECT" \notin a.add
  PROVE  Added(<<a>>, q)
<1> DEFINE s == <<a>>
<1>1. s \in Seq(HubStep) /\ Len(s) = 1 /\ s[1] = a
  OBVIOUS
<1> HIDE DEF s
<1>2. 1..1 = {1}
  OBVIOUS
<1>3. Added(s, q)
  BY <1>1, <1>2 DEF Added, Has, Finishing, Tells, ConnectsPort
<1>. QED BY <1>3 DEF s

\* HubGetStatus: the answer comes last, behind the clearing of CONNECT if the port
\* is found gone.
LEMMA ProbeAdded ==
  ASSUME HubTypes, NEW q, q[1].do = "probe"
  PROVE  LET s == ProbeSteps \o <<[do |-> "sample", gone |-> ~portConnected]>>
         IN  /\ Added(s, q)
             /\ \A i \in 1..Len(s) : s[i].do = "sample" =>
                  (s[i].gone /\ "CONNECT" \in word.status =>
                    \E j \in 1..(i - 1) : DisconnectsPort(s[j]))
             /\ ~Has(s, {"check", "retrieve"})
<1> DEFINE a == Clear("status", {"CONNECT"})
           b == [Set("change", {"CONNECT"}) EXCEPT !.silent = TRUE]
           c == [do |-> "sample", gone |-> ~portConnected]
<1>1. /\ a \in HubStep /\ a.do = "update" /\ a.word = "status" /\ a.add = {} /\ a.del = {"CONNECT"}
      /\ b \in HubStep /\ b.do = "update" /\ b.word = "change" /\ b.silent
      /\ c \in HubStep /\ c.do = "sample" /\ c.gone = ~portConnected
  <2>1. portConnected \in BOOLEAN
    BY DEF HubTypes
  <2>2. a \in HubStep /\ a.do = "update" /\ a.word = "status" /\ a.add = {} /\ a.del = {"CONNECT"}
    BY StepKinds DEF Features
  <2>3. Set("change", {"CONNECT"}) \in
          [do : {"update"}, word : {"status", "change"},
           add : SUBSET Features, del : SUBSET Features, silent : BOOLEAN]
    BY DEF Set, Features
  <2>4. b \in HubStep /\ b.do = "update" /\ b.word = "change" /\ b.silent
    <3>1. b \in [do : {"update"}, word : {"status", "change"},
                 add : SUBSET Features, del : SUBSET Features, silent : BOOLEAN]
      BY <2>3
    <3>2. b.do = "update" /\ b.word = "change" /\ b.silent
      BY DEF Set
    <3>. QED BY <3>1, <3>2 DEF HubStep
  <2>5. c \in HubStep /\ c.do = "sample" /\ c.gone = ~portConnected
    BY <2>1 DEF HubStep
  <2>. QED BY <2>2, <2>4, <2>5
<1>2. ProbeSteps = IF ~portConnected /\ "CONNECT" \in word.status THEN <<a, b>> ELSE <<>>
  BY DEF ProbeSteps
<1> HIDE DEF a, b
<1>3. CASE ~portConnected /\ "CONNECT" \in word.status
  <2> HIDE DEF c
  <2> DEFINE s == <<a, b, c>>
  <2>1. <<a, b>> \o <<c>> = s
    BY <1>1, Joined
  <2>2. s \in Seq(HubStep) /\ Len(s) = 3 /\ s[1] = a /\ s[2] = b /\ s[3] = c
    BY <1>1, ShortSteps
  <2>3. ProbeSteps \o <<c>> = s
    BY <1>2, <1>3, <2>1
  <2> HIDE DEF s
  <2>4. 1..3 = {1, 2, 3} /\ 1 \in 1..(3 - 1)
    OBVIOUS
  <2>5. Added(s, q)
    BY <1>1, <2>2, <2>4 DEF Added, Has, Finishing, Early, Tells, ConnectsPort
  <2>6. DisconnectsPort(s[1])
    BY <1>1, <2>2 DEF DisconnectsPort
  <2>7. \A i \in 1..Len(s) : s[i].do = "sample" => \E j \in 1..(i - 1) : DisconnectsPort(s[j])
    BY <1>1, <2>2, <2>4, <2>6
  <2>8. ~Has(s, {"check", "retrieve"})
    BY <1>1, <2>2, <2>4 DEF Has
  <2>. QED BY <2>3, <2>5, <2>7, <2>8 DEF c
<1>4. CASE ~(~portConnected /\ "CONNECT" \in word.status)
  <2>0. c.gone => "CONNECT" \notin word.status
    BY <1>1, <1>4
  <2> HIDE DEF c
  <2> DEFINE s == <<c>>
  <2>1. <<>> \o <<c>> = s
    BY <1>1, Joined
  <2>2. s \in Seq(HubStep) /\ Len(s) = 1 /\ s[1] = c /\ 1..1 = {1}
    BY <1>1
  <2>3. ProbeSteps \o <<c>> = s
    BY <1>2, <1>4, <2>1
  <2>4. Added(s, q)
    BY <1>1, OneAdded DEF Early
  <2> HIDE DEF s
  <2>7. \A i \in 1..Len(s) : s[i].do = "sample" => ~(s[i].gone /\ "CONNECT" \in word.status)
    BY <2>0, <2>2
  <2>8. ~Has(s, {"check", "retrieve"})
    BY <1>1, <2>2 DEF Has
  <2>. QED BY <2>3, <2>4, <2>7, <2>8 DEF c
<1>. QED BY <1>3, <1>4

\* What is still to come after a step was still to come before it, or was added;
\* what is given away or waited for once is not given away or waited for again.
LEMMA StillToCome ==
  ASSUME HubTypes, HubSteps, NEW t \in Threads, NEW s, Advanced(t, s)
  PROVE  /\ \A u \in Threads : u # t => todo'[u] = todo[u]
         /\ \A D : Has(todo'[t], D) => Has(s, D) \/ Has(todo[t], D)
         /\ \A D : Head(todo[t]).do \notin D /\ Has(todo[t], D) => Has(todo'[t], D)
         /\ Has(todo'[t], Finishing) => Has(todo[t], Finishing)
         /\ Head(todo[t]).do \in Finishing => ~Has(todo'[t], Finishing)
         /\ Head(todo[t]).do \in Finishing => Has(todo[t], Finishing)
         /\ Head(todo[t]).do = "wait" => ~Has(todo'[t], {"wait"})
         /\ Head(todo[t]).do \in Early => Has(todo[t], Finishing)
<1> DEFINE q == todo[t]
           p == s \o Tail(q)
<1>1. q \in Seq(HubStep) /\ q # <<>> /\ Orderly(q) /\ s \in Seq(HubStep)
      /\ todo' = [todo EXCEPT ![t] = p] /\ Added(s, q)
  BY DEF HubTypes, HubSteps, Advanced, Added
<1>2. Head(q) = q[1] /\ Len(q) \in Nat /\ Len(q) >= 1
  BY <1>1, Rest
<1>3. /\ \A D : Has(p, D) => Has(s, D) \/ Has(q, D)
      /\ \A D : q[1].do \notin D /\ Has(q, D) => Has(p, D)
      /\ \A D : OnlyOne(q, D) /\ q[1].do \in D /\ ~Has(s, D) => ~Has(p, D)
  BY <1>1, Onward
<1>4. todo'[t] = p /\ \A u \in Threads : u # t => todo'[u] = todo[u]
  BY <1>1 DEF HubTypes
<1>5. ~Has(s, Finishing) /\ ~Has(s, {"wait"})
  BY <1>1 DEF Added, Has
<1> HIDE DEF p, q
<1>6. OnlyOne(q, Finishing) /\ OnlyOne(q, {"wait"})
  BY <1>1 DEF Orderly
<1>7. q[1].do \in Finishing => Has(q, Finishing)
  BY <1>2 DEF Has
<1>8. q[1].do \in Early => Has(q, Finishing)
  <2>1. SUFFICES ASSUME q[1].do \in Early PROVE Has(q, Finishing)
    OBVIOUS
  <2>2. 1 \in 1..Len(q)
    BY <1>2
  <2>3. PICK j \in (1 + 1)..Len(q) : q[j].do \in Finishing
    BY <1>1, <2>1, <2>2 DEF Orderly, FinishFollows
  <2>4. j \in 1..Len(q)
    BY <1>2
  <2>. QED BY <2>3, <2>4 DEF Has
<1>9. q[1].do = "wait" => ~Has(p, {"wait"})
  BY <1>3, <1>5, <1>6
<1>. QED BY <1>2, <1>3, <1>4, <1>5, <1>6, <1>7, <1>8, <1>9 DEF q

\* How each action of a thread advances it.
LEMMA Moves ==
  ASSUME HubTypes, NEW t \in Threads
  PROVE  /\ \/ Store(t) \/ CompleteStep(t) \/ ReportChange(t)
            \/ ClearResetEvent(t) \/ ForwardToParent(t) \/ CyclePort(t) \/ ResetDevice(t)
            => Advanced(t, <<>>)
         /\ HubCheckStatusChange(t) =>
              Advanced(t, IF word.change = {} THEN <<>> ELSE <<Do("retrieve")>>)
         /\ RetrieveNextRequest(t) =>
              Advanced(t, IF ~QueuesStarted \/ parked = <<>> THEN <<>> ELSE <<Do("report")>>)
         /\ ProbePort(t) =>
              Advanced(t, ProbeSteps \o <<[do |-> "sample", gone |-> ~portConnected]>>)
         /\ SamplePort(t) =>
              Advanced(t, IF "RESET" \in word.status THEN <<Clear("status", {"RESET"})>> ELSE <<>>)
         /\ WaitReset(t) =>
              Advanced(t, IF resetCompleteEvent THEN <<Set("status", {"ENABLE"})>> ELSE <<>>)
         /\ ParkRequest(t) => Advanced(t, <<>>) \/ todo' = [todo EXCEPT ![t] = <<Complete>>]
<1> DEFINE q == todo[t]
<1>1. /\ Added(<<Do("retrieve")>>, q) /\ Added(<<Do("report")>>, q)
      /\ Added(<<Clear("status", {"RESET"})>>, q) /\ Added(<<Set("status", {"ENABLE"})>>, q)
  <2>1. /\ Do("retrieve") \in HubStep /\ Do("retrieve").do = "retrieve"
        /\ Do("report") \in HubStep /\ Do("report").do = "report"
    BY StepKinds DEF Others
  <2> DEFINE a == Clear("status", {"RESET"})
             b == Set("status", {"ENABLE"})
  <2>2. /\ a \in HubStep /\ a.do = "update" /\ a.word = "status" /\ "CONNECT" \notin a.add
        /\ b \in HubStep /\ b.do = "update" /\ b.word = "status" /\ "CONNECT" \notin b.add
    BY StepKinds DEF Features
  <2> HIDE DEF a, b
  <2>3. Added(<<a>>, q) /\ Added(<<b>>, q)
    BY <2>2, OneAdded
  <2>4. Added(<<Do("retrieve")>>, q) /\ Added(<<Do("report")>>, q)
    BY <2>1, OneAdded
  <2>. QED BY <2>3, <2>4 DEF a, b
<1>2. q \in Seq(HubStep) /\ (q # <<>> => Head(q) = q[1])
  <2>1. q \in Seq(HubStep)
    BY DEF HubTypes
  <2>. QED BY <2>1, Rest
<1>3. \/ Store(t) \/ CompleteStep(t) \/ ReportChange(t)
      \/ ClearResetEvent(t) \/ ForwardToParent(t) \/ CyclePort(t) \/ ResetDevice(t)
      => Advanced(t, <<>>)
  <2>1. \/ Store(t) \/ CompleteStep(t) \/ ReportChange(t)
        \/ ClearResetEvent(t) \/ ForwardToParent(t) \/ CyclePort(t) \/ ResetDevice(t)
        => todo[t] # <<>> /\ Advance(t)
    BY Zenon DEF Store, CompleteStep, ReportChange, ClearResetEvent, ForwardToParent,
      CyclePort, ResetDevice, At
  <2>. QED BY <2>1, AdvanceIs
<1>4. Added(<<>>, q)
  <2>1. <<>> \in Seq(HubStep) /\ Len(<<>>) = 0
    OBVIOUS
  <2>. QED BY <2>1 DEF Added, Has
<1>5. HubCheckStatusChange(t) =>
        Advanced(t, IF word.change = {} THEN <<>> ELSE <<Do("retrieve")>>)
  <2>1. SUFFICES ASSUME HubCheckStatusChange(t)
                 PROVE  Advanced(t, IF word.change = {} THEN <<>> ELSE <<Do("retrieve")>>)
    OBVIOUS
  <2>2. q # <<>> /\ Continue(t, IF word.change = {} THEN <<>> ELSE <<Do("retrieve")>>)
    BY <2>1, Zenon DEF HubCheckStatusChange, At
  <2>. QED BY <2>2, <1>1, <1>4, ContinueIs, Zenon
<1>6. RetrieveNextRequest(t) =>
        Advanced(t, IF ~QueuesStarted \/ parked = <<>> THEN <<>> ELSE <<Do("report")>>)
  <2>1. SUFFICES ASSUME RetrieveNextRequest(t)
        PROVE  Advanced(t, IF ~QueuesStarted \/ parked = <<>> THEN <<>> ELSE <<Do("report")>>)
    OBVIOUS
  <2>2. q # <<>> /\ (\/ (~QueuesStarted \/ parked = <<>>) /\ Advance(t)
                     \/ QueuesStarted /\ parked # <<>> /\ Continue(t, <<Do("report")>>))
    BY <2>1, Zenon DEF RetrieveNextRequest, At
  <2>3. CASE (~QueuesStarted \/ parked = <<>>) /\ Advance(t)
    BY <2>2, <2>3, AdvanceIs, Zenon
  <2>4. CASE QueuesStarted /\ parked # <<>> /\ Continue(t, <<Do("report")>>)
    BY <2>2, <2>4, <1>1, ContinueIs, Zenon
  <2>. QED BY <2>2, <2>3, <2>4
<1>7. ProbePort(t) => Advanced(t, ProbeSteps \o <<[do |-> "sample", gone |-> ~portConnected]>>)
  <2> DEFINE z == ProbeSteps \o <<[do |-> "sample", gone |-> ~portConnected]>>
  <2>1. SUFFICES ASSUME ProbePort(t) PROVE Advanced(t, z)
    OBVIOUS
  <2>2. q # <<>> /\ Head(q).do = "probe" /\ Continue(t, z)
    BY <2>1, Zenon DEF ProbePort, At
  <2>3. Added(z, q)
    BY <2>2, <1>2, ProbeAdded
  <2> HIDE DEF z
  <2>. QED BY <2>2, <2>3, ContinueIs, Zenon
<1>8. SamplePort(t) =>
        Advanced(t, IF "RESET" \in word.status THEN <<Clear("status", {"RESET"})>> ELSE <<>>)
  <2> DEFINE z == IF "RESET" \in word.status THEN <<Clear("status", {"RESET"})>> ELSE <<>>
  <2>1. SUFFICES ASSUME SamplePort(t) PROVE Advanced(t, z)
    OBVIOUS
  <2>2. q # <<>> /\ Continue(t, z)
    BY <2>1, Zenon DEF SamplePort, At
  <2>3. Added(z, q)
    BY <1>1, <1>4, Zenon
  <2> HIDE DEF z
  <2>. QED BY <2>2, <2>3, ContinueIs, Zenon
<1>9. WaitReset(t) =>
        Advanced(t, IF resetCompleteEvent THEN <<Set("status", {"ENABLE"})>> ELSE <<>>)
  <2>1. SUFFICES ASSUME WaitReset(t)
        PROVE  Advanced(t, IF resetCompleteEvent THEN <<Set("status", {"ENABLE"})>> ELSE <<>>)
    OBVIOUS
  <2>2. CASE resetCompleteEvent
    <3>1. q # <<>> /\ Continue(t, <<Set("status", {"ENABLE"})>>)
      BY <2>1, <2>2, Zenon DEF WaitReset, At
    <3>. QED BY <3>1, <2>2, <1>1, ContinueIs, Zenon
  <2>3. CASE ~resetCompleteEvent
    <3>1. q # <<>> /\ Advance(t)
      BY <2>1, <2>3, Zenon DEF WaitReset, At
    <3>. QED BY <3>1, <2>3, AdvanceIs, Zenon
  <2>. QED BY <2>2, <2>3
<1>10. ParkRequest(t) => Advanced(t, <<>>) \/ todo' = [todo EXCEPT ![t] = <<Complete>>]
  <2>1. ParkRequest(t) => q # <<>> /\ (Advance(t) \/ todo' = [todo EXCEPT ![t] = <<Complete>>])
    BY Zenon DEF ParkRequest, At
  <2>. QED BY <2>1, AdvanceIs, Zenon
<1>. QED BY <1>3, <1>5, <1>6, <1>7, <1>8, <1>9, <1>10

\* Some steps are added, or the thread takes no step, or completes what it could
\* not park.
LEMMA StepsMove ==
  ASSUME HubTypes, NEW t \in Threads, ThreadStep(t) \/ RequestStep(t)
  PROVE  \/ Load(t) /\ todo' = todo
         \/ \E s : Advanced(t, s)
         \/ ParkRequest(t) /\ todo' = [todo EXCEPT ![t] = <<Complete>>]
<1>1. Load(t) => todo' = todo
  BY Zenon DEF Load
<1>. QED BY <1>1, Moves, Zenon DEF ThreadStep, RequestStep

--------------------------------------------------------------------------------
(* The types, and what the sequences look like.                             *)
LEMMA Members ==
  /\ HubRequests \subseteq Threads /\ StatusRequests \subseteq Threads
  /\ Requests \subseteq Threads /\ "pnp" \in Threads /\ "pnp" \notin Requests
  /\ Threads = Requests \cup {"pnp"} /\ Requests = HubRequests \cup StatusRequests
  /\ HubRequests \cap StatusRequests = {}
BY HubRequestsAssumption DEF Threads, Requests

\* Only interrupt transfers are parked, and only requests of the hub driver
\* forwarded.
LEMMA WhoParks ==
  ASSUME HubTypes, HubSteps, NEW r \in Requests, todo[r] # <<>>
  PROVE  /\ Head(todo[r]).do = "park" => r \in StatusRequests
         /\ Head(todo[r]).do = "forward" => r \in HubRequests
         /\ Head(todo[r]).do \in {"clearEvent", "wait", "cycle"} =>
              r \in HubRequests /\ hubOp[r] \in ResetOps
<1>1. todo[r] \in Seq(HubStep)
  BY Members DEF HubTypes
<1>2. Head(todo[r]) = todo[r][1] /\ 1 \in 1..Len(todo[r])
  BY <1>1, Rest
<1>3. \A D : Head(todo[r]).do \in D => Has(todo[r], D)
  BY <1>2 DEF Has
<1>4. r \in HubRequests \/ r \in StatusRequests
  BY Members
<1>. QED BY <1>3, <1>4 DEF HubSteps

\* Every step of a thread keeps the types and what its sequence looks like.
LEMMA ThreadStepTypes ==
  ASSUME HubTypes, HubSteps, NEW t \in Threads, ThreadStep(t) \/ (t \in Requests /\ RequestStep(t))
  PROVE  HubTypes' /\ HubSteps'
<1>1. HubSteps' /\ todo' \in [Threads -> Seq(HubStep)]
  <2>0. hubPower' = hubPower /\ hubOp' = hubOp
    BY Zenon DEF ThreadStep, RequestStep, Load, Store, HubCheckStatusChange, RetrieveNextRequest,
      ReportChange, CompleteStep, ProbePort, SamplePort, ParkRequest, ClearResetEvent,
      ForwardToParent, WaitReset, CyclePort, ResetDevice, portVars, reqHubVars
  <2>1. CASE Load(t) /\ todo' = todo
    BY <2>0, <2>1 DEF HubSteps, HubTypes
  <2>2. CASE \E s : Advanced(t, s)
    BY <2>0, <2>2, StepTaken DEF Advanced
  <2>3. CASE ParkRequest(t) /\ todo' = [todo EXCEPT ![t] = <<Complete>>]
    <3>1. todo[t] # <<>> /\ Head(todo[t]).do = "park" /\ (t \in Requests)
      <4>1. At(t, "park")
        BY <2>3, Zenon DEF ParkRequest
      <4>2. todo[t] # <<>> /\ Head(todo[t]).do = "park"
        BY <4>1, Zenon DEF At
      <4>3. ~ThreadStep(t)
        BY <4>2, Zenon
        DEF ThreadStep, Load, Store, HubCheckStatusChange, RetrieveNextRequest, ReportChange, At
      <4>. QED BY <4>2, <4>3
    <3>2. t \in StatusRequests /\ t # "pnp" /\ t \notin HubRequests
      BY <3>1, WhoParks, Members
    <3> DEFINE q == <<Complete>>
    <3>3. q \in Seq(HubStep) /\ Len(q) = 1 /\ q[1] = Complete /\ Complete.do = "complete"
          /\ Handler(q, "LOCAL")
      BY StepKinds, OneStep, ShortSteps
    <3> HIDE DEF q
    <3>4. ~Has(q, {"forward", "clearEvent", "wait", "cycle"}) /\ Orderly(q)
          /\ \A i \in 1..Len(q) : ~ConnectsPort(q[i])
      BY <3>3 DEF Has, Handler
    <3>5. todo' = [todo EXCEPT ![t] = q]
      BY <2>3 DEF q
    <3>6. HubSteps'
      BY <2>0, <3>2, <3>3, <3>4, <3>5, StepsGiven
    <3>7. todo' \in [Threads -> Seq(HubStep)]
      BY <3>3, <3>5 DEF HubTypes
    <3>. QED BY <3>6, <3>7
  <2>. QED BY <2>1, <2>2, <2>3, StepsMove
<1>2. CASE Load(t)
  <2>1. /\ todo[t] # <<>> /\ Head(todo[t]).do = "update" /\ todo[t] \in Seq(HubStep)
    BY <1>2 DEF Load, At, HubTypes
  <2>2. Head(todo[t]) \in HubStep
    BY <2>1, Rest
  <2>3. Head(todo[t]).word \in {"status", "change"}
    BY <2>1, <2>2 DEF HubStep, Finishing, Others
  <2>4. word[Head(todo[t]).word] \in SUBSET Features
    BY <2>3 DEF HubTypes
  <2>. QED BY <1>1, <1>2, <2>4
  DEF Load, HubTypes, portVars, reqHubVars, resetVars, noteVars, hubBounds
<1>3. CASE Store(t)
  <2> DEFINE u == Head(todo[t])
  <2>1. /\ todo[t] # <<>> /\ u.do = "update" /\ todo[t] \in Seq(HubStep)
    BY <1>3 DEF Store, At, HubTypes
  <2>2. u \in HubStep
    BY <2>1, Rest
  <2>3. /\ u.word \in {"status", "change"} /\ u.add \in SUBSET Features /\ u.silent \in BOOLEAN
    BY <2>1, <2>2 DEF HubStep, Finishing, Others
  <2> HIDE DEF u
  <2>4. PICK old \in loaded[t] :
          /\ word' = [word EXCEPT ![u.word] = (old \ u.del) \cup u.add]
          /\ lostUpdate' = (lostUpdate \/ (u.word = "status" /\ old # word.status))
          /\ unreported' = (unreported \/ u.silent \/ (u.word = "change" /\ old # word.change))
    BY <1>3 DEF Store, u
  <2>5. (old \ u.del) \cup u.add \in SUBSET Features
    BY <2>3, <2>4 DEF HubTypes
  <2>6. word' \in [status : SUBSET Features, change : SUBSET Features]
    <3>1. CASE u.word = "status"
      BY <3>1, <2>4, <2>5 DEF HubTypes
    <3>2. CASE u.word = "change"
      BY <3>2, <2>4, <2>5 DEF HubTypes
    <3>. QED BY <3>1, <3>2, <2>3
  <2>7. lostUpdate' \in BOOLEAN
    BY <2>4, Zenon
  <2>8. unreported' \in BOOLEAN
    BY <2>4, Zenon
  <2>9. loaded' \in [Threads -> SUBSET SUBSET Features]
    BY <1>3 DEF Store, HubTypes
  <2>. QED BY <1>1, <1>3, <2>6, <2>7, <2>8, <2>9
  DEF Store, HubTypes, reqHubVars, resetVars, hubBounds
<1>4. CASE HubCheckStatusChange(t)
  <2>1. unreported' \in BOOLEAN
    BY <1>4, Zenon DEF HubCheckStatusChange
  <2>. QED BY <1>1, <1>4, <2>1
       DEF HubCheckStatusChange, HubTypes, portVars, reqHubVars, resetVars, hubBounds
<1>5. CASE RetrieveNextRequest(t)
  <2>1. unreported' \in BOOLEAN
    BY <1>5, Zenon DEF RetrieveNextRequest
  <2>2. parked # <<>> => Head(parked) \in StatusRequests /\ Tail(parked) \in Seq(StatusRequests)
    BY DEF HubTypes
  <2>3. /\ taken' \in [Threads -> SUBSET StatusRequests] /\ parked' \in Seq(StatusRequests)
        /\ holder' \in [Requests -> {"client", "handler", "queue", "parent"}]
    <3>1. CASE ~QueuesStarted \/ parked = <<>>
      <4>1. taken' = taken /\ parked' = parked /\ holder' = holder
        BY <1>5, <3>1, Zenon DEF RetrieveNextRequest
      <4>. QED BY <4>1 DEF HubTypes
    <3>2. CASE ~(~QueuesStarted \/ parked = <<>>)
      <4>1. /\ taken' = [taken EXCEPT ![t] = {Head(parked)}] /\ parked' = Tail(parked)
            /\ holder' = [holder EXCEPT ![Head(parked)] = "handler"] /\ parked # <<>>
        BY <1>5, <3>2, Zenon DEF RetrieveNextRequest
      <4>2. taken' \in [Threads -> SUBSET StatusRequests]
        BY <4>1, <2>2 DEF HubTypes
      <4>3. holder' \in [Requests -> {"client", "handler", "queue", "parent"}]
        BY <4>1 DEF HubTypes
      <4>. QED BY <4>1, <4>2, <4>3, <2>2
    <3>. QED BY <3>1, <3>2
  <2>. QED BY <1>1, <1>5, <2>1, <2>3 DEF RetrieveNextRequest, HubTypes, resetVars, hubBounds
<1>6. CASE ReportChange(t)
  <2>1. PICK r \in taken[t] : CompleteRequest(r)
    BY <1>6 DEF ReportChange
  <2>2. r \in Requests
    BY <2>1, Members DEF HubTypes
  <2>. QED BY <1>1, <1>6, <2>1, <2>2
       DEF ReportChange, CompleteRequest, HubTypes, portVars, resetVars, noteVars, hubBounds
<1>7. CASE t \in Requests /\ RequestStep(t)
  <2>1. CASE CompleteStep(t)
    BY <1>1, <1>7, <2>1
    DEF CompleteStep, CompleteRequest, HubTypes, portVars, resetVars, noteVars, hubBounds
  <2>2. CASE ProbePort(t)
    BY <1>1, <2>2 DEF ProbePort, HubTypes, portVars, reqHubVars, resetVars, noteVars, hubBounds
  <2>3. CASE SamplePort(t)
    <3>1. goneSeen' \in BOOLEAN
      BY <2>3, Zenon DEF SamplePort
    <3>. QED BY <1>1, <2>3, <3>1
    DEF SamplePort, HubTypes, portVars, reqHubVars, resetVars, hubBounds
  <2>4. CASE ParkRequest(t)
    <3>1. t \in StatusRequests
      <4>1. todo[t] # <<>> /\ Head(todo[t]).do = "park"
        BY <2>4, Zenon DEF ParkRequest, At
      <4>. QED BY <4>1, <1>7, WhoParks
    <3>2. Append(parked, t) \in Seq(StatusRequests)
      BY <3>1 DEF HubTypes
    <3>3. /\ parked' \in Seq(StatusRequests)
          /\ holder' \in [Requests -> {"client", "handler", "queue", "parent"}]
      BY <2>4, <1>7, <3>2 DEF ParkRequest, HubTypes
    <3>. QED BY <1>1, <2>4, <3>3 DEF ParkRequest, HubTypes, resetVars, noteVars, hubBounds
  <2>5. CASE ClearResetEvent(t)
    BY <1>1, <2>5 DEF ClearResetEvent, HubTypes, reqHubVars, resetVars, noteVars, hubBounds
  <2>6. CASE ForwardToParent(t)
    <3>1. holder' \in [Requests -> {"client", "handler", "queue", "parent"}]
      BY <1>7, <2>6 DEF ForwardToParent, CompleteRequest, HubTypes
    <3>2. completions' \in [Requests -> Nat]
      <4>1. CASE completions' = completions
        BY <4>1 DEF HubTypes
      <4>2. CASE CompleteRequest(t)
        BY <1>7, <4>2 DEF CompleteRequest, HubTypes
      <4>. QED BY <2>6, <4>1, <4>2 DEF ForwardToParent
    <3>. QED BY <1>1, <2>6, <3>1, <3>2
         DEF ForwardToParent, HubTypes, portVars, resetVars, noteVars, hubBounds
  <2>7. CASE WaitReset(t)
    BY <1>1, <2>7 DEF WaitReset, HubTypes, reqHubVars, resetVars, noteVars, hubBounds
  <2>8. CASE CyclePort(t)
    BY <1>1, <2>8 DEF CyclePort, HubTypes, reqHubVars, resetVars, noteVars, hubBounds
  <2>9. CASE ResetDevice(t)
    BY <1>1, <2>9 DEF ResetDevice, HubTypes, portVars, reqHubVars, resetVars, noteVars, hubBounds
  <2>. QED BY <1>7, <2>1, <2>2, <2>3, <2>4, <2>5, <2>6, <2>7, <2>8, <2>9 DEF RequestStep
<1>. QED BY <1>2, <1>3, <1>4, <1>5, <1>6, <1>7 DEF ThreadStep

\* The framework gives a request to its handler.
LEMMA DispatchTypes ==
  ASSUME HubTypes, HubSteps, NEW r \in Requests,
         \/ r \in HubRequests /\ HubEvtIoInternalDeviceControl(r)
         \/ r \in StatusRequests /\ HubProcessHubInterruptRequest(r)
  PROVE  /\ HubTypes' /\ HubSteps'
         /\ \E q \in Seq(HubStep) :
              /\ Dispatch(r, q)
              /\ ~Has(q, {"sample"})
              /\ Has(q, {"wait"}) => Has(q, {"clearEvent"}) /\ ~Has(q, {"cycle"})
<1>0. UnpluggedValues \subseteq BOOLEAN /\ HubOps \subseteq AllHubOps
  BY HubOpsAssumption DEF UnpluggedValues
<1>1. CASE r \in HubRequests /\ HubEvtIoInternalDeviceControl(r)
  <2>1. PICK op \in HubOps, unplugged \in UnpluggedValues, passive \in BOOLEAN :
          /\ Dispatch(r, HandlerSteps(op, unplugged, passive))
          /\ hubOp' = [hubOp EXCEPT ![r] = op]
          /\ overlapped' = IF op \notin {"RESET_PORT", "CYCLE_PORT"} \/ ResetsUnderWay = {}
                           THEN overlapped \ {r}
                           ELSE overlapped \cup ResetsUnderWay \cup {r}
    BY <1>1, Zenon DEF HubEvtIoInternalDeviceControl
  <2> DEFINE q == HandlerSteps(op, unplugged, passive)
  <2>2. Handler(q, op) /\ op \in AllHubOps
    BY <1>0, HandlerStepsOrderly
  <2>3. Dispatch(r, q)
    BY <2>1
  <2> HIDE DEF q
  <2>4. /\ q \in Seq(HubStep) /\ Orderly(q) /\ ~Has(q, {"park"}) /\ ~Has(q, {"sample"})
        /\ \A i \in 1..Len(q) : ~ConnectsPort(q[i])
        /\ Has(q, {"clearEvent", "wait", "cycle"}) => op \in ResetOps
        /\ Has(q, {"wait"}) => Has(q, {"clearEvent"}) /\ ~Has(q, {"cycle"})
    BY <2>2 DEF Handler, Has
  <2>5. hubPower' = hubPower /\ todo' = [todo EXCEPT ![r] = q] /\ r \in Threads /\ r # "pnp"
        /\ r \notin StatusRequests
    BY <1>1, <2>3, Members DEF HubEvtIoInternalDeviceControl, Dispatch, portVars
  <2>6. hubOp'[r] = op /\ \A x \in HubRequests : x # r => hubOp'[x] = hubOp[x]
    BY <1>1, <2>1 DEF HubTypes
  <2>7. HubSteps'
    BY <2>4, <2>5, <2>6, StepsGiven
  <2>8. ResetsUnderWay \subseteq HubRequests
    BY DEF ResetsUnderWay
  <2>9. overlapped' \subseteq HubRequests
    BY <1>1, <2>1, <2>8 DEF HubTypes
  <2>10. hubOp' \in [HubRequests -> AllHubOps]
    BY <2>1, <2>2 DEF HubTypes
  <2>11. HubTypes'
    BY <1>1, <2>3, <2>4, <2>5, <2>9, <2>10
    DEF HubEvtIoInternalDeviceControl, Dispatch, HubTypes, portVars, noteVars
  <2>. QED BY <2>3, <2>4, <2>7, <2>11
<1>2. CASE r \in StatusRequests /\ HubProcessHubInterruptRequest(r)
  <2>1. PICK q \in {<<Complete>>, InterruptRequestSteps} : Dispatch(r, q)
    BY <1>2, Zenon DEF HubProcessHubInterruptRequest
  <2>2. /\ q \in Seq(HubStep) /\ Orderly(q)
        /\ \A i \in 1..Len(q) : q[i].do \in {"complete", "park", "check"}
    BY InterruptOrderly
  <2>3. /\ ~Has(q, {"sample"}) /\ ~Has(q, {"wait"})
        /\ ~Has(q, {"forward", "clearEvent", "wait", "cycle"})
        /\ \A i \in 1..Len(q) : ~ConnectsPort(q[i])
    BY <2>2 DEF Has, ConnectsPort
  <2>5. hubPower' = hubPower /\ todo' = [todo EXCEPT ![r] = q] /\ r \in Threads /\ r # "pnp"
        /\ r \notin HubRequests /\ hubOp' = hubOp
    BY <1>2, <2>1, Members DEF HubProcessHubInterruptRequest, Dispatch, portVars
  <2>7. HubSteps'
    BY <2>2, <2>3, <2>5, StepsGiven
  <2>8. HubTypes'
    BY <1>2, <2>1, <2>2, <2>5
    DEF HubProcessHubInterruptRequest, Dispatch, HubTypes, portVars, noteVars
  <2>. QED BY <2>1, <2>2, <2>3, <2>7, <2>8
<1>. QED BY <1>1, <1>2

\* The parent, the client and the PnP thread.
LEMMA OutsideTypes ==
  ASSUME HubTypes, HubSteps, \A r \in Requests : RequestOwned(r),
         \/ \E r \in StatusRequests : CancelParked(r)
         \/ \E r \in Requests : HubEvtIoStop(r) \/ ParentCompletes(r)
         \/ ParentLosesDevice
  PROVE  HubTypes' /\ HubSteps'
<1>0. todo' = todo /\ hubPower' = hubPower /\ hubOp' = hubOp
  BY DEF CancelParked, HubEvtIoStop, ParentCompletes, ParentLosesDevice, portVars, reqHubVars
<1>1. HubSteps'
  BY <1>0 DEF HubSteps
<1>2. ASSUME NEW r \in StatusRequests, CancelParked(r) PROVE HubTypes'
  <2>1. PICK i \in 1..Len(parked) :
          parked' = [j \in 1..(Len(parked) - 1) |-> parked[IF j < i THEN j ELSE j + 1]]
    BY <1>2 DEF CancelParked
  <2>2. parked' \in Seq(StatusRequests)
    BY <2>1 DEF HubTypes
  <2>3. r \in Requests
    BY Members
  <2>. QED BY <1>2, <2>2, <2>3 DEF CancelParked, HubTypes, resetVars, noteVars, hubBounds
<1>3. ASSUME NEW r \in Requests, HubEvtIoStop(r) PROVE HubTypes'
  BY <1>3 DEF HubEvtIoStop, CompleteRequest, HubTypes, portVars, resetVars, noteVars, hubBounds
<1>4. ASSUME NEW r \in Requests, ParentCompletes(r) PROVE HubTypes'
  <2>1. r \in HubRequests
    BY <1>4 DEF ParentCompletes, RequestOwned
  <2>2. resetCompleteEvent' \in BOOLEAN /\ signalled' \subseteq HubRequests
    <3>1. CASE UNCHANGED <<resetCompleteEvent, signalled>>
      BY <3>1 DEF HubTypes
    <3>2. CASE resetCompleteEvent' = TRUE /\ signalled' = signalled \cup {r}
      <4>1. resetCompleteEvent' \in BOOLEAN
        BY <3>2, Zenon
      <4>2. signalled' \subseteq HubRequests
        BY <3>2, <2>1 DEF HubTypes
      <4>. QED BY <4>1, <4>2
    <3>. QED BY <1>4, <3>1, <3>2, Zenon DEF ParentCompletes
  <2>3. /\ holder' \in [Requests -> {"client", "handler", "queue", "parent"}]
        /\ completions' \in [Requests -> Nat]
    BY <1>4 DEF ParentCompletes, HubTypes
  <2>. QED BY <1>4, <2>2, <2>3 DEF ParentCompletes, HubTypes, noteVars, hubBounds
<1>5. CASE ParentLosesDevice
  <2>1. portConnected' \in BOOLEAN
    BY <1>5, Zenon DEF ParentLosesDevice
  <2>2. /\ word' = word /\ parked' = parked /\ hubPower' = hubPower
        /\ resetCompleteEvent' = resetCompleteEvent /\ todo' = todo /\ loaded' = loaded
        /\ taken' = taken /\ holder' = holder /\ completions' = completions /\ hubOp' = hubOp
        /\ stopped' = stopped /\ signalled' = signalled /\ overlapped' = overlapped
        /\ lostUpdate' = lostUpdate /\ unreported' = unreported /\ goneSeen' = goneSeen
    BY <1>5 DEF ParentLosesDevice, reqHubVars, resetVars, noteVars
  <2>. QED BY <1>1, <2>1, <2>2, Zenon DEF HubTypes
<1>. QED BY <1>1, <1>2, <1>3, <1>4, <1>5

Framework ==
  \/ HubEvtDeviceD0Entry \/ StartQueues \/ HubEvtDeviceSurpriseRemoval
  \/ StopQueues \/ HubEvtDeviceD0Exit \/ HubPoweredDown

\* The PnP callbacks give steps to the PnP thread, which had none.
LEMMA FrameworkTypes ==
  ASSUME HubTypes, HubSteps, Framework
  PROVE  HubTypes' /\ HubSteps'
<1>0. "pnp" \in Threads /\ "pnp" \notin Requests /\ HubRequests \subseteq Requests
      /\ StatusRequests \subseteq Requests
  BY Members
<1>1. ASSUME NEW q \in {ConnectSteps, DisconnectSteps}, todo' = [todo EXCEPT !["pnp"] = q],
             hubPower' \notin {"Dx", "stopping"}, q = DisconnectSteps \/ hubPower' = "entry",
             hubOp' = hubOp
      PROVE  HubSteps' /\ todo' \in [Threads -> Seq(HubStep)]
  <2>1. /\ q \in Seq(HubStep) /\ Orderly(q)
        /\ q = DisconnectSteps => \A i \in 1..Len(q) : ~ConnectsPort(q[i])
    BY PnpOrderly
  <2>2. HubSteps'
    BY <1>0, <1>1, <2>1, StepsGiven
  <2>3. todo' \in [Threads -> Seq(HubStep)]
    BY <1>1, <2>1 DEF HubTypes
  <2>. QED BY <2>2, <2>3
<1>2. ASSUME todo' = todo, todo["pnp"] = <<>>, hubOp' = hubOp
      PROVE  HubSteps'
  <2>1. \A i \in 1..Len(todo["pnp"]) : FALSE
    BY <1>2
  <2>. QED BY <1>2, <2>1 DEF HubSteps
<1>3. CASE HubEvtDeviceD0Entry
  <2>1. HubSteps' /\ todo' \in [Threads -> Seq(HubStep)]
    BY <1>1, <1>3 DEF HubEvtDeviceD0Entry, reqHubVars
  <2>. QED BY <1>3, <2>1 DEF HubEvtDeviceD0Entry, HubTypes, reqHubVars, resetVars, noteVars
<1>4. CASE HubEvtDeviceSurpriseRemoval
  <2>1. HubSteps' /\ todo' \in [Threads -> Seq(HubStep)]
    BY <1>1, <1>4 DEF HubEvtDeviceSurpriseRemoval, reqHubVars
  <2>. QED BY <1>4, <2>1 DEF HubEvtDeviceSurpriseRemoval, HubTypes, reqHubVars, resetVars, noteVars
<1>5. CASE HubEvtDeviceD0Exit
  <2>1. HubSteps' /\ todo' \in [Threads -> Seq(HubStep)]
    BY <1>1, <1>5 DEF HubEvtDeviceD0Exit, reqHubVars
  <2>. QED BY <1>5, <2>1 DEF HubEvtDeviceD0Exit, HubTypes, reqHubVars, resetVars, noteVars
<1>6. CASE StartQueues \/ StopQueues \/ HubPoweredDown
  <2>1. HubSteps'
    BY <1>2, <1>6 DEF StartQueues, StopQueues, HubPoweredDown, PnpIdle, reqHubVars
  <2>. QED BY <1>6, <2>1
       DEF StartQueues, StopQueues, HubPoweredDown, HubTypes, reqHubVars, resetVars, noteVars
<1>. QED BY <1>3, <1>4, <1>5, <1>6 DEF Framework

--------------------------------------------------------------------------------
(* Who owns a request.                                                      *)

\* A request nothing happens to.
LEMMA SameOwned ==
  ASSUME NEW x \in Requests, RequestOwned(x),
         holder'[x] = holder[x], completions'[x] = completions[x], x \in stopped' <=> x \in stopped,
         Has(todo'[x], Finishing) => Has(todo[x], Finishing),
         \A t \in Threads : x \in taken'[t] => x \in taken[t],
         holder'[x] = "handler" => hubPower' \in {"D0", "stopping"}
  PROVE  RequestOwned(x)'
BY DEF RequestOwned, Held, TakenByOne

\* Nothing happens to what is parked.
LEMMA SameParked ==
  ASSUME ParkedOnce, parked' = parked,
         \A i \in 1..Len(parked) : holder'[parked[i]] = holder[parked[i]]
  PROVE  ParkedOnce'
BY DEF ParkedOnce

\* What is parked is a request.
LEMMA ParkedRequests ==
  ASSUME HubTypes, NEW i \in 1..Len(parked)
  PROVE  parked[i] \in Requests /\ parked[i] \in StatusRequests
<1>1. parked \in Seq(StatusRequests)
  BY DEF HubTypes
<1>2. parked[i] \in StatusRequests
  BY <1>1
<1>. QED BY <1>2, Members

\* A step that changes one request which is not in the queue.
LEMMA OneChanges ==
  ASSUME HubTypes, \A x \in Requests : RequestOwned(x), ParkedOnce,
         NEW r \in Requests, holder[r] # "queue", RequestOwned(r)',
         \A x \in Requests : x # r => holder'[x] = holder[x] /\ completions'[x] = completions[x],
         \A x \in Requests : x # r => (x \in stopped' <=> x \in stopped),
         \A x \in Requests : x # r /\ Has(todo'[x], Finishing) => Has(todo[x], Finishing),
         \A x \in Requests : x # r => \A t \in Threads : x \in taken'[t] => x \in taken[t],
         hubPower' = hubPower, parked' = parked
  PROVE  (\A x \in Requests : RequestOwned(x)') /\ ParkedOnce'
<1>1. ASSUME NEW x \in Requests, x # r PROVE RequestOwned(x)'
  <2>1. holder'[x] = "handler" => hubPower' \in {"D0", "stopping"}
    BY <1>1 DEF RequestOwned
  <2>. QED BY <1>1, <2>1, SameOwned
<1>2. \A i \in 1..Len(parked) : holder'[parked[i]] = holder[parked[i]]
  <2>1. SUFFICES ASSUME NEW i \in 1..Len(parked) PROVE holder'[parked[i]] = holder[parked[i]]
    OBVIOUS
  <2>2. parked[i] \in Requests /\ parked[i] # r
    BY ParkedRequests DEF ParkedOnce
  <2>. QED BY <2>2
<1>3. ParkedOnce'
  BY <1>2, SameParked
<1>. QED BY <1>1, <1>3

\* Completed by its own thread, forwarded, or parked.
LEMMA FinishOwned ==
  ASSUME HubTypes, HubSteps, \A x \in Requests : RequestOwned(x), ParkedOnce,
         NEW r \in Requests, CompleteStep(r) \/ ForwardToParent(r) \/ ParkRequest(r)
  PROVE  (\A x \in Requests : RequestOwned(x)') /\ ParkedOnce'
<1>0. /\ r \in Threads /\ Requests \subseteq Threads /\ hubPower' = hubPower /\ taken' = taken
      /\ stopped' = stopped /\ holder[r] \in {"client", "handler", "queue", "parent"}
      /\ completions[r] \in Nat
  BY Members DEF CompleteStep, ForwardToParent, ParkRequest, portVars, HubTypes
<1>1. /\ todo[r] # <<>> /\ Head(todo[r]).do \in Finishing
      /\ ForwardToParent(r) => Head(todo[r]).do = "forward"
  BY DEF CompleteStep, ForwardToParent, ParkRequest, At, Finishing
<1>2. Has(todo[r], Finishing)
  <2>1. todo[r] \in Seq(HubStep)
    BY <1>0 DEF HubTypes
  <2>2. Head(todo[r]) = todo[r][1] /\ 1 \in 1..Len(todo[r])
    BY <1>1, <2>1, Rest
  <2>. QED BY <1>1, <2>2 DEF Has
<1>3. /\ r \in stopped => holder[r] = "client"
      /\ r \notin stopped => holder[r] = "handler" /\ completions[r] = 0
      /\ \A t \in Threads : r \notin taken[t]
      /\ TakenByOne(r)
      /\ holder[r] \in {"client", "handler"} /\ holder[r] # "queue"
  BY <1>0, <1>2 DEF RequestOwned, Held
<1>4. ASSUME Advanced(r, <<>>)
      PROVE  /\ ~Has(todo'[r], Finishing)
             /\ \A x \in Requests : x # r => todo'[x] = todo[x]
  BY <1>0, <1>1, <1>4, StillToCome
<1>5. CASE CompleteStep(r)
  <2>1. Advanced(r, <<>>) /\ parked' = parked
    BY <1>0, <1>5, Moves DEF CompleteStep, portVars
  <2>2. /\ holder' = [holder EXCEPT ![r] = IF @ = "handler" THEN "client" ELSE @]
        /\ completions' = [completions EXCEPT ![r] = @ + 1]
    BY <1>5 DEF CompleteStep, CompleteRequest
  <2>3. /\ holder'[r] = "client" /\ completions'[r] = completions[r] + 1
        /\ \A x \in Requests : x # r => holder'[x] = holder[x] /\ completions'[x] = completions[x]
    BY <1>3, <2>2 DEF HubTypes
  <2>4. RequestOwned(r)'
    BY <1>0, <1>3, <1>4, <2>1, <2>3 DEF RequestOwned, Held, TakenByOne
  <2>. QED BY <1>0, <1>3, <1>4, <2>1, <2>3, <2>4, OneChanges
<1>6. CASE ForwardToParent(r)
  <2>0. Advanced(r, <<>>) /\ parked' = parked
    BY <1>0, <1>6, Moves DEF ForwardToParent, portVars
  <2>1. r \in HubRequests
    BY <1>1, <1>6, WhoParks
  <2>2. CASE /\ r \notin stopped /\ holder' = [holder EXCEPT ![r] = "parent"]
             /\ completions' = completions
    <3>1. /\ holder'[r] = "parent" /\ completions'[r] = completions[r]
          /\ \A x \in Requests : x # r => holder'[x] = holder[x] /\ completions'[x] = completions[x]
      BY <2>2 DEF HubTypes
    <3>2. RequestOwned(r)'
      BY <1>0, <1>3, <1>4, <2>0, <2>1, <2>2, <3>1 DEF RequestOwned, Held, TakenByOne
    <3>. QED BY <1>0, <1>3, <1>4, <2>0, <3>1, <3>2, OneChanges
  <2>3. CASE CompleteRequest(r)
    <3>1. /\ holder'[r] = "client" /\ completions'[r] = completions[r] + 1
          /\ \A x \in Requests : x # r => holder'[x] = holder[x] /\ completions'[x] = completions[x]
      BY <1>3, <2>3 DEF HubTypes, CompleteRequest
    <3>2. RequestOwned(r)'
      BY <1>0, <1>3, <1>4, <2>0, <3>1 DEF RequestOwned, Held, TakenByOne
    <3>. QED BY <1>0, <1>3, <1>4, <2>0, <3>1, <3>2, OneChanges
  <2>. QED BY <1>6, <2>2, <2>3 DEF ForwardToParent
<1>7. CASE ParkRequest(r)
  <2>1. CASE /\ r \notin stopped /\ parked' = Append(parked, r)
             /\ holder' = [holder EXCEPT ![r] = "queue"] /\ Advance(r)
    <3>1. Advanced(r, <<>>) /\ completions' = completions
      BY <1>0, <1>1, <1>7, <2>1, AdvanceIs DEF ParkRequest
    <3>2. /\ holder'[r] = "queue"
          /\ \A x \in Requests : x # r => holder'[x] = holder[x]
      BY <2>1 DEF HubTypes
    <3>3. RequestOwned(r)'
      BY <1>0, <1>3, <1>4, <2>1, <3>1, <3>2 DEF RequestOwned, Held, TakenByOne
    <3>4. ASSUME NEW x \in Requests, x # r PROVE RequestOwned(x)'
      <4>1. holder'[x] = "handler" => hubPower' \in {"D0", "stopping"}
        BY <1>0, <3>2, <3>4 DEF RequestOwned
      <4>. QED BY <1>0, <1>4, <3>1, <3>2, <3>4, <4>1, SameOwned
    <3>5. ParkedOnce'
      <4>1. parked \in Seq(StatusRequests) /\ r \in StatusRequests
        BY <1>1, <1>7, WhoParks DEF ParkRequest, At, HubTypes
      <4>2. /\ Len(parked') = Len(parked) + 1 /\ Len(parked) \in Nat /\ parked'[Len(parked) + 1] = r
            /\ \A i \in 1..Len(parked) : parked'[i] = parked[i]
        BY <2>1, <4>1
      <4>3. \A i \in 1..Len(parked) : parked[i] # r /\ holder'[parked[i]] = "queue"
        <5>1. SUFFICES ASSUME NEW i \in 1..Len(parked)
                       PROVE  parked[i] # r /\ holder'[parked[i]] = "queue"
          OBVIOUS
        <5>2. parked[i] \in Requests /\ holder[parked[i]] = "queue"
          BY ParkedRequests DEF ParkedOnce
        <5>. QED BY <1>3, <3>2, <5>2
      <4>4. \A i \in 1..Len(parked') : i \in 1..Len(parked) \/ i = Len(parked) + 1
        BY <4>2
      <4>. QED BY <3>2, <4>2, <4>3, <4>4 DEF ParkedOnce
    <3>. QED BY <3>3, <3>4, <3>5
  <2>2. CASE todo' = [todo EXCEPT ![r] = <<Complete>>] /\ parked' = parked /\ holder' = holder
    <3>1. completions' = completions /\ \A x \in Requests : x # r => todo'[x] = todo[x]
      BY <1>0, <1>7, <2>2 DEF ParkRequest, HubTypes
    <3>2. ASSUME NEW x \in Requests PROVE RequestOwned(x)'
      <4>1. holder'[x] = "handler" => hubPower' \in {"D0", "stopping"}
        BY <1>0, <2>2 DEF RequestOwned
      <4>2. Has(todo'[x], Finishing) => Has(todo[x], Finishing)
        BY <1>2, <3>1
      <4>. QED BY <1>0, <2>2, <3>1, <4>1, <4>2, SameOwned
    <3>3. ParkedOnce'
      BY <2>2, SameParked
    <3>. QED BY <3>2, <3>3
  <2>. QED BY <1>7, <2>1, <2>2 DEF ParkRequest
<1>. QED BY <1>5, <1>6, <1>7

\* Steps after which no request has another owner.
LEMMA QuietOwned ==
  ASSUME HubTypes, HubSteps, \A x \in Requests : RequestOwned(x), ParkedOnce, NEW t \in Threads,
         Advanced(t, <<>>) \/ (\E s : Advanced(t, s)) \/ todo' = todo,
         UNCHANGED <<holder, completions, stopped, taken, parked, hubPower>>
  PROVE  (\A x \in Requests : RequestOwned(x)') /\ ParkedOnce'
<1>1. \A x \in Threads : Has(todo'[x], Finishing) => Has(todo[x], Finishing)
  <2>1. CASE todo' = todo
    BY <2>1
  <2>2. CASE \E s : Advanced(t, s)
    BY <2>2, StillToCome
  <2>. QED BY <2>1, <2>2
<1>2. ASSUME NEW x \in Requests PROVE RequestOwned(x)'
  <2>1. x \in Threads /\ (holder'[x] = "handler" => hubPower' \in {"D0", "stopping"})
    BY Members DEF RequestOwned
  <2>. QED BY <1>1, <2>1, SameOwned
<1>3. ParkedOnce'
  BY SameParked
<1>. QED BY <1>2, <1>3

\* A parked request is taken to report the change with.
LEMMA RetrieveOwned ==
  ASSUME HubTypes, HubSteps, \A x \in Requests : RequestOwned(x), ParkedOnce,
         NEW t \in Threads, RetrieveNextRequest(t)
  PROVE  (\A x \in Requests : RequestOwned(x)') /\ ParkedOnce'
<1>0. \E s : Advanced(t, s)
  BY Moves, Zenon
<1>1. CASE ~QueuesStarted \/ parked = <<>>
  <2>1. UNCHANGED <<holder, completions, stopped, taken, parked, hubPower>>
    BY <1>1 DEF RetrieveNextRequest
  <2>. QED BY <1>0, <2>1, QuietOwned
<1>2. CASE QueuesStarted /\ parked # <<>>
  <2>0. PICK r : r = Head(parked)
    OBVIOUS
  <2>1. /\ parked \in Seq(StatusRequests) /\ r = parked[1] /\ 1 \in 1..Len(parked)
        /\ Len(parked') = Len(parked) - 1 /\ Len(parked) \in Nat /\ parked' = Tail(parked)
        /\ \A i \in 1..Len(parked') : parked'[i] = parked[i + 1] /\ i + 1 \in 1..Len(parked)
    <3>1. parked \in Seq(StatusRequests) /\ parked # <<>> /\ parked' = Tail(parked)
      BY <1>2 DEF RetrieveNextRequest, HubTypes
    <3>. QED BY <2>0, <3>1
  <2>2. /\ taken' = [taken EXCEPT ![t] = {r}] /\ holder' = [holder EXCEPT ![r] = "handler"]
        /\ UNCHANGED <<completions, stopped, hubPower>> /\ hubPower = "D0"
    BY <1>2, <2>0 DEF RetrieveNextRequest, QueuesStarted
  <2>3. r \in Requests /\ r \in Threads /\ Requests \subseteq Threads /\ holder[r] = "queue"
    BY <2>1, ParkedRequests, Members DEF ParkedOnce
  <2>4. ~Held(r) /\ r \notin stopped
    BY <2>3 DEF RequestOwned
  <2>5. \A x \in Threads : Has(todo'[x], Finishing) => Has(todo[x], Finishing)
    BY <1>0, StillToCome
  <2>6. /\ holder'[r] = "handler" /\ taken'[t] = {r}
        /\ \A x \in Requests : x # r => holder'[x] = holder[x]
        /\ \A u \in Threads : u # t => taken'[u] = taken[u]
    BY <2>2, <2>3 DEF HubTypes
  <2>7. RequestOwned(r)'
    <3>1. ~Has(todo'[r], Finishing) /\ \A u \in Threads : r \in taken'[u] => u = t
      BY <2>3, <2>4, <2>5, <2>6 DEF Held
    <3>2. TakenByOne(r)'
      BY <3>1 DEF TakenByOne
    <3>3. completions'[r] <= 1 /\ completions'[r] # 1
      BY <2>2, <2>3, <2>4 DEF RequestOwned
    <3>. QED BY <2>2, <2>4, <2>6, <3>1, <3>2, <3>3 DEF RequestOwned
  <2>8. ASSUME NEW x \in Requests, x # r PROVE RequestOwned(x)'
    <3>1. \A u \in Threads : x \in taken'[u] => x \in taken[u]
      BY <2>6, <2>8
    <3>2. holder'[x] = "handler" => hubPower' \in {"D0", "stopping"}
      BY <2>2
    <3>. QED BY <2>2, <2>3, <2>5, <2>6, <2>8, <3>1, <3>2, SameOwned
  <2>9. ParkedOnce'
    <3>1. ASSUME NEW i \in 1..Len(parked') PROVE parked'[i] # r /\ holder'[parked'[i]] = "queue"
      <4>1. parked'[i] = parked[i + 1] /\ i + 1 \in 1..Len(parked) /\ i + 1 # 1
        BY <2>1
      <4>2. parked[i + 1] \in Requests /\ holder[parked[i + 1]] = "queue" /\ parked[i + 1] # r
        BY <2>1, <4>1, ParkedRequests DEF ParkedOnce
      <4>. QED BY <2>6, <4>1, <4>2
    <3>2. ASSUME NEW i \in 1..Len(parked'), NEW j \in 1..Len(parked'), parked'[i] = parked'[j]
          PROVE  i = j
      <4>1. i + 1 \in 1..Len(parked) /\ j + 1 \in 1..Len(parked) /\ parked[i + 1] = parked[j + 1]
        BY <2>1, <3>2
      <4>2. i + 1 = j + 1
        BY <4>1 DEF ParkedOnce
      <4>. QED BY <2>1, <4>2
    <3>. QED BY <3>1, <3>2 DEF ParkedOnce
  <2>. QED BY <2>7, <2>8, <2>9
<1>. QED BY <1>1, <1>2

\* The change is reported.
LEMMA ReportOwned ==
  ASSUME HubTypes, HubSteps, \A x \in Requests : RequestOwned(x), ParkedOnce,
         NEW t \in Threads, ReportChange(t)
  PROVE  (\A x \in Requests : RequestOwned(x)') /\ ParkedOnce'
<1>1. PICK r \in taken[t] : CompleteRequest(r)
  BY DEF ReportChange
<1>2. r \in Requests /\ r \in Threads /\ Requests \subseteq Threads /\ completions[r] \in Nat
      /\ holder[r] \in {"client", "handler", "queue", "parent"}
  BY Members DEF HubTypes
<1>3. UNCHANGED <<stopped, parked, hubPower>> /\ taken' = [taken EXCEPT ![t] = {}]
  BY DEF ReportChange, portVars
<1>4. \A x \in Threads : Has(todo'[x], Finishing) => Has(todo[x], Finishing)
  <2>1. Advanced(t, <<>>)
    BY Moves, Zenon
  <2>. QED BY <2>1, StillToCome
<1>5. /\ r \in stopped => holder[r] = "client"
      /\ r \notin stopped => holder[r] = "handler" /\ completions[r] = 0
      /\ ~Has(todo[r], Finishing) /\ TakenByOne(r) /\ holder[r] # "queue"
  BY <1>2 DEF RequestOwned, Held
<1>6. /\ holder'[r] = "client" /\ completions'[r] = completions[r] + 1
      /\ \A x \in Requests : x # r => holder'[x] = holder[x] /\ completions'[x] = completions[x]
  BY <1>1, <1>2, <1>5 DEF HubTypes, CompleteRequest
<1>7. taken'[t] = {} /\ \A u \in Threads : u # t => taken'[u] = taken[u]
  BY <1>3 DEF HubTypes
<1>8. \A u \in Threads : r \notin taken'[u]
  BY <1>1, <1>5, <1>7 DEF TakenByOne
<1>9. RequestOwned(r)'
  BY <1>2, <1>3, <1>4, <1>5, <1>6, <1>8 DEF RequestOwned, Held, TakenByOne
<1>. QED BY <1>2, <1>3, <1>4, <1>5, <1>6, <1>7, <1>9, OneChanges

\* A request is dispatched: its client has it, and nobody else.
LEMMA DispatchOwned ==
  ASSUME HubTypes, HubSteps, \A x \in Requests : RequestOwned(x), ParkedOnce,
         NEW r \in Requests, NEW q \in Seq(HubStep), Dispatch(r, q), UNCHANGED <<portVars, taken>>
  PROVE  (\A x \in Requests : RequestOwned(x)') /\ ParkedOnce'
<1>1. /\ holder[r] = "client" /\ (\A t \in Threads : r \notin taken[t]) /\ hubPower = "D0"
      /\ hubPower' = hubPower /\ parked' = parked /\ taken' = taken /\ r \notin stopped'
      /\ \A x \in Requests : x # r => (x \in stopped' <=> x \in stopped)
  BY DEF Dispatch, QueuesStarted, portVars
<1>2. /\ holder'[r] = "handler" /\ completions'[r] = 0
      /\ \A x \in Requests : /\ x \in Threads
                             /\ x # r => /\ holder'[x] = holder[x]
                                         /\ completions'[x] = completions[x]
                                         /\ todo'[x] = todo[x]
  BY Members DEF Dispatch, HubTypes
<1>3. RequestOwned(r)'
  BY <1>1, <1>2 DEF RequestOwned, Held, TakenByOne
<1>. QED BY <1>1, <1>2, <1>3, OneChanges

\* Completed from outside: stopped, by the parent, or cancelled in the queue.
LEMMA OutsideOwned ==
  ASSUME HubTypes, HubSteps, \A x \in Requests : RequestOwned(x), ParkedOnce,
         NEW r \in Requests,
         HubEvtIoStop(r) \/ ParentCompletes(r) \/ (r \in StatusRequests /\ CancelParked(r))
  PROVE  (\A x \in Requests : RequestOwned(x)') /\ ParkedOnce'
<1>0. /\ hubPower' = hubPower /\ taken' = taken /\ todo' = todo /\ completions[r] \in Nat
      /\ r \in Threads /\ Requests \subseteq Threads
  BY Members DEF HubEvtIoStop, ParentCompletes, CancelParked, portVars, HubTypes
<1>1. CASE HubEvtIoStop(r)
  <2>1. /\ parked' = parked /\ stopped' = stopped \cup {r} /\ holder[r] = "handler"
        /\ holder'[r] = "client"
        /\ \A x \in Requests : x # r => holder'[x] = holder[x] /\ completions'[x] = completions[x]
    BY <1>1 DEF HubEvtIoStop, CompleteRequest, portVars, HubTypes
  <2>2. RequestOwned(r)'
    BY <1>0, <2>1 DEF RequestOwned, Held, TakenByOne
  <2>. QED BY <1>0, <2>1, <2>2, OneChanges
<1>2. ASSUME holder[r] \in {"parent", "queue"}, stopped' = stopped,
             holder' = [holder EXCEPT ![r] = "client"],
             completions' = [completions EXCEPT ![r] = @ + 1]
      PROVE  /\ RequestOwned(r)' /\ holder'[r] = "client"
             /\ \A x \in Requests :
                  x # r => holder'[x] = holder[x] /\ completions'[x] = completions[x]
  <2>1. /\ holder'[r] = "client" /\ completions'[r] = completions[r] + 1
        /\ \A x \in Requests : x # r => holder'[x] = holder[x] /\ completions'[x] = completions[x]
    BY <1>2 DEF HubTypes
  <2>2. r \notin stopped /\ ~Held(r) /\ completions[r] = 0
    BY <1>0, <1>2 DEF RequestOwned
  <2>3. RequestOwned(r)'
    BY <1>0, <1>2, <2>1, <2>2 DEF RequestOwned, Held, TakenByOne
  <2>. QED BY <2>1, <2>3
<1>3. CASE ParentCompletes(r)
  <2>1. parked' = parked /\ stopped' = stopped /\ holder[r] = "parent"
        /\ holder' = [holder EXCEPT ![r] = "client"]
        /\ completions' = [completions EXCEPT ![r] = @ + 1]
    BY <1>3 DEF ParentCompletes
  <2>. QED BY <1>0, <1>2, <2>1, OneChanges
<1>4. CASE r \in StatusRequests /\ CancelParked(r)
  <2>1. PICK i \in 1..Len(parked) :
          /\ parked[i] = r
          /\ parked' = [j \in 1..(Len(parked) - 1) |-> parked[IF j < i THEN j ELSE j + 1]]
    BY <1>4 DEF CancelParked
  <2>2. /\ holder[r] = "queue" /\ stopped' = stopped
        /\ holder' = [holder EXCEPT ![r] = "client"]
        /\ completions' = [completions EXCEPT ![r] = @ + 1]
    BY <1>4, <2>1 DEF CancelParked, ParkedOnce
  <2>3. ASSUME NEW x \in Requests PROVE RequestOwned(x)'
    <3>1. CASE x = r
      BY <1>2, <2>2, <3>1
    <3>2. CASE x # r
      <4>1. holder'[x] = holder[x] /\ completions'[x] = completions[x]
        BY <1>2, <2>2, <3>2
      <4>2. holder'[x] = "handler" => hubPower' \in {"D0", "stopping"}
        BY <1>0, <4>1 DEF RequestOwned
      <4>. QED BY <1>0, <2>2, <4>1, <4>2, SameOwned
    <3>. QED BY <3>1, <3>2
  <2>4. ParkedOnce'
    <3> DEFINE at(j) == IF j < i THEN j ELSE j + 1
    <3>1. Len(parked) \in Nat /\ Len(parked) >= 1
      BY DEF HubTypes
    <3>2. Len(parked') = Len(parked) - 1
      BY <2>1, <3>1
    <3>3. ASSUME NEW j \in 1..Len(parked')
          PROVE  parked'[j] = parked[at(j)] /\ at(j) \in 1..Len(parked) /\ at(j) # i
      <4>1. j \in 1..(Len(parked) - 1)
        BY <3>2
      <4>. QED BY <2>1, <3>1, <4>1
    <3>4. \A j, k \in 1..Len(parked') : at(j) = at(k) => j = k
      BY <3>1, <3>2
    <3> HIDE DEF at
    <3>5. ASSUME NEW j \in 1..Len(parked') PROVE holder'[parked'[j]] = "queue"
      <4>1. parked[at(j)] # r /\ parked[at(j)] \in Requests /\ holder[parked[at(j)]] = "queue"
        BY <2>1, <3>3, ParkedRequests DEF ParkedOnce
      <4>. QED BY <1>2, <2>2, <3>3, <4>1
    <3>6. ASSUME NEW j \in 1..Len(parked'), NEW k \in 1..Len(parked'), parked'[j] = parked'[k]
          PROVE  j = k
      <4>1. at(j) = at(k)
        BY <3>3, <3>6 DEF ParkedOnce
      <4>. QED BY <3>4, <4>1
    <3>. QED BY <3>5, <3>6 DEF ParkedOnce
  <2>. QED BY <2>3, <2>4
<1>. QED BY <1>1, <1>3, <1>4

\* The framework powers the hub up and down; it goes on when no handler has a
\* request.
LEMMA FrameworkOwned ==
  ASSUME HubTypes, HubSteps, \A x \in Requests : RequestOwned(x), ParkedOnce, Framework
  PROVE  (\A x \in Requests : RequestOwned(x)') /\ ParkedOnce'
<1>1. UNCHANGED <<holder, completions, stopped, taken, parked>>
  BY DEF Framework, HubEvtDeviceD0Entry, StartQueues, HubEvtDeviceSurpriseRemoval, StopQueues,
    HubEvtDeviceD0Exit, HubPoweredDown, reqHubVars
<1>2. \A x \in Requests : todo'[x] = todo[x]
  <2>1. \A x \in Requests : x \in Threads /\ x # "pnp"
    BY Members
  <2>. QED BY <2>1 DEF Framework, HubEvtDeviceD0Entry, StartQueues, HubEvtDeviceSurpriseRemoval,
    StopQueues, HubEvtDeviceD0Exit, HubPoweredDown, HubTypes
<1>3. ASSUME NEW x \in Requests, holder[x] = "handler" PROVE hubPower' \in {"D0", "stopping"}
  <2>1. hubPower \in {"D0", "stopping"}
    BY <1>3 DEF RequestOwned
  <2>. QED BY <1>3, <2>1 DEF Framework, HubEvtDeviceD0Entry, StartQueues,
    HubEvtDeviceSurpriseRemoval, StopQueues, HubEvtDeviceD0Exit, HubPoweredDown
<1>4. \A x \in Requests : RequestOwned(x)'
  BY <1>1, <1>2, <1>3, SameOwned
<1>5. ParkedOnce'
  BY <1>1, SameParked
<1>. QED BY <1>4, <1>5

--------------------------------------------------------------------------------
(* Whose reset the event is of.                                             *)
UnderWay(r) == hubOp[r] \in ResetOps /\ (todo[r] # <<>> \/ holder[r] = "parent")

\* The set of resets under way, one request at a time.
LEMMA WhoIsUnderWay == \A r : r \in ResetsUnderWay <=> r \in HubRequests /\ UnderWay(r)
BY DEF ResetsUnderWay, UnderWay, ResetOps

\* No reset begins.
LEMMA AloneKept ==
  ASSUME ResetAlone, overlapped' = overlapped,
         \A x \in HubRequests : /\ hubOp'[x] = hubOp[x]
                                /\ todo'[x] # <<>> => todo[x] # <<>>
                                /\ holder'[x] = "parent" => holder[x] = "parent" \/ todo[x] # <<>>
  PROVE  ResetAlone'
<1>1. ResetsUnderWay' \subseteq ResetsUnderWay
  BY DEF ResetsUnderWay
<1>. QED BY <1>1 DEF ResetAlone

\* The steps of no request of the hub driver change what the event is about.
LEMMA EventKept ==
  ASSUME EventOwned, UNCHANGED <<resetCompleteEvent, signalled, overlapped>>,
         \A x \in HubRequests :
           /\ \A D \in {Finishing, {"wait"}, {"cycle"}} : Has(todo'[x], D) => Has(todo[x], D)
           /\ Has(todo[x], {"clearEvent"}) => Has(todo'[x], {"clearEvent"})
  PROVE  EventOwned'
BY DEF EventOwned

\* An event set or cleared for r is not what another reset waits for, unless they
\* overlapped.
LEMMA OtherResets ==
  ASSUME HubTypes, HubSteps, ResetAlone, NEW r \in HubRequests, UnderWay(r),
         NEW x \in HubRequests, x # r, Has(todo[x], {"wait"})
  PROVE  x \in overlapped
<1>1. todo[x] # <<>> /\ hubOp[x] \in ResetOps
  <2>1. todo[x] # <<>>
    BY DEF Has
  <2>2. Has(todo[x], {"clearEvent", "wait", "cycle"})
    BY DEF Has
  <2>. QED BY <2>1, <2>2 DEF HubSteps
<1>2. x \in ResetsUnderWay /\ r \in ResetsUnderWay
  BY <1>1, WhoIsUnderWay DEF UnderWay
<1>. QED BY <1>2 DEF ResetAlone

\* A thread takes a step: the event is as it was, or its reset is r.
LEMMA StepReset ==
  ASSUME HubTypes, HubSteps, \A x \in Requests : RequestOwned(x), ResetAlone, EventOwned,
         NEW t \in Threads, ThreadStep(t) \/ (t \in Requests /\ RequestStep(t))
  PROVE  ResetAlone' /\ EventOwned'
<1>0. /\ UNCHANGED <<hubOp, signalled, overlapped>>
      /\ ~(ClearResetEvent(t) \/ WaitReset(t) \/ CyclePort(t)) =>
           resetCompleteEvent' = resetCompleteEvent
      /\ HubRequests \subseteq Threads /\ HubRequests \subseteq Requests
      /\ StatusRequests \cap HubRequests = {}
  BY Members DEF ThreadStep, RequestStep, Load, Store, HubCheckStatusChange, RetrieveNextRequest,
    ReportChange, CompleteStep, ProbePort, SamplePort, ParkRequest, ClearResetEvent,
    ForwardToParent, WaitReset, CyclePort, ResetDevice, portVars, reqHubVars, resetVars
<1>1. \A x \in HubRequests : x # t => todo'[x] = todo[x]
  <2>1. CASE Load(t) /\ todo' = todo
    BY <2>1
  <2>2. CASE \E s : Advanced(t, s)
    BY <1>0, <2>2, StillToCome
  <2>3. CASE ParkRequest(t) /\ todo' = [todo EXCEPT ![t] = <<Complete>>]
    BY <1>0, <2>3 DEF HubTypes
  <2>. QED BY <2>1, <2>2, <2>3, StepsMove
<1>2. ResetAlone'
  <2>1. ASSUME NEW x \in HubRequests PROVE todo'[x] # <<>> => todo[x] # <<>>
    <3>1. CASE x # t
      BY <1>1, <3>1
    <3>2. CASE x = t
      BY <3>2, Zenon DEF ThreadStep, RequestStep, Load, Store, HubCheckStatusChange,
        RetrieveNextRequest, ReportChange, CompleteStep, ProbePort, SamplePort, ParkRequest,
        ClearResetEvent, ForwardToParent, WaitReset, CyclePort, ResetDevice, At
    <3>. QED BY <3>1, <3>2
  <2>2. ASSUME NEW x \in HubRequests
        PROVE  holder'[x] = "parent" => holder[x] = "parent" \/ todo[x] # <<>>
    <3>1. CASE ForwardToParent(t)
      <4>1. todo[t] # <<>> /\ (holder' = [holder EXCEPT ![t] = "parent"] \/ CompleteRequest(t))
        BY <3>1, Zenon DEF ForwardToParent, At
      <4>. QED BY <1>0, <4>1 DEF CompleteRequest, HubTypes
    <3>2. CASE RetrieveNextRequest(t)
      BY <1>0, <3>2 DEF RetrieveNextRequest, HubTypes
    <3>3. CASE ReportChange(t) \/ CompleteStep(t)
      BY <1>0, <3>3 DEF ReportChange, CompleteStep, CompleteRequest, HubTypes
    <3>4. CASE ParkRequest(t)
      BY <1>0, <3>4 DEF ParkRequest, HubTypes
    <3>5. CASE ~(ForwardToParent(t) \/ RetrieveNextRequest(t) \/ ReportChange(t) \/ CompleteStep(t)
                 \/ ParkRequest(t))
      BY <3>5 DEF ThreadStep, RequestStep, Load, Store, HubCheckStatusChange, ProbePort,
        SamplePort, ClearResetEvent, WaitReset, CyclePort, ResetDevice, reqHubVars
    <3>. QED BY <3>1, <3>2, <3>3, <3>4, <3>5
  <2>. QED BY <1>0, <2>1, <2>2, AloneKept
\* What a thread that advances has still to do.
<1>3. ASSUME NEW s, Advanced(t, s), NEW x \in HubRequests
      PROVE  /\ \A D \in {Finishing, {"wait"}, {"cycle"}} : Has(todo'[x], D) => Has(todo[x], D)
             /\ x # t \/ Head(todo[t]).do # "clearEvent" =>
                  (Has(todo[x], {"clearEvent"}) => Has(todo'[x], {"clearEvent"}))
  <2>1. CASE x # t
    BY <1>1, <2>1
  <2>2. CASE x = t
    <3>1. ~Has(s, Finishing) /\ ~Has(s, {"wait"}) /\ ~Has(s, {"cycle"})
      BY <1>3 DEF Advanced, Added, Has
    <3>. QED BY <1>3, <2>2, <3>1, StillToCome
  <2>. QED BY <2>1, <2>2
<1>4. CASE ClearResetEvent(t) \/ WaitReset(t) \/ CyclePort(t)
  <2>1. PICK s : Advanced(t, s)
    BY <1>4, Moves, Zenon
  <2>2. /\ todo[t] # <<>>
        /\ ClearResetEvent(t) => Head(todo[t]).do = "clearEvent"
        /\ WaitReset(t) => Head(todo[t]).do = "wait"
        /\ CyclePort(t) => Head(todo[t]).do = "cycle"
    BY <1>4, Zenon DEF ClearResetEvent, WaitReset, CyclePort, ResetDevice, At
  <2>3. t \in Requests
    BY <1>4, <2>2, Zenon DEF ThreadStep, Load, Store, HubCheckStatusChange, RetrieveNextRequest,
      ReportChange, At
  <2>4. t \in HubRequests /\ UnderWay(t)
    BY <1>4, <2>2, <2>3, WhoParks DEF UnderWay
  <2>5. ASSUME NEW x \in HubRequests, x # t
        PROVE  /\ Has(todo'[x], Finishing) => x \notin signalled'
               /\ ~(Has(todo'[x], {"wait"}) /\ x \notin overlapped')
               /\ Has(todo'[x], {"cycle"}) => ~Has(todo'[x], {"wait"})
    BY <1>0, <1>1, <2>4, <2>5, OtherResets DEF EventOwned
  <2>6. Has(todo'[t], Finishing) => t \notin signalled'
    BY <1>0, <1>3, <2>1, <2>4 DEF EventOwned
  <2>7. Has(todo'[t], {"cycle"}) => ~Has(todo'[t], {"wait"})
    BY <1>3, <2>1, <2>4 DEF EventOwned
  <2>8. ASSUME Has(todo'[t], {"wait"}) PROVE resetCompleteEvent' <=> t \in signalled'
    <3>1. ~WaitReset(t)
      BY <2>1, <2>2, <2>8, StillToCome
    <3>2. ~CyclePort(t)
      <4>1. CyclePort(t) => Has(todo[t], {"cycle"})
        <5>1. todo[t] \in Seq(HubStep)
          BY DEF HubTypes
        <5>2. Head(todo[t]) = todo[t][1] /\ 1 \in 1..Len(todo[t])
          BY <2>2, <5>1, Rest
        <5>. QED BY <2>2, <5>2 DEF Has
      <4>2. Has(todo[t], {"wait"})
        BY <1>3, <2>1, <2>4, <2>8
      <4>. QED BY <2>4, <4>1, <4>2 DEF EventOwned
    <3>3. ClearResetEvent(t)
      BY <1>4, <3>1, <3>2
    <3>4. Has(todo[t], Finishing)
      BY <2>1, <2>2, <3>3, StillToCome DEF Early
    <3>5. t \notin signalled' /\ resetCompleteEvent' = FALSE
      BY <1>0, <2>4, <3>3, <3>4 DEF EventOwned, ClearResetEvent
    <3>. QED BY <3>5
  <2>9. ASSUME NEW x \in HubRequests
        PROVE  /\ Has(todo'[x], Finishing) => x \notin signalled'
               /\ Has(todo'[x], {"wait"}) /\ ~Has(todo'[x], {"clearEvent"}) /\ x \notin overlapped'
                    => (resetCompleteEvent' <=> x \in signalled')
               /\ Has(todo'[x], {"cycle"}) => ~Has(todo'[x], {"wait"})
    BY <2>5, <2>6, <2>7, <2>8
  <2>10. EventOwned'
    BY <2>9 DEF EventOwned
  <2>. QED BY <1>2, <2>10
<1>5. CASE ~(ClearResetEvent(t) \/ WaitReset(t) \/ CyclePort(t))
  <2>1. Advanced(t, <<>>) \/ (\E s : Advanced(t, s)) => Head(todo[t]).do # "clearEvent"
    <3>1. Head(todo[t]).do # "clearEvent" \/ Load(t)
      BY <1>5, Zenon DEF ThreadStep, RequestStep, Load, Store, HubCheckStatusChange,
        RetrieveNextRequest, ReportChange, CompleteStep, ProbePort, SamplePort, ParkRequest,
        ForwardToParent, ResetDevice, At
    <3>2. Load(t) => Head(todo[t]).do = "update"
      BY Zenon DEF Load, At
    <3>. QED BY <3>1, <3>2
  <2>2. ASSUME NEW x \in HubRequests
        PROVE  /\ \A D \in {Finishing, {"wait"}, {"cycle"}} : Has(todo'[x], D) => Has(todo[x], D)
               /\ Has(todo[x], {"clearEvent"}) => Has(todo'[x], {"clearEvent"})
    <3>1. CASE Load(t) /\ todo' = todo
      BY <3>1
    <3>2. CASE \E s : Advanced(t, s)
      BY <1>3, <2>1, <3>2
    <3>3. CASE ParkRequest(t) /\ todo' = [todo EXCEPT ![t] = <<Complete>>]
      <4>1. todo[t] # <<>> /\ Head(todo[t]).do = "park"
        BY <3>3, Zenon DEF ParkRequest, At
      <4>2. t \in Requests
        BY <4>1, Zenon DEF ThreadStep, Load, Store, HubCheckStatusChange, RetrieveNextRequest,
          ReportChange, At
      <4>3. x # t
        BY <1>0, <4>1, <4>2, WhoParks
      <4>. QED BY <1>1, <4>3
    <3>. QED BY <3>1, <3>2, <3>3, StepsMove
  <2>3. EventOwned'
    BY <1>0, <1>5, <2>2, EventKept
  <2>. QED BY <1>2, <2>3
<1>. QED BY <1>4, <1>5

\* A reset is dispatched: it is alone, or it and the resets under way overlap.
LEMMA DispatchReset ==
  ASSUME HubTypes, HubSteps, ResetAlone, EventOwned, NEW r \in Requests,
         \/ r \in HubRequests /\ HubEvtIoInternalDeviceControl(r)
         \/ r \in StatusRequests /\ HubProcessHubInterruptRequest(r)
  PROVE  ResetAlone' /\ EventOwned'
<1>1. PICK q \in Seq(HubStep) :
        /\ Dispatch(r, q)
        /\ Has(q, {"wait"}) => Has(q, {"clearEvent"}) /\ ~Has(q, {"cycle"})
  BY DispatchTypes
<1>2. /\ holder' = [holder EXCEPT ![r] = "handler"] /\ todo' = [todo EXCEPT ![r] = q]
      /\ signalled' = signalled \ {r} /\ resetCompleteEvent' = resetCompleteEvent
  BY <1>1 DEF Dispatch, HubEvtIoInternalDeviceControl, HubProcessHubInterruptRequest, portVars
<1>3. /\ \A x \in HubRequests : x # r => todo'[x] = todo[x] /\ holder'[x] = holder[x]
      /\ r \in HubRequests => todo'[r] = q /\ holder'[r] = "handler"
  BY <1>2, Members DEF HubTypes
<1>4. CASE r \in HubRequests /\ HubEvtIoInternalDeviceControl(r)
  <2>1. PICK op \in HubOps :
          /\ hubOp' = [hubOp EXCEPT ![r] = op]
          /\ overlapped' = IF op \notin ResetOps \/ ResetsUnderWay = {}
                           THEN overlapped \ {r} ELSE overlapped \cup ResetsUnderWay \cup {r}
    BY <1>4, Zenon DEF HubEvtIoInternalDeviceControl, ResetOps
  <2>2. hubOp'[r] = op /\ \A x \in HubRequests : x # r => hubOp'[x] = hubOp[x]
    BY <1>4, <2>1 DEF HubTypes
  <2>3. \A x : x \in ResetsUnderWay' <=> x \in HubRequests /\ UnderWay(x)'
    BY DEF ResetsUnderWay, UnderWay, ResetOps
  <2>4. ASSUME NEW x \in ResetsUnderWay', x # r PROVE x \in ResetsUnderWay
    <3>1. x \in HubRequests /\ UnderWay(x)'
      BY <2>3
    <3>2. UnderWay(x)
      BY <1>3, <2>2, <2>4, <3>1 DEF UnderWay
    <3>. QED BY <3>1, <3>2, WhoIsUnderWay
  <2>5. ResetAlone'
    <3>1. CASE op \notin ResetOps
      <4>1. r \notin ResetsUnderWay'
        BY <2>2, <2>3, <3>1 DEF UnderWay
      <4>2. ResetsUnderWay' \subseteq ResetsUnderWay
        BY <2>4, <4>1
      <4>3. \A x \in ResetsUnderWay' : x \notin overlapped' => x \notin overlapped
        BY <2>1, <3>1, <4>1
      <4>. QED BY <4>2, <4>3 DEF ResetAlone
    <3>2. CASE op \in ResetOps /\ ResetsUnderWay = {}
      <4>1. ResetsUnderWay' \subseteq {r}
        BY <2>4, <3>2
      <4>. QED BY <4>1 DEF ResetAlone
    <3>3. CASE op \in ResetOps /\ ResetsUnderWay # {}
      <4>1. ResetsUnderWay' \subseteq overlapped'
        BY <2>1, <2>4, <3>3
      <4>. QED BY <4>1 DEF ResetAlone
    <3>. QED BY <3>1, <3>2, <3>3
  <2>6. \A x \in HubRequests : x # r /\ x \notin overlapped' => x \notin overlapped
    BY <2>1
  <2>7. EventOwned'
    BY <1>1, <1>2, <1>3, <1>4, <2>6 DEF EventOwned
  <2>. QED BY <2>5, <2>7
<1>5. CASE r \in StatusRequests /\ HubProcessHubInterruptRequest(r)
  <2>1. hubOp' = hubOp /\ overlapped' = overlapped /\ r \notin HubRequests
    BY <1>5, Members DEF HubProcessHubInterruptRequest
  <2>2. ResetAlone'
    BY <1>3, <2>1, AloneKept
  <2>3. EventOwned'
    BY <1>2, <1>3, <2>1 DEF EventOwned
  <2>. QED BY <2>2, <2>3
<1>. QED BY <1>4, <1>5

\* The parent answers: the event is set for the reset it answers.
LEMMA ParentReset ==
  ASSUME HubTypes, HubSteps, \A x \in Requests : RequestOwned(x), ResetAlone, EventOwned,
         NEW r \in Requests, ParentCompletes(r)
  PROVE  ResetAlone' /\ EventOwned'
<1>1. /\ holder[r] = "parent" /\ r \in HubRequests /\ todo' = todo /\ hubOp' = hubOp
      /\ overlapped' = overlapped /\ holder' = [holder EXCEPT ![r] = "client"]
  BY DEF ParentCompletes, RequestOwned
<1>2. ResetAlone'
  <2>1. \A x \in HubRequests : holder'[x] = "parent" => holder[x] = "parent"
    BY <1>1, Members DEF HubTypes
  <2>. QED BY <1>1, <2>1, AloneKept
<1>3. CASE UNCHANGED <<resetCompleteEvent, signalled>>
  BY <1>1, <1>2, <1>3 DEF EventOwned
<1>4. CASE /\ hubOp[r] = "RESET_PORT" /\ resetCompleteEvent' = TRUE
           /\ signalled' = signalled \cup {r}
  <2>1. UnderWay(r)
    BY <1>1, <1>4 DEF UnderWay, ResetOps
  <2>2. ~Has(todo[r], Finishing)
    BY <1>1 DEF RequestOwned, Held
  <2>3. \A x \in HubRequests : x # r /\ Has(todo[x], {"wait"}) => x \in overlapped
    BY <1>1, <2>1, OtherResets
  <2>4. EventOwned'
    BY <1>1, <1>4, <2>2, <2>3 DEF EventOwned
  <2>. QED BY <1>2, <2>4
<1>. QED BY <1>3, <1>4 DEF ParentCompletes

\* Everything else.
LEMMA OutsideReset ==
  ASSUME HubTypes, HubSteps, ResetAlone, EventOwned,
         \/ \E r \in Requests : HubEvtIoStop(r)
         \/ \E r \in StatusRequests : CancelParked(r)
         \/ ParentLosesDevice \/ Framework
  PROVE  ResetAlone' /\ EventOwned'
<1>1. UNCHANGED <<resetCompleteEvent, signalled, overlapped, hubOp>>
  BY DEF HubEvtIoStop, CancelParked, ParentLosesDevice, Framework, HubEvtDeviceD0Entry,
    StartQueues, HubEvtDeviceSurpriseRemoval, StopQueues, HubEvtDeviceD0Exit, HubPoweredDown,
    portVars, reqHubVars, resetVars
<1>2. \A x \in HubRequests : todo'[x] = todo[x]
  <2>1. \A x \in HubRequests : x \in Threads /\ x # "pnp"
    BY Members
  <2>. QED BY <2>1 DEF HubEvtIoStop, CancelParked, ParentLosesDevice, Framework,
    HubEvtDeviceD0Entry, StartQueues, HubEvtDeviceSurpriseRemoval, StopQueues,
    HubEvtDeviceD0Exit, HubPoweredDown, HubTypes
<1>3. \A x \in HubRequests : holder'[x] = "parent" => holder[x] = "parent"
  <2>1. \A x \in HubRequests : x \in Requests
    BY Members
  <2>2. ASSUME NEW r \in Requests, HubEvtIoStop(r)
        PROVE  \A x \in HubRequests : holder'[x] = "parent" => holder[x] = "parent"
    BY <2>1, <2>2 DEF HubEvtIoStop, CompleteRequest, HubTypes
  <2>3. ASSUME NEW r \in StatusRequests, CancelParked(r)
        PROVE  \A x \in HubRequests : holder'[x] = "parent" => holder[x] = "parent"
    BY <2>1, <2>3, Members DEF CancelParked, HubTypes
  <2>4. CASE ParentLosesDevice \/ Framework
    BY <2>4 DEF ParentLosesDevice, Framework, HubEvtDeviceD0Entry, StartQueues,
      HubEvtDeviceSurpriseRemoval, StopQueues, HubEvtDeviceD0Exit, HubPoweredDown, reqHubVars
  <2>. QED BY <2>2, <2>3, <2>4
<1>4. ResetAlone'
  BY <1>1, <1>2, <1>3, AloneKept
<1>5. EventOwned'
  BY <1>1, <1>2 DEF EventOwned
<1>. QED BY <1>4, <1>5

--------------------------------------------------------------------------------
(* A port that is gone.                                                     *)

\* The request whose answer is to come is still with its handler, so the hub is
\* powered and nobody connects the port.
LEMMA WhileSampling ==
  ASSUME HubTypes, HubSteps, NEW r \in Requests, RequestOwned(r), r \notin stopped,
         Has(todo[r], {"sample"})
  PROVE  \A t \in Threads : \A i \in 1..Len(todo[t]) : ~ConnectsPort(todo[t][i])
<1>1. PICK i \in 1..Len(todo[r]) : todo[r][i].do = "sample"
  BY DEF Has
<1>2. Has(todo[r], Finishing)
  <2>1. r \in Threads /\ todo[r] \in Seq(HubStep)
    BY Members DEF HubTypes
  <2>2. PICK j \in (i + 1)..Len(todo[r]) : todo[r][j].do \in Finishing
    BY <1>1, <2>1 DEF HubSteps, Orderly, FinishFollows, Early
  <2>3. j \in 1..Len(todo[r])
    BY <2>1
  <2>. QED BY <2>2, <2>3 DEF Has
<1>3. hubPower # "entry"
  BY <1>2 DEF RequestOwned, Held
<1>. QED BY <1>3, Members DEF HubSteps

\* A sequence that goes on: samples that were to come still read a word without
\* CONNECT, or after a step that clears it.
LEMMA GoneOnward ==
  ASSUME NEW q \in Seq(HubStep), q # <<>>, NEW s \in Seq(HubStep), NEW B, NEW C,
         \A i \in 1..Len(s) : s[i].do = "sample" /\ s[i].gone =>
           B \/ \E j \in 1..(i - 1) : DisconnectsPort(s[j]),
         B \/ ~DisconnectsPort(q[1]), C => B,
         \A i \in 1..Len(q) : q[i].do = "sample" /\ q[i].gone =>
           C \/ \E j \in 1..(i - 1) : DisconnectsPort(q[j])
  PROVE  LET p == s \o Tail(q)
         IN  \A i \in 1..Len(p) : p[i].do = "sample" /\ p[i].gone =>
               B \/ \E j \in 1..(i - 1) : DisconnectsPort(p[j])
<1> DEFINE p == s \o Tail(q)
<1>1. /\ p \in Seq(HubStep) /\ Len(p) = Len(s) + Len(q) - 1
      /\ \A i \in 1..Len(s) : p[i] = s[i]
      /\ \A i \in 2..Len(q) : p[Len(s) + i - 1] = q[i]
  BY Behind
<1>2. Len(q) \in Nat /\ Len(q) >= 1 /\ Len(s) \in Nat
  OBVIOUS
<1> HIDE DEF p
<1>3. SUFFICES ASSUME NEW i \in 1..Len(p), p[i].do = "sample", p[i].gone, ~B
               PROVE  \E j \in 1..(i - 1) : DisconnectsPort(p[j])
  BY DEF p
<1>4. CASE i \in 1..Len(s)
  <2>1. p[i] = s[i] /\ \A j \in 1..(i - 1) : p[j] = s[j]
    BY <1>1, <1>2, <1>4
  <2>2. PICK j \in 1..(i - 1) : DisconnectsPort(s[j])
    BY <1>3, <1>4, <2>1
  <2>. QED BY <2>1, <2>2
<1>5. CASE i \notin 1..Len(s)
  <2> DEFINE m == i + 1 - Len(s)
  <2>1. m \in 2..Len(q) /\ Len(s) + m - 1 = i /\ m \in 1..Len(q)
    BY <1>1, <1>2, <1>5
  <2>2. p[i] = q[m]
    BY <1>1, <2>1
  <2> HIDE DEF m
  <2>3. PICK k \in 1..(m - 1) : DisconnectsPort(q[k])
    BY <1>3, <2>1, <2>2
  <2>4. k # 1
    BY <1>3, <2>3
  <2>5. k \in 2..Len(q) /\ Len(s) + k - 1 \in 1..(i - 1)
    BY <1>2, <2>1, <2>3, <2>4
  <2>6. p[Len(s) + k - 1] = q[k]
    BY <1>1, <2>5
  <2>. QED BY <2>3, <2>5, <2>6
<1>. QED BY <1>4, <1>5

\* An update brings CONNECT back into the status only by connecting the port or by
\* overwriting another one.
LEMMA StoreConnect ==
  ASSUME HubTypes, NEW t \in Threads, Store(t), ~ConnectsPort(todo[t][1])
  PROVE  /\ lostUpdate => lostUpdate'
         /\ ~lostUpdate' /\ "CONNECT" \notin word.status => "CONNECT" \notin word'.status
         /\ ~lostUpdate' /\ DisconnectsPort(todo[t][1]) => "CONNECT" \notin word'.status
<1> DEFINE u == Head(todo[t])
<1>1. todo[t] # <<>> /\ u.do = "update" /\ todo[t] \in Seq(HubStep)
  BY DEF Store, At, HubTypes
<1>2. u \in HubStep /\ u = todo[t][1]
  BY <1>1, Rest
<1>3. u.word \in {"status", "change"}
  BY <1>1, <1>2 DEF HubStep, Finishing, Others
<1> HIDE DEF u
<1>4. PICK old \in loaded[t] :
        /\ word' = [word EXCEPT ![u.word] = (old \ u.del) \cup u.add]
        /\ lostUpdate' = (lostUpdate \/ (u.word = "status" /\ old # word.status))
  BY DEF Store, u
<1>5. lostUpdate => lostUpdate'
  BY <1>4, Zenon
<1>6. ~lostUpdate' => u.word # "status" \/ old = word.status
  BY <1>4, Zenon
<1>7. CASE u.word = "status"
  <2>1. word'.status = (old \ u.del) \cup u.add
    BY <1>4, <1>7 DEF HubTypes
  <2>2. "CONNECT" \notin u.add /\ (DisconnectsPort(u) => "CONNECT" \in u.del)
    BY <1>1, <1>2, <1>7 DEF ConnectsPort, DisconnectsPort, u
  <2>. QED BY <1>2, <1>5, <1>6, <1>7, <2>1, <2>2
<1>8. CASE u.word = "change"
  <2>1. word'.status = word.status
    BY <1>4, <1>8 DEF HubTypes
  <2>2. ~DisconnectsPort(u)
    BY <1>8 DEF DisconnectsPort
  <2>. QED BY <1>2, <1>5, <2>1, <2>2
<1>. QED BY <1>3, <1>7, <1>8

\* What a request has to answer, one at a time.
GoneClearedFor(r) ==
  \A i \in 1..Len(todo[r]) :
    todo[r][i].do = "sample" /\ todo[r][i].gone =>
      "CONNECT" \notin word.status \/ \E j \in 1..(i - 1) : DisconnectsPort(todo[r][j])

\* GoneCleared, one request at a time.
LEMMA GoneByRequest ==
  /\ GoneCleared <=> \A r \in Requests : r \notin stopped /\ ~lostUpdate => GoneClearedFor(r)
  /\ GoneCleared' <=> \A r \in Requests : r \notin stopped' /\ ~lostUpdate' => GoneClearedFor(r)'
BY DEF GoneCleared, GoneClearedFor

\* A request without an answer to come.
LEMMA NoSample ==
  ASSUME NEW r \in Requests
  PROVE  /\ ~Has(todo[r], {"sample"}) => GoneClearedFor(r)
         /\ ~Has(todo'[r], {"sample"}) => GoneClearedFor(r)'
BY DEF GoneClearedFor, Has

\* The steps of the threads.
LEMMA StepGone ==
  ASSUME HubTypes, HubSteps, \A x \in Requests : RequestOwned(x), GoneCleared, GoneIsSeen,
         NEW t \in Threads, ThreadStep(t) \/ (t \in Requests /\ RequestStep(t))
  PROVE  GoneCleared' /\ GoneIsSeen'
<1>0. /\ stopped' = stopped /\ (~Store(t) => word' = word /\ lostUpdate' = lostUpdate)
      /\ ~SamplePort(t) => goneSeen' = goneSeen
  BY DEF ThreadStep, RequestStep, Load, Store, HubCheckStatusChange, RetrieveNextRequest,
    ReportChange, CompleteStep, ProbePort, SamplePort, ParkRequest, ClearResetEvent,
    ForwardToParent, WaitReset, CyclePort, ResetDevice, portVars, reqHubVars, noteVars
<1>1. lostUpdate => lostUpdate'
  <2>1. Store(t) => (lostUpdate => lostUpdate')
    BY Zenon DEF Store
  <2>. QED BY <1>0, <2>1
<1>2. /\ todo[t] \in Seq(HubStep)
      /\ todo[t] # <<>> => Head(todo[t]) = todo[t][1] /\ 1 \in 1..Len(todo[t])
  <2>1. todo[t] \in Seq(HubStep)
    BY DEF HubTypes
  <2>. QED BY <2>1, Rest
\* While an answer is to come, an update only clears CONNECT.
<1>3. ASSUME NEW r \in Requests, r \notin stopped, ~lostUpdate', Has(todo[r], {"sample"})
      PROVE  /\ "CONNECT" \notin word.status => "CONNECT" \notin word'.status
             /\ Store(t) /\ DisconnectsPort(todo[t][1]) => "CONNECT" \notin word'.status
  <2>1. Store(t) => ~ConnectsPort(todo[t][1])
    <3>1. Store(t) => todo[t] # <<>>
      BY Zenon DEF Store, At
    <3>. QED BY <1>2, <1>3, <3>1, WhileSampling
  <2>2. CASE Store(t)
    BY <1>3, <2>1, <2>2, StoreConnect
  <2>3. CASE ~Store(t)
    BY <1>0, <2>3
  <2>. QED BY <2>2, <2>3
\* The other threads.
<1>4. ASSUME NEW r \in Requests, r \notin stopped, ~lostUpdate', todo'[r] = todo[r]
      PROVE  GoneClearedFor(r)'
  <2>1. CASE ~Has(todo[r], {"sample"})
    BY <1>4, <2>1, NoSample
  <2>2. CASE Has(todo[r], {"sample"})
    <3>1. GoneClearedFor(r) /\ ("CONNECT" \notin word.status => "CONNECT" \notin word'.status)
      BY <1>1, <1>3, <1>4, <2>2, GoneByRequest
    <3>. QED BY <1>4, <3>1 DEF GoneClearedFor
  <2>. QED BY <2>1, <2>2
\* The thread itself.
<1>5. ASSUME NEW s, Advanced(t, s), t \in Requests, t \notin stopped, ~lostUpdate',
             Head(todo[t]).do # "update" \/ (Store(t) /\ ~Has(s, {"sample"})),
             \A i \in 1..Len(s) : s[i].do = "sample" =>
                  (s[i].gone /\ "CONNECT" \in word.status =>
                    \E j \in 1..(i - 1) : DisconnectsPort(s[j]))
      PROVE  GoneClearedFor(t)'
  <2> DEFINE q == todo[t]
             p == s \o Tail(q)
             B == "CONNECT" \notin word'.status
             C == "CONNECT" \notin word.status
  <2>0. Store(t) => todo[t] # <<>> /\ Head(todo[t]).do = "update"
    BY Zenon DEF Store, At
  <2>1. q \in Seq(HubStep) /\ q # <<>> /\ s \in Seq(HubStep) /\ todo'[t] = p
    BY <1>2, <1>5 DEF Advanced, Added, HubTypes
  <2>2. \A i \in 1..Len(q) : q[i].do = "sample" /\ q[i].gone =>
          C \/ \E j \in 1..(i - 1) : DisconnectsPort(q[j])
    <3>1. GoneClearedFor(t)
      BY <1>1, <1>5, GoneByRequest
    <3>. QED BY <3>1 DEF GoneClearedFor
  <2>3. CASE Store(t) /\ ~Has(q, {"sample"})
    <3>1. ~Has(todo'[t], {"sample"})
      BY <1>5, <2>0, <2>3, StillToCome
    <3>. QED BY <1>5, <3>1, NoSample
  <2>4. CASE ~(Store(t) /\ ~Has(q, {"sample"}))
    <3>1. C => B
      BY <1>0, <1>3, <1>5, <2>4
    <3>2. B \/ ~DisconnectsPort(q[1])
      BY <1>2, <1>3, <1>5, <2>0, <2>1, <2>4 DEF DisconnectsPort
    <3>3. \A i \in 1..Len(s) : s[i].do = "sample" /\ s[i].gone =>
            B \/ \E j \in 1..(i - 1) : DisconnectsPort(s[j])
      BY <1>5, <3>1
    <3> HIDE DEF q, B, C
    <3>4. \A i \in 1..Len(p) : p[i].do = "sample" /\ p[i].gone =>
            B \/ \E j \in 1..(i - 1) : DisconnectsPort(p[j])
      BY <2>1, <2>2, <3>1, <3>2, <3>3, GoneOnward
    <3>. QED BY <2>1, <3>4 DEF GoneClearedFor, B
  <2>. QED BY <2>3, <2>4
<1>6. \A r \in Requests : r # t /\ (\E s : Advanced(t, s)) => todo'[r] = todo[r]
  <2>1. Requests \subseteq Threads
    BY Members
  <2>. QED BY <2>1, StillToCome
\* A step that asks for no answer.
<1>7. ASSUME NEW s, Advanced(t, s), ~Has(s, {"sample"}),
             Head(todo[t]).do # "update" \/ Store(t)
      PROVE  GoneCleared'
  <2>1. \A i \in 1..Len(s) : s[i].do # "sample"
    BY <1>7 DEF Has
  <2>2. ASSUME NEW r \in Requests, r \notin stopped, ~lostUpdate' PROVE GoneClearedFor(r)'
    <3>1. CASE r = t
      BY <1>5, <1>7, <2>1, <2>2, <3>1
    <3>2. CASE r # t
      BY <1>4, <1>6, <1>7, <2>2, <3>2
    <3>. QED BY <3>1, <3>2
  <2>. QED BY <1>0, <2>2, GoneByRequest
<1>8. ~Has(<<>>, {"sample"})
  <2>1. Len(<<>>) = 0
    OBVIOUS
  <2>. QED BY <2>1 DEF Has
<1>9. ASSUME NEW a \in HubStep, a.do # "sample" PROVE ~Has(<<a>>, {"sample"})
  <2>1. Len(<<a>>) = 1 /\ <<a>>[1] = a /\ 1..1 = {1}
    OBVIOUS
  <2>. QED BY <1>9, <2>1 DEF Has
<1>10. /\ ~Has(<<Do("retrieve")>>, {"sample"}) /\ ~Has(<<Do("report")>>, {"sample"})
       /\ ~Has(<<Clear("status", {"RESET"})>>, {"sample"})
       /\ ~Has(<<Set("status", {"ENABLE"})>>, {"sample"})
  <2>1. /\ Do("retrieve") \in HubStep /\ Do("retrieve").do = "retrieve"
        /\ Do("report") \in HubStep /\ Do("report").do = "report"
    BY StepKinds DEF Others
  <2> DEFINE a == Clear("status", {"RESET"})
             b == Set("status", {"ENABLE"})
  <2>2. a \in HubStep /\ a.do = "update" /\ b \in HubStep /\ b.do = "update"
    BY StepKinds DEF Features
  <2> HIDE DEF a, b
  <2>3. ~Has(<<a>>, {"sample"}) /\ ~Has(<<b>>, {"sample"})
    BY <1>9, <2>2
  <2>4. ~Has(<<Do("retrieve")>>, {"sample"}) /\ ~Has(<<Do("report")>>, {"sample"})
    BY <1>9, <2>1
  <2>. QED BY <2>3, <2>4 DEF a, b
<1>11. CASE ProbePort(t)
  <2> DEFINE z == ProbeSteps \o <<[do |-> "sample", gone |-> ~portConnected]>>
  <2>1. Advanced(t, z)
    BY <1>11, Moves
  <2>2. todo[t] # <<>> /\ Head(todo[t]).do = "probe"
    BY <1>11, Zenon DEF ProbePort, At
  <2>3. \A i \in 1..Len(z) : z[i].do = "sample" =>
          (z[i].gone /\ "CONNECT" \in word.status => \E j \in 1..(i - 1) : DisconnectsPort(z[j]))
    BY <1>2, <2>2, ProbeAdded
  <2> HIDE DEF z
  <2>4. ASSUME NEW r \in Requests, r \notin stopped, ~lostUpdate' PROVE GoneClearedFor(r)'
    <3>1. CASE r = t
      BY <1>5, <2>1, <2>2, <2>3, <2>4, <3>1
    <3>2. CASE r # t
      BY <1>4, <1>6, <2>1, <2>4, <3>2
    <3>. QED BY <3>1, <3>2
  <2>5. GoneCleared'
    BY <1>0, <2>4, GoneByRequest
  <2>6. goneSeen' = goneSeen
    BY <1>11, Zenon DEF ProbePort, noteVars
  <2>. QED BY <1>1, <2>5, <2>6 DEF GoneIsSeen
<1>12. CASE SamplePort(t)
  <2> DEFINE z == IF "RESET" \in word.status THEN <<Clear("status", {"RESET"})>> ELSE <<>>
  <2>1. Advanced(t, z) /\ ~Has(z, {"sample"})
    BY <1>8, <1>10, <1>12, Moves
  <2> HIDE DEF z
  <2>2. todo[t] # <<>> /\ Head(todo[t]).do = "sample"
    BY <1>12, Zenon DEF SamplePort, At
  <2>3. GoneCleared'
    BY <1>7, <2>1, <2>2
  <2>4. t \in Requests
    BY <2>2, Zenon DEF ThreadStep, Load, Store, HubCheckStatusChange, RetrieveNextRequest,
      ReportChange, At
  <2>5. Head(todo[t]).gone /\ "CONNECT" \in word.status /\ t \notin stopped => lostUpdate
    <3>1. SUFFICES ASSUME Head(todo[t]).gone, "CONNECT" \in word.status, t \notin stopped,
                          ~lostUpdate
                   PROVE  FALSE
      OBVIOUS
    <3>2. \E j \in 1..(1 - 1) : DisconnectsPort(todo[t][j])
      BY <1>2, <2>2, <2>4, <3>1 DEF GoneCleared
    <3>. QED BY <3>2
  <2>6. goneSeen' =>
          goneSeen \/ (Head(todo[t]).gone /\ "CONNECT" \in word.status /\ t \notin stopped)
    BY <1>12, Zenon DEF SamplePort
  <2>. QED BY <1>1, <2>3, <2>5, <2>6 DEF GoneIsSeen
<1>13. CASE ~ProbePort(t) /\ ~SamplePort(t)
  <2>1. GoneCleared'
    <3>1. CASE Load(t) /\ todo' = todo
      BY <1>0, <1>4, <3>1, GoneByRequest
    <3>2. CASE ParkRequest(t) /\ todo' = [todo EXCEPT ![t] = <<Complete>>]
      <4>1. Complete \in HubStep /\ Complete.do # "sample"
        BY StepKinds
      <4>2. ~Has(todo'[t], {"sample"}) /\ \A r \in Requests : r # t => todo'[r] = todo[r]
        BY <1>9, <3>2, <4>1, Members DEF HubTypes
      <4>3. ASSUME NEW r \in Requests, r \notin stopped, ~lostUpdate' PROVE GoneClearedFor(r)'
        BY <1>4, <4>2, <4>3, NoSample
      <4>. QED BY <1>0, <4>3, GoneByRequest
    <3>3. CASE \E s : Advanced(t, s) /\ ~Has(s, {"sample"})
                      /\ (Head(todo[t]).do # "update" \/ Store(t))
      BY <1>7, <3>3
    <3>4. CASE \/ CompleteStep(t) \/ ReportChange(t) \/ ClearResetEvent(t) \/ ForwardToParent(t)
               \/ CyclePort(t) \/ ResetDevice(t) \/ HubCheckStatusChange(t)
               \/ RetrieveNextRequest(t) \/ WaitReset(t) \/ ParkRequest(t)
      <4>1. Head(todo[t]).do # "update"
        BY <3>4, Zenon DEF CompleteStep, ReportChange, ClearResetEvent, ForwardToParent,
          CyclePort, ResetDevice, HubCheckStatusChange, RetrieveNextRequest, WaitReset, ParkRequest,
          At
      <4>2. \/ todo' = [todo EXCEPT ![t] = <<Complete>>] /\ ParkRequest(t)
            \/ \E s \in {<<>>, <<Do("retrieve")>>, <<Do("report")>>,
                          <<Set("status", {"ENABLE"})>>} : Advanced(t, s)
        BY <3>4, Moves
      <4>. QED BY <1>8, <1>10, <3>2, <3>3, <4>1, <4>2
    <3>5. CASE Store(t)
      <4>1. Advanced(t, <<>>)
        BY <3>5, Moves
      <4>. QED BY <1>8, <3>3, <3>5, <4>1
    <3>6. CASE Load(t)
      <4>1. todo' = todo
        BY <3>6, Zenon DEF Load
      <4>. QED BY <3>1, <3>6, <4>1
    <3>. QED BY <1>13, <3>4, <3>5, <3>6, Zenon DEF ThreadStep, RequestStep
  <2>. QED BY <1>0, <1>1, <1>13, <2>1 DEF GoneIsSeen
<1>. QED BY <1>11, <1>12, <1>13

\* A new request has no answer yet.
LEMMA DispatchGone ==
  ASSUME HubTypes, HubSteps, GoneCleared, GoneIsSeen, NEW r \in Requests,
         \/ r \in HubRequests /\ HubEvtIoInternalDeviceControl(r)
         \/ r \in StatusRequests /\ HubProcessHubInterruptRequest(r)
  PROVE  GoneCleared' /\ GoneIsSeen'
<1>1. PICK q \in Seq(HubStep) : Dispatch(r, q) /\ ~Has(q, {"sample"})
  BY DispatchTypes
<1>2. /\ todo' = [todo EXCEPT ![r] = q] /\ stopped' = stopped \ {r}
      /\ UNCHANGED <<word, lostUpdate, goneSeen>>
  BY <1>1 DEF Dispatch, HubEvtIoInternalDeviceControl, HubProcessHubInterruptRequest, portVars,
    noteVars
<1>3. todo'[r] = q /\ \A x \in Requests : x # r => todo'[x] = todo[x]
  BY <1>2, Members DEF HubTypes
<1>4. ASSUME NEW x \in Requests, x \notin stopped', ~lostUpdate' PROVE GoneClearedFor(x)'
  <2>1. CASE x = r
    BY <1>1, <1>3, <2>1, NoSample
  <2>2. CASE x # r
    <3>1. GoneClearedFor(x)
      BY <1>2, <1>4, <2>2, GoneByRequest
    <3>. QED BY <1>2, <1>3, <2>2, <3>1 DEF GoneClearedFor
  <2>. QED BY <2>1, <2>2
<1>. QED BY <1>2, <1>4, GoneByRequest DEF GoneIsSeen

\* The parent, the client and the PnP thread change no answer to come.
LEMMA OutsideGone ==
  ASSUME HubTypes, GoneCleared, GoneIsSeen,
         \/ \E r \in Requests : HubEvtIoStop(r) \/ ParentCompletes(r)
         \/ \E r \in StatusRequests : CancelParked(r)
         \/ ParentLosesDevice \/ Framework
  PROVE  GoneCleared' /\ GoneIsSeen'
<1>1. UNCHANGED <<word, lostUpdate, goneSeen>> /\ stopped \subseteq stopped'
  BY DEF HubEvtIoStop, ParentCompletes, CancelParked, ParentLosesDevice, Framework,
    HubEvtDeviceD0Entry, StartQueues, HubEvtDeviceSurpriseRemoval, StopQueues,
    HubEvtDeviceD0Exit, HubPoweredDown, portVars, reqHubVars, noteVars
<1>2. \A x \in Requests : todo'[x] = todo[x]
  <2>1. \A x \in Requests : x \in Threads /\ x # "pnp"
    BY Members
  <2>. QED BY <2>1 DEF HubEvtIoStop, ParentCompletes, CancelParked, ParentLosesDevice, Framework,
    HubEvtDeviceD0Entry, StartQueues, HubEvtDeviceSurpriseRemoval, StopQueues,
    HubEvtDeviceD0Exit, HubPoweredDown, HubTypes
<1>3. ASSUME NEW x \in Requests, x \notin stopped', ~lostUpdate' PROVE GoneClearedFor(x)'
  <2>1. GoneClearedFor(x)
    BY <1>1, <1>3, GoneByRequest
  <2>. QED BY <1>1, <1>2, <2>1 DEF GoneClearedFor
<1>. QED BY <1>1, <1>3, GoneByRequest DEF GoneIsSeen

--------------------------------------------------------------------------------
(* The invariant.                                                           *)

\* HubQueueInitialize: nobody has anything to do.
LEMMA InitInv == HubInit => HubInv
<1>1. SUFFICES ASSUME HubInit PROVE HubInv
  OBVIOUS
<1>2. /\ todo = [t \in Threads |-> <<>>] /\ taken = [t \in Threads |-> {}] /\ parked = <<>>
      /\ holder = [r \in Requests |-> "client"] /\ completions = [r \in Requests |-> 0]
      /\ hubOp = [r \in HubRequests |-> "LOCAL"] /\ stopped = {} /\ signalled = {}
      /\ overlapped = {} /\ goneSeen = FALSE /\ hubPower = "Dx"
      /\ loaded = [t \in Threads |-> {}] /\ portConnected \in BOOLEAN
      /\ word = [status |-> IF portConnected THEN {"CONNECT"} ELSE {}, change |-> {"CONNECT"}]
  BY <1>1 DEF HubInit, HubInitWith
<1>3. /\ <<>> \in Seq(HubStep) /\ <<>> \in Seq(StatusRequests) /\ Len(<<>>) = 0
      /\ 1..0 = {} /\ \A D : ~Has(<<>>, D)
  BY DEF Has
<1>4. \A t \in Threads : todo[t] = <<>> /\ taken[t] = {}
  BY <1>2
<1>5. HubTypes
  <2>1. word \in [status : SUBSET Features, change : SUBSET Features]
    BY <1>2 DEF Features
  <2>2. resetCompleteEvent \in BOOLEAN /\ lostUpdate \in BOOLEAN /\ unreported \in BOOLEAN
    BY <1>1, Zenon DEF HubInit, HubInitWith
  <2>3. goneSeen \in BOOLEAN
    BY <1>2, Zenon
  <2>4. todo \in [Threads -> Seq(HubStep)] /\ parked \in Seq(StatusRequests)
    BY <1>2, <1>3
  <2>5. /\ loaded \in [Threads -> SUBSET SUBSET Features]
        /\ taken \in [Threads -> SUBSET StatusRequests]
        /\ holder \in [Requests -> {"client", "handler", "queue", "parent"}]
        /\ completions \in [Requests -> Nat] /\ hubOp \in [HubRequests -> AllHubOps]
        /\ hubPower \in {"Dx", "entry", "D0", "stopping", "exit"}
    BY <1>2 DEF AllHubOps
  <2>. QED BY <1>2, <2>1, <2>2, <2>3, <2>4, <2>5 DEF HubTypes
<1>6. HubSteps
  <2>1. Orderly(<<>>)
    BY <1>3 DEF Orderly, OnlyOne, ClearsFirst, FinishFollows, CheckFollows
  <2>. QED BY <1>2, <1>3, <1>4, <2>1, Members DEF HubSteps
<1>7. ASSUME NEW r \in Requests PROVE RequestOwned(r)
  <2>1. ~Held(r) /\ ~Has(todo[r], Finishing) /\ TakenByOne(r)
    BY <1>3, <1>4, Members DEF Held, TakenByOne
  <2>. QED BY <1>2, <2>1 DEF RequestOwned
<1>8. ParkedOnce
  BY <1>2, <1>3 DEF ParkedOnce
<1>9. ResetAlone
  BY <1>2 DEF ResetAlone, ResetsUnderWay
<1>10. EventOwned
  BY <1>3, <1>4, Members DEF EventOwned
<1>11. GoneCleared
  BY <1>3, <1>4, Members DEF GoneCleared
<1>. QED BY <1>2, <1>5, <1>6, <1>7, <1>8, <1>9, <1>10, <1>11 DEF HubInv, GoneIsSeen

\* The steps of the threads.
LEMMA ThreadInv ==
  ASSUME HubInv, NEW t \in Threads, ThreadStep(t) \/ (t \in Requests /\ RequestStep(t))
  PROVE  HubInv'
<1>1. /\ HubTypes /\ HubSteps /\ (\A x \in Requests : RequestOwned(x)) /\ ParkedOnce
      /\ ResetAlone /\ EventOwned /\ GoneCleared /\ GoneIsSeen
  BY DEF HubInv
<1>2. HubTypes' /\ HubSteps'
  BY <1>1, ThreadStepTypes
<1>3. ResetAlone' /\ EventOwned'
  BY <1>1, StepReset
<1>4. GoneCleared' /\ GoneIsSeen'
  BY <1>1, StepGone
<1>5. (\A x \in Requests : RequestOwned(x)') /\ ParkedOnce'
  <2>1. CASE RetrieveNextRequest(t)
    BY <1>1, <2>1, RetrieveOwned
  <2>2. CASE ReportChange(t)
    BY <1>1, <2>2, ReportOwned
  <2>3. CASE t \in Requests /\ (CompleteStep(t) \/ ForwardToParent(t) \/ ParkRequest(t))
    BY <1>1, <2>3, FinishOwned
  <2>4. CASE \/ Load(t) \/ Store(t) \/ HubCheckStatusChange(t) \/ ProbePort(t) \/ SamplePort(t)
             \/ ClearResetEvent(t) \/ WaitReset(t) \/ CyclePort(t) \/ ResetDevice(t)
    <3>1. UNCHANGED <<holder, completions, stopped, taken, parked, hubPower>>
      BY <2>4 DEF Load, Store, HubCheckStatusChange, ProbePort, SamplePort, ClearResetEvent,
        WaitReset, CyclePort, ResetDevice, portVars, reqHubVars
    <3>2. (\E s : Advanced(t, s)) \/ todo' = todo
      <4>1. Load(t) => todo' = todo
        BY Zenon DEF Load
      <4>. QED BY <1>1, <2>4, <4>1, Moves, Zenon
    <3>. QED BY <1>1, <3>1, <3>2, QuietOwned
  <2>. QED BY <2>1, <2>2, <2>3, <2>4, Zenon DEF ThreadStep, RequestStep
<1>. QED BY <1>2, <1>3, <1>4, <1>5 DEF HubInv

\* A dispatch.
LEMMA DispatchInv ==
  ASSUME HubInv, NEW r \in Requests,
         \/ r \in HubRequests /\ HubEvtIoInternalDeviceControl(r)
         \/ r \in StatusRequests /\ HubProcessHubInterruptRequest(r)
  PROVE  HubInv'
<1>1. /\ HubTypes /\ HubSteps /\ (\A x \in Requests : RequestOwned(x)) /\ ParkedOnce
      /\ ResetAlone /\ EventOwned /\ GoneCleared /\ GoneIsSeen
  BY DEF HubInv
<1>2. HubTypes' /\ HubSteps' /\ \E q \in Seq(HubStep) : Dispatch(r, q)
  BY <1>1, DispatchTypes
<1>3. UNCHANGED <<portVars, taken>>
  BY DEF HubEvtIoInternalDeviceControl, HubProcessHubInterruptRequest
<1>4. (\A x \in Requests : RequestOwned(x)') /\ ParkedOnce'
  BY <1>1, <1>2, <1>3, DispatchOwned
<1>5. ResetAlone' /\ EventOwned'
  BY <1>1, DispatchReset
<1>6. GoneCleared' /\ GoneIsSeen'
  BY <1>1, DispatchGone
<1>. QED BY <1>2, <1>4, <1>5, <1>6 DEF HubInv

\* The parent, the client and the framework.
LEMMA OutsideInv ==
  ASSUME HubInv,
         \/ \E r \in Requests : HubEvtIoStop(r) \/ ParentCompletes(r)
         \/ \E r \in StatusRequests : CancelParked(r)
         \/ ParentLosesDevice \/ Framework
  PROVE  HubInv'
<1>1. /\ HubTypes /\ HubSteps /\ (\A x \in Requests : RequestOwned(x)) /\ ParkedOnce
      /\ ResetAlone /\ EventOwned /\ GoneCleared /\ GoneIsSeen
  BY DEF HubInv
<1>2. HubTypes' /\ HubSteps'
  BY <1>1, OutsideTypes, FrameworkTypes
<1>3. (\A x \in Requests : RequestOwned(x)') /\ ParkedOnce'
  <2>1. CASE ParentLosesDevice
    <3>1. UNCHANGED <<holder, completions, stopped, taken, parked, hubPower, todo>>
      BY <2>1 DEF ParentLosesDevice, reqHubVars
    <3>2. "pnp" \in Threads
      BY Members
    <3>. QED BY <1>1, <3>1, <3>2, QuietOwned
  <2>2. CASE Framework
    BY <1>1, <2>2, FrameworkOwned
  <2>3. CASE \/ \E r \in Requests : HubEvtIoStop(r) \/ ParentCompletes(r)
             \/ \E r \in StatusRequests : CancelParked(r)
    <3>1. StatusRequests \subseteq Requests
      BY Members
    <3>. QED BY <1>1, <2>3, <3>1, OutsideOwned
  <2>. QED BY <2>1, <2>2, <2>3
<1>4. ResetAlone' /\ EventOwned'
  BY <1>1, ParentReset, OutsideReset
<1>5. GoneCleared' /\ GoneIsSeen'
  BY <1>1, OutsideGone
<1>. QED BY <1>2, <1>3, <1>4, <1>5 DEF HubInv

\* Every step of the hub.
LEMMA NextInv ==
  ASSUME HubInv, [HubNext]_hubVars
  PROVE  HubInv'
<1>0. /\ HubRequests \subseteq Requests /\ StatusRequests \subseteq Requests
      /\ Requests \subseteq Threads
  BY Members
<1>1. CASE HubNext
  <2>1. CASE \/ \E r \in HubRequests : HubEvtIoInternalDeviceControl(r)
             \/ \E r \in StatusRequests : HubProcessHubInterruptRequest(r)
    BY <1>0, <2>1, DispatchInv
  <2>2. CASE \/ \E t \in Threads : ThreadStep(t)
             \/ \E r \in Requests : RequestStep(r)
    BY <1>0, <2>2, ThreadInv
  <2>3. CASE \/ \E r \in Requests : HubEvtIoStop(r) \/ ParentCompletes(r)
             \/ \E r \in StatusRequests : CancelParked(r)
             \/ ParentLosesDevice \/ Framework
    BY <2>3, OutsideInv
  <2>. QED BY <1>1, <2>1, <2>2, <2>3, Zenon DEF HubNext, Framework
<1>2. CASE UNCHANGED hubVars
  BY <1>2 DEF hubVars, portVars, reqHubVars, resetVars, noteVars, hubBounds, HubInv, HubTypes,
    HubSteps, RequestOwned, Held, TakenByOne, ParkedOnce, ResetAlone, ResetsUnderWay, EventOwned,
    GoneCleared, GoneIsSeen
<1>. QED BY <1>1, <1>2

\* Every state of the hub satisfies the inductive invariant: what the sequences of
\* steps look like, who owns each request, and what each part above says.
THEOREM HubInvariant == HubSpec => []HubInv
<1>1. HubInit => HubInv
  BY InitInv
<1>2. HubInv /\ [HubNext]_hubVars => HubInv'
  BY NextInv
<1>. QED BY <1>1, <1>2, PTL DEF HubSpec

\* A request of the hub driver that EvtIoStop leaves alone is completed once: by
\* its handler, by the thread that reports a change with it, by its cancellation
\* in StatusChangeQueue or by the parent it was forwarded to.
THEOREM HubRequestsCompletedOnce == HubSpec => []HubCompletesOnce
<1>1. HubInv => HubCompletesOnce
  BY DEF HubInv, RequestOwned, HubCompletesOnce
<1>. QED BY <1>1, HubInvariant, PTL

\* A port reset that no other reset and no cycle of the port overlaps finds the
\* event set exactly when the parent has answered it: neither the answer to an
\* earlier reset nor one that came before the wait began misleads it.
THEOREM ResetWaitsForItsOwn == HubSpec => []EventIsOfThisReset
<1>1. ASSUME HubInv PROVE EventIsOfThisReset
  <2>1. SUFFICES ASSUME NEW r \in HubRequests, At(r, "wait"), r \notin overlapped
                 PROVE  resetCompleteEvent <=> r \in signalled
    BY DEF EventIsOfThisReset
  <2>2. r \in Threads /\ todo[r] \in Seq(HubStep) /\ todo[r] # <<>> /\ Head(todo[r]).do = "wait"
    BY <1>1, <2>1, Members DEF HubInv, HubTypes, At
  <2>3. Head(todo[r]) = todo[r][1] /\ 1 \in 1..Len(todo[r])
    BY <2>2, Rest
  <2>4. Has(todo[r], {"wait"})
    BY <2>2, <2>3 DEF Has
  <2>5. ~Has(todo[r], {"clearEvent"})
    <3>1. ClearsFirst(todo[r])
      BY <1>1, <2>2 DEF HubInv, HubSteps, Orderly
    <3>. QED BY <2>2, <2>3, <3>1 DEF ClearsFirst, Has
  <2>. QED BY <1>1, <2>1, <2>4, <2>5 DEF HubInv, EventOwned
<1>. QED BY <1>1, HubInvariant, PTL

\* GET_STATUS does not report a connected port that its parent has lost, unless a
\* racing update of the status word was overwritten.
THEOREM GoneIsSeenAlways == HubSpec => []GoneIsSeen
<1>1. HubInv => GoneIsSeen
  BY DEF HubInv
<1>. QED BY <1>1, HubInvariant, PTL

--------------------------------------------------------------------------------
(* A change that is reported.                                               *)

\* The hub driver keeps one interrupt transfer pending.
OneInterruptTransfer == \A x, y \in StatusRequests : x = y

\* One interrupt transfer is parked at most once.
LEMMA OneParked ==
  ASSUME OneInterruptTransfer, HubTypes, ParkedOnce
  PROVE  parked \in Seq(StatusRequests) /\ (Len(parked) = 0 \/ Len(parked) = 1)
<1>1. parked \in Seq(StatusRequests) /\ Len(parked) \in Nat
  BY DEF HubTypes
<1>2. ASSUME Len(parked) >= 2 PROVE FALSE
  <2>1. 1 \in 1..Len(parked) /\ 2 \in 1..Len(parked)
    BY <1>1, <1>2
  <2>2. parked[1] \in StatusRequests /\ parked[2] \in StatusRequests
    BY <1>1, <2>1
  <2>. QED BY <2>1, <2>2 DEF OneInterruptTransfer, ParkedOnce
<1>3. PICK n \in Nat : n = Len(parked)
  BY <1>1
<1>4. n = 0 \/ n = 1
  BY <1>2, <1>3
<1>. QED BY <1>1, <1>3, <1>4

\* Who will look for a parked request.
LEMMA WillCheckHas ==
  \A t : /\ WillCheck(t) <=> Has(todo[t], {"check", "retrieve"})
         /\ WillCheck(t)' <=> Has(todo'[t], {"check", "retrieve"})
BY DEF WillCheck, Has

\* A step that makes no change, parks nothing and stops nobody who will check.
LEMMA ChangeKept ==
  ASSUME ChangeIsReported,
         word'.change # {} => word.change # {}, parked' # <<>> => parked # <<>>,
         unreported => unreported',
         \A t \in Threads : WillCheck(t) => WillCheck(t)'
  PROVE  ChangeIsReported'
BY DEF ChangeIsReported

\* A store in the change word: an overwritten one is noted, a change made aloud is
\* followed by a check.
LEMMA StoreReported ==
  ASSUME HubTypes, HubSteps, ChangeIsReported, NEW t \in Threads, Store(t)
  PROVE  ChangeIsReported'
<1> DEFINE u == Head(todo[t])
<1>1. todo[t] # <<>> /\ u.do = "update" /\ todo[t] \in Seq(HubStep) /\ Orderly(todo[t])
  BY DEF Store, At, HubTypes, HubSteps
<1>2. u \in HubStep /\ u = todo[t][1] /\ 1 \in 1..Len(todo[t])
  BY <1>1, Rest
<1>3. u.word \in {"status", "change"}
  BY <1>1, <1>2 DEF HubStep, Finishing, Others
<1>4. PICK old \in loaded[t] :
        /\ word' = [word EXCEPT ![u.word] = (old \ u.del) \cup u.add]
        /\ unreported' = (unreported \/ u.silent \/ (u.word = "change" /\ old # word.change))
  BY DEF Store
<1>5. parked' = parked
  BY DEF Store
<1>6. Advanced(t, <<>>)
  BY Moves
<1>7. \A x \in Threads : WillCheck(x) => WillCheck(x)'
  <2>1. u.do \notin {"check", "retrieve"}
    BY <1>1
  <2>. QED BY <1>6, <2>1, StillToCome, WillCheckHas
<1>8. Tells(u) => WillCheck(t)'
  <2>1. SUFFICES ASSUME Tells(u) PROVE WillCheck(t)'
    OBVIOUS
  <2>2. PICK j \in (1 + 1)..Len(todo[t]) : todo[t][j].do = "check"
    BY <1>1, <1>2, <2>1 DEF Orderly, CheckFollows
  <2>3. j \in 1..Len(todo[t])
    BY <1>1
  <2>4. WillCheck(t)
    BY <2>2, <2>3 DEF WillCheck
  <2>. QED BY <1>7, <2>4
<1> HIDE DEF u
<1>9. /\ unreported => unreported'
      /\ ~unreported' => ~u.silent /\ (u.word = "change" => old = word.change)
  BY <1>4, Zenon
<1>10. CASE u.word = "status"
  <2>1. word'.change = word.change
    BY <1>4, <1>10 DEF HubTypes
  <2>. QED BY <1>5, <1>7, <1>9, <2>1, ChangeKept
<1>11. CASE u.word = "change" /\ ~unreported'
  <2>1. word'.change = (word.change \ u.del) \cup u.add /\ ~u.silent
    BY <1>4, <1>9, <1>11 DEF HubTypes
  <2>2. CASE u.add = {}
    BY <1>5, <1>7, <1>9, <2>1, <2>2, ChangeKept
  <2>3. CASE u.add # {}
    <3>1. Tells(u)
      BY <1>1, <1>2, <1>11, <2>1, <2>3 DEF Tells, u
    <3>. QED BY <1>8, <3>1 DEF ChangeIsReported
  <2>. QED BY <2>2, <2>3
<1>12. CASE unreported'
  BY <1>12 DEF ChangeIsReported
<1>. QED BY <1>3, <1>10, <1>11, <1>12

\* The check itself, and the request it takes.
LEMMA CheckReported ==
  ASSUME OneInterruptTransfer, HubTypes, HubSteps, ParkedOnce, ChangeIsReported,
         NEW t \in Threads, HubCheckStatusChange(t) \/ RetrieveNextRequest(t)
  PROVE  ChangeIsReported'
<1>1. CASE HubCheckStatusChange(t)
  <2>1. word' = word /\ todo[t] \in Seq(HubStep)
    BY <1>1 DEF HubCheckStatusChange, portVars, HubTypes
  <2>2. CASE word.change = {}
    BY <2>1, <2>2 DEF ChangeIsReported
  <2>3. CASE word.change # {}
    <3> DEFINE a == Do("retrieve")
               s == <<a>>
               p == s \o Tail(todo[t])
    <3>1. Advanced(t, s)
      BY <1>1, <2>3, Moves
    <3>2. a \in HubStep /\ a.do = "retrieve" /\ todo[t] # <<>> /\ todo'[t] = p
      BY <3>1, StepKinds DEF Others, Advanced, HubTypes
    <3> HIDE DEF a
    <3>3. s \in Seq(HubStep) /\ Len(s) = 1 /\ s[1] = a
      BY <3>2
    <3>4. Len(p) = Len(s) + Len(todo[t]) - 1 /\ \A i \in 1..Len(s) : p[i] = s[i]
      BY <2>1, <3>2, <3>3, Behind
    <3>5. Len(todo[t]) >= 1 /\ Len(todo[t]) \in Nat
      BY <2>1, <3>2, Rest
    <3> HIDE DEF p, s
    <3>6. 1 \in 1..Len(p) /\ p[1].do = "retrieve"
      BY <3>2, <3>3, <3>4, <3>5
    <3>7. WillCheck(t)'
      BY <3>2, <3>6 DEF WillCheck
    <3>. QED BY <3>7 DEF ChangeIsReported
  <2>. QED BY <2>2, <2>3
<1>2. CASE RetrieveNextRequest(t)
  <2>1. unreported' = ~QueuesStarted
    BY <1>2 DEF RetrieveNextRequest
  <2>2. CASE ~QueuesStarted
    BY <2>1, <2>2 DEF ChangeIsReported
  <2>3. CASE QueuesStarted
    <3>1. \/ parked = <<>> /\ UNCHANGED <<parked, taken, holder>>
          \/ parked' = Tail(parked) /\ parked # <<>>
      BY <1>2, <2>3, Zenon DEF RetrieveNextRequest
    <3>2. CASE parked = <<>> /\ UNCHANGED <<parked, taken, holder>>
      BY <3>2 DEF ChangeIsReported
    <3>3. CASE parked' = Tail(parked) /\ parked # <<>>
      <4>1. Len(Tail(parked)) = 0 /\ Tail(parked) \in Seq(StatusRequests)
        BY <3>3, OneParked
      <4>2. parked' = <<>>
        BY <3>3, <4>1
      <4>. QED BY <4>2 DEF ChangeIsReported
    <3>. QED BY <3>1, <3>2, <3>3
  <2>. QED BY <2>2, <2>3
<1>. QED BY <1>1, <1>2

\* A request that is parked is followed by a check; one that is refused was the
\* only one.
LEMMA ParkReported ==
  ASSUME OneInterruptTransfer, HubTypes, HubSteps, \A x \in Requests : RequestOwned(x),
         ParkedOnce, ChangeIsReported, NEW r \in Requests, ParkRequest(r)
  PROVE  ChangeIsReported'
<1>1. /\ todo[r] # <<>> /\ Head(todo[r]).do = "park" /\ todo[r] \in Seq(HubStep)
      /\ Orderly(todo[r]) /\ r \in Threads
  BY Members DEF ParkRequest, At, HubTypes, HubSteps
<1>2. Head(todo[r]) = todo[r][1] /\ 1 \in 1..Len(todo[r])
  BY <1>1, Rest
<1>3. CASE Advance(r)
  <2>1. Advanced(r, <<>>)
    BY <1>1, <1>3, AdvanceIs
  <2>2. PICK j \in (1 + 1)..Len(todo[r]) : todo[r][j].do = "check"
    BY <1>1, <1>2 DEF Orderly, CheckFollows, Tells
  <2>3. j \in 1..Len(todo[r])
    BY <1>1
  <2>4. Has(todo[r], {"check", "retrieve"}) /\ Head(todo[r]).do \notin {"check", "retrieve"}
    BY <1>1, <2>2, <2>3 DEF Has
  <2>5. Has(todo'[r], {"check", "retrieve"})
    BY <1>1, <2>1, <2>4, StillToCome
  <2>. QED BY <1>1, <2>5, WillCheckHas DEF ChangeIsReported
<1>4. CASE parked' = parked
  <2>1. r \in StatusRequests
    BY <1>1, WhoParks
  <2>2. holder[r] # "queue"
    <3>1. Held(r)
      BY <1>1, <1>2 DEF Held, Has, Finishing
    <3>. QED BY <3>1 DEF RequestOwned
  <2>3. ASSUME Len(parked) = 1 PROVE FALSE
    <3>1. 1 \in 1..Len(parked) /\ parked[1] \in StatusRequests
      BY <2>3, OneParked
    <3>. QED BY <2>1, <2>2, <3>1 DEF OneInterruptTransfer, ParkedOnce
  <2>4. parked = <<>>
    BY <2>3, OneParked
  <2>. QED BY <1>4, <2>4 DEF ChangeIsReported
<1>. QED BY <1>3, <1>4, Zenon DEF ParkRequest

\* The other steps of the threads.
LEMMA ThreadReported ==
  ASSUME OneInterruptTransfer, HubInv, ChangeIsReported, NEW t \in Threads,
         ThreadStep(t) \/ (t \in Requests /\ RequestStep(t))
  PROVE  ChangeIsReported'
<1>0. HubTypes /\ HubSteps /\ (\A x \in Requests : RequestOwned(x)) /\ ParkedOnce
  BY DEF HubInv
<1>1. CASE Load(t)
  <2>1. UNCHANGED <<word, parked, todo, unreported>>
    BY <1>1 DEF Load, portVars, noteVars
  <2>. QED BY <2>1 DEF ChangeIsReported, WillCheck
<1>2. CASE Store(t)
  BY <1>0, <1>2, StoreReported
<1>3. CASE HubCheckStatusChange(t) \/ RetrieveNextRequest(t)
  BY <1>0, <1>3, CheckReported
<1>4. CASE t \in Requests /\ ParkRequest(t)
  BY <1>0, <1>4, ParkReported
<1>5. CASE \/ ReportChange(t) \/ CompleteStep(t) \/ ProbePort(t) \/ SamplePort(t)
           \/ ClearResetEvent(t) \/ ForwardToParent(t) \/ WaitReset(t) \/ CyclePort(t)
           \/ ResetDevice(t)
  <2>1. UNCHANGED <<word, parked, unreported>>
    BY <1>5 DEF ReportChange, CompleteStep, ProbePort, SamplePort, ClearResetEvent,
      ForwardToParent, WaitReset, CyclePort, ResetDevice, portVars, noteVars
  <2>2. Head(todo[t]).do \notin {"check", "retrieve"}
    BY <1>5, Zenon DEF ReportChange, CompleteStep, ProbePort, SamplePort, ClearResetEvent,
      ForwardToParent, WaitReset, CyclePort, ResetDevice, At
  <2>3. \E s : Advanced(t, s)
    BY <1>0, <1>5, Moves, Zenon
  <2>4. \A x \in Threads : WillCheck(x) => WillCheck(x)'
    BY <1>0, <2>2, <2>3, StillToCome, WillCheckHas
  <2>. QED BY <2>1, <2>4, ChangeKept
<1>. QED BY <1>1, <1>2, <1>3, <1>4, <1>5, Zenon DEF ThreadStep, RequestStep

\* A thread that is given steps had none.
LEMMA GivenReported ==
  ASSUME HubTypes, ChangeIsReported, NEW t \in Threads, todo[t] = <<>>, NEW q,
         todo' = [todo EXCEPT ![t] = q], UNCHANGED <<word, parked, unreported>>
  PROVE  ChangeIsReported'
<1>1. \A x \in Threads : x # t => todo'[x] = todo[x]
  BY DEF HubTypes
<1>2. ~WillCheck(t)
  <2>1. Len(todo[t]) = 0
    OBVIOUS
  <2>. QED BY <2>1 DEF WillCheck
<1>3. \A x \in Threads : WillCheck(x) => WillCheck(x)'
  BY <1>1, <1>2 DEF WillCheck
<1>. QED BY <1>3, ChangeKept

\* Everything else.
LEMMA OthersReported ==
  ASSUME HubInv, ChangeIsReported,
         \/ \E r \in HubRequests : HubEvtIoInternalDeviceControl(r)
         \/ \E r \in StatusRequests : HubProcessHubInterruptRequest(r) \/ CancelParked(r)
         \/ \E r \in Requests : HubEvtIoStop(r) \/ ParentCompletes(r)
         \/ ParentLosesDevice \/ Framework
  PROVE  ChangeIsReported'
<1>0. HubTypes /\ HubSteps
  BY DEF HubInv
<1>1. UNCHANGED <<word, unreported>>
  BY DEF HubEvtIoInternalDeviceControl, HubProcessHubInterruptRequest, CancelParked, HubEvtIoStop,
    ParentCompletes, ParentLosesDevice, Framework, HubEvtDeviceD0Entry, StartQueues,
    HubEvtDeviceSurpriseRemoval, StopQueues, HubEvtDeviceD0Exit, HubPoweredDown, portVars, noteVars
<1>2. ASSUME NEW r \in Requests,
             \/ r \in HubRequests /\ HubEvtIoInternalDeviceControl(r)
             \/ r \in StatusRequests /\ HubProcessHubInterruptRequest(r)
      PROVE  ChangeIsReported'
  <2>1. PICK q \in Seq(HubStep) : Dispatch(r, q)
    BY <1>0, <1>2, DispatchTypes
  <2>2. parked' = parked /\ r \in Threads /\ todo[r] = <<>> /\ todo' = [todo EXCEPT ![r] = q]
    BY <1>2, <2>1, Members
    DEF HubEvtIoInternalDeviceControl, HubProcessHubInterruptRequest, portVars, Dispatch
  <2>. QED BY <1>0, <1>1, <2>2, GivenReported
<1>3. ASSUME NEW r \in StatusRequests, CancelParked(r) PROVE ChangeIsReported'
  <2>1. parked # <<>> /\ todo' = todo
    <3>1. todo' = todo /\ 1..Len(parked) # {}
      BY <1>3 DEF CancelParked
    <3>2. Len(<<>>) = 0
      OBVIOUS
    <3>. QED BY <3>1, <3>2
  <2>2. \A t \in Threads : WillCheck(t) => WillCheck(t)'
    BY <2>1 DEF WillCheck
  <2>. QED BY <1>1, <2>1, <2>2, ChangeKept
<1>4. CASE \/ \E r \in Requests : HubEvtIoStop(r) \/ ParentCompletes(r)
           \/ ParentLosesDevice \/ StartQueues \/ StopQueues \/ HubPoweredDown
  <2>1. UNCHANGED <<parked, todo>>
    BY <1>4 DEF HubEvtIoStop, ParentCompletes, ParentLosesDevice, StartQueues, StopQueues,
      HubPoweredDown, portVars
  <2>2. \A t \in Threads : WillCheck(t) => WillCheck(t)'
    BY <2>1 DEF WillCheck
  <2>. QED BY <1>1, <2>1, <2>2, ChangeKept
<1>5. CASE HubEvtDeviceD0Entry \/ HubEvtDeviceSurpriseRemoval \/ HubEvtDeviceD0Exit
  <2>1. parked' = parked /\ \E q : todo' = [todo EXCEPT !["pnp"] = q]
    BY <1>5 DEF HubEvtDeviceD0Entry, HubEvtDeviceSurpriseRemoval, HubEvtDeviceD0Exit
  <2>2. todo["pnp"] = <<>> /\ "pnp" \in Threads
    BY <1>0, <1>5, Members DEF HubEvtDeviceD0Entry, HubEvtDeviceSurpriseRemoval,
      HubEvtDeviceD0Exit, PnpIdle, HubSteps
  <2>. QED BY <1>0, <1>1, <2>1, <2>2, GivenReported
<1>6. HubRequests \subseteq Requests /\ StatusRequests \subseteq Requests
  BY Members
<1>. QED BY <1>2, <1>3, <1>4, <1>5, <1>6, Zenon DEF Framework

\* No change waits for a parked request that nobody will look at, as long as the
\* hub driver keeps one interrupt transfer pending: a change is followed by a check
\* of its thread and a park by a check of its handler, in whatever order they run.
THEOREM ChangesReported == HubSpec => [](OneInterruptTransfer => ChangeIsReported)
<1>1. HubInit => ChangeIsReported
  BY DEF HubInit, HubInitWith, ChangeIsReported
<1>2. OneInterruptTransfer /\ HubInv /\ ChangeIsReported /\ [HubNext]_hubVars => ChangeIsReported'
  <2>1. SUFFICES ASSUME OneInterruptTransfer, HubInv, ChangeIsReported, [HubNext]_hubVars
                 PROVE  ChangeIsReported'
    OBVIOUS
  <2>2. CASE \/ \E t \in Threads : ThreadStep(t)
             \/ \E r \in Requests : RequestStep(r)
    <3>1. Requests \subseteq Threads
      BY Members
    <3>. QED BY <2>1, <2>2, <3>1, ThreadReported
  <2>3. CASE \/ \E r \in HubRequests : HubEvtIoInternalDeviceControl(r)
             \/ \E r \in StatusRequests : HubProcessHubInterruptRequest(r) \/ CancelParked(r)
             \/ \E r \in Requests : HubEvtIoStop(r) \/ ParentCompletes(r)
             \/ ParentLosesDevice \/ Framework
    BY <2>1, <2>3, OthersReported
  <2>4. CASE UNCHANGED hubVars
    BY <2>1, <2>4 DEF hubVars, portVars, noteVars, ChangeIsReported, WillCheck
  <2>. QED BY <2>1, <2>2, <2>3, <2>4, Zenon DEF HubNext, Framework
<1>3. HubInit => (OneInterruptTransfer => ChangeIsReported)
  BY <1>1
<1>4. HubInv /\ (OneInterruptTransfer => ChangeIsReported) /\ [HubNext]_hubVars
        => (OneInterruptTransfer => ChangeIsReported)'
  BY <1>2 DEF OneInterruptTransfer
<1>. QED BY <1>3, <1>4, HubInvariant, PTL DEF HubSpec
================================================================================
