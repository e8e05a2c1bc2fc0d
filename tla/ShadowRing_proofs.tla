--------------------------- MODULE ShadowRing_proofs ---------------------------
(***************************************************************************)
(* Proofs about ShadowRing for every number of shadows and every set of    *)
(* requests.                                                               *)
(*                                                                         *)
(* All that happens to the free list is one of two things: GetShadow with  *)
(* a non-empty list, or PutShadow of some shadow (ListStep).  FreeListExact*)
(* is inductive together with TypeOK; the step that needs an argument is   *)
(* PutShadow of a shadow that is in use, where the list cannot be full,    *)
(* because its entries are distinct and the shadow is not among them.      *)
(***************************************************************************)
EXTENDS ShadowRing, FiniteSetTheorems, TLAPS

USE ShadowEntriesAssumption, JobsAssumption

-------------------------------------------------------------------------------
(* Types.                                                                  *)

\* The initial state has the types.
LEMMA InitTypeOK == RingInit => TypeOK
BY DEF RingInit, TypeOK, Ids, Requests, Internal, Jobs

\* Popping the list keeps the types of the list and the shadows.
LEMMA GetShadowTypes ==
  ASSUME TypeOK, shadowFree > 0, NEW j \in Jobs, NEW r \in Requests \cup {NULL},
         GetShadow(j, r)
  PROVE  /\ Top \in Ids
         /\ shadowFree' \in 0 .. ShadowEntries
         /\ freeList' \in [Ids -> Ids]
         /\ inUse' \in [Ids -> BOOLEAN]
         /\ request' \in [Ids -> Requests \cup {NULL}]
         /\ holder' \in [Ids -> Jobs \cup {NULL}]
         /\ deferred' \subseteq Ids
<1>1. shadowFree - 1 \in Ids
  BY DEF TypeOK, Ids
<1>2. Top \in Ids
  BY <1>1 DEF TypeOK, Top
<1> QED
  BY <1>1, <1>2 DEF TypeOK, GetShadow, Ids

\* Giving a shadow back keeps them, whether or not it was in use.
LEMMA PutShadowTypes ==
  ASSUME TypeOK, NEW i \in Ids, PutShadow(i)
  PROVE  /\ shadowFree' \in 0 .. ShadowEntries
         /\ freeList' \in [Ids -> Ids]
         /\ inUse' \in [Ids -> BOOLEAN]
         /\ request' \in [Ids -> Requests \cup {NULL}]
         /\ holder' \in [Ids -> Jobs \cup {NULL}]
         /\ deferred' \subseteq Ids
<1>1. CASE ~inUse[i]
  BY <1>1 DEF TypeOK, PutShadow, listVars
<1>2. CASE inUse[i]
  <2>1. /\ shadowFree' \in 0 .. ShadowEntries
        /\ freeList' \in [Ids -> Ids]
    <3>1. PushId(i)
      BY <1>2 DEF PutShadow
    <3>2. CASE shadowFree < ShadowEntries
      <4>1. shadowFree \in Ids /\ shadowFree + 1 \in 0 .. ShadowEntries
        BY <3>2 DEF TypeOK, Ids
      <4> QED
        BY <3>1, <3>2, <4>1 DEF TypeOK, PushId
    <3>3. CASE ~(shadowFree < ShadowEntries)
      BY <3>1, <3>3 DEF TypeOK, PushId
    <3> QED
      BY <3>2, <3>3
  <2> QED
    BY <1>2, <2>1 DEF TypeOK, PutShadow, ClearShadow
<1> QED
  BY <1>1, <1>2

\* What putting an entry on the ring does to the types of the ring variables.
LEMMA PutOnRingTypes ==
  ASSUME TypeOK, Top \in Ids, NEW j \in Jobs, PutOnRing(j)
  PROVE  requestsOnRingbuffer' \in Nat /\ backend' \subseteq Ids \X Jobs
BY DEF TypeOK, PutOnRing

\* Consuming an answer takes a well-typed one off the sequence.
LEMMA ConsumeTypes ==
  ASSUME TypeOK, ConsumeResponse
  PROVE  /\ AnsweredId \in Ids
         /\ responses' \in Seq(Ids \X Jobs)
         /\ isReset' \in [Ids -> BOOLEAN]
         /\ backend' \subseteq Ids \X Jobs
         /\ window' \in [Urbs -> Ids \cup {NULL}]
         /\ scratchPuts' \in Nat
<1>1. Head(responses) \in Ids \X Jobs /\ Tail(responses) \in Seq(Ids \X Jobs)
  BY DEF TypeOK, ConsumeResponse
<1> QED
  BY <1>1 DEF TypeOK, ConsumeResponse, AnsweredId

\* Taking an entry back leaves a natural number, even at zero.
LEMMA DecrementTypes ==
  ASSUME TypeOK, DecrementRingBufferRequests
  PROVE  requestsOnRingbuffer' \in Nat
BY DEF TypeOK, DecrementRingBufferRequests

\* Every step keeps the types.
LEMMA NextTypeOK == TypeOK /\ [RingNext]_ringVars => TypeOK'
<1> SUFFICES ASSUME TypeOK, [RingNext]_ringVars PROVE TypeOK'
  OBVIOUS
<1> USE DEF Jobs, Requests, Internal
<1>1. CASE UNCHANGED ringVars
  BY <1>1 DEF TypeOK, ringVars
<1>2. ASSUME NEW u \in Urbs, PutUrbOnRing(u) PROVE TypeOK'
  <2>1. shadowFree > 0
    BY <1>2 DEF PutUrbOnRing, TypeOK
  <2> QED
    BY <1>2, <2>1, GetShadowTypes, PutOnRingTypes DEF PutUrbOnRing, TypeOK
<1>3. ASSUME NEW u \in Urbs, RequeueWithShadow(u) PROVE TypeOK'
  <2>1. shadowFree > 0
    BY <1>3 DEF RequeueWithShadow, TypeOK
  <2> QED
    BY <1>3, <2>1, GetShadowTypes DEF RequeueWithShadow, TypeOK
<1>4. ASSUME NEW u \in Urbs, AbandonShadow(u) PROVE TypeOK'
  <2>1. window[u] \in Ids
    BY <1>4 DEF AbandonShadow, TypeOK
  <2> QED
    BY <1>4, <2>1, PutShadowTypes DEF AbandonShadow, TypeOK
<1>5. ASSUME NEW v \in Resets, PutResetOrCycleUrbOnRing(v) PROVE TypeOK'
  BY <1>5, GetShadowTypes, PutOnRingTypes DEF PutResetOrCycleUrbOnRing, TypeOK
<1>6. ASSUME NEW s \in Internal, PutScratchOnRing(s) PROVE TypeOK'
  BY <1>6, GetShadowTypes, PutOnRingTypes DEF PutScratchOnRing, TypeOK
<1>7. ASSUME NEW e \in backend, BackendRespond(e) PROVE TypeOK'
  BY <1>7 DEF BackendRespond, TypeOK, listVars
<1>8. CASE DpcAlreadyProcessed
  BY <1>8, ConsumeTypes DEF DpcAlreadyProcessed, TypeOK, listVars
<1>9. CASE DpcDeferToCancel
  BY <1>9, ConsumeTypes DEF DpcDeferToCancel, TypeOK
<1>10. CASE DpcCompleteRequest
  BY <1>10, ConsumeTypes, PutShadowTypes, DecrementTypes DEF DpcCompleteRequest, TypeOK
<1>11. CASE DpcScratch
  BY <1>11, ConsumeTypes, PutShadowTypes DEF DpcScratch, TypeOK
<1>12. ASSUME NEW r \in Requests, FreeShadowForRequest(r) PROVE TypeOK'
  BY <1>12, PutShadowTypes, DecrementTypes DEF FreeShadowForRequest, TypeOK
<1> QED
  BY <1>1, <1>2, <1>3, <1>4, <1>5, <1>6, <1>7, <1>8, <1>9, <1>10, <1>11, <1>12
  DEF RingNext, PutIsoUrbOnRing

\* TypeOK holds in every reachable state: ShadowFree stays within
\* 0 .. ShadowArrayEntries (the ASSERT of PutShadowOnFreelist), and every id the
\* list, the ring and the requeueing threads hold is the id of a shadow.
THEOREM TypeCorrect == RingSpec => []TypeOK
BY InitTypeOK, NextTypeOK, PTL DEF RingSpec

-------------------------------------------------------------------------------
(* The free list.                                                          *)

\* Some job takes the top of a list that is not empty; a transfer leaves one id
\* behind.
SomeGet ==
  /\ shadowFree > 0
  /\ \E j \in Jobs, r \in Requests \cup {NULL} :
       GetShadow(j, r) /\ (j \in Urbs => shadowFree > 1)

\* What any step does to the list, the InUse flags and the holders.
LEMMA ListStep ==
  ASSUME TypeOK, [RingNext]_ringVars
  PROVE  \/ SomeGet
         \/ \E i \in Ids : PutShadow(i)
         \/ UNCHANGED <<shadowFree, freeList, inUse, holder>>
<1>1. CASE UNCHANGED ringVars
  BY <1>1 DEF ringVars
<1>2. ASSUME NEW u \in Urbs, PutUrbOnRing(u) \/ RequeueWithShadow(u) PROVE SomeGet
  <2>1. /\ shadowFree > 0 /\ shadowFree > 1
        /\ GetShadow(u, u) \/ GetShadow(u, NULL)
    BY <1>2 DEF PutUrbOnRing, RequeueWithShadow, TypeOK
  <2> QED
    BY <2>1 DEF SomeGet, Jobs, Requests
<1>3. ASSUME NEW u \in Urbs, AbandonShadow(u) PROVE \E i \in Ids : PutShadow(i)
  BY <1>3 DEF AbandonShadow, TypeOK
<1>4. ASSUME NEW v \in Resets, PutResetOrCycleUrbOnRing(v) PROVE SomeGet
  BY <1>4 DEF PutResetOrCycleUrbOnRing, SomeGet, Jobs, Requests
<1>5. ASSUME NEW s \in Internal, PutScratchOnRing(s) PROVE SomeGet
  BY <1>5 DEF PutScratchOnRing, SomeGet, Jobs, Requests
<1>6. ASSUME NEW e \in backend, BackendRespond(e)
      PROVE  UNCHANGED <<shadowFree, freeList, inUse, holder>>
  BY <1>6 DEF BackendRespond, listVars
<1>7. CASE DpcAlreadyProcessed \/ DpcDeferToCancel
  BY <1>7 DEF DpcAlreadyProcessed, DpcDeferToCancel, listVars
<1>8. CASE DpcCompleteRequest \/ DpcScratch
  BY <1>8, ConsumeTypes DEF DpcCompleteRequest, DpcScratch
<1>9. ASSUME NEW r \in Requests, FreeShadowForRequest(r) PROVE \E i \in Ids : PutShadow(i)
  BY <1>9 DEF FreeShadowForRequest
<1> QED
  BY <1>1, <1>2, <1>3, <1>4, <1>5, <1>6, <1>7, <1>8, <1>9
  DEF RingNext, PutIsoUrbOnRing

\* With distinct entries and one shadow in use, the list is not full: it
\* would map the ids one to one into the ids without the one in use.
LEMMA ListHasRoom ==
  ASSUME TypeOK, FreeListExact, NEW i \in Ids, inUse[i]
  PROVE  shadowFree < ShadowEntries
<1> SUFFICES ASSUME shadowFree = ShadowEntries PROVE FALSE
  BY DEF TypeOK
<1>1. FreeSlots = Ids
  BY DEF FreeSlots, Ids
<1>2. freeList \in [Ids -> Ids \ {i}]
  BY <1>1 DEF TypeOK, FreeListExact
<1>3. IsFiniteSet(Ids) /\ Cardinality(Ids) = ShadowEntries
  BY FS_Interval DEF Ids
<1>4. /\ IsFiniteSet(Ids \ {i})
      /\ Cardinality(Ids \ {i}) = ShadowEntries - 1
  BY <1>3, FS_RemoveElement
<1>5. \E k, l \in Ids : k # l /\ freeList[k] = freeList[l]
  BY <1>2, <1>3, <1>4, FS_PigeonHole
<1> QED
  BY <1>1, <1>5 DEF FreeListExact

\* One more slot.
LEMMA NextSlot ==
  ASSUME NEW n \in Nat
  PROVE  0 .. (n + 1) - 1 = (0 .. n - 1) \cup {n} /\ n \notin 0 .. n - 1
OBVIOUS

\* Popping keeps the list exact: the id popped is the only one that leaves.
LEMMA GetShadowExact ==
  ASSUME TypeOK, FreeListExact, SomeGet
  PROVE  FreeListExact'
<1>1. PICK j \in Jobs, r \in Requests \cup {NULL} : GetShadow(j, r)
  BY DEF SomeGet
<1> DEFINE t == shadowFree - 1
<1>2. /\ t \in FreeSlots /\ Top = freeList[t] /\ Top \in Ids
      /\ FreeSlots' = FreeSlots \ {t}
      /\ freeList' = freeList
      /\ inUse' = [inUse EXCEPT ![Top] = TRUE]
  <2>1. /\ freeList' = freeList
        /\ inUse' = [inUse EXCEPT ![Top] = TRUE]
        /\ shadowFree' = t
    BY <1>1 DEF GetShadow
  <2>2. t \in Nat /\ shadowFree = t + 1
    BY DEF SomeGet, TypeOK
  <2>3. FreeSlots = FreeSlots' \cup {t} /\ t \notin FreeSlots'
    <3>1. FreeSlots = 0 .. (t + 1) - 1 /\ FreeSlots' = 0 .. t - 1
      BY <2>1, <2>2 DEF FreeSlots
    <3> QED
      BY <3>1, <2>2, NextSlot
  <2>4. Top \in Ids
    BY <1>1, GetShadowTypes DEF SomeGet
  <2> QED
    BY <2>1, <2>3, <2>4 DEF Top
<1>3. \A k \in FreeSlots : k # t => freeList[k] # Top
  BY <1>2 DEF FreeListExact
<1>4. \A i \in Ids : inUse'[i] = IF i = Top THEN TRUE ELSE inUse[i]
  BY <1>2 DEF TypeOK
<1>5. ASSUME NEW i \in Ids PROVE ~inUse'[i] <=> \E k \in FreeSlots' : freeList'[k] = i
  <2>1. CASE i = Top
    BY <2>1, <1>2, <1>3, <1>4
  <2>2. CASE i # Top
    BY <2>2, <1>2, <1>4 DEF FreeListExact
  <2> QED
    BY <2>1, <2>2
<1> HIDE DEF t
<1>6. \A k, l \in FreeSlots' : freeList'[k] = freeList'[l] => k = l
  BY <1>2 DEF FreeListExact
<1> QED
  BY <1>5, <1>6 DEF FreeListExact

\* Giving back keeps it exact: the id pushed was not on the list, and there is
\* room for it.
LEMMA PutShadowExact ==
  ASSUME TypeOK, FreeListExact, NEW i \in Ids, PutShadow(i)
  PROVE  FreeListExact'
<1>1. CASE ~inUse[i]
  BY <1>1 DEF PutShadow, listVars, FreeListExact, FreeSlots
<1>2. CASE inUse[i]
  <2>1. /\ shadowFree < ShadowEntries
        /\ shadowFree' = shadowFree + 1
        /\ freeList' = [freeList EXCEPT ![shadowFree] = i]
        /\ inUse' = [inUse EXCEPT ![i] = FALSE]
    BY <1>2, ListHasRoom DEF PutShadow, PushId, ClearShadow
  <2>2. shadowFree \in Ids /\ shadowFree \notin FreeSlots /\ FreeSlots \subseteq Ids
        /\ FreeSlots' = FreeSlots \cup {shadowFree}
    <3>1. shadowFree \in Nat
      BY DEF TypeOK
    <3>2. FreeSlots' = FreeSlots \cup {shadowFree} /\ shadowFree \notin FreeSlots
      BY <2>1, <3>1, NextSlot DEF FreeSlots
    <3> QED
      BY <2>1, <3>1, <3>2 DEF FreeSlots, Ids
  <2>3. /\ freeList'[shadowFree] = i
        /\ \A k \in FreeSlots : freeList'[k] = freeList[k] /\ freeList[k] # i
    BY <1>2, <2>1, <2>2 DEF TypeOK, FreeListExact
  <2>4. \A m \in Ids : inUse'[m] = IF m = i THEN FALSE ELSE inUse[m]
    BY <2>1 DEF TypeOK
  <2>5. \A k, l \in FreeSlots' : freeList'[k] = freeList'[l] => k = l
    BY <2>2, <2>3 DEF FreeListExact
  <2>6. ASSUME NEW m \in Ids PROVE ~inUse'[m] <=> \E k \in FreeSlots' : freeList'[k] = m
    <3>1. CASE m = i
      BY <3>1, <2>2, <2>3, <2>4
    <3>2. CASE m # i
      <4>1. ~inUse'[m] <=> \E k \in FreeSlots : freeList[k] = m
        BY <3>2, <2>4 DEF FreeListExact
      <4> QED
        BY <3>2, <4>1, <2>2, <2>3
    <3> QED
      BY <3>1, <3>2
  <2> QED
    BY <2>5, <2>6 DEF FreeListExact
<1> QED
  BY <1>1, <1>2

\* Every step keeps the list exact.
LEMMA NextFreeListExact ==
  TypeOK /\ FreeListExact /\ [RingNext]_ringVars => FreeListExact'
<1> SUFFICES ASSUME TypeOK, FreeListExact, [RingNext]_ringVars PROVE FreeListExact'
  OBVIOUS
<1>1. CASE UNCHANGED <<shadowFree, freeList, inUse, holder>>
  BY <1>1 DEF FreeListExact, FreeSlots
<1> QED
  BY <1>1, ListStep, GetShadowExact, PutShadowExact

\* FreeListExact holds in every reachable state: whoever frees a shadow, the
\* free stack holds exactly the shadows that are not in use, each once.
THEOREM FreeListSafe == RingSpec => []FreeListExact
<1>1. RingInit => FreeListExact
  BY DEF RingInit, FreeListExact, FreeSlots, Ids
<1> QED
  BY <1>1, InitTypeOK, NextTypeOK, NextFreeListExact, PTL DEF RingSpec

-------------------------------------------------------------------------------
(* The reserve for resets.                                                 *)

\* A transfer takes the top of the list only when another id is left under it.
LEMMA NextReserve ==
  TypeOK /\ FreeListExact /\ ReserveForReset /\ [RingNext]_ringVars => ReserveForReset'
<1> SUFFICES ASSUME TypeOK, FreeListExact, ReserveForReset, [RingNext]_ringVars
             PROVE  ReserveForReset'
  OBVIOUS
<1>1. PICK i \in Ids : ~(inUse[i] /\ holder[i] \in Urbs)
  BY DEF ReserveForReset
<1>2. CASE SomeGet
  <2>1. PICK j \in Jobs, r \in Requests \cup {NULL} :
          GetShadow(j, r) /\ (j \in Urbs => shadowFree > 1)
    BY <1>2 DEF SomeGet
  <2>2. /\ Top \in Ids
        /\ inUse' = [inUse EXCEPT ![Top] = TRUE]
        /\ holder' = [holder EXCEPT ![Top] = j]
    BY <1>2, <2>1, GetShadowTypes DEF SomeGet, GetShadow
  <2>3. CASE j \notin Urbs
    <3>1. holder'[Top] = j
      BY <2>2 DEF TypeOK
    <3> QED
      BY <2>2, <2>3, <3>1 DEF ReserveForReset
  <2>4. CASE j \in Urbs
    <3>1. /\ shadowFree - 2 \in FreeSlots /\ shadowFree - 1 \in FreeSlots
          /\ shadowFree - 2 \in Ids /\ shadowFree - 2 # shadowFree - 1
      BY <2>1, <2>4 DEF TypeOK, FreeSlots, Ids
    <3>2. freeList[shadowFree - 2] \in Ids /\ freeList[shadowFree - 2] # Top
      BY <3>1 DEF TypeOK, FreeListExact, Top
    <3>3. ~inUse[freeList[shadowFree - 2]]
      BY <3>1, <3>2 DEF FreeListExact
    <3>4. ~inUse'[freeList[shadowFree - 2]]
      BY <2>2, <3>2, <3>3 DEF TypeOK
    <3> QED
      BY <3>2, <3>4 DEF ReserveForReset
  <2> QED
    BY <2>3, <2>4
<1>3. ASSUME NEW m \in Ids, PutShadow(m) PROVE ReserveForReset'
  <2>1. CASE ~inUse[m]
    BY <1>1, <1>3, <2>1 DEF PutShadow, listVars, ReserveForReset
  <2>2. CASE inUse[m]
    <3>1. ~inUse'[m]
      BY <1>3, <2>2 DEF PutShadow, ClearShadow, TypeOK
    <3> QED
      BY <3>1 DEF ReserveForReset
  <2> QED
    BY <2>1, <2>2
<1>4. CASE UNCHANGED <<shadowFree, freeList, inUse, holder>>
  BY <1>1, <1>4 DEF ReserveForReset
<1> QED
  BY <1>2, <1>3, <1>4, ListStep

\* ReserveForReset holds in every reachable state: the transfers alone never
\* hold all the shadows, so a reset or an internal request is not locked out by
\* them.
THEOREM ReserveSafe == RingSpec => []ReserveForReset
<1>1. RingInit => ReserveForReset
  BY DEF RingInit, ReserveForReset, Ids
<1>2. RingInit => FreeListExact
  BY DEF RingInit, FreeListExact, FreeSlots, Ids
<1> QED
  BY <1>1, <1>2, InitTypeOK, NextTypeOK, NextFreeListExact, NextReserve, PTL DEF RingSpec

-------------------------------------------------------------------------------
(* The shadows implement a pool of ids.                                    *)

\* A shadow has a holder exactly while it is in use.
HolderExact == \A i \in Ids : inUse[i] <=> holder[i] # NULL

\* Every step is a step of the pool, or leaves its owners alone.
LEMMA PoolStep ==
  TypeOK /\ FreeListExact /\ HolderExact /\ [RingNext]_ringVars
    => HolderExact' /\ [Pool!PoolNext]_holder
<1> SUFFICES ASSUME TypeOK, FreeListExact, HolderExact, [RingNext]_ringVars
             PROVE  HolderExact' /\ [Pool!PoolNext]_holder
  OBVIOUS
<1>1. CASE SomeGet
  <2>1. PICK j \in Jobs, r \in Requests \cup {NULL} : GetShadow(j, r)
    BY <1>1 DEF SomeGet
  <2>2. /\ Top \in Ids
        /\ inUse' = [inUse EXCEPT ![Top] = TRUE]
        /\ holder' = [holder EXCEPT ![Top] = j]
    BY <1>1, <2>1, GetShadowTypes DEF SomeGet, GetShadow
  <2>3. ~inUse[Top]
    <3>1. shadowFree - 1 \in FreeSlots
      BY <1>1 DEF SomeGet, TypeOK, FreeSlots
    <3> QED
      BY <2>2, <3>1 DEF FreeListExact, Top
  <2>4. holder[Top] = NULL
    BY <2>2, <2>3 DEF HolderExact
  <2>5. Pool!PoolNext
    BY <2>2, <2>4 DEF Pool!PoolNext, Pool!Take
  <2>6. \A i \in Ids : /\ inUse'[i] = IF i = Top THEN TRUE ELSE inUse[i]
                       /\ holder'[i] = IF i = Top THEN j ELSE holder[i]
    BY <2>2 DEF TypeOK
  <2>7. j # NULL
    BY DEF Jobs
  <2>8. HolderExact'
    BY <2>6, <2>7 DEF HolderExact
  <2> QED
    BY <2>5, <2>8
<1>2. ASSUME NEW m \in Ids, PutShadow(m) PROVE HolderExact' /\ [Pool!PoolNext]_holder
  <2>1. CASE ~inUse[m]
    BY <1>2, <2>1 DEF PutShadow, listVars, HolderExact
  <2>2. CASE inUse[m]
    <3>1. /\ inUse' = [inUse EXCEPT ![m] = FALSE]
          /\ holder' = [holder EXCEPT ![m] = NULL]
      BY <1>2, <2>2 DEF PutShadow, ClearShadow
    <3>2. holder[m] # NULL
      BY <2>2 DEF HolderExact
    <3>3. Pool!PoolNext
      BY <3>1, <3>2 DEF Pool!PoolNext, Pool!Give
    <3>4. \A i \in Ids : /\ inUse'[i] = IF i = m THEN FALSE ELSE inUse[i]
                         /\ holder'[i] = IF i = m THEN NULL ELSE holder[i]
      BY <3>1 DEF TypeOK
    <3> QED
      BY <3>3, <3>4 DEF HolderExact
  <2> QED
    BY <2>1, <2>2
<1>3. CASE UNCHANGED <<shadowFree, freeList, inUse, holder>>
  BY <1>3 DEF HolderExact
<1> QED
  BY <1>1, <1>2, <1>3, ListStep

\* PoolRefined: the stack of ids and the InUse flags of xenif.cpp implement a
\* pool whose ids have at most one owner at a time.
THEOREM PoolImplemented == RingSpec => PoolRefined
<1>1. RingInit => HolderExact /\ FreeListExact
  BY DEF RingInit, HolderExact, FreeListExact, FreeSlots, Ids
<1>2. RingInit => Pool!PoolInit
  BY DEF RingInit, Pool!PoolInit
<1> QED
  BY <1>1, <1>2, InitTypeOK, NextTypeOK, NextFreeListExact, PoolStep, PTL
  DEF RingSpec, PoolRefined, Pool!PoolSpec

-------------------------------------------------------------------------------
(* No shadow leaks.                                                        *)

\* What giving a shadow back does to the others.
LEMMA PutShadowEffect ==
  ASSUME TypeOK, NEW i \in Ids, PutShadow(i)
  PROVE  /\ ~inUse'[i]
         /\ \A m \in Ids : m # i =>
              inUse'[m] = inUse[m] /\ holder'[m] = holder[m] /\ (m \in deferred => m \in deferred')
<1>1. CASE inUse[i]
  BY <1>1 DEF PutShadow, ClearShadow, TypeOK
<1>2. CASE ~inUse[i]
  BY <1>2 DEF PutShadow, listVars
<1> QED
  BY <1>1, <1>2

\* An answer joins the responses; the first leaves them.
LEMMA RespondAdds ==
  ASSUME NEW e, responses \in Seq(Ids \X Jobs), responses' = Append(responses, e),
         e \in Ids \X Jobs
  PROVE  ResponseSet' = ResponseSet \cup {e}
<1>1. /\ Len(responses) \in Nat /\ Len(responses') = Len(responses) + 1
      /\ responses'[Len(responses) + 1] = e
      /\ \A k \in 1 .. Len(responses) : responses'[k] = responses[k]
  OBVIOUS
<1>2. 1 .. Len(responses) + 1 = (1 .. Len(responses)) \cup {Len(responses) + 1}
  BY <1>1
<1> QED
  BY <1>1, <1>2 DEF ResponseSet

\* Taking the first answer off removes no other one.
LEMMA ConsumeRemoves ==
  ASSUME responses \in Seq(Ids \X Jobs), responses # <<>>, responses' = Tail(responses)
  PROVE  ResponseSet \subseteq ResponseSet' \cup {Head(responses)}
<1> DEFINE n == Len(responses)
<1>1. /\ n \in Nat /\ n > 0 /\ Head(responses) = responses[1] /\ Len(responses') = n - 1
      /\ \A k \in 1 .. n - 1 : responses'[k] = responses[k + 1]
  OBVIOUS
<1>2. ASSUME NEW k \in 1 .. n, k # 1
      PROVE  responses[k] \in ResponseSet'
  <2>1. k - 1 \in 1 .. n - 1 /\ (k - 1) + 1 = k
    BY <1>1, <1>2
  <2>2. responses'[k - 1] = responses[k]
    BY <1>1, <2>1
  <2> QED
    BY <1>1, <2>1, <2>2 DEF ResponseSet
<1>3. \A x \in ResponseSet : \E k \in 1 .. n : x = responses[k]
  BY DEF ResponseSet
<1> QED
  BY <1>1, <1>2, <1>3

\* Consuming an answer keeps the entries of all other ids.
LEMMA ConsumeKeepsOthers ==
  ASSUME TypeOK, ConsumeResponse
  PROVE  \A e \in Outstanding : e[1] # AnsweredId => e \in Outstanding'
<1>1. responses \in Seq(Ids \X Jobs) /\ responses # <<>> /\ responses' = Tail(responses)
      /\ backend' = backend
  BY DEF TypeOK, ConsumeResponse
<1>2. ResponseSet \subseteq ResponseSet' \cup {Head(responses)}
  BY <1>1, ConsumeRemoves
<1> QED
  BY <1>1, <1>2 DEF Outstanding, AnsweredId

\* A shadow that is taken has its entry put on the ring in the same step.
LEMMA PutAccounted ==
  ASSUME TypeOK, ShadowAccounted, NEW j \in Jobs, NEW r, shadowFree > 0,
         GetShadow(j, r), PutOnRing(j), UNCHANGED <<responses, window>>
  PROVE  ShadowAccounted'
<1>1. /\ Top \in Ids
      /\ \A i \in Ids : i # Top => inUse'[i] = inUse[i] /\ holder'[i] = holder[i]
      /\ holder'[Top] = j /\ deferred' = deferred
  <2>1. shadowFree - 1 \in Ids
    BY DEF TypeOK, Ids
  <2>2. Top \in Ids
    BY <2>1 DEF Top, TypeOK
  <2> QED
    BY <2>2 DEF GetShadow, TypeOK
<1>2. Outstanding' = Outstanding \cup {<<Top, j>>}
  BY DEF PutOnRing, Outstanding, ResponseSet
<1> QED
  BY <1>1, <1>2 DEF ShadowAccounted

\* A step that gives shadow i back, keeping the entries of the others.
LEMMA GiveAccounted ==
  ASSUME TypeOK, ShadowAccounted, NEW i \in Ids, PutShadow(i),
         \A e \in Outstanding : e[1] # i => e \in Outstanding',
         \A u \in Urbs : window[u] \in Ids /\ window[u] # i => window'[u] = window[u]
  PROVE  ShadowAccounted'
<1>1. ~inUse'[i]
  BY PutShadowEffect
<1>2. ASSUME NEW m \in Ids, m # i, inUse'[m]
      PROVE  \/ <<m, holder'[m]>> \in Outstanding'
             \/ m \in deferred'
             \/ \E u \in Urbs : window'[u] = m
  <2>1. inUse[m] /\ holder'[m] = holder[m] /\ (m \in deferred => m \in deferred')
    BY <1>2, PutShadowEffect
  <2> QED
    BY <1>2, <2>1 DEF ShadowAccounted
<1> QED
  BY <1>1, <1>2 DEF ShadowAccounted

\* Every step keeps every shadow accounted for.
LEMMA NextAccounted == TypeOK /\ ShadowAccounted /\ [RingNext]_ringVars => ShadowAccounted'
<1> SUFFICES ASSUME TypeOK, ShadowAccounted, [RingNext]_ringVars PROVE ShadowAccounted'
  OBVIOUS
<1>1. CASE UNCHANGED ringVars
  BY <1>1 DEF ringVars, ShadowAccounted, Outstanding, ResponseSet
<1>2. ASSUME NEW u \in Urbs, PutUrbOnRing(u) PROVE ShadowAccounted'
  <2>1. shadowFree > 0 /\ u \in Jobs
    BY <1>2 DEF PutUrbOnRing, TypeOK, Jobs, Requests
  <2> QED
    BY <1>2, <2>1, PutAccounted DEF PutUrbOnRing
<1>3. ASSUME NEW u \in Urbs, RequeueWithShadow(u) PROVE ShadowAccounted'
  <2>1. /\ Top \in Ids
        /\ \A i \in Ids : i # Top => inUse'[i] = inUse[i] /\ holder'[i] = holder[i]
        /\ deferred' = deferred /\ window[u] = NULL /\ window' = [window EXCEPT ![u] = Top]
        /\ Outstanding' = Outstanding
    <3>1. Top \in Ids
      BY <1>3 DEF RequeueWithShadow, Top, TypeOK, Ids
    <3> QED
      BY <1>3, <3>1 DEF RequeueWithShadow, GetShadow, TypeOK, Outstanding, ResponseSet
  <2>2. \A i \in Ids : i # NULL
    BY DEF Ids
  <2>3. window'[u] = Top /\ \A w \in Urbs : w # u => window'[w] = window[w]
    BY <2>1 DEF TypeOK
  <2> QED
    BY <2>1, <2>2, <2>3 DEF ShadowAccounted
<1>4. ASSUME NEW u \in Urbs, AbandonShadow(u) PROVE ShadowAccounted'
  <2>1. /\ window[u] \in Ids /\ PutShadow(window[u])
        /\ Outstanding' = Outstanding
        /\ \A w \in Urbs : w # u => window'[w] = window[w]
    BY <1>4 DEF AbandonShadow, TypeOK, Outstanding, ResponseSet
  <2> QED
    BY <2>1, GiveAccounted
<1>5. ASSUME NEW v \in Resets, PutResetOrCycleUrbOnRing(v) PROVE ShadowAccounted'
  BY <1>5, PutAccounted DEF PutResetOrCycleUrbOnRing, Jobs, Requests
<1>6. ASSUME NEW s \in Internal, PutScratchOnRing(s) PROVE ShadowAccounted'
  BY <1>6, PutAccounted DEF PutScratchOnRing, Jobs
<1>7. ASSUME NEW e \in backend, BackendRespond(e) PROVE ShadowAccounted'
  <2>1. Outstanding' = Outstanding
    BY <1>7, RespondAdds DEF BackendRespond, TypeOK, Outstanding
  <2> QED
    BY <1>7, <2>1 DEF BackendRespond, listVars, ShadowAccounted
<1>8. CASE DpcAlreadyProcessed \/ DpcDeferToCancel
  <2>1. /\ inUse' = inUse /\ holder' = holder /\ window' = window
        /\ inUse[AnsweredId] => AnsweredId \in deferred'
        /\ deferred \subseteq deferred'
    BY <1>8 DEF DpcAlreadyProcessed, DpcDeferToCancel, listVars, ConsumeResponse
  <2>2. \A e \in Outstanding : e[1] # AnsweredId => e \in Outstanding'
    BY <1>8, ConsumeKeepsOthers DEF DpcAlreadyProcessed, DpcDeferToCancel
  <2> QED
    BY <2>1, <2>2 DEF ShadowAccounted
<1>9. CASE DpcCompleteRequest \/ DpcScratch
  <2>1. AnsweredId \in Ids /\ PutShadow(AnsweredId) /\ window' = window
    BY <1>9, ConsumeTypes DEF DpcCompleteRequest, DpcScratch, ConsumeResponse
  <2>2. \A e \in Outstanding : e[1] # AnsweredId => e \in Outstanding'
    BY <1>9, ConsumeKeepsOthers DEF DpcCompleteRequest, DpcScratch
  <2> QED
    BY <2>1, <2>2, GiveAccounted
<1>10. ASSUME NEW r \in Requests, FreeShadowForRequest(r) PROVE ShadowAccounted'
  <2>1. PICK i \in Ids : PutShadow(i) /\ UNCHANGED <<backend, responses, window>>
    BY <1>10 DEF FreeShadowForRequest
  <2>2. Outstanding' = Outstanding
    BY <2>1 DEF Outstanding, ResponseSet
  <2> QED
    BY <2>1, <2>2, GiveAccounted
<1> QED
  BY <1>1, <1>2, <1>3, <1>4, <1>5, <1>6, <1>7, <1>8, <1>9, <1>10
  DEF RingNext, PutIsoUrbOnRing

\* ShadowAccounted holds in every reachable state: every shadow in use waits for
\* its own answer, or was left to the cancel side, or is about to be given back.
THEOREM NoShadowLeaks == RingSpec => []ShadowAccounted
<1>1. RingInit => ShadowAccounted
  BY DEF RingInit, ShadowAccounted
<1> QED
  BY <1>1, InitTypeOK, NextTypeOK, NextAccounted, PTL DEF RingSpec

-------------------------------------------------------------------------------
(* RequestsOnRingbuffer.                                                   *)

\* The shadows that serve a request.
Serving == {i \in Ids : request[i] # NULL}

\* Only a shadow in use serves a request.
RequestInUse == \A i \in Ids : request[i] # NULL => inUse[i]

\* The shadows that serve a request are finitely many.
LEMMA ServingFinite ==
  /\ IsFiniteSet(Serving) /\ Cardinality(Serving) \in Nat
  /\ Cardinality(Serving') \in Nat
<1>1. IsFiniteSet(Ids) /\ Serving \subseteq Ids /\ Serving' \subseteq Ids
  BY FS_Interval DEF Ids, Serving
<1> QED
  BY <1>1, FS_Subset, FS_CardinalityType

\* The shadow on top of the list serves no request: taking it for r makes one
\* more shadow serve a request, unless r is none.
LEMMA GetServes ==
  ASSUME TypeOK, FreeListExact, RequestInUse, shadowFree > 0,
         NEW j \in Jobs, NEW r \in Requests \cup {NULL}, GetShadow(j, r)
  PROVE  /\ RequestInUse'
         /\ Cardinality(Serving') = Cardinality(Serving) + (IF r = NULL THEN 0 ELSE 1)
<1>1. Top \in Ids /\ ~inUse[Top]
  <2>1. Top \in Ids
    BY GetShadowTypes
  <2>2. shadowFree - 1 \in FreeSlots
    BY DEF TypeOK, FreeSlots
  <2> QED
    BY <2>1, <2>2 DEF FreeListExact, Top
<1>2. /\ \A i \in Ids : inUse'[i] = IF i = Top THEN TRUE ELSE inUse[i]
      /\ \A i \in Ids : request'[i] = IF i = Top THEN r ELSE request[i]
  BY <1>1 DEF GetShadow, TypeOK
<1>3. Top \notin Serving
  BY <1>1 DEF RequestInUse, Serving
<1>4. RequestInUse'
  BY <1>2 DEF RequestInUse
<1>5. CASE r = NULL
  <2>1. Serving' = Serving
    BY <1>1, <1>2, <1>3, <1>5 DEF Serving
  <2> QED
    BY <1>4, <1>5, <2>1, ServingFinite
<1>6. CASE r # NULL
  <2>1. Serving' = Serving \cup {Top}
    BY <1>1, <1>2, <1>6 DEF Serving
  <2> QED
    BY <1>3, <1>4, <1>6, <2>1, ServingFinite, FS_AddElement
<1> QED
  BY <1>5, <1>6

\* Giving a shadow back that serves a request makes one shadow fewer serve one;
\* giving back any other one leaves their number alone.
LEMMA PutServes ==
  ASSUME TypeOK, RequestInUse, NEW i \in Ids, PutShadow(i)
  PROVE  /\ RequestInUse'
         /\ request[i] # NULL => /\ Cardinality(Serving) >= 1
                                 /\ Cardinality(Serving') = Cardinality(Serving) - 1
         /\ request[i] = NULL => Cardinality(Serving') = Cardinality(Serving)
<1>1. CASE ~inUse[i]
  <2>1. request' = request /\ inUse' = inUse /\ request[i] = NULL
    BY <1>1 DEF PutShadow, listVars, RequestInUse
  <2> QED
    BY <2>1 DEF RequestInUse, Serving
<1>2. CASE inUse[i]
  <2>1. /\ \A m \in Ids : inUse'[m] = IF m = i THEN FALSE ELSE inUse[m]
        /\ \A m \in Ids : request'[m] = IF m = i THEN NULL ELSE request[m]
    BY <1>2 DEF PutShadow, ClearShadow, TypeOK
  <2>2. RequestInUse' /\ Serving' = Serving \ {i}
    BY <2>1 DEF RequestInUse, Serving
  <2>3. CASE request[i] = NULL
    <3>1. Serving' = Serving
      BY <2>2, <2>3 DEF Serving
    <3> QED
      BY <2>2, <2>3, <3>1
  <2>4. CASE request[i] # NULL
    <3>1. i \in Serving
      BY <2>4 DEF Serving
    <3>2. /\ Cardinality(Serving \ {i}) = Cardinality(Serving) - 1
          /\ Cardinality(Serving \ {i}) \in Nat
      BY <3>1, ServingFinite, FS_RemoveElement, FS_CardinalityType
    <3> QED
      BY <2>2, <2>4, <3>2, ServingFinite
  <2> QED
    BY <2>3, <2>4
<1> QED
  BY <1>1, <1>2

\* Every step keeps the counter high enough.
LEMMA NextCounterCovers ==
  TypeOK /\ FreeListExact /\ RequestInUse /\ CounterCovers /\ [RingNext]_ringVars
    => RequestInUse' /\ CounterCovers'
<1> SUFFICES ASSUME TypeOK, FreeListExact, RequestInUse, CounterCovers,
                    [RingNext]_ringVars
             PROVE  RequestInUse' /\ CounterCovers'
  OBVIOUS
<1> DEFINE n == Cardinality(Serving)
<1>1. /\ n \in Nat /\ n' \in Nat /\ requestsOnRingbuffer \in Nat /\ scratchPuts \in Nat
      /\ requestsOnRingbuffer >= n + scratchPuts
      /\ requestsOnRingbuffer' >= n' + scratchPuts' => CounterCovers'
  BY ServingFinite DEF CounterCovers, Serving, TypeOK
<1> HIDE DEF n
<1>2. CASE UNCHANGED ringVars
  BY <1>2 DEF ringVars, RequestInUse, CounterCovers
<1>3. ASSUME NEW u \in Urbs, PutUrbOnRing(u) PROVE RequestInUse' /\ CounterCovers'
  <2>1. u \in Jobs /\ u \in Requests \cup {NULL} /\ u # NULL /\ shadowFree > 0
    BY <1>3 DEF Jobs, Requests, PutUrbOnRing, TypeOK
  <2>2. RequestInUse' /\ n' = n + 1
    BY <1>3, <2>1, GetServes DEF PutUrbOnRing, n
  <2> QED
    BY <1>1, <1>3, <2>2 DEF PutUrbOnRing, PutOnRing
<1>4. ASSUME NEW u \in Urbs, RequeueWithShadow(u) PROVE RequestInUse' /\ CounterCovers'
  <2>1. u \in Jobs /\ shadowFree > 0
    BY <1>4 DEF Jobs, Requests, RequeueWithShadow, TypeOK
  <2>2. RequestInUse' /\ n' = n
    BY <1>1, <1>4, <2>1, GetServes DEF RequeueWithShadow, n
  <2> QED
    BY <1>1, <1>4, <2>2 DEF RequeueWithShadow
<1>5. ASSUME NEW u \in Urbs, AbandonShadow(u) PROVE RequestInUse' /\ CounterCovers'
  <2>1. window[u] \in Ids
    BY <1>5 DEF AbandonShadow, TypeOK
  <2>2. RequestInUse' /\ (n' = n \/ n' = n - 1)
    BY <1>5, <2>1, PutServes DEF AbandonShadow, n
  <2>3. UNCHANGED <<requestsOnRingbuffer, scratchPuts>>
    BY <1>5 DEF AbandonShadow
  <2>4. CASE n' = n
    BY <1>1, <2>2, <2>3, <2>4
  <2>5. CASE n' = n - 1
    BY <1>1, <2>2, <2>3, <2>5
  <2> QED
    BY <2>2, <2>4, <2>5
<1>6. ASSUME NEW v \in Resets, PutResetOrCycleUrbOnRing(v)
      PROVE  RequestInUse' /\ CounterCovers'
  <2>1. v \in Jobs /\ v \in Requests \cup {NULL} /\ v # NULL
    BY DEF Jobs, Requests
  <2>2. RequestInUse' /\ n' = n + 1
    BY <1>6, <2>1, GetServes DEF PutResetOrCycleUrbOnRing, n
  <2> QED
    BY <1>1, <1>6, <2>2 DEF PutResetOrCycleUrbOnRing, PutOnRing
<1>7. ASSUME NEW s \in Internal, PutScratchOnRing(s) PROVE RequestInUse' /\ CounterCovers'
  <2>1. s \in Jobs
    BY DEF Jobs
  <2>2. RequestInUse' /\ n' = n
    BY <1>1, <1>7, <2>1, GetServes DEF PutScratchOnRing, n
  <2> QED
    BY <1>1, <1>7, <2>2 DEF PutScratchOnRing, PutOnRing
<1>8. ASSUME NEW e \in backend, BackendRespond(e) PROVE RequestInUse' /\ CounterCovers'
  BY <1>8 DEF BackendRespond, listVars, RequestInUse, CounterCovers
<1>9. CASE DpcAlreadyProcessed \/ DpcDeferToCancel
  BY <1>9 DEF DpcAlreadyProcessed, DpcDeferToCancel, ConsumeResponse, listVars,
              RequestInUse, CounterCovers
<1>10. ASSUME NEW i \in Ids, request[i] # NULL, PutShadow(i),
              DecrementRingBufferRequests, scratchPuts' = scratchPuts
       PROVE  RequestInUse' /\ CounterCovers'
  <2>1. RequestInUse' /\ n >= 1 /\ n' = n - 1
    BY <1>10, PutServes DEF n
  <2>2. requestsOnRingbuffer' = requestsOnRingbuffer - 1
    BY <1>1, <1>10, <2>1 DEF DecrementRingBufferRequests
  <2> QED
    BY <1>1, <1>10, <2>1, <2>2
<1>11. CASE DpcCompleteRequest
  BY <1>10, <1>11, ConsumeTypes DEF DpcCompleteRequest, ConsumeResponse
<1>12. CASE DpcScratch
  <2>1. AnsweredId \in Ids /\ PutShadow(AnsweredId) /\ request[AnsweredId] = NULL
        /\ UNCHANGED <<requestsOnRingbuffer, scratchPuts>>
    BY <1>12, ConsumeTypes DEF DpcScratch, ConsumeResponse
  <2>2. RequestInUse' /\ n' = n
    BY <2>1, PutServes DEF n
  <2> QED
    BY <1>1, <2>1, <2>2
<1>13. ASSUME NEW r \in Requests, FreeShadowForRequest(r)
       PROVE  RequestInUse' /\ CounterCovers'
  <2>1. r # NULL
    BY DEF Jobs
  <2> QED
    BY <1>10, <1>13, <2>1 DEF FreeShadowForRequest
<1> QED
  BY <1>2, <1>3, <1>4, <1>5, <1>6, <1>7, <1>8, <1>9, <1>11, <1>12, <1>13
  DEF RingNext, PutIsoUrbOnRing

\* CounterCovers holds in every reachable state: every path that frees a shadow
\* early takes its count back exactly once, so DecrementRingBufferRequests never
\* finds the counter at zero, and no request on the ring is ever left uncounted.
THEOREM CounterNeverShort == RingSpec => []CounterCovers
<1>1. RingInit => RequestInUse /\ FreeListExact
  BY DEF RingInit, RequestInUse, FreeListExact, FreeSlots, Ids
<1>2. RingInit => CounterCovers
  <2> SUFFICES ASSUME RingInit PROVE CounterCovers
    OBVIOUS
  <2>1. {i \in Ids : request[i] # NULL} = {}
    BY DEF RingInit
  <2>2. Cardinality({i \in Ids : request[i] # NULL}) = 0
    BY <2>1, FS_EmptySet
  <2> QED
    BY <2>2 DEF RingInit, CounterCovers
<1> QED
  BY <1>1, <1>2, InitTypeOK, NextTypeOK, NextFreeListExact, NextCounterCovers, PTL
  DEF RingSpec

-------------------------------------------------------------------------------
(* Entries and the requests behind them.                                   *)

\* A job is on the ring once, and an entry is with the backend or answered, once.
EntriesExact ==
  /\ \A e, f \in Outstanding : e[2] = f[2] => e = f
  /\ backend \cap ResponseSet = {}
  /\ \A k, l \in 1 .. Len(responses) : responses[k] = responses[l] => k = l

\* A shadow serves the request it was taken for, or none.
ServedByHolder ==
  \A i \in Ids : request[i] # NULL => inUse[i] /\ request[i] = holder[i]

\* XenDpc knows a reset by the isReset of its shadow.
ResetsMarked == \A i \in Ids : request[i] \in Resets => isReset[i]

\* Which jobs are put on the ring, and with which marks, and what else happens to
\* the fields of the shadows.
LEMMA ShadowStep ==
  ASSUME TypeOK, [RingNext]_ringVars
  PROVE  \/ \E j \in Jobs, r \in Requests \cup {NULL} :
              /\ shadowFree > 0 /\ GetShadow(j, r) /\ r \in {j, NULL}
              /\ \A i \in Ids : i # Top => isReset'[i] = isReset[i]
              /\ r \in Resets => isReset'[Top]
         \/ \E i \in Ids : PutShadow(i) /\ isReset' = isReset
         \/ UNCHANGED <<inUse, request, holder, isReset>>
<1>1. CASE UNCHANGED ringVars
  BY <1>1 DEF ringVars
<1> DEFINE Got == \E j \in Jobs, r \in Requests \cup {NULL} :
                    /\ shadowFree > 0 /\ GetShadow(j, r) /\ r \in {j, NULL}
                    /\ \A i \in Ids : i # Top => isReset'[i] = isReset[i]
                    /\ r \in Resets => isReset'[Top]
<1>2. ASSUME NEW u \in Urbs, PutUrbOnRing(u) PROVE Got
  <2>1. /\ shadowFree > 0 /\ GetShadow(u, u) /\ u \in Jobs /\ u \in Requests /\ u \notin Resets
        /\ isReset' = [isReset EXCEPT ![Top] = FALSE]
    BY <1>2 DEF PutUrbOnRing, TypeOK, Jobs, Requests
  <2>2. \A i \in Ids : i # Top => isReset'[i] = isReset[i]
    BY <2>1 DEF TypeOK
  <2> QED
    BY <2>1, <2>2
<1>3. ASSUME NEW u \in Urbs, RequeueWithShadow(u) PROVE Got
  <2>1. /\ shadowFree > 0 /\ GetShadow(u, NULL) /\ u \in Jobs /\ NULL \notin Resets
        /\ isReset' = isReset
    BY <1>3 DEF RequeueWithShadow, TypeOK, Jobs, Requests
  <2> QED
    BY <2>1
<1>4. ASSUME NEW v \in Resets, PutResetOrCycleUrbOnRing(v) PROVE Got
  <2>1. /\ shadowFree > 0 /\ GetShadow(v, v) /\ v \in Jobs /\ v \in Requests /\ Top \in Ids
        /\ isReset' = [isReset EXCEPT ![Top] = TRUE]
    BY <1>4, GetShadowTypes DEF PutResetOrCycleUrbOnRing, TypeOK, Jobs, Requests
  <2>2. isReset'[Top] /\ \A i \in Ids : i # Top => isReset'[i] = isReset[i]
    BY <2>1 DEF TypeOK
  <2> QED
    BY <2>1, <2>2
<1>5. ASSUME NEW s \in Internal, PutScratchOnRing(s) PROVE Got
  <2>1. /\ shadowFree > 0 /\ GetShadow(s, NULL) /\ s \in Jobs /\ NULL \notin Resets
        /\ isReset' = [isReset EXCEPT ![Top] = TRUE] \/ isReset' = isReset
    BY <1>5 DEF PutScratchOnRing, Jobs, Requests
  <2>2. \A i \in Ids : i # Top => isReset'[i] = isReset[i]
    BY <2>1 DEF TypeOK
  <2> QED
    BY <2>1, <2>2
<1>6. ASSUME NEW u \in Urbs, AbandonShadow(u)
      PROVE  \E i \in Ids : PutShadow(i) /\ isReset' = isReset
  BY <1>6 DEF AbandonShadow, TypeOK
<1>7. CASE DpcCompleteRequest \/ DpcScratch
  BY <1>7, ConsumeTypes DEF DpcCompleteRequest, DpcScratch, ConsumeResponse
<1>8. ASSUME NEW r \in Requests, FreeShadowForRequest(r)
      PROVE  \E i \in Ids : PutShadow(i) /\ isReset' = isReset
  BY <1>8 DEF FreeShadowForRequest
<1>9. CASE DpcAlreadyProcessed \/ DpcDeferToCancel \/ \E e \in backend : BackendRespond(e)
  BY <1>9 DEF DpcAlreadyProcessed, DpcDeferToCancel, BackendRespond, ConsumeResponse, listVars
<1> QED
  BY <1>1, <1>2, <1>3, <1>4, <1>5, <1>6, <1>7, <1>8, <1>9 DEF RingNext, PutIsoUrbOnRing

\* Every step keeps the shadows with their holders and the resets marked.
LEMMA NextShadowsHeld ==
  TypeOK /\ FreeListExact /\ ServedByHolder /\ ResetsMarked /\ [RingNext]_ringVars
    => ServedByHolder' /\ ResetsMarked'
<1> SUFFICES ASSUME TypeOK, FreeListExact, ServedByHolder, ResetsMarked,
                    [RingNext]_ringVars
             PROVE  ServedByHolder' /\ ResetsMarked'
  OBVIOUS
<1>1. ASSUME NEW j \in Jobs, NEW r \in Requests \cup {NULL},
             shadowFree > 0, GetShadow(j, r), r \in {j, NULL},
             \A i \in Ids : i # Top => isReset'[i] = isReset[i],
             r \in Resets => isReset'[Top]
      PROVE  ServedByHolder' /\ ResetsMarked'
  <2>1. Top \in Ids
    BY <1>1, GetShadowTypes
  <2>2. \A i \in Ids : /\ inUse'[i] = IF i = Top THEN TRUE ELSE inUse[i]
                       /\ request'[i] = IF i = Top THEN r ELSE request[i]
                       /\ holder'[i] = IF i = Top THEN j ELSE holder[i]
    BY <1>1, <2>1 DEF GetShadow, TypeOK
  <2>3. ServedByHolder'
    BY <1>1, <2>2 DEF ServedByHolder
  <2>4. ResetsMarked'
    BY <1>1, <2>2 DEF ResetsMarked
  <2> QED
    BY <2>3, <2>4
<1>2. ASSUME NEW i \in Ids, PutShadow(i), isReset' = isReset
      PROVE  ServedByHolder' /\ ResetsMarked'
  <2>1. CASE ~inUse[i]
    BY <1>2, <2>1 DEF PutShadow, listVars, ServedByHolder, ResetsMarked
  <2>2. CASE inUse[i]
    <3>1. \A m \in Ids : /\ inUse'[m] = IF m = i THEN FALSE ELSE inUse[m]
                         /\ request'[m] = IF m = i THEN NULL ELSE request[m]
                         /\ holder'[m] = IF m = i THEN NULL ELSE holder[m]
      BY <1>2, <2>2 DEF PutShadow, ClearShadow, TypeOK
    <3>2. NULL \notin Resets
      BY DEF Jobs, Requests
    <3>3. ServedByHolder'
      BY <3>1 DEF ServedByHolder
    <3>4. ResetsMarked'
      BY <1>2, <3>1, <3>2 DEF ResetsMarked
    <3> QED
      BY <3>3, <3>4
  <2> QED
    BY <2>1, <2>2
<1>3. CASE UNCHANGED <<inUse, request, holder, isReset>>
  BY <1>3 DEF ServedByHolder, ResetsMarked
<1> QED
  BY <1>1, <1>2, <1>3, ShadowStep

\* A put adds the one entry of its job.
LEMMA PutExact ==
  ASSUME TypeOK, EntriesExact, NEW j, Unreferenced(j), PutOnRing(j), UNCHANGED responses
  PROVE  EntriesExact' /\ Outstanding' = Outstanding \cup {<<Top, j>>}
<1>1. /\ ResponseSet' = ResponseSet /\ backend' = backend \cup {<<Top, j>>}
      /\ \A e \in Outstanding : e[2] # j
  BY DEF ResponseSet, PutOnRing, Unreferenced
<1>2. Outstanding' = Outstanding \cup {<<Top, j>>}
  BY <1>1 DEF Outstanding
<1>3. \A e, f \in Outstanding' : e[2] = f[2] => e = f
  BY <1>1, <1>2 DEF EntriesExact
<1>4. backend' \cap ResponseSet' = {}
  BY <1>1 DEF EntriesExact, Outstanding
<1> QED
  BY <1>2, <1>3, <1>4 DEF EntriesExact

\* An answer moves an entry from the backend to the responses.
LEMMA RespondExact ==
  ASSUME TypeOK, EntriesExact, NEW e \in backend, BackendRespond(e)
  PROVE  EntriesExact' /\ Outstanding' = Outstanding
<1>1. /\ e \in Ids \X Jobs /\ responses \in Seq(Ids \X Jobs)
      /\ backend' = backend \ {e} /\ responses' = Append(responses, e)
  BY DEF BackendRespond, TypeOK
<1>2. ResponseSet' = ResponseSet \cup {e}
  BY <1>1, RespondAdds
<1>3. Outstanding' = Outstanding
  BY <1>1, <1>2 DEF Outstanding
<1>4. e \notin ResponseSet /\ backend' \cap ResponseSet' = {}
  BY <1>1, <1>2 DEF EntriesExact
<1>5. ASSUME NEW k \in 1 .. Len(responses'), NEW l \in 1 .. Len(responses'),
             responses'[k] = responses'[l]
      PROVE  k = l
  <2> DEFINE n == Len(responses)
  <2>1. /\ n \in Nat /\ Len(responses') = n + 1 /\ responses'[n + 1] = e
        /\ \A m \in 1 .. n : responses'[m] = responses[m]
    BY <1>1
  <2>2. \A m \in 1 .. n : responses[m] # e
    BY <1>4 DEF ResponseSet
  <2>3. k \in 1 .. n \/ k = n + 1
    BY <1>5, <2>1
  <2>4. l \in 1 .. n \/ l = n + 1
    BY <1>5, <2>1
  <2> QED
    BY <1>5, <2>1, <2>2, <2>3, <2>4 DEF EntriesExact
<1> QED
  BY <1>3, <1>4, <1>5 DEF EntriesExact

\* Consuming an answer removes its entry and no other one.
LEMMA ConsumeExact ==
  ASSUME TypeOK, EntriesExact, ConsumeResponse
  PROVE  /\ EntriesExact'
         /\ Head(responses) \in Outstanding
         /\ Outstanding' = Outstanding \ {Head(responses)}
<1> DEFINE n == Len(responses)
<1>1. /\ responses \in Seq(Ids \X Jobs) /\ responses # <<>>
      /\ responses' = Tail(responses) /\ backend' = backend
  BY DEF TypeOK, ConsumeResponse
<1>2. /\ n \in Nat /\ n > 0 /\ Head(responses) = responses[1] /\ Len(responses') = n - 1
      /\ \A k \in 1 .. n - 1 : responses'[k] = responses[k + 1]
  BY <1>1
<1>3. 1 \in 1 .. n /\ \A k \in 1 .. n - 1 : k + 1 \in 1 .. n /\ k + 1 # 1
  BY <1>2
<1>4. ResponseSet' \subseteq ResponseSet \ {Head(responses)}
  <2> SUFFICES ASSUME NEW k \in 1 .. n - 1
               PROVE  responses'[k] \in ResponseSet /\ responses'[k] # Head(responses)
    BY <1>2 DEF ResponseSet
  <2> QED
    BY <1>2, <1>3 DEF ResponseSet, EntriesExact
<1>5. ResponseSet \subseteq ResponseSet' \cup {Head(responses)}
  BY <1>1, ConsumeRemoves
<1>6. Head(responses) \in ResponseSet /\ Head(responses) \notin backend
  BY <1>2, <1>3 DEF ResponseSet, EntriesExact
<1>7. Outstanding' = Outstanding \ {Head(responses)}
  BY <1>1, <1>4, <1>5, <1>6 DEF Outstanding
<1>8. ASSUME NEW k \in 1 .. Len(responses'), NEW l \in 1 .. Len(responses'),
             responses'[k] = responses'[l]
      PROVE  k = l
  <2>1. k \in 1 .. n - 1 /\ l \in 1 .. n - 1
    BY <1>2, <1>8
  <2>2. responses[k + 1] = responses[l + 1] /\ k + 1 \in 1 .. n /\ l + 1 \in 1 .. n
    BY <1>2, <1>3, <1>8, <2>1
  <2>3. k + 1 = l + 1
    BY <2>2 DEF EntriesExact
  <2> QED
    BY <2>1, <2>3
<1>9. \A e, f \in Outstanding' : e[2] = f[2] => e = f
  BY <1>7 DEF EntriesExact
<1>10. backend' \cap ResponseSet' = {}
  BY <1>1, <1>4 DEF EntriesExact
<1> QED
  BY <1>6, <1>7, <1>8, <1>9, <1>10 DEF EntriesExact, Outstanding

\* Every step keeps the entries exact.
LEMMA NextEntriesExact == TypeOK /\ EntriesExact /\ [RingNext]_ringVars => EntriesExact'
<1> SUFFICES ASSUME TypeOK, EntriesExact, [RingNext]_ringVars PROVE EntriesExact'
  OBVIOUS
<1>1. CASE UNCHANGED <<backend, responses>>
  BY <1>1 DEF EntriesExact, Outstanding, ResponseSet
<1>2. ASSUME NEW u \in Urbs, PutUrbOnRing(u) PROVE EntriesExact'
  BY <1>2, PutExact DEF PutUrbOnRing
<1>3. ASSUME NEW v \in Resets, PutResetOrCycleUrbOnRing(v) PROVE EntriesExact'
  BY <1>3, PutExact DEF PutResetOrCycleUrbOnRing
<1>4. ASSUME NEW s \in Internal, PutScratchOnRing(s) PROVE EntriesExact'
  BY <1>4, PutExact DEF PutScratchOnRing
<1>5. ASSUME NEW e \in backend, BackendRespond(e) PROVE EntriesExact'
  BY <1>5, RespondExact
<1>6. CASE ConsumeResponse
  BY <1>6, ConsumeExact
<1> QED
  BY <1>1, <1>2, <1>3, <1>4, <1>5, <1>6
  DEF RingNext, PutIsoUrbOnRing, RequeueWithShadow, AbandonShadow, DpcAlreadyProcessed,
      DpcDeferToCancel, DpcCompleteRequest, DpcScratch, FreeShadowForRequest, ringVars

RingInv == TypeOK /\ FreeListExact /\ ServedByHolder /\ ResetsMarked /\ EntriesExact

\* What is known of the ring in every reachable state, for the proofs about its
\* clients: an id is on the free list or held by one job, every job is on the ring
\* once, and a shadow serves nobody but the job it was taken for.
THEOREM RingInvariant == RingSpec => []RingInv
<1>1. RingInit => RingInv
  <2>1. RingInit => FreeListExact /\ ServedByHolder
    BY DEF RingInit, FreeListExact, FreeSlots, ServedByHolder, Ids
  <2>2. RingInit => ResetsMarked
    BY DEF RingInit, ResetsMarked, Jobs, Requests
  <2>3. RingInit => EntriesExact
    BY DEF RingInit, EntriesExact, Outstanding, ResponseSet
  <2> QED
    BY <2>1, <2>2, <2>3, InitTypeOK DEF RingInv
<1>2. RingInv /\ [RingNext]_ringVars => RingInv'
  BY NextTypeOK, NextFreeListExact, NextShadowsHeld, NextEntriesExact DEF RingInv
<1> QED
  BY <1>1, <1>2, PTL DEF RingSpec
===============================================================================
