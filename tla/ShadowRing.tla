------------------------------ MODULE ShadowRing ------------------------------
(***************************************************************************)
(* The frontend half of the USB ring (xenif.cpp): the array of shadows,    *)
(* the stack of free shadow ids, and the entries that are with the backend *)
(* or answered by it.                                                      *)
(*                                                                         *)
(* Every action is one critical section under the FDO lock, or one step of *)
(* the backend, which takes no lock.  XenDpc handles the answers it finds  *)
(* in one critical section; here it handles one answer per step, which is  *)
(* the behaviour in which the backend published the others just after      *)
(* rsp_prod was read, because FdoEvtDeviceDpcFunc then runs XenDpc again.  *)
(*                                                                         *)
(* Who frees a shadow early, and when, is left open here: the module is    *)
(* the most general client of the ring operations.  CancelPath extends it  *)
(* with the callers and is shown to take only steps of this module.        *)
(***************************************************************************)
EXTENDS Naturals, Sequences, FiniteSets

CONSTANTS
  ShadowEntries,   \* SHADOW_ENTRIES: number of shadows (the size of the ring)
  Urbs,            \* requests put by PutUrbOnRing and PutIsoUrbOnRing
  Resets,          \* requests put by PutResetOrCycleUrbOnRing
  Scratches,       \* internal requests of PutScratchOnRing without isReset
  ScratchResets,   \* internal requests of PutScratchOnRing with isReset
  NULL,
  MaxCount         \* bound: nothing is put when RequestsOnRingbuffer is this

ASSUME ShadowEntriesAssumption == ShadowEntries \in Nat \ {0}

Requests == Urbs \cup Resets
Internal == Scratches \cup ScratchResets
Jobs     == Requests \cup Internal

ASSUME JobsAssumption == /\ NULL \notin Jobs /\ NULL \notin Nat
                         /\ Urbs \cap Resets = {}
                         /\ Requests \cap Internal = {}
                         /\ Scratches \cap ScratchResets = {}
                         /\ MaxCount \in Nat

Ids == 0 .. ShadowEntries - 1

VARIABLES
  shadowFree,            \* ShadowFree
  freeList,              \* ShadowFreeList, the whole array
  inUse,                 \* Shadows[i].InUse
  request,               \* Shadows[i].Request
  isReset,               \* Shadows[i].isReset
  requestsOnRingbuffer,  \* RequestsOnRingbuffer
  backend,               \* entries <<id, job>> put on the ring and not answered
  responses,             \* answers between rsp_cons and rsp_prod
  window,                \* window[u]: shadow PutUrbOnRing(u) holds while
                         \* RequeueRequest has released the lock, else NULL
  holder,                \* history: the job a shadow was last taken for
  deferred,              \* history: shadows whose answer XenDpc left to the
                         \* cancel side
  scratchPuts            \* history: internal requests put so far

listVars  == <<shadowFree, freeList, inUse, request, holder, deferred>>
ringVars  == <<shadowFree, freeList, inUse, request, holder, deferred, isReset,
               requestsOnRingbuffer, backend, responses, window, scratchPuts>>

ResponseSet == {responses[k] : k \in 1 .. Len(responses)}

\* Entries of the ring the frontend has put and not yet consumed an answer to.
Outstanding == backend \cup ResponseSet

\* A request handle or internal job that no shadow and no ring entry refers to.
Unreferenced(j) == /\ \A i \in Ids : request[i] # j
                   /\ \A e \in Outstanding : e[2] # j

RingInit ==
  /\ shadowFree = ShadowEntries
  /\ freeList = [i \in Ids |-> i]
  /\ inUse = [i \in Ids |-> FALSE]
  /\ request = [i \in Ids |-> NULL]
  /\ isReset = [i \in Ids |-> FALSE]
  /\ requestsOnRingbuffer = 0
  /\ backend = {}
  /\ responses = <<>>
  /\ window = [u \in Urbs |-> NULL]
  /\ holder = [i \in Ids |-> NULL]
  /\ deferred = {}
  /\ scratchPuts = 0

-------------------------------------------------------------------------------
(* The free list.                                                          *)

\* GetShadowFromFreeList pops this id.
Top == freeList[shadowFree - 1]

\* Pop the top shadow for job j and store r in its Request field.
GetShadow(j, r) ==
  /\ shadowFree' = shadowFree - 1
  /\ inUse' = [inUse EXCEPT ![Top] = TRUE]
  /\ request' = [request EXCEPT ![Top] = r]
  /\ holder' = [holder EXCEPT ![Top] = j]
  /\ UNCHANGED <<freeList, deferred>>

\* A full list takes no further id.
PushId(i) ==
  IF shadowFree < ShadowEntries
  THEN /\ freeList' = [freeList EXCEPT ![shadowFree] = i]
       /\ shadowFree' = shadowFree + 1
  ELSE UNCHANGED <<freeList, shadowFree>>

ClearShadow(i) ==
  /\ inUse' = [inUse EXCEPT ![i] = FALSE]
  /\ request' = [request EXCEPT ![i] = NULL]
  /\ holder' = [holder EXCEPT ![i] = NULL]
  /\ deferred' = deferred \ {i}

\* Mutant of PutShadow: the InUse check is missing.
PutShadowNotInUse(i) == ClearShadow(i) /\ PushId(i)

\* Mutant of PutShadow: neither the InUse nor the ShadowFree check is made.
PutShadowUnchecked(i) ==
  /\ ClearShadow(i)
  /\ freeList' = [freeList EXCEPT ![shadowFree] = i]
  /\ shadowFree' = shadowFree + 1

\* PutShadowOnFreelist: a shadow that is not in use is left alone.
PutShadow(i) ==
  IF inUse[i] THEN ClearShadow(i) /\ PushId(i) ELSE UNCHANGED listVars

\* DecrementRingBufferRequests refuses to go below zero.
DecrementRingBufferRequests ==
  requestsOnRingbuffer' = IF requestsOnRingbuffer = 0 THEN 0
                          ELSE requestsOnRingbuffer - 1

-------------------------------------------------------------------------------
(* Putting requests on the ring.                                           *)

\* PutRequest and PutOnRing: every entry is counted.
PutOnRing(j) ==
  /\ requestsOnRingbuffer < MaxCount
  /\ backend' = backend \cup {<<Top, j>>}
  /\ requestsOnRingbuffer' = requestsOnRingbuffer + 1

\* Mutant of PutUrbOnRing: a transfer may take the last shadow.
PutUrbNoReserve(u) ==
  /\ Unreferenced(u)
  /\ shadowFree > 0
  /\ GetShadow(u, u)
  /\ isReset' = [isReset EXCEPT ![Top] = FALSE]
  /\ PutOnRing(u)
  /\ UNCHANGED <<responses, window, scratchPuts>>

\* A transfer leaves the last free shadow alone ("reserve one request for
\* reset of all requests").  With one free shadow or less it is requeued, and
\* nothing here changes.
PutUrbOnRing(u) ==
  /\ Unreferenced(u)
  /\ shadowFree > 1
  /\ GetShadow(u, u)
  /\ isReset' = [isReset EXCEPT ![Top] = FALSE]
  /\ PutOnRing(u)
  /\ UNCHANGED <<responses, window, scratchPuts>>

\* Isochronous transfers have their own function with the same effect here.
PutIsoUrbOnRing(u) == PutUrbOnRing(u)

\* Mutant of RequeueWithShadow: the request is requeued, the shadow forgotten.
RequeueForgetsShadow(u) ==
  /\ Unreferenced(u) /\ window[u] = NULL
  /\ shadowFree > 1
  /\ GetShadow(u, NULL)
  /\ UNCHANGED <<window, isReset, requestsOnRingbuffer, backend, responses,
                 scratchPuts>>

\* PutUrbOnRing after a failed AllocateGrefs: RequeueRequest releases the lock
\* while the shadow is still taken; FINALLY gives the shadow back afterwards.
\* The request itself is in the RequestQueue by then and may be put again by
\* another thread before that.  (A failure that does not release the lock in
\* between leaves no trace here.)
RequeueWithShadow(u) ==
  /\ Unreferenced(u) /\ window[u] = NULL
  /\ shadowFree > 1
  /\ GetShadow(u, NULL)
  /\ window' = [window EXCEPT ![u] = Top]
  /\ UNCHANGED <<isReset, requestsOnRingbuffer, backend, responses, scratchPuts>>

AbandonShadow(u) ==
  /\ window[u] # NULL
  /\ PutShadow(window[u])
  /\ window' = [window EXCEPT ![u] = NULL]
  /\ UNCHANGED <<isReset, requestsOnRingbuffer, backend, responses, scratchPuts>>

\* Resets and port cycles may take the last shadow.
PutResetOrCycleUrbOnRing(v) ==
  /\ Unreferenced(v)
  /\ shadowFree > 0
  /\ GetShadow(v, v)
  /\ isReset' = [isReset EXCEPT ![Top] = TRUE]
  /\ PutOnRing(v)
  /\ UNCHANGED <<responses, window, scratchPuts>>

\* Internal requests may take the last shadow too.  Only the reset branch
\* writes isReset: otherwise the value of the shadow's previous use stays.
PutScratchOnRing(s) ==
  /\ Unreferenced(s)
  /\ shadowFree > 0
  /\ GetShadow(s, NULL)
  /\ isReset' = IF s \in ScratchResets THEN [isReset EXCEPT ![Top] = TRUE]
                ELSE isReset
  /\ PutOnRing(s)
  /\ scratchPuts' = scratchPuts + 1
  /\ UNCHANGED <<responses, window>>

-------------------------------------------------------------------------------
(* The backend (external): answers any entry it holds, in any order, and   *)
(* never runs its producer over answers that were not consumed.            *)

BackendRespond(e) ==
  /\ e \in backend
  /\ Len(responses) < ShadowEntries
  /\ backend' = backend \ {e}
  /\ responses' = Append(responses, e)
  /\ UNCHANGED <<listVars, isReset, requestsOnRingbuffer, window, scratchPuts>>

-------------------------------------------------------------------------------
(* XenDpc, one answer.                                                     *)

ConsumeResponse ==
  /\ responses # <<>>
  /\ responses' = Tail(responses)
  /\ UNCHANGED <<isReset, backend, window, scratchPuts>>

AnsweredId == Head(responses)[1]

\* Mutant of DpcAlreadyProcessed: the count is taken back once more.
DpcDecrementsAgain ==
  /\ ConsumeResponse
  /\ ~inUse[AnsweredId]
  /\ DecrementRingBufferRequests
  /\ UNCHANGED listVars

\* "handled by cancel side": the shadow is free already.
DpcAlreadyProcessed ==
  /\ ConsumeResponse
  /\ ~inUse[AnsweredId]
  /\ UNCHANGED <<requestsOnRingbuffer, listVars>>

\* The cancel routine owns the request, or the request is completed already:
\* the answer is dropped and the shadow stays with whoever owns the request.
DpcDeferToCancel ==
  /\ ConsumeResponse
  /\ inUse[AnsweredId] /\ request[AnsweredId] # NULL
  /\ deferred' = deferred \cup {AnsweredId}
  /\ UNCHANGED <<shadowFree, freeList, inUse, request, holder, requestsOnRingbuffer>>

\* The DPC owns the request and will complete it.
DpcCompleteRequest ==
  /\ ConsumeResponse
  /\ inUse[AnsweredId] /\ request[AnsweredId] # NULL
  /\ DecrementRingBufferRequests
  /\ PutShadow(AnsweredId)

\* No Request: an internal request; its count is not taken back.
DpcScratch ==
  /\ ConsumeResponse
  /\ inUse[AnsweredId] /\ request[AnsweredId] = NULL
  /\ PutShadow(AnsweredId)
  /\ UNCHANGED requestsOnRingbuffer

\* The cancel and cleanup code take a shadow away from the request it serves,
\* whether or not the backend still holds the entry.
FreeShadowForRequest(r) ==
  \E i \in Ids :
    /\ request[i] = r
    /\ PutShadow(i)
    /\ DecrementRingBufferRequests
    /\ UNCHANGED <<isReset, backend, responses, window, scratchPuts>>

RingNext ==
  \/ \E u \in Urbs : \/ PutUrbOnRing(u)
                     \/ PutIsoUrbOnRing(u)
                     \/ RequeueWithShadow(u)
                     \/ AbandonShadow(u)
  \/ \E v \in Resets : PutResetOrCycleUrbOnRing(v)
  \/ \E s \in Internal : PutScratchOnRing(s)
  \/ \E e \in backend : BackendRespond(e)
  \/ DpcAlreadyProcessed
  \/ DpcDeferToCancel
  \/ DpcCompleteRequest
  \/ DpcScratch
  \/ \E r \in Requests : FreeShadowForRequest(r)

RingSpec == RingInit /\ [][RingNext]_ringVars

-------------------------------------------------------------------------------
(* Properties.                                                             *)

\* Every variable keeps the range of the field it stands for; in particular
\* ShadowFree never leaves 0 .. ShadowArrayEntries, whoever frees a shadow
\* (the ASSERTs of PutShadowOnFreelist and GetShadowFromFreeList).
TypeOK ==
  /\ shadowFree \in 0 .. ShadowEntries
  /\ freeList \in [Ids -> Ids]
  /\ inUse \in [Ids -> BOOLEAN]
  /\ request \in [Ids -> Requests \cup {NULL}]
  /\ holder \in [Ids -> Jobs \cup {NULL}]
  /\ isReset \in [Ids -> BOOLEAN]
  /\ requestsOnRingbuffer \in Nat
  /\ backend \subseteq Ids \X Jobs
  /\ responses \in Seq(Ids \X Jobs)
  /\ window \in [Urbs -> Ids \cup {NULL}]
  /\ deferred \subseteq Ids
  /\ scratchPuts \in Nat

FreeSlots == 0 .. shadowFree - 1

\* The free stack holds every shadow that is not in use, each exactly once, so
\* no id is ever on the ring twice because it was handed out twice.  It has to
\* survive answers that arrive for shadows freed early, and shadows given back
\* by a thread that lost them while RequeueRequest had the lock released.
FreeListExact ==
  /\ \A k, l \in FreeSlots : freeList[k] = freeList[l] => k = l
  /\ \A i \in Ids : ~inUse[i] <=> \E k \in FreeSlots : freeList[k] = i

\* Some shadow is always free or serving a reset or an internal request: the
\* transfers together can never take them all, so a reset finds a shadow
\* ("reserve one request for reset of all requests").
ReserveForReset == \E i \in Ids : ~(inUse[i] /\ holder[i] \in Urbs)

\* No shadow leaks: one in use is waiting for the answer to its own entry, or
\* its answer was left to the cancel side, or a thread is about to give it back.
ShadowAccounted ==
  \A i \in Ids : inUse[i] => \/ <<i, holder[i]>> \in Outstanding
                            \/ i \in deferred
                            \/ \E u \in Urbs : window[u] = i

\* RequestsOnRingbuffer is never short of the shadows that serve a request plus
\* every internal request ever put: no path decrements it twice, so the
\* "RequestsOnRingbuffer is zero!" branch of the decrement is never taken.  (It
\* can be too high: the DPC never takes an internal request back.)
CounterCovers ==
  requestsOnRingbuffer >= Cardinality({i \in Ids : request[i] # NULL}) + scratchPuts

\* The shadow array implements the pool of ids: an id goes to a new owner only
\* when it has none.
Pool == INSTANCE IdPool WITH Owners <- Jobs, NoOwner <- NULL, owner <- holder

PoolRefined == Pool!PoolSpec

===============================================================================
