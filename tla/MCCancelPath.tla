------------------------------ MODULE MCCancelPath ------------------------------
(***************************************************************************)
(* TLC instances of CancelPath.  Transfers share one pipe; transfers in    *)
(* Controls, and port resets, have no endpoint.                            *)
(***************************************************************************)
EXTENDS CancelPath, TLC

CONSTANTS Controls,   \* transfers without an endpoint
          thePipe

MCPipeOf == [r \in Requests |-> IF r \in Resets \cup Controls THEN NULL ELSE thePipe]

\* Transfers of the pipe are interchangeable, and so are the internal requests.
AbortSymmetry == Permutations(Urbs \ Controls) \cup Permutations(Scratches)

ScratchSymmetry == Permutations(Scratches)

\* The state without the array slots above ShadowFree, which no code reads
\* before writing them, and without the number of free work items when a new
\* one can always be had.
RingCancelView ==
  <<[k \in FreeSlots \cap Ids |-> freeList[k]], shadowFree, inUse, request, holder, deferred,
    isReset, requestsOnRingbuffer, backend, responses, window, scratchPuts,
    reqVars, worker, IF ItemsCanFail THEN freeItems ELSE 0,
    pipeVars, padVars, plugVars, dpcVars, resetInProgress>>

\* Also without the history that only properties of ShadowRing look at.
CancelView ==
  <<[k \in FreeSlots \cap Ids |-> freeList[k]], shadowFree, inUse, request, holder,
    isReset, requestsOnRingbuffer, backend, responses, window,
    reqVars, worker, IF ItemsCanFail THEN freeItems ELSE 0,
    pipeVars, padVars, plugVars, dpcVars, resetInProgress>>

\* Either the transfers of the pipe alone, or two requests one of which has no
\* endpoint.
NoEndpoint == Controls \cup Resets
Scenarios == {Urbs \ Controls} \cup {{r, q} : r \in Requests, q \in NoEndpoint}

ScenarioInit == \E present \in Scenarios : CancelInitFor(present)

ScenarioSpec == ScenarioInit /\ [][CancelNext]_cancelVars

FairScenarioSpec == ScenarioSpec /\ CancelFairness
===============================================================================
