----------------------------- MODULE MCShadowRing -----------------------------
(***************************************************************************)
(* TLC instance of ShadowRing.  Two shadows: one a transfer may take and    *)
(* the reserve.  Two transfers and one job of every other kind let an id    *)
(* freed early be taken by another request before the late answer.          *)
(***************************************************************************)
EXTENDS ShadowRing, TLC

\* The transfers, and the internal requests of one kind, are interchangeable.
RingSymmetry == Permutations(Urbs)

\* The state without the array slots above ShadowFree, which no code reads
\* before writing them.
RingView == <<shadowFree, [k \in FreeSlots \cap Ids |-> freeList[k]], inUse, request,
              holder, deferred, isReset, requestsOnRingbuffer, backend,
              responses, window, scratchPuts>>
===============================================================================
