--------------------------- MODULE CancelPath_proofs ---------------------------
(***************************************************************************)
(* Proofs about CancelPath for all requests, pipes and shadows.            *)
(*                                                                         *)
(* First, that whatever cancellation and removal do to the shadows is a    *)
(* step of ShadowRing, so all that is proved of the ring holds here.       *)
(* Then the types, and then the order in which the aborts of a pipe and    *)
(* the requests that wait for them come and go.  Last, who completes a     *)
(* request, and who ends a reset.                                          *)
(***************************************************************************)
EXTENDS CancelPath, ShadowRing_proofs, FiniteSetTheorems

USE ShadowEntriesAssumption, JobsAssumption, CancelAssumption

-------------------------------------------------------------------------------
(* The ring.                                                               *)

\* FreeShadow is a step of the ring or none.
LEMMA FreeShadowIsRingStep ==
  ASSUME NEW r \in Requests, FreeShadow(r)
  PROVE  [RingNext]_ringVars
BY DEF FreeShadow, RingNext

\* So is the end of every worker.
LEMMA FinishIsRingStep ==
  ASSUME NEW r \in Requests, FinishWorker(r)
  PROVE  [RingNext]_ringVars
BY FreeShadowIsRingStep DEF FinishWorker

\* The cancel routine.
LEMMA RoutineIsRingStep ==
  ASSUME NEW r \in Requests, CancelRoutine(r)
  PROVE  [RingNext]_ringVars
<1>1. CASE CancelUnplugged(r)
  BY <1>1, FreeShadowIsRingStep DEF CancelUnplugged
<1>2. CASE CancelStartAbort(r)
  BY <1>2 DEF CancelStartAbort
<1>3. CASE CancelAwaitAbort(r)
  BY <1>3 DEF CancelAwaitAbort
<1>4. CASE CancelNoAbortItem(r)
  BY <1>4 DEF CancelNoAbortItem
<1>5. CASE CancelWithoutReset(r)
  BY <1>5, FreeShadowIsRingStep DEF CancelWithoutReset
<1>6. CASE CancelStartReset(r)
  BY <1>6 DEF CancelStartReset
<1> QED
  BY <1>1, <1>2, <1>3, <1>4, <1>5, <1>6 DEF CancelRoutine

\* The work items.
LEMMA WorkerIsRingStep ==
  ASSUME NEW r \in Requests, WorkerStep(r)
  PROVE  [RingNext]_ringVars
<1>1. CASE FinishWorker(r)
  BY <1>1, FinishIsRingStep
<1>2. ASSUME NEW s \in Internal, PutScratchOnRing(s) PROVE [RingNext]_ringVars
  BY <1>2 DEF RingNext
<1>3. CASE UNCHANGED ringVars
  BY <1>3
<1>4. FinishWorker(r) \/ (\E s \in Internal : PutScratchOnRing(s)) \/ UNCHANGED ringVars
  BY DEF WorkerStep, ReturnWorkItem, AbortNotNeeded, AwaitPad, AbortPadUnplugged, AbortPut,
         AbortNoShadow, AbortDone, ScratchWaitOver, ClearScratchEvent, ScratchUnplugs,
         WaitNotNeeded, WaitStart, WaitWoken, WaitDone, ResetUnplugged, ResetGetsPad,
         ResetPut, ResetNoShadow, ResetDone, Internal
<1> QED
  BY <1>1, <1>2, <1>3, <1>4

\* The step of the sweep names a request by its shadow.
LEMMA SweepIsRingStep ==
  ASSUME TypeOK, NEW n \in Ids, SweepCompletes(n)
  PROVE  [RingNext]_ringVars
<1>1. request[n] \in Requests /\ FreeShadowForRequest(request[n])
  BY DEF SweepCompletes, TypeOK
<1> QED
  BY <1>1 DEF RingNext

\* Every step of CancelPath is a step of ShadowRing or leaves the ring alone.
LEMMA NextIsRingStep ==
  TypeOK /\ [CancelNext]_cancelVars => [RingNext]_ringVars
<1> SUFFICES ASSUME TypeOK, [CancelNext]_cancelVars PROVE [RingNext]_ringVars
  OBVIOUS
<1>1. CASE UNCHANGED cancelVars
  BY <1>1 DEF cancelVars
<1>2. ASSUME NEW u \in Urbs, SubmitUrb(u) \/ SubmitUrbNoGrefs(u) \/ RequeueFinished(u)
      PROVE  [RingNext]_ringVars
  BY <1>2 DEF SubmitUrb, SubmitUrbNoGrefs, RequeueFinished, RingNext
<1>3. ASSUME NEW v \in Resets, SubmitReset(v) PROVE [RingNext]_ringVars
  BY <1>3 DEF SubmitReset, RingNext
<1>4. ASSUME NEW r \in Requests, CancelRoutine(r) \/ WorkerStep(r) PROVE [RingNext]_ringVars
  BY <1>4, RoutineIsRingStep, WorkerIsRingStep
<1>5. ASSUME NEW r \in Requests,
             \/ Cancel(r) \/ ScratchTimeout(r) \/ DpcDefers(r) \/ DpcCompletes(r)
             \/ DpcCompletesCollected(r)
      PROVE  [RingNext]_ringVars
  BY <1>5 DEF Cancel, ScratchTimeout, DpcDefers, DpcCompletes, DpcCompletesCollected, RingNext
<1>6. ASSUME NEW e \in backend, BackendAnswers(e) PROVE [RingNext]_ringVars
  BY <1>6 DEF BackendAnswers, RingNext
<1>7. CASE DpcSkips \/ DpcScratchAnswer
  BY <1>7 DEF DpcSkips, DpcScratchAnswer, RingNext
<1>8. CASE WatchdogUnplugs \/ CleanupStart \/ CleanupUnplugs \/ SweepEnds
  BY <1>8 DEF WatchdogUnplugs, CleanupStart, CleanupUnplugs, SweepEnds
<1>9. ASSUME NEW n \in Ids, SweepCompletes(n) PROVE [RingNext]_ringVars
  BY <1>9, SweepIsRingStep
<1> QED
  BY <1>1, <1>2, <1>3, <1>4, <1>5, <1>6, <1>7, <1>8, <1>9 DEF CancelNext

\* CancelPath implements ShadowRing: no path of cancellation, of requeueing, of
\* surprise removal or of the final sweep does anything to the shadows that the
\* ring operations do not do, so the ring's theorems hold for CancelPath.
THEOREM RingImplemented == CancelSpec => RingRefined
<1>1. CancelInit => RingInit
  BY DEF CancelInit, CancelInitFor
<1> QED
  BY <1>1, InitTypeOK, NextTypeOK, NextIsRingStep, PTL DEF CancelSpec, RingRefined, RingSpec

\* In particular a free shadow is free once, whoever frees one early.
THEOREM CancelFreeListSafe == CancelSpec => []FreeListExact
BY RingImplemented, FreeListSafe DEF RingRefined

-------------------------------------------------------------------------------
(* Types.                                                                  *)

Kinds == {"none", "abort", "wait", "reset"}
Counters == {"none", "queued", "access", "put", "scratch", "answered", "timedOut", "busted",
             "locked", "event", "woken", "return"}
Workers == [Requests -> [kind : Kinds, pc : Counters, job : Internal \cup {NULL}]]

\* The pipe of a request, if it has one, is a pipe.
LEMMA PipeOfRequest ==
  ASSUME NEW r \in Requests
  PROVE  PipeOf[r] \in Pipes \cup {NULL}
BY CancelAssumption

\* The initial state has the types.
LEMMA InitCancelTypes == CancelInit => CancelTypeOK
<1> SUFFICES ASSUME NEW present \in SUBSET Requests, CancelInitFor(present) PROVE CancelTypeOK
  BY DEF CancelInit
<1>1. worker \in Workers
  BY DEF CancelInitFor, NoWorker, Workers, Kinds, Counters
<1>2. /\ fw \in [Requests ->
             {"absent", "new", "cancelable", "cancelling", "routine", "unmarked"}]
      /\ cancelSet \in [Requests -> BOOLEAN] /\ requestCompleted \in [Requests -> BOOLEAN]
      /\ refs \in [Requests -> Int] /\ completions \in [Requests -> Nat]
  BY DEF CancelInitFor
<1>3. /\ abortInProgress \in [Pipes -> BOOLEAN] /\ abortCompleteEvent \in [Pipes -> BOOLEAN]
      /\ abortWaiters \in [Pipes -> Nat]
  BY DEF CancelInitFor
<1>4. /\ collected \subseteq Requests
      /\ freeItems \in Nat
      /\ configBusy \in BOOLEAN /\ completionEvent \in BOOLEAN
      /\ resetInProgress \in BOOLEAN
      /\ deviceUnplugged \in BOOLEAN /\ ctlrDisconnected \in BOOLEAN
  BY DEF CancelInitFor
<1>5. sweep \in {"no", "unplug", "scan", "done"} /\ sweepIndex \in 0 .. ShadowEntries
  BY DEF CancelInitFor
<1> QED
  BY <1>1, <1>2, <1>3, <1>4, <1>5 DEF CancelTypeOK, Workers, Kinds, Counters

\* What Goto does to the workers.
LEMMA GotoEffect ==
  ASSUME CancelTypeOK, NEW r \in Requests, NEW pc \in Counters, Goto(r, pc)
  PROVE  /\ worker' \in Workers
         /\ worker'[r].kind = worker[r].kind /\ worker'[r].pc = pc
         /\ \A q \in Requests \ {r} : worker'[q] = worker[q]
BY DEF CancelTypeOK, Goto, Workers, Kinds, Counters

\* The same of AwaitAnswer ...
LEMMA AwaitAnswerEffect ==
  ASSUME CancelTypeOK, NEW r \in Requests, NEW job \in Internal, AwaitAnswer(r, job)
  PROVE  /\ worker' \in Workers
         /\ worker'[r].kind = worker[r].kind /\ worker'[r].pc = "scratch"
         /\ \A q \in Requests \ {r} : worker'[q] = worker[q]
BY DEF CancelTypeOK, AwaitAnswer, Workers, Kinds, Counters

\* ... of NewWorkItem ...
LEMMA NewWorkItemEffect ==
  ASSUME CancelTypeOK, NEW r \in Requests, NEW kind \in Kinds, NewWorkItem(r, kind)
  PROVE  /\ worker' \in Workers /\ freeItems' \in Nat
         /\ worker'[r].kind = kind /\ worker'[r].pc = "queued"
         /\ \A q \in Requests \ {r} : worker'[q] = worker[q]
BY DEF CancelTypeOK, NewWorkItem, Workers, Kinds, Counters

\* ... and of ReturnWorkItem.
LEMMA ReturnEffect ==
  ASSUME CancelTypeOK, NEW r \in Requests, ReturnWorkItem(r)
  PROVE  /\ worker' \in Workers /\ freeItems' \in Nat
         /\ worker'[r].pc = "none"
         /\ \A q \in Requests \ {r} : worker'[q] = worker[q]
BY DEF CancelTypeOK, ReturnWorkItem, NoWorker, Workers, Kinds, Counters

\* Submitting and cancelling.
LEMMA SubmitTypes ==
  ASSUME CancelTypeOK, NEW r \in Requests,
         \/ SubmitUrb(r) \/ SubmitUrbNoGrefs(r) \/ RequeueFinished(r) \/ SubmitReset(r)
         \/ Cancel(r)
  PROVE  CancelTypeOK'
<1>1. CASE SubmitUrb(r)
  BY <1>1 DEF SubmitUrb, MarkCancelable, CancelTypeOK, workVars, pipeVars, padVars, plugVars, dpcVars
<1>2. CASE SubmitUrbNoGrefs(r) \/ RequeueFinished(r)
  BY <1>2 DEF SubmitUrbNoGrefs, RequeueFinished, CancelTypeOK, reqVars, workVars, pipeVars,
              padVars, plugVars, dpcVars
<1>3. CASE SubmitReset(r)
  BY <1>3 DEF SubmitReset, MarkCancelable, CancelTypeOK, workVars, pipeVars, padVars, plugVars, dpcVars
<1>4. CASE Cancel(r)
  BY <1>4 DEF Cancel, CancelTypeOK, workVars, pipeVars, padVars, plugVars, dpcVars
<1> QED
  BY <1>1, <1>2, <1>3, <1>4

\* The cancel routine.
LEMMA RoutineTypes ==
  ASSUME CancelTypeOK, NEW r \in Requests, CancelRoutine(r)
  PROVE  CancelTypeOK'
<1> USE DEF RoutineRuns, CompleteCancelled, workVars, pipeVars, padVars, plugVars, dpcVars
<1>1. CASE CancelUnplugged(r)
  BY <1>1 DEF CancelUnplugged, CancelTypeOK
<1>2. CASE CancelStartAbort(r)
  <2>1. worker' \in Workers /\ freeItems' \in Nat
    BY <1>2, NewWorkItemEffect DEF CancelStartAbort, Kinds
  <2> QED
    BY <1>2, <2>1 DEF CancelStartAbort, CancelTypeOK, Workers, Kinds, Counters
<1>3. CASE CancelAwaitAbort(r)
  <2>1. worker' \in Workers /\ freeItems' \in Nat
    BY <1>3, NewWorkItemEffect DEF CancelAwaitAbort, Kinds
  <2>2. PipeOf[r] \in Pipes
    BY <1>3, PipeOfRequest DEF CancelAwaitAbort
  <2>3. abortWaiters' \in [Pipes -> Nat]
    BY <1>3, <2>2 DEF CancelAwaitAbort, CancelTypeOK
  <2>4. /\ fw' \in [Requests ->
               {"absent", "new", "cancelable", "cancelling", "routine", "unmarked"}]
        /\ UNCHANGED <<cancelSet, requestCompleted, refs, completions, padVars, plugVars,
                       dpcVars, resetInProgress, abortInProgress, abortCompleteEvent>>
    BY <1>3 DEF CancelAwaitAbort, CancelTypeOK
  <2> QED
    BY <2>1, <2>3, <2>4 DEF CancelTypeOK, Workers, Kinds, Counters
<1>4. CASE CancelNoAbortItem(r)
  BY <1>4 DEF CancelNoAbortItem, CancelTypeOK
<1>5. CASE CancelWithoutReset(r)
  BY <1>5 DEF CancelWithoutReset, CancelTypeOK
<1>6. CASE CancelStartReset(r)
  <2>1. worker' \in Workers /\ freeItems' \in Nat
    BY <1>6, NewWorkItemEffect DEF CancelStartReset, Kinds
  <2> QED
    BY <1>6, <2>1 DEF CancelStartReset, CancelTypeOK, Workers, Kinds, Counters
<1> QED
  BY <1>1, <1>2, <1>3, <1>4, <1>5, <1>6 DEF CancelRoutine

\* Work items that go on.
LEMMA WorkerGoesOnTypes ==
  ASSUME CancelTypeOK, NEW r \in Requests,
         \/ AwaitPad(r) \/ AbortPut(r) \/ ScratchWaitOver(r) \/ ClearScratchEvent(r)
         \/ ScratchUnplugs(r) \/ ScratchTimeout(r) \/ WaitStart(r) \/ WaitWoken(r)
         \/ ResetGetsPad(r) \/ ResetPut(r) \/ ResetNoShadow(r) \/ ReturnWorkItem(r)
  PROVE  CancelTypeOK'
<1>1. worker' \in Workers
  <2>1. CASE AbortPut(r) \/ ResetPut(r)
    BY <2>1, AwaitAnswerEffect DEF AbortPut, ResetPut, Internal
  <2>2. CASE ReturnWorkItem(r)
    BY <2>2, ReturnEffect
  <2>3. CASE ~(AbortPut(r) \/ ResetPut(r) \/ ReturnWorkItem(r))
    <3>1. \E pc \in Counters : Goto(r, pc)
      BY <2>3 DEF AwaitPad, ScratchWaitOver, ClearScratchEvent, ScratchUnplugs,
                  ScratchTimeout, WaitStart, WaitWoken, ResetGetsPad, ResetNoShadow, Counters
    <3> QED
      BY <3>1, GotoEffect
  <2> QED
    BY <2>1, <2>2, <2>3
<1>2. freeItems' \in Nat
  BY DEF CancelTypeOK, AwaitPad, AbortPut, ScratchWaitOver, ClearScratchEvent, ScratchUnplugs,
         ScratchTimeout, WaitStart, WaitWoken, ResetGetsPad, ResetPut, ResetNoShadow,
         ReturnWorkItem
<1>3. UNCHANGED <<reqVars, pipeVars, ctlrDisconnected, sweep, sweepIndex, dpcVars, resetInProgress>>
  BY DEF AwaitPad, AbortPut, ScratchWaitOver, ClearScratchEvent, ScratchUnplugs,
         ScratchTimeout, WaitStart, WaitWoken, ResetGetsPad, ResetPut, ResetNoShadow,
         ReturnWorkItem, plugVars
<1>4. /\ configBusy' \in BOOLEAN /\ completionEvent' \in BOOLEAN
      /\ deviceUnplugged' \in BOOLEAN
  BY DEF CancelTypeOK, AwaitPad, AbortPut, ScratchWaitOver, ClearScratchEvent, ScratchUnplugs, Unplug,
         ScratchTimeout, WaitStart, WaitWoken, ResetGetsPad, ResetPut, ResetNoShadow,
         ReturnWorkItem, plugVars, padVars
<1> QED
  BY <1>1, <1>2, <1>3, <1>4 DEF CancelTypeOK, Workers, Kinds, Counters, reqVars, pipeVars, dpcVars

\* What the end of a worker does, the pipes and the scratch pad apart.
LEMMA FinishEffect ==
  ASSUME CancelTypeOK, NEW r \in Requests, FinishWorker(r)
  PROVE  /\ worker' \in Workers
         /\ worker'[r].kind = worker[r].kind /\ worker'[r].pc = "return"
         /\ \A q \in Requests \ {r} : worker'[q] = worker[q]
         /\ cancelSet' \in [Requests -> BOOLEAN] /\ requestCompleted' \in [Requests -> BOOLEAN]
         /\ completions' \in [Requests -> Nat]
         /\ UNCHANGED <<fw, refs, freeItems, plugVars, dpcVars>>
<1>1. Goto(r, "return") /\ "return" \in Counters
  BY DEF FinishWorker, Counters
<1>2. /\ cancelSet' \in [Requests -> BOOLEAN] /\ requestCompleted' \in [Requests -> BOOLEAN]
      /\ completions' \in [Requests -> Nat]
  BY DEF FinishWorker, CompleteCancelled, CancelTypeOK
<1> QED
  BY <1>1, <1>2, GotoEffect DEF FinishWorker

\* Work items that end.  A waiter is counted when it ends.
LEMMA WorkerEndsTypes ==
  ASSUME CancelTypeOK, NEW r \in Requests,
         \/ AbortNotNeeded(r) \/ AbortPadUnplugged(r) \/ AbortNoShadow(r) \/ AbortDone(r)
         \/ WaitNotNeeded(r) \/ WaitDone(r) \/ ResetUnplugged(r) \/ ResetDone(r),
         WaitDone(r) => PipeOf[r] \in Pipes /\ abortWaiters[PipeOf[r]] > 0
  PROVE  CancelTypeOK'
<1>1. FinishWorker(r)
  BY DEF AbortNotNeeded, AbortPadUnplugged, AbortNoShadow, AbortDone, WaitNotNeeded, WaitDone,
         ResetUnplugged, ResetDone
<1>2. abortWaiters' \in [Pipes -> Nat]
  <2>1. CASE WaitDone(r)
    BY <2>1 DEF WaitDone, CancelTypeOK
  <2>2. CASE ~WaitDone(r)
    BY <2>2 DEF AbortNotNeeded, AbortPadUnplugged, AbortNoShadow, AbortDone, WaitNotNeeded,
                ResetUnplugged, ResetDone, SignalPipe, pipeVars, CancelTypeOK
  <2> QED
    BY <2>1, <2>2
<1>3. abortInProgress' \in [Pipes -> BOOLEAN] /\ abortCompleteEvent' \in [Pipes -> BOOLEAN]
  <2>1. CASE WaitDone(r)
    BY <2>1 DEF WaitDone, CancelTypeOK
  <2>2. CASE SignalPipe(PipeOf[r])
    BY <2>2 DEF SignalPipe, CancelTypeOK
  <2>3. CASE UNCHANGED pipeVars
    BY <2>3 DEF pipeVars, CancelTypeOK
  <2> QED
    BY <2>1, <2>2, <2>3
    DEF AbortNotNeeded, AbortPadUnplugged, AbortNoShadow, AbortDone, WaitNotNeeded,
        ResetUnplugged, ResetDone
<1>4. /\ configBusy' \in BOOLEAN /\ completionEvent' \in BOOLEAN
      /\ resetInProgress' \in BOOLEAN
  BY DEF AbortNotNeeded, AbortPadUnplugged, AbortNoShadow, AbortDone, WaitNotNeeded, WaitDone,
         ResetUnplugged, ResetDone, padVars, CancelTypeOK
<1>5. /\ worker' \in Workers
      /\ cancelSet' \in [Requests -> BOOLEAN] /\ requestCompleted' \in [Requests -> BOOLEAN]
      /\ completions' \in [Requests -> Nat]
      /\ UNCHANGED <<fw, refs, freeItems, plugVars, dpcVars>>
  BY <1>1, FinishEffect
<1> QED
  BY <1>2, <1>3, <1>4, <1>5 DEF CancelTypeOK, Workers, Kinds, Counters, plugVars, dpcVars

\* Answers.
LEMMA AnswerTypes ==
  ASSUME CancelTypeOK,
         \/ \E e \in backend : BackendAnswers(e)
         \/ DpcSkips \/ DpcScratchAnswer
         \/ \E r \in Requests : DpcDefers(r) \/ DpcCompletes(r) \/ DpcCompletesCollected(r)
  PROVE  CancelTypeOK'
<1> USE DEF reqVars, workVars, pipeVars, padVars, plugVars, dpcVars
<1>1. CASE DpcSkips \/ \E e \in backend : BackendAnswers(e)
  BY <1>1 DEF DpcSkips, BackendAnswers, CancelTypeOK
<1>2. CASE DpcScratchAnswer
  BY <1>2 DEF DpcScratchAnswer, CancelTypeOK
<1>3. ASSUME NEW r \in Requests, DpcDefers(r) PROVE CancelTypeOK'
  BY <1>3 DEF DpcDefers, Dereference, CancelTypeOK
<1>4. ASSUME NEW r \in Requests, DpcCompletes(r) PROVE CancelTypeOK'
  <2>1. /\ fw' \in [Requests ->
               {"absent", "new", "cancelable", "cancelling", "routine", "unmarked"}]
        /\ cancelSet' \in [Requests -> BOOLEAN] /\ refs' \in [Requests -> Int]
        /\ collected' \subseteq Requests /\ resetInProgress' \in BOOLEAN
    BY <1>4 DEF DpcCompletes, Dereference, CancelTypeOK
  <2>2. UNCHANGED <<requestCompleted, completions, workVars, pipeVars, padVars, plugVars>>
    BY <1>4 DEF DpcCompletes
  <2> QED
    BY <2>1, <2>2 DEF CancelTypeOK
<1>5. ASSUME NEW r \in Requests, DpcCompletesCollected(r) PROVE CancelTypeOK'
  BY <1>5 DEF DpcCompletesCollected, CancelTypeOK
<1> QED
  BY <1>1, <1>2, <1>3, <1>4, <1>5

\* Removal.
LEMMA RemovalTypes ==
  ASSUME TypeOK, CancelTypeOK,
         \/ WatchdogUnplugs \/ CleanupStart \/ CleanupUnplugs \/ SweepEnds
         \/ \E n \in Ids : SweepCompletes(n)
  PROVE  CancelTypeOK'
<1> USE DEF reqVars, workVars, pipeVars, padVars, plugVars, dpcVars
<1>1. CASE WatchdogUnplugs \/ CleanupStart \/ CleanupUnplugs
  BY <1>1 DEF WatchdogUnplugs, CleanupStart, CleanupUnplugs, Unplug, CancelTypeOK
<1>2. CASE SweepEnds
  <2>1. cancelSet' \in [Requests -> BOOLEAN]
    BY <1>2 DEF SweepEnds, PassOver, CancelTypeOK
  <2>2. refs' \in [Requests -> Int]
    BY <1>2 DEF SweepEnds, CancelTypeOK
  <2> QED
    BY <1>2, <2>1, <2>2 DEF SweepEnds, CancelTypeOK
<1>3. ASSUME NEW n \in Ids, SweepCompletes(n) PROVE CancelTypeOK'
  <2>1. request[n] \in Requests
    BY <1>3 DEF SweepCompletes, TypeOK
  <2>2. cancelSet' \in [Requests -> BOOLEAN]
    BY <1>3 DEF SweepCompletes, CancelTypeOK
  <2>3. refs' \in [Requests -> Int]
    BY <1>3 DEF SweepCompletes, CancelTypeOK
  <2>4. fw' \in [Requests ->
               {"absent", "new", "cancelable", "cancelling", "routine", "unmarked"}]
    BY <1>3, <2>1 DEF SweepCompletes, CancelTypeOK
  <2>5. requestCompleted' \in [Requests -> BOOLEAN] /\ completions' \in [Requests -> Nat]
    BY <1>3, <2>1 DEF SweepCompletes, CancelTypeOK
  <2>6. sweepIndex' \in 0 .. ShadowEntries
    BY <1>3 DEF SweepCompletes, Ids
  <2>7. UNCHANGED <<workVars, pipeVars, padVars, deviceUnplugged, ctlrDisconnected, sweep,
                    dpcVars, resetInProgress>>
    BY <1>3 DEF SweepCompletes
  <2> QED
    BY <2>2, <2>3, <2>4, <2>5, <2>6, <2>7 DEF CancelTypeOK
<1> QED
  BY <1>1, <1>2, <1>3

-------------------------------------------------------------------------------
(***************************************************************************)
(* The aborts of a pipe.  The inductive invariant counts, for each pipe,   *)
(* the work items that abort it and those that wait for that: while the    *)
(* device is there the three fields of the pipe are functions of the two   *)
(* sets, and nobody is woken while an abort runs.                          *)
(***************************************************************************)

Waits(p)  == {r \in Requests : PipeOf[r] = p /\ Active(r) /\ worker[r].kind = "wait"}
Aborts(p) == {r \in Requests : PipeOf[r] = p /\ Active(r) /\ worker[r].kind = "abort"}

\* A work item is started by the cancel routine of its request, once.
WorkersOwned ==
  \A r \in Requests : Active(r) =>
    /\ fw[r] = "routine"
    /\ worker[r].kind \in {"abort", "wait"} => PipeOf[r] # NULL

\* Also without the device abortWaiters covers the waiters, so it can be lowered.
WaitsCovered ==
  \A p \in Pipes : IsFiniteSet(Waits(p)) /\ Cardinality(Waits(p)) <= abortWaiters[p]

AbortOrder(p) ==
  /\ abortWaiters[p] = Cardinality(Waits(p))
  /\ \A q, r \in Aborts(p) : q = r
  /\ abortInProgress[p] <=> Aborts(p) # {} \/ Waits(p) # {}
  /\ abortCompleteEvent[p] <=> Aborts(p) = {} /\ Waits(p) # {}
  /\ \A r \in Waits(p) : worker[r].pc = "woken" => Aborts(p) = {}

PipesOrdered == ~deviceUnplugged => \A p \in Pipes : AbortOrder(p)

PipesInv == WorkersOwned /\ WaitsCovered /\ PipesOrdered

\* A work item that was not running starts.
Enters(r, kind) ==
  /\ ~Active(r) /\ Active(r)'
  /\ worker'[r].kind = kind /\ worker'[r].pc = "queued"
  /\ \A q \in Requests \ {r} : worker'[q] = worker[q]

\* A running work item ends.
Leaves(r) ==
  /\ Active(r) /\ ~Active(r)'
  /\ \A q \in Requests \ {r} : worker'[q] = worker[q]

\* No work item starts, ends or is woken.
WorkersGoOn ==
  \A q \in Requests :
    /\ Active(q)' <=> Active(q)
    /\ Active(q) => worker'[q].kind = worker[q].kind
    /\ worker'[q].pc = "woken" => worker[q].pc = "woken"

\* The framework calls a cancel routine once.
RoutinesStay == \A q \in Requests : fw[q] = "routine" => fw'[q] = "routine"

\* Then the sets of every pipe stay as they are.
LEMMA GoOnSets ==
  ASSUME WorkersGoOn, NEW p \in Pipes
  PROVE  Waits(p)' = Waits(p) /\ Aborts(p)' = Aborts(p)
BY DEF WorkersGoOn, Waits, Aborts

\* A work item that starts joins one set of its pipe.
LEMMA EnterSets ==
  ASSUME NEW r \in Requests, NEW kind, Enters(r, kind), NEW p \in Pipes
  PROVE  /\ Waits(p)' = IF kind = "wait" /\ PipeOf[r] = p THEN Waits(p) \cup {r} ELSE Waits(p)
         /\ Aborts(p)' = IF kind = "abort" /\ PipeOf[r] = p THEN Aborts(p) \cup {r}
                         ELSE Aborts(p)
         /\ r \notin Waits(p)
BY DEF Enters, Waits, Aborts, Active

\* One that ends leaves the sets it is in.
LEMMA LeaveSets ==
  ASSUME NEW r \in Requests, Leaves(r), NEW p \in Pipes
  PROVE  Waits(p)' = Waits(p) \ {r} /\ Aborts(p)' = Aborts(p) \ {r}
BY DEF Leaves, Waits, Aborts, Active

\* Steps that leave the work items and the pipes as they are.
LEMMA GoOnKeepsPipes ==
  ASSUME PipesInv, WorkersGoOn, RoutinesStay, UNCHANGED pipeVars,
         deviceUnplugged => deviceUnplugged'
  PROVE  PipesInv'
<1>1. WorkersOwned'
  BY DEF PipesInv, WorkersOwned, WorkersGoOn, RoutinesStay
<1>2. WaitsCovered'
  BY GoOnSets DEF PipesInv, WaitsCovered, pipeVars
<1>3. PipesOrdered'
  <2> SUFFICES ASSUME ~deviceUnplugged, NEW p \in Pipes, AbortOrder(p) PROVE AbortOrder(p)'
    BY DEF PipesInv, PipesOrdered
  <2> QED
    BY GoOnSets DEF AbortOrder, WorkersGoOn, pipeVars, Waits
<1> QED
  BY <1>1, <1>2, <1>3 DEF PipesInv

\* Waiters leave one at a time and lower the count by one.
LEMMA LeaveKeepsCovered ==
  ASSUME CancelTypeOK, PipesInv, NEW r \in Requests, Leaves(r),
         \/ abortWaiters' = abortWaiters
         \/ /\ worker[r].kind = "wait"
            /\ abortWaiters' = [abortWaiters EXCEPT ![PipeOf[r]] = @ - 1]
  PROVE  WaitsCovered'
<1> SUFFICES ASSUME NEW p \in Pipes
             PROVE  IsFiniteSet(Waits(p)') /\ Cardinality(Waits(p)') <= abortWaiters'[p]
  BY DEF WaitsCovered
<1>1. /\ IsFiniteSet(Waits(p)) /\ Cardinality(Waits(p)) <= abortWaiters[p]
      /\ abortWaiters[p] \in Nat
  BY DEF PipesInv, WaitsCovered, CancelTypeOK
<1>2. Waits(p)' = Waits(p) \ {r}
  BY LeaveSets
<1>3. /\ IsFiniteSet(Waits(p) \ {r})
      /\ Cardinality(Waits(p) \ {r}) = IF r \in Waits(p) THEN Cardinality(Waits(p)) - 1
                                       ELSE Cardinality(Waits(p))
  BY <1>1, FS_RemoveElement
<1>4. Cardinality(Waits(p)) \in Nat
  BY <1>1, FS_CardinalityType
<1>5. worker[r].kind = "wait" /\ PipeOf[r] = p => r \in Waits(p)
  BY DEF Leaves, Waits
<1>6. abortWaiters'[p] = abortWaiters[p]
         \/ (r \in Waits(p) /\ abortWaiters'[p] = abortWaiters[p] - 1)
  BY <1>5 DEF CancelTypeOK
<1> QED
  BY <1>1, <1>2, <1>3, <1>4, <1>6

\* The rest of the workers keep their routine.
LEMMA LeaveKeepsOwned ==
  ASSUME PipesInv, NEW r \in Requests, Leaves(r), RoutinesStay
  PROVE  WorkersOwned'
BY DEF PipesInv, WorkersOwned, Leaves, Active, RoutinesStay

\* A pipe none of whose work items starts, ends or is woken.
LEMMA PipeUndisturbed ==
  ASSUME NEW p \in Pipes, AbortOrder(p),
         Waits(p)' = Waits(p), Aborts(p)' = Aborts(p),
         abortWaiters'[p] = abortWaiters[p], abortInProgress'[p] = abortInProgress[p],
         abortCompleteEvent'[p] = abortCompleteEvent[p],
         \A q \in Waits(p) : worker'[q].pc = worker[q].pc
  PROVE  AbortOrder(p)'
BY DEF AbortOrder

\* A step that does not touch the work items lets them go on.
LEMMA UnchangedWorkersGoOn ==
  ASSUME UNCHANGED worker
  PROVE  WorkersGoOn
BY DEF WorkersGoOn, Active

\* Steps that are not of work items or of the cancel routine.
LEMMA OthersKeepPipes ==
  ASSUME TypeOK, CancelTypeOK, PipesInv,
         \/ \E r \in Requests :
              \/ SubmitUrb(r) \/ SubmitUrbNoGrefs(r) \/ RequeueFinished(r) \/ SubmitReset(r)
              \/ Cancel(r)
              \/ DpcDefers(r) \/ DpcCompletes(r) \/ DpcCompletesCollected(r)
         \/ \E e \in backend : BackendAnswers(e)
         \/ DpcSkips \/ DpcScratchAnswer
         \/ WatchdogUnplugs \/ CleanupStart \/ CleanupUnplugs \/ SweepEnds
         \/ \E n \in Ids : SweepCompletes(n)
  PROVE  PipesInv'
<1>1. /\ UNCHANGED worker /\ UNCHANGED pipeVars
      /\ deviceUnplugged => deviceUnplugged'
  BY DEF SubmitUrb, SubmitUrbNoGrefs, RequeueFinished, SubmitReset, Cancel, DpcDefers,
         DpcCompletes, DpcCompletesCollected, BackendAnswers, DpcSkips, DpcScratchAnswer,
         WatchdogUnplugs, CleanupStart, CleanupUnplugs, SweepEnds, SweepCompletes, Unplug,
         workVars, plugVars
<1>2. RoutinesStay
  <2>1. CASE UNCHANGED fw
    BY <2>1 DEF RoutinesStay
  <2>2. ASSUME NEW r \in Requests, SubmitUrb(r) \/ SubmitReset(r) \/ Cancel(r)
        PROVE  RoutinesStay
    BY <2>2 DEF SubmitUrb, SubmitReset, Cancel, MarkCancelable, CancelTypeOK, RoutinesStay
  <2>3. ASSUME NEW r \in Requests, DpcCompletes(r) PROVE RoutinesStay
    BY <2>3 DEF DpcCompletes, CancelOwns, Cancelled, CancelTypeOK, RoutinesStay
  <2>4. ASSUME NEW n \in Ids, SweepCompletes(n) PROVE RoutinesStay
    <3>1. request[n] \in Requests
      BY <2>4 DEF SweepCompletes, TypeOK
    <3> QED
      BY <2>4, <3>1 DEF SweepCompletes, CancelOwns, Cancelled, CancelTypeOK, RoutinesStay
  <2> QED
    BY <2>1, <2>2, <2>3, <2>4
    DEF SubmitUrbNoGrefs, RequeueFinished, DpcDefers, DpcCompletesCollected, BackendAnswers,
        DpcSkips, DpcScratchAnswer, WatchdogUnplugs, CleanupStart, CleanupUnplugs, SweepEnds,
        reqVars
<1> QED
  BY <1>1, <1>2, UnchangedWorkersGoOn, GoOnKeepsPipes

\* The cancel routine of a request runs once.
LEMMA RoutineStays ==
  ASSUME CancelTypeOK, NEW r \in Requests, RoutineRuns(r)
  PROVE  RoutinesStay /\ fw'[r] = "routine" /\ fw[r] = "cancelling"
BY DEF CancelTypeOK, RoutineRuns, RoutinesStay

\* So its work item is the only one the request ever has.
LEMMA RoutineEnters ==
  ASSUME CancelTypeOK, PipesInv, NEW r \in Requests, NEW kind \in Kinds,
         RoutineRuns(r), NewWorkItem(r, kind),
         kind \in {"abort", "wait"} => PipeOf[r] # NULL
  PROVE  Enters(r, kind) /\ WorkersOwned'
<1>1. ~Active(r)
  BY RoutineStays DEF PipesInv, WorkersOwned
<1>2. Enters(r, kind)
  BY <1>1, NewWorkItemEffect DEF Enters, Active
<1>3. WorkersOwned'
  BY <1>2, RoutineStays DEF Enters, PipesInv, WorkersOwned, RoutinesStay, Active
<1> QED
  BY <1>2, <1>3

\* The cancel routine.
LEMMA RoutineKeepsPipes ==
  ASSUME CancelTypeOK, PipesInv, NEW r \in Requests, CancelRoutine(r)
  PROVE  PipesInv'
<1>1. CASE CancelUnplugged(r) \/ CancelNoAbortItem(r) \/ CancelWithoutReset(r)
  <2>1. /\ UNCHANGED worker /\ UNCHANGED pipeVars /\ RoutineRuns(r)
        /\ deviceUnplugged => deviceUnplugged'
    BY <1>1 DEF CancelUnplugged, CancelNoAbortItem, CancelWithoutReset, workVars, plugVars
  <2> QED
    BY <2>1, RoutineStays, UnchangedWorkersGoOn, GoOnKeepsPipes
<1>2. CASE CancelStartAbort(r)
  <2>1. /\ Enters(r, "abort") /\ WorkersOwned' /\ PipeOf[r] \in Pipes
        /\ ~deviceUnplugged /\ ~abortInProgress[PipeOf[r]]
    BY <1>2, RoutineEnters, PipeOfRequest DEF CancelStartAbort, Kinds
  <2> DEFINE a == PipeOf[r]
  <2>2. Waits(a) = {} /\ Aborts(a) = {}
    BY <2>1 DEF PipesInv, PipesOrdered, AbortOrder
  <2>3. /\ abortInProgress'[a] = TRUE /\ abortCompleteEvent'[a] = FALSE /\ abortWaiters'[a] = 0
        /\ \A p \in Pipes \ {a} : /\ abortInProgress'[p] = abortInProgress[p]
                                  /\ abortCompleteEvent'[p] = abortCompleteEvent[p]
                                  /\ abortWaiters'[p] = abortWaiters[p]
    BY <1>2, <2>1 DEF CancelStartAbort, CancelTypeOK
  <2>4. Waits(a)' = {} /\ Aborts(a)' = {r}
    BY <2>1, <2>2, EnterSets
  <2>5. ASSUME NEW p \in Pipes, p # a PROVE Waits(p)' = Waits(p) /\ Aborts(p)' = Aborts(p)
    BY <2>1, <2>5, EnterSets
  <2>6. AbortOrder(a)'
    BY <2>3, <2>4, FS_EmptySet DEF AbortOrder
  <2>7. ASSUME NEW p \in Pipes, p # a PROVE AbortOrder(p)'
    <3>1. AbortOrder(p)
      BY <2>1 DEF PipesInv, PipesOrdered
    <3>2. \A q \in Waits(p) : worker'[q].pc = worker[q].pc
      BY <2>1, <2>7 DEF Enters, Waits
    <3> QED
      BY <2>3, <2>5, <2>7, <3>1, <3>2, PipeUndisturbed
  <2>8. WaitsCovered'
    <3> SUFFICES ASSUME NEW p \in Pipes
                 PROVE  IsFiniteSet(Waits(p)') /\ Cardinality(Waits(p)') <= abortWaiters'[p]
      BY DEF WaitsCovered
    <3>1. CASE p = a
      BY <3>1, <2>3, <2>4, FS_EmptySet
    <3>2. CASE p # a
      BY <3>2, <2>3, <2>5 DEF PipesInv, WaitsCovered
    <3> QED
      BY <3>1, <3>2
  <2> QED
    BY <2>1, <2>6, <2>7, <2>8 DEF PipesInv, PipesOrdered
<1>3. CASE CancelAwaitAbort(r)
  <2>1. /\ Enters(r, "wait") /\ WorkersOwned' /\ PipeOf[r] \in Pipes
        /\ ~deviceUnplugged /\ abortInProgress[PipeOf[r]]
    BY <1>3, RoutineEnters, PipeOfRequest DEF CancelAwaitAbort, Kinds
  <2> DEFINE a == PipeOf[r]
  <2>2. /\ abortWaiters'[a] = abortWaiters[a] + 1
        /\ \A p \in Pipes \ {a} : abortWaiters'[p] = abortWaiters[p]
        /\ UNCHANGED <<abortInProgress, abortCompleteEvent>>
    BY <1>3, <2>1 DEF CancelAwaitAbort, CancelTypeOK
  <2>3. Waits(a)' = Waits(a) \cup {r} /\ Aborts(a)' = Aborts(a) /\ r \notin Waits(a)
    BY <2>1, EnterSets
  <2>4. ASSUME NEW p \in Pipes, p # a PROVE Waits(p)' = Waits(p) /\ Aborts(p)' = Aborts(p)
    BY <2>1, <2>4, EnterSets
  <2>5. IsFiniteSet(Waits(a)') /\ Cardinality(Waits(a)') = Cardinality(Waits(a)) + 1
    BY <2>1, <2>3, FS_AddElement DEF PipesInv, WaitsCovered
  <2>6. AbortOrder(a)'
    <3>1. AbortOrder(a)
      BY <2>1 DEF PipesInv, PipesOrdered
    <3>2. ASSUME NEW q \in Waits(a)', worker'[q].pc = "woken" PROVE Aborts(a) = {}
      <4>1. q \in Waits(a) /\ q \in Requests /\ q # r
        BY <2>1, <2>3, <3>2 DEF Enters, Waits
      <4> QED
        BY <2>1, <3>1, <3>2, <4>1 DEF Enters, AbortOrder
    <3>3. Waits(a)' # {}
      BY <2>3
    <3>4. Waits(a) # {} \/ Aborts(a) # {}
      BY <2>1, <3>1 DEF AbortOrder
    <3>5. abortCompleteEvent[a] <=> Aborts(a) = {}
      BY <3>1, <3>4 DEF AbortOrder
    <3> QED
      BY <2>1, <2>2, <2>3, <2>5, <3>1, <3>2, <3>3, <3>5 DEF AbortOrder
  <2>7. ASSUME NEW p \in Pipes, p # a PROVE AbortOrder(p)'
    <3>1. AbortOrder(p)
      BY <2>1 DEF PipesInv, PipesOrdered
    <3>2. \A q \in Waits(p) : worker'[q].pc = worker[q].pc
      BY <2>1, <2>7 DEF Enters, Waits
    <3> QED
      BY <2>2, <2>4, <2>7, <3>1, <3>2, PipeUndisturbed
  <2>8. WaitsCovered'
    <3> SUFFICES ASSUME NEW p \in Pipes
                 PROVE  IsFiniteSet(Waits(p)') /\ Cardinality(Waits(p)') <= abortWaiters'[p]
      BY DEF WaitsCovered
    <3>1. CASE p = a
      BY <3>1, <2>1, <2>2, <2>5, FS_CardinalityType DEF PipesInv, WaitsCovered, CancelTypeOK
    <3>2. CASE p # a
      BY <3>2, <2>2, <2>4 DEF PipesInv, WaitsCovered
    <3> QED
      BY <3>1, <3>2
  <2> QED
    BY <2>1, <2>6, <2>7, <2>8 DEF PipesInv, PipesOrdered
<1>4. CASE CancelStartReset(r)
  <2>1. /\ Enters(r, "reset") /\ WorkersOwned' /\ UNCHANGED pipeVars /\ ~deviceUnplugged
    BY <1>4, RoutineEnters DEF CancelStartReset, Kinds
  <2>2. ASSUME NEW p \in Pipes PROVE Waits(p)' = Waits(p) /\ Aborts(p)' = Aborts(p)
    BY <2>1, EnterSets
  <2>3. WaitsCovered'
    BY <2>1, <2>2 DEF PipesInv, WaitsCovered, pipeVars
  <2>4. ASSUME NEW p \in Pipes PROVE AbortOrder(p)'
    <3>1. AbortOrder(p)
      BY <2>1 DEF PipesInv, PipesOrdered
    <3>2. \A q \in Waits(p) : worker'[q].pc = worker[q].pc
      <4>1. r \notin Waits(p)
        BY <2>1, EnterSets
      <4> QED
        BY <2>1, <4>1 DEF Enters, Waits
    <3> QED
      BY <2>1, <2>2, <3>1, <3>2, PipeUndisturbed DEF pipeVars
  <2> QED
    BY <2>1, <2>3, <2>4 DEF PipesInv, PipesOrdered
<1> QED
  BY <1>1, <1>2, <1>3, <1>4 DEF CancelRoutine

\* Work items that go on, and the return of a work item that has ended.
LEMMA WorkerGoesOnKeepsPipes ==
  ASSUME CancelTypeOK, PipesInv, NEW r \in Requests,
         \/ AwaitPad(r) \/ AbortPut(r) \/ ScratchWaitOver(r) \/ ClearScratchEvent(r)
         \/ ScratchUnplugs(r) \/ ScratchTimeout(r) \/ WaitStart(r)
         \/ ResetGetsPad(r) \/ ResetPut(r) \/ ResetNoShadow(r) \/ ReturnWorkItem(r)
  PROVE  PipesInv'
<1>1. /\ UNCHANGED fw /\ UNCHANGED pipeVars
      /\ deviceUnplugged => deviceUnplugged'
  BY DEF AwaitPad, AbortPut, ScratchWaitOver, ClearScratchEvent, ScratchUnplugs, Unplug,
         ScratchTimeout, WaitStart, ResetGetsPad, ResetPut, ResetNoShadow, ReturnWorkItem,
         reqVars, plugVars
<1>2. /\ \A q \in Requests \ {r} : worker'[q] = worker[q]
      /\ Active(r)' <=> Active(r)
      /\ Active(r) => worker'[r].kind = worker[r].kind
      /\ worker'[r].pc # "woken"
  <2>1. CASE AbortPut(r)
    BY <2>1, AwaitAnswerEffect
    DEF AbortPut, AbortGetsPad, PadAccess, Active, Internal
  <2>2. CASE ResetPut(r)
    BY <2>2, AwaitAnswerEffect DEF ResetPut, At, Active, Internal
  <2>3. CASE ReturnWorkItem(r)
    BY <2>3, ReturnEffect DEF ReturnWorkItem, Active
  <2>4. CASE ~(AbortPut(r) \/ ResetPut(r) \/ ReturnWorkItem(r))
    <3>1. \E pc \in Counters \ {"none", "return", "woken"} : Goto(r, pc)
      BY <2>4 DEF AwaitPad, ScratchWaitOver, ClearScratchEvent, ScratchUnplugs,
                  ScratchTimeout, WaitStart, ResetGetsPad, ResetNoShadow, Counters
    <3>2. Active(r)
      BY <2>4 DEF AwaitPad, ScratchWaitOver, ClearScratchEvent, ScratchUnplugs, PadAccess,
                  ScratchTimeout, WaitStart, ResetGetsPad, ResetNoShadow, At, Active
    <3> QED
      BY <3>1, <3>2, GotoEffect DEF Active
  <2> QED
    BY <2>1, <2>2, <2>3, <2>4
<1>3. WorkersGoOn
  BY <1>2 DEF WorkersGoOn, Active
<1>4. RoutinesStay
  BY <1>1 DEF RoutinesStay
<1> QED
  BY <1>1, <1>3, <1>4, GoOnKeepsPipes

\* A waiter is woken when the abort is over.
LEMMA WokenKeepsPipes ==
  ASSUME CancelTypeOK, PipesInv, NEW r \in Requests, WaitWoken(r)
  PROVE  PipesInv'
<1>1. /\ UNCHANGED fw /\ UNCHANGED pipeVars /\ UNCHANGED deviceUnplugged
      /\ At(r, "wait", "event") /\ abortCompleteEvent[PipeOf[r]]
      /\ worker'[r].kind = "wait" /\ worker'[r].pc = "woken"
      /\ \A q \in Requests \ {r} : worker'[q] = worker[q]
  BY GotoEffect DEF WaitWoken, At, Counters, reqVars, plugVars
<1>2. /\ \A q \in Requests : Active(q)' <=> Active(q)
      /\ \A q \in Requests : worker'[q].kind = worker[q].kind
  BY <1>1 DEF Active, At
<1>3. ASSUME NEW p \in Pipes PROVE Waits(p)' = Waits(p) /\ Aborts(p)' = Aborts(p)
  BY <1>2 DEF Waits, Aborts
<1>4. WorkersOwned'
  BY <1>1, <1>2 DEF PipesInv, WorkersOwned
<1>5. WaitsCovered'
  BY <1>1, <1>3 DEF PipesInv, WaitsCovered, pipeVars
<1>6. PipesOrdered'
  <2> SUFFICES ASSUME ~deviceUnplugged, NEW p \in Pipes, AbortOrder(p) PROVE AbortOrder(p)'
    BY <1>1 DEF PipesInv, PipesOrdered
  <2>1. ASSUME NEW q \in Waits(p), worker'[q].pc = "woken" PROVE Aborts(p) = {}
    <3>1. CASE q = r
      BY <1>1, <2>1, <3>1 DEF AbortOrder, Waits
    <3>2. CASE q # r
      BY <1>1, <2>1, <3>2 DEF AbortOrder, Waits
    <3> QED
      BY <3>1, <3>2
  <2> QED
    BY <1>1, <1>3, <2>1 DEF AbortOrder, pipeVars
<1> QED
  BY <1>4, <1>5, <1>6 DEF PipesInv

\* Work items that end: they leave the sets of their pipe.
LEMMA EndLeaves ==
  ASSUME CancelTypeOK, NEW r \in Requests, Active(r), FinishWorker(r)
  PROVE  Leaves(r) /\ RoutinesStay /\ UNCHANGED deviceUnplugged
BY FinishEffect DEF Leaves, Active, RoutinesStay, plugVars

\* The abort of a pipe ends.
LEMMA AbortEndsKeepsOrder ==
  ASSUME CancelTypeOK, PipesInv, ~deviceUnplugged, NEW r \in Requests, Leaves(r),
         worker[r].kind = "abort", SignalPipe(PipeOf[r])
  PROVE  \A p \in Pipes : AbortOrder(p)'
<1> DEFINE a == PipeOf[r]
<1>1. a \in Pipes /\ r \in Aborts(a)
  BY PipeOfRequest DEF PipesInv, WorkersOwned, Leaves, Aborts
<1>2. /\ abortInProgress'[a] = (abortWaiters[a] # 0)
      /\ abortCompleteEvent'[a] = (abortWaiters[a] # 0)
      /\ abortWaiters' = abortWaiters
      /\ \A p \in Pipes \ {a} : /\ abortInProgress'[p] = abortInProgress[p]
                                /\ abortCompleteEvent'[p] = abortCompleteEvent[p]
  BY <1>1 DEF SignalPipe, CancelTypeOK
<1>3. ASSUME NEW p \in Pipes PROVE Waits(p)' = Waits(p)
  BY LeaveSets DEF Waits
<1>4. AbortOrder(a)'
  <2>1. AbortOrder(a) /\ IsFiniteSet(Waits(a))
    BY <1>1 DEF PipesInv, PipesOrdered, WaitsCovered
  <2>2. Aborts(a)' = {}
    BY <1>1, <2>1, LeaveSets DEF AbortOrder
  <2>3. Waits(a) # {} <=> abortWaiters[a] # 0
    BY <2>1, FS_EmptySet DEF AbortOrder
  <2> QED
    BY <1>1, <1>2, <1>3, <2>1, <2>2, <2>3 DEF AbortOrder
<1>5. ASSUME NEW p \in Pipes, p # a PROVE AbortOrder(p)'
  <2>1. AbortOrder(p)
    BY DEF PipesInv, PipesOrdered
  <2>2. Aborts(p)' = Aborts(p)
    BY <1>5, LeaveSets DEF Aborts
  <2>3. \A q \in Waits(p) : worker'[q].pc = worker[q].pc
    BY <1>5 DEF Leaves, Waits
  <2> QED
    BY <1>2, <1>3, <1>5, <2>1, <2>2, <2>3, PipeUndisturbed
<1> QED
  BY <1>4, <1>5

\* A waiter that was woken ends, the last one with the pipe reset.
LEMMA WaitEndsKeepsOrder ==
  ASSUME CancelTypeOK, PipesInv, ~deviceUnplugged, NEW r \in Requests, Leaves(r), WaitDone(r)
  PROVE  \A p \in Pipes : AbortOrder(p)'
<1> DEFINE a == PipeOf[r]
<1>1. a \in Pipes /\ r \in Waits(a) /\ worker[r].pc = "woken"
  BY PipeOfRequest DEF PipesInv, WorkersOwned, Leaves, Waits, WaitDone, At
<1>2. /\ abortInProgress'[a] = (abortInProgress[a] /\ abortWaiters[a] # 1)
      /\ abortCompleteEvent'[a] = (abortCompleteEvent[a] /\ abortWaiters[a] # 1)
      /\ abortWaiters'[a] = abortWaiters[a] - 1
      /\ \A p \in Pipes \ {a} : /\ abortInProgress'[p] = abortInProgress[p]
                                /\ abortCompleteEvent'[p] = abortCompleteEvent[p]
                                /\ abortWaiters'[p] = abortWaiters[p]
  BY <1>1 DEF WaitDone, CancelTypeOK
<1>3. ASSUME NEW p \in Pipes PROVE Aborts(p)' = Aborts(p)
  BY LeaveSets DEF Aborts, WaitDone, At
<1>4. AbortOrder(a)'
  <2>1. AbortOrder(a) /\ IsFiniteSet(Waits(a))
    BY <1>1 DEF PipesInv, PipesOrdered, WaitsCovered
  <2>2. Waits(a)' = Waits(a) \ {r}
    BY <1>1, LeaveSets
  <2>3. IsFiniteSet(Waits(a)') /\ Cardinality(Waits(a)') = Cardinality(Waits(a)) - 1
    BY <1>1, <2>1, <2>2, FS_RemoveElement
  <2>4. Waits(a)' # {} <=> Cardinality(Waits(a)') # 0
    BY <2>3, FS_EmptySet
  <2>5. Aborts(a) = {} /\ abortInProgress[a] /\ abortCompleteEvent[a]
    BY <1>1, <2>1 DEF AbortOrder
  <2>6. abortWaiters[a] \in Nat /\ Cardinality(Waits(a)') = abortWaiters[a] - 1
    BY <1>1, <2>1, <2>3 DEF CancelTypeOK, AbortOrder
  <2>7. Waits(a)' # {} <=> abortWaiters[a] # 1
    BY <2>4, <2>6
  <2> QED
    BY <1>1, <1>2, <1>3, <2>5, <2>6, <2>7 DEF AbortOrder
<1>5. ASSUME NEW p \in Pipes, p # a PROVE AbortOrder(p)'
  <2>1. AbortOrder(p)
    BY DEF PipesInv, PipesOrdered
  <2>2. Waits(p)' = Waits(p)
    BY <1>5, LeaveSets DEF Waits
  <2>3. \A q \in Waits(p) : worker'[q].pc = worker[q].pc
    BY <1>5 DEF Leaves, Waits
  <2> QED
    BY <1>2, <1>3, <1>5, <2>1, <2>2, <2>3, PipeUndisturbed
<1> QED
  BY <1>4, <1>5

\* A waiter is counted when it ends.
LEMMA WaitIsCounted ==
  ASSUME CancelTypeOK, PipesInv, NEW r \in Requests, WaitDone(r)
  PROVE  PipeOf[r] \in Pipes /\ abortWaiters[PipeOf[r]] > 0
<1>1. PipeOf[r] \in Pipes /\ r \in Waits(PipeOf[r])
  BY PipeOfRequest DEF PipesInv, WorkersOwned, Active, Waits, WaitDone, At
<1>2. /\ IsFiniteSet(Waits(PipeOf[r]))
      /\ Cardinality(Waits(PipeOf[r])) <= abortWaiters[PipeOf[r]]
      /\ abortWaiters[PipeOf[r]] \in Nat
  BY <1>1 DEF PipesInv, WaitsCovered, CancelTypeOK
<1>3. Cardinality(Waits(PipeOf[r])) # 0 /\ Cardinality(Waits(PipeOf[r])) \in Nat
  BY <1>1, <1>2, FS_EmptySet, FS_CardinalityType
<1> QED
  BY <1>1, <1>2, <1>3

\* Work items that end.
LEMMA WorkerEndKeepsPipes ==
  ASSUME CancelTypeOK, PipesInv, NEW r \in Requests,
         \/ AbortNotNeeded(r) \/ AbortPadUnplugged(r) \/ AbortNoShadow(r) \/ AbortDone(r)
         \/ WaitNotNeeded(r) \/ WaitDone(r) \/ ResetUnplugged(r) \/ ResetDone(r)
  PROVE  PipesInv'
<1>1. Active(r) /\ FinishWorker(r)
  BY DEF AbortNotNeeded, AbortPadUnplugged, AbortNoShadow, AbortDone, WaitNotNeeded, WaitDone,
         ResetUnplugged, ResetDone, AbortGetsPad, PadAccess, At, Active
<1>2. Leaves(r) /\ RoutinesStay /\ UNCHANGED deviceUnplugged
  BY <1>1, EndLeaves
<1>3. WorkersOwned'
  BY <1>2, LeaveKeepsOwned
<1>4. WaitsCovered'
  <2>1. \/ abortWaiters' = abortWaiters
        \/ /\ worker[r].kind = "wait"
           /\ abortWaiters' = [abortWaiters EXCEPT ![PipeOf[r]] = @ - 1]
    BY DEF AbortNotNeeded, AbortPadUnplugged, AbortNoShadow, AbortDone, WaitNotNeeded, WaitDone,
           ResetUnplugged, ResetDone, SignalPipe, pipeVars, At
  <2> QED
    BY <1>2, <2>1, LeaveKeepsCovered
<1>5. PipesOrdered'
  <2> SUFFICES ASSUME ~deviceUnplugged PROVE \A p \in Pipes : AbortOrder(p)'
    BY <1>2 DEF PipesOrdered
  <2>1. CASE AbortNotNeeded(r) \/ WaitNotNeeded(r)
    <3>1. /\ PipeOf[r] \in Pipes /\ ~abortInProgress[PipeOf[r]]
          /\ r \in Waits(PipeOf[r]) \cup Aborts(PipeOf[r])
      BY <1>1, <2>1, PipeOfRequest
      DEF AbortNotNeeded, WaitNotNeeded, At, PipesInv, WorkersOwned, Waits, Aborts
    <3> QED
      BY <3>1 DEF PipesInv, PipesOrdered, AbortOrder
  <2>2. CASE AbortPadUnplugged(r) \/ ResetUnplugged(r)
    BY <2>2 DEF AbortPadUnplugged, ResetUnplugged
  <2>3. CASE AbortNoShadow(r) \/ AbortDone(r)
    BY <1>2, <2>3, AbortEndsKeepsOrder DEF AbortNoShadow, AbortDone, AbortGetsPad, At
  <2>4. CASE WaitDone(r)
    BY <1>2, <2>4, WaitEndsKeepsOrder
  <2>5. CASE ResetDone(r)
    <3> SUFFICES ASSUME NEW p \in Pipes PROVE AbortOrder(p)'
      OBVIOUS
    <3>1. UNCHANGED pipeVars /\ worker[r].kind = "reset"
      BY <2>5 DEF ResetDone, At
    <3>2. Waits(p)' = Waits(p) /\ Aborts(p)' = Aborts(p)
      BY <1>2, <3>1, LeaveSets DEF Waits, Aborts
    <3>3. \A q \in Waits(p) : worker'[q].pc = worker[q].pc
      BY <1>2, <3>1 DEF Leaves, Waits
    <3> QED
      BY <3>1, <3>2, <3>3, PipeUndisturbed DEF PipesInv, PipesOrdered, pipeVars
  <2> QED
    BY <2>1, <2>2, <2>3, <2>4, <2>5
<1> QED
  BY <1>3, <1>4, <1>5 DEF PipesInv

-------------------------------------------------------------------------------
(* The invariant of cancellation.                                          *)

CancelInv == CancelTypeOK /\ PipesInv

\* No work item has started in the initial state.
LEMMA InitCancelInv == CancelInit => CancelInv
<1> SUFFICES ASSUME CancelInit PROVE CancelInv
  OBVIOUS
<1>1. \A r \in Requests : ~Active(r)
  BY DEF CancelInit, CancelInitFor, NoWorker, Active
<1>2. \A p \in Pipes : Waits(p) = {} /\ Aborts(p) = {}
  BY <1>1 DEF Waits, Aborts
<1>3. \A p \in Pipes : /\ abortWaiters[p] = 0
                       /\ abortInProgress[p] = FALSE /\ abortCompleteEvent[p] = FALSE
  BY DEF CancelInit, CancelInitFor
<1>4. WaitsCovered
  BY <1>2, <1>3, FS_EmptySet DEF WaitsCovered
<1>5. PipesOrdered
  BY <1>2, <1>3, FS_EmptySet DEF PipesOrdered, AbortOrder
<1> QED
  BY <1>1, <1>4, <1>5, InitCancelTypes DEF CancelInv, PipesInv, WorkersOwned

\* Every step keeps the types and the order of the aborts, on a ring that is sound.
LEMMA NextCancelInv ==
  TypeOK /\ CancelInv /\ [CancelNext]_cancelVars => CancelInv'
<1> SUFFICES ASSUME TypeOK, CancelTypeOK, PipesInv, [CancelNext]_cancelVars
             PROVE  CancelTypeOK' /\ PipesInv'
  BY DEF CancelInv
<1>1. CASE UNCHANGED cancelVars
  <2>1. CancelTypeOK'
    BY <1>1 DEF CancelTypeOK, cancelVars, reqVars, workVars, pipeVars, padVars, plugVars, dpcVars
  <2>2. WorkersGoOn /\ RoutinesStay /\ UNCHANGED pipeVars /\ UNCHANGED deviceUnplugged
    BY <1>1, UnchangedWorkersGoOn DEF RoutinesStay, cancelVars, reqVars, workVars, plugVars
  <2> QED
    BY <2>1, <2>2, GoOnKeepsPipes
<1>2. ASSUME NEW r \in Requests,
             \/ SubmitUrb(r) \/ SubmitUrbNoGrefs(r) \/ RequeueFinished(r) \/ SubmitReset(r)
             \/ Cancel(r)
      PROVE  CancelTypeOK' /\ PipesInv'
  BY <1>2, SubmitTypes, OthersKeepPipes
<1>3. ASSUME NEW r \in Requests,
             DpcDefers(r) \/ DpcCompletes(r) \/ DpcCompletesCollected(r)
      PROVE  CancelTypeOK' /\ PipesInv'
  BY <1>3, AnswerTypes, OthersKeepPipes
<1>4. CASE DpcSkips \/ DpcScratchAnswer \/ \E e \in backend : BackendAnswers(e)
  BY <1>4, AnswerTypes, OthersKeepPipes
<1>5. CASE WatchdogUnplugs \/ CleanupStart \/ CleanupUnplugs \/ SweepEnds
           \/ \E n \in Ids : SweepCompletes(n)
  BY <1>5, RemovalTypes, OthersKeepPipes
<1>6. ASSUME NEW r \in Requests, CancelRoutine(r) PROVE CancelTypeOK' /\ PipesInv'
  BY <1>6, RoutineTypes, RoutineKeepsPipes
<1>7. ASSUME NEW r \in Requests, WorkerStep(r) \/ ScratchTimeout(r)
      PROVE  CancelTypeOK' /\ PipesInv'
  <2>1. CASE \/ AwaitPad(r) \/ AbortPut(r) \/ ScratchWaitOver(r) \/ ClearScratchEvent(r)
             \/ ScratchUnplugs(r) \/ ScratchTimeout(r) \/ WaitStart(r)
             \/ ResetGetsPad(r) \/ ResetPut(r) \/ ResetNoShadow(r) \/ ReturnWorkItem(r)
    BY <2>1, WorkerGoesOnTypes, WorkerGoesOnKeepsPipes
  <2>2. CASE WaitWoken(r)
    BY <2>2, WorkerGoesOnTypes, WokenKeepsPipes
  <2>3. CASE \/ AbortNotNeeded(r) \/ AbortPadUnplugged(r) \/ AbortNoShadow(r) \/ AbortDone(r)
             \/ WaitNotNeeded(r) \/ WaitDone(r) \/ ResetUnplugged(r) \/ ResetDone(r)
    BY <2>3, WaitIsCounted, WorkerEndsTypes, WorkerEndKeepsPipes
  <2> QED
    BY <1>7, <2>1, <2>2, <2>3 DEF WorkerStep
<1> QED
  BY <1>1, <1>2, <1>3, <1>4, <1>5, <1>6, <1>7 DEF CancelNext, Requests

\* Every field of the cancellation path keeps its range, for any number of
\* requests, pipes and shadows; abortWaiters is never lowered below zero.
THEOREM CancelTypeCorrect == CancelSpec => []CancelTypeOK
<1>1. CancelSpec => []TypeOK
  BY RingImplemented, TypeCorrect DEF RingRefined
<1> QED
  BY <1>1, InitCancelInv, NextCancelInv, PTL DEF CancelSpec, CancelInv

\* The inductive invariant, for the theorems below.
LEMMA CancelInvariant == CancelSpec => [](CancelTypeOK /\ PipesInv)
<1>1. CancelSpec => []TypeOK
  BY RingImplemented, TypeCorrect DEF RingRefined
<1> QED
  BY <1>1, InitCancelInv, NextCancelInv, PTL DEF CancelSpec, CancelInv

\* abortWaiters counts the work items that wait for the abort of the pipe.
THEOREM WaitersCountedAlways == CancelSpec => []WaitersCounted
<1>1. PipesInv => WaitersCounted
  BY DEF PipesInv, PipesOrdered, AbortOrder, Waits, WaitersCounted
<1> QED
  BY <1>1, CancelInvariant, PTL

\* An abort in progress has a worker that ends it or waiters that were woken.
THEOREM AbortHasOwnerAlways == CancelSpec => []AbortHasOwner
<1>1. CancelTypeOK /\ PipesInv => AbortHasOwner
  <2> SUFFICES ASSUME CancelTypeOK, PipesInv, ~deviceUnplugged,
                      NEW p \in Pipes, abortInProgress[p], Aborts(p) = {}
               PROVE  abortCompleteEvent[p] /\ abortWaiters[p] > 0
    BY DEF AbortHasOwner, Aborts
  <2>1. AbortOrder(p) /\ IsFiniteSet(Waits(p)) /\ abortWaiters[p] \in Nat
    BY DEF PipesInv, PipesOrdered, WaitsCovered, CancelTypeOK
  <2>2. Waits(p) # {} /\ abortCompleteEvent[p]
    BY <2>1 DEF AbortOrder
  <2>3. Cardinality(Waits(p)) # 0
    BY <2>1, <2>2, FS_EmptySet
  <2> QED
    BY <2>1, <2>2, <2>3 DEF AbortOrder
<1> QED
  BY <1>1, CancelInvariant, PTL

\* The ASSERTs of the two abort workers: while a work item of a pipe is queued its
\* abort is in progress, unless the device was unplugged meanwhile.
THEOREM AbortStillInProgressAlways == CancelSpec => []AbortStillInProgress
<1>1. PipesInv => AbortStillInProgress
  <2> SUFFICES ASSUME PipesInv, ~deviceUnplugged, NEW r \in Requests,
                      At(r, "abort", "queued") \/ At(r, "wait", "queued")
               PROVE  abortInProgress[PipeOf[r]]
    BY DEF AbortStillInProgress
  <2>1. PipeOf[r] \in Pipes /\ r \in Waits(PipeOf[r]) \cup Aborts(PipeOf[r])
    BY PipeOfRequest DEF PipesInv, WorkersOwned, At, Active, Waits, Aborts
  <2> QED
    BY <2>1 DEF PipesInv, PipesOrdered, AbortOrder
<1> QED
  BY <1>1, CancelInvariant, PTL

-------------------------------------------------------------------------------
(* Who completes a request, who drops the reference the ring holds, and    *)
(* who ends a reset.                                                       *)
(*                                                                         *)
(* The inductive invariant says how far a request has come, from its       *)
(* framework state alone, and what an entry on the ring says of the        *)
(* request behind it: as long as the entry is there, either the request    *)
(* still has its CancelSet, or the cancel side has completed it.           *)

\* CleanupDisconnectedDevice unplugs the device before it sweeps the shadows.
SweepPhases ==
  /\ sweep \in {"scan", "done"} => deviceUnplugged /\ ctlrDisconnected
  /\ sweep = "unplug" => ctlrDisconnected

\* The sweep has not begun, and no answer was taken for that of another request.
Sound == sweep \notin {"scan", "done"} /\ ~mismatched

\* Nobody has completed the request or is about to.
Untouched(r) == completions[r] = 0 /\ r \notin collected /\ ~requestCompleted[r]

RequestOrder(r) ==
  /\ fw[r] \in {"absent", "new", "cancelable", "cancelling"} => Untouched(r)
  /\ fw[r] \in {"absent", "new"} => refs[r] = 0
  /\ Active(r) => Untouched(r)
  /\ requestCompleted[r] => fw[r] = "routine"
  /\ completions[r] + (IF r \in collected THEN 1 ELSE 0) <= 1

RequestsOrdered == \A r \in Requests : RequestOrder(r)

\* What an entry of request r on shadow i says.
EntryOrder(i, r) ==
  /\ fw[r] \in {"cancelable", "cancelling", "routine"}
  /\ requestCompleted[r] \/ cancelSet[r]
  /\ ~deviceUnplugged => refs[r] = 1
  /\ fw[r] # "routine" => request[i] = r

EntriesOrdered == \A i \in Ids, r \in Requests : <<i, r>> \in Outstanding => EntryOrder(i, r)

\* The shadow a requeueing thread will give back is still the one it took.
WindowHeld ==
  \A u \in Urbs : window[u] # NULL =>
    /\ inUse[window[u]] /\ holder[window[u]] = u /\ request[window[u]] = NULL
    /\ <<window[u], u>> \notin Outstanding

Order == RequestsOrdered /\ EntriesOrdered /\ WindowHeld

OwnerInv == SweepPhases /\ (Sound => Order)

-------------------------------------------------------------------------------
(* What the steps of the ring do to the entries, the requests of the       *)
(* shadows and the shadows of the requeueing threads.                      *)

\* Shadows that serve a request serve it on.
ServesOn == \A i \in Ids : request[i] # NULL => request'[i] = request[i]

\* No entry of a request is added.
NoNewEntry == \A i \in Ids, r \in Requests : <<i, r>> \in Outstanding' => <<i, r>> \in Outstanding

\* NULL is no request and no shadow.
LEMMA NullIsNothing == (\A r \in Requests : r # NULL) /\ (\A i \in Ids : i # NULL)
BY DEF Jobs, Ids

\* What a requeueing thread holds.
LEMMA HeldShadow ==
  ASSUME RingInv, WindowHeld, NEW u \in Urbs, window[u] # NULL
  PROVE  /\ window[u] \in Ids /\ inUse[window[u]] /\ holder[window[u]] = u
         /\ request[window[u]] = NULL /\ <<window[u], u>> \notin Outstanding
<1>1. window[u] \in Ids
  BY DEF RingInv, TypeOK
<1> QED
  BY <1>1 DEF WindowHeld

\* The shadow on top of the list is free.
LEMMA TopIsFree ==
  ASSUME RingInv, shadowFree > 0
  PROVE  Top \in Ids /\ ~inUse[Top] /\ request[Top] = NULL
<1>1. shadowFree - 1 \in FreeSlots /\ shadowFree - 1 \in Ids
  BY DEF RingInv, TypeOK, FreeSlots, Ids
<1>2. Top \in Ids /\ ~inUse[Top]
  BY <1>1 DEF RingInv, TypeOK, FreeListExact, Top
<1> QED
  BY <1>2 DEF RingInv, ServedByHolder

\* So taking it disturbs no other shadow.
LEMMA GetEffect ==
  ASSUME RingInv, shadowFree > 0, NEW j, NEW r, GetShadow(j, r)
  PROVE  /\ inUse'[Top] /\ holder'[Top] = j /\ request'[Top] = r
         /\ \A i \in Ids : inUse[i] \/ request[i] # NULL \/ i # Top =>
              inUse'[i] = inUse[i] /\ holder'[i] = holder[i] /\ request'[i] = request[i]
BY TopIsFree DEF GetShadow, RingInv, TypeOK

\* A put adds one entry and disturbs no shadow in use.
LEMMA PutEffect ==
  ASSUME RingInv, WindowHeld, shadowFree > 0, NEW j \in Jobs, NEW r, GetShadow(j, r),
         Unreferenced(j), PutOnRing(j), UNCHANGED <<responses, window>>
  PROVE  /\ ServesOn /\ WindowHeld'
         /\ Outstanding' = Outstanding \cup {<<Top, j>>}
         /\ Top \in Ids /\ request'[Top] = r
<1>1. Outstanding' = Outstanding \cup {<<Top, j>>}
  BY PutExact DEF RingInv
<1>2. ServesOn
  BY GetEffect DEF ServesOn
<1>3. WindowHeld'
  <2> SUFFICES ASSUME NEW u \in Urbs, window[u] # NULL
               PROVE  /\ inUse'[window[u]] /\ holder'[window[u]] = u
                      /\ request'[window[u]] = NULL
                      /\ <<window[u], u>> \notin Outstanding'
    BY DEF WindowHeld
  <2>1. window[u] \in Ids /\ inUse[window[u]] /\ window[u] # Top
    BY TopIsFree, HeldShadow
  <2> QED
    BY <1>1, <2>1, GetEffect DEF WindowHeld
<1> QED
  BY <1>1, <1>2, <1>3, TopIsFree, GetEffect

\* An internal request.
LEMMA ScratchEffect ==
  ASSUME RingInv, WindowHeld, NEW s \in Internal, PutScratchOnRing(s)
  PROVE  ServesOn /\ WindowHeld' /\ NoNewEntry
<1>1. s \in Jobs /\ s \notin Requests
  BY DEF Jobs
<1>2. /\ ServesOn /\ WindowHeld' /\ Outstanding' = Outstanding \cup {<<Top, s>>}
  BY <1>1, PutEffect DEF PutScratchOnRing
<1> QED
  BY <1>1, <1>2 DEF NoNewEntry

\* A transfer that is requeued while it holds a shadow.
LEMMA RequeueEffect ==
  ASSUME RingInv, WindowHeld, NEW u \in Urbs, RequeueWithShadow(u)
  PROVE  ServesOn /\ WindowHeld' /\ NoNewEntry
<1>1. /\ shadowFree > 0 /\ GetShadow(u, NULL) /\ window' = [window EXCEPT ![u] = Top]
      /\ Outstanding' = Outstanding /\ \A e \in Outstanding : e[2] # u
  BY DEF RequeueWithShadow, RingInv, TypeOK, Outstanding, ResponseSet, Unreferenced
<1>2. ServesOn
  BY <1>1, GetEffect DEF ServesOn
<1>3. window'[u] = Top /\ \A w \in Urbs : w # u => window'[w] = window[w]
  BY <1>1 DEF RingInv, TypeOK
<1>4. <<Top, u>> \notin Outstanding'
  BY <1>1
<1>5. ASSUME NEW w \in Urbs, w # u, window[w] # NULL
      PROVE  /\ inUse'[window[w]] /\ holder'[window[w]] = w /\ request'[window[w]] = NULL
             /\ <<window[w], w>> \notin Outstanding'
  <2>1. window[w] \in Ids /\ inUse[window[w]]
    BY <1>5, HeldShadow
  <2> QED
    BY <1>1, <1>5, <2>1, GetEffect DEF WindowHeld
<1>6. inUse'[Top] /\ holder'[Top] = u /\ request'[Top] = NULL
  BY <1>1, GetEffect
<1>7. WindowHeld'
  BY <1>3, <1>4, <1>5, <1>6 DEF WindowHeld
<1> QED
  BY <1>1, <1>2, <1>7 DEF NoNewEntry

\* What giving shadow i back does to the shadows.
LEMMA GiveEffect ==
  ASSUME RingInv, NEW i \in Ids, PutShadow(i)
  PROVE  \A m \in Ids : m # i =>
           inUse'[m] = inUse[m] /\ holder'[m] = holder[m] /\ request'[m] = request[m]
<1>1. CASE inUse[i]
  BY <1>1 DEF PutShadow, ClearShadow, RingInv, TypeOK
<1>2. CASE ~inUse[i]
  BY <1>2 DEF PutShadow, listVars
<1> QED
  BY <1>1, <1>2

\* A shadow that is given back and that no requeueing thread holds.
LEMMA GiveKeepsWindow ==
  ASSUME RingInv, WindowHeld, NEW i \in Ids, PutShadow(i), UNCHANGED window,
         \A u \in Urbs : window[u] # i, Outstanding' \subseteq Outstanding
  PROVE  WindowHeld'
<1> SUFFICES ASSUME NEW u \in Urbs, window[u] # NULL
             PROVE  /\ inUse'[window[u]] /\ holder'[window[u]] = u
                    /\ request'[window[u]] = NULL
                    /\ <<window[u], u>> \notin Outstanding'
  BY DEF WindowHeld
<1>1. window[u] \in Ids
  BY DEF RingInv, TypeOK
<1> QED
  BY <1>1, GiveEffect DEF WindowHeld

\* The end of the requeueing.
LEMMA AbandonEffect ==
  ASSUME RingInv, WindowHeld, NEW u \in Urbs, AbandonShadow(u)
  PROVE  ServesOn /\ WindowHeld' /\ NoNewEntry
<1>1. /\ window[u] \in Ids /\ request[window[u]] = NULL /\ holder[window[u]] = u
      /\ PutShadow(window[u]) /\ Outstanding' = Outstanding
      /\ window'[u] = NULL /\ \A w \in Urbs : w # u => window'[w] = window[w]
  <2>1. /\ window[u] # NULL /\ PutShadow(window[u]) /\ Outstanding' = Outstanding
        /\ window' = [window EXCEPT ![u] = NULL]
    BY DEF AbandonShadow, Outstanding, ResponseSet
  <2>2. window \in [Urbs -> Ids \cup {NULL}]
    BY DEF RingInv, TypeOK
  <2> QED
    BY <2>1, <2>2, HeldShadow
<1>2. ServesOn
  BY <1>1, GiveEffect DEF ServesOn
<1>3. ASSUME NEW w \in Urbs, w # u, window[w] # NULL
      PROVE  /\ inUse'[window[w]] /\ holder'[window[w]] = w /\ request'[window[w]] = NULL
             /\ <<window[w], w>> \notin Outstanding'
  <2>1. window[w] \in Ids /\ window[w] # window[u]
    BY <1>1, <1>3, HeldShadow
  <2> QED
    BY <1>1, <1>3, <2>1, GiveEffect DEF WindowHeld
<1>4. WindowHeld'
  BY <1>1, <1>3 DEF WindowHeld
<1> QED
  BY <1>1, <1>2, <1>4 DEF NoNewEntry

\* The cancel side frees the shadow of one request.
LEMMA FreeEffect ==
  ASSUME RingInv, WindowHeld, NEW r \in Requests, FreeShadow(r)
  PROVE  /\ Outstanding' = Outstanding /\ WindowHeld'
         /\ \A i \in Ids : request[i] # NULL /\ request[i] # r => request'[i] = request[i]
<1>1. CASE UNCHANGED ringVars
  BY <1>1 DEF ringVars, Outstanding, ResponseSet, WindowHeld
<1>2. CASE FreeShadowForRequest(r)
  <2>1. PICK i \in Ids : /\ request[i] = r /\ PutShadow(i)
                         /\ UNCHANGED <<backend, responses, window>>
    BY <1>2 DEF FreeShadowForRequest
  <2>2. Outstanding' = Outstanding
    BY <2>1 DEF Outstanding, ResponseSet
  <2>3. \A u \in Urbs : window[u] # i
    BY <2>1, NullIsNothing, HeldShadow
  <2>4. WindowHeld'
    BY <2>1, <2>2, <2>3, GiveKeepsWindow
  <2> QED
    BY <2>1, <2>2, <2>4, GiveEffect
<1> QED
  BY <1>1, <1>2 DEF FreeShadow

\* An answer that is consumed, and what happens to its shadow.
LEMMA AnswerEffect ==
  ASSUME RingInv, WindowHeld, ConsumeResponse,
         \/ UNCHANGED <<inUse, holder, request>>
         \/ PutShadow(AnsweredId) /\ holder[AnsweredId] = Head(responses)[2]
  PROVE  /\ AnsweredId \in Ids
         /\ Head(responses) \in Outstanding /\ Outstanding' = Outstanding \ {Head(responses)}
         /\ WindowHeld'
         /\ \A i \in Ids : i # AnsweredId => request'[i] = request[i]
<1>1. /\ AnsweredId \in Ids /\ window' = window
      /\ Head(responses) \in Outstanding /\ Outstanding' = Outstanding \ {Head(responses)}
  BY ConsumeTypes, ConsumeExact DEF RingInv, ConsumeResponse
<1>2. CASE UNCHANGED <<inUse, holder, request>>
  BY <1>1, <1>2 DEF WindowHeld
<1>3. CASE PutShadow(AnsweredId) /\ holder[AnsweredId] = Head(responses)[2]
  <2>1. \A u \in Urbs : window[u] # AnsweredId
    <3> SUFFICES ASSUME NEW u \in Urbs, window[u] = AnsweredId PROVE FALSE
      OBVIOUS
    <3>1. holder[AnsweredId] = u /\ <<AnsweredId, u>> \notin Outstanding
      BY <1>1 DEF WindowHeld, Ids
    <3>2. Head(responses) = <<AnsweredId, Head(responses)[2]>>
      BY DEF AnsweredId, RingInv, TypeOK, ConsumeResponse
    <3> QED
      BY <1>1, <1>3, <3>1, <3>2
  <2> QED
    BY <1>1, <1>3, <2>1, GiveKeepsWindow, GiveEffect
<1> QED
  BY <1>1, <1>2, <1>3

-------------------------------------------------------------------------------
(* Steps that complete nothing and pass no request on.                     *)

Quiet ==
  /\ UNCHANGED <<fw, cancelSet, requestCompleted, refs, completions, collected>>
  /\ \A q \in Requests : Active(q)' => Active(q)
  /\ deviceUnplugged => deviceUnplugged'

\* They keep the order when the ring does.
LEMMA QuietKeepsOrder ==
  ASSUME Order, Quiet, ServesOn, NoNewEntry, WindowHeld'
  PROVE  Order'
<1>1. RequestsOrdered'
  BY DEF Order, RequestsOrdered, RequestOrder, Untouched, Quiet
<1>2. EntriesOrdered'
  <2> SUFFICES ASSUME NEW i \in Ids, NEW r \in Requests, <<i, r>> \in Outstanding'
               PROVE  EntryOrder(i, r)'
    BY DEF EntriesOrdered
  <2>1. EntryOrder(i, r) /\ r # NULL
    BY NullIsNothing DEF Order, EntriesOrdered, NoNewEntry
  <2> QED
    BY <2>1 DEF EntryOrder, Quiet, ServesOn
<1> QED
  BY <1>1, <1>2 DEF Order

\* Nothing of the ring changes.
LEMMA StillRing ==
  ASSUME WindowHeld, UNCHANGED ringVars
  PROVE  ServesOn /\ NoNewEntry /\ WindowHeld' /\ Outstanding' = Outstanding
BY DEF ringVars, ServesOn, NoNewEntry, Outstanding, ResponseSet, WindowHeld

\* Work items that go on are quiet.
LEMMA GoingOnIsQuiet ==
  ASSUME CancelInv, NEW r \in Requests,
         \/ AwaitPad(r) \/ AbortPut(r) \/ ScratchWaitOver(r) \/ ClearScratchEvent(r)
         \/ ScratchUnplugs(r) \/ ScratchTimeout(r) \/ WaitStart(r) \/ WaitWoken(r)
         \/ ResetGetsPad(r) \/ ResetPut(r) \/ ResetNoShadow(r) \/ ReturnWorkItem(r)
  PROVE  Quiet
<1>1. /\ UNCHANGED <<fw, cancelSet, requestCompleted, refs, completions, collected>>
      /\ deviceUnplugged => deviceUnplugged'
  BY DEF AwaitPad, AbortPut, ScratchWaitOver, ClearScratchEvent, ScratchUnplugs, Unplug,
         ScratchTimeout, WaitStart, WaitWoken, ResetGetsPad, ResetPut, ResetNoShadow,
         ReturnWorkItem, reqVars, plugVars, dpcVars
<1>2. \A q \in Requests \ {r} : worker'[q] = worker[q]
  <2>1. CASE AbortPut(r) \/ ResetPut(r)
    BY <2>1, AwaitAnswerEffect DEF AbortPut, ResetPut, Internal, CancelInv
  <2>2. CASE ReturnWorkItem(r)
    BY <2>2, ReturnEffect DEF CancelInv
  <2>3. CASE ~(AbortPut(r) \/ ResetPut(r) \/ ReturnWorkItem(r))
    <3>1. \E pc \in Counters : Goto(r, pc)
      BY <2>3 DEF AwaitPad, ScratchWaitOver, ClearScratchEvent, ScratchUnplugs,
                  ScratchTimeout, WaitStart, WaitWoken, ResetGetsPad, ResetNoShadow, Counters
    <3> QED
      BY <3>1, GotoEffect DEF CancelInv
  <2> QED
    BY <2>1, <2>2, <2>3
<1>3. Active(r)' => Active(r)
  <2>1. CASE ReturnWorkItem(r)
    BY <2>1, ReturnEffect DEF CancelInv, Active
  <2>2. CASE ~ReturnWorkItem(r)
    BY <2>2 DEF AwaitPad, AbortPut, AbortGetsPad, ScratchWaitOver, ClearScratchEvent,
                ScratchUnplugs, PadAccess, ScratchTimeout, WaitStart, WaitWoken, ResetGetsPad,
                ResetPut, ResetNoShadow, At, Active
  <2> QED
    BY <2>1, <2>2
<1> QED
  BY <1>1, <1>2, <1>3 DEF Quiet, Active

\* What they do to the ring.
LEMMA GoingOnKeepsOrder ==
  ASSUME RingInv, CancelInv, Order, NEW r \in Requests,
         \/ AwaitPad(r) \/ AbortPut(r) \/ ScratchWaitOver(r) \/ ClearScratchEvent(r)
         \/ ScratchUnplugs(r) \/ ScratchTimeout(r) \/ WaitStart(r) \/ WaitWoken(r)
         \/ ResetGetsPad(r) \/ ResetPut(r) \/ ResetNoShadow(r) \/ ReturnWorkItem(r)
  PROVE  Order'
<1>1. Quiet
  BY GoingOnIsQuiet
<1>2. ServesOn /\ WindowHeld' /\ NoNewEntry
  <2>1. (\E s \in Internal : PutScratchOnRing(s)) \/ UNCHANGED ringVars
    BY DEF AwaitPad, AbortPut, ScratchWaitOver, ClearScratchEvent, ScratchUnplugs,
           ScratchTimeout, WaitStart, WaitWoken, ResetGetsPad, ResetPut, ResetNoShadow,
           ReturnWorkItem, Internal
  <2> QED
    BY <2>1, ScratchEffect, StillRing DEF Order
<1> QED
  BY <1>1, <1>2, QuietKeepsOrder

\* The requeueing of a transfer, the backend, and answers to nobody's request.
LEMMA RingStepsKeepOrder ==
  ASSUME RingInv, CancelInv, Order, ~mismatched',
         \/ \E u \in Urbs : SubmitUrbNoGrefs(u) \/ RequeueFinished(u)
         \/ \E e \in backend : BackendAnswers(e)
         \/ DpcSkips \/ DpcScratchAnswer
         \/ WatchdogUnplugs \/ CleanupStart
  PROVE  Order'
<1>1. Quiet
  <2>1. worker' = worker
    BY DEF SubmitUrbNoGrefs, RequeueFinished, BackendAnswers, DpcSkips, DpcScratchAnswer,
           WatchdogUnplugs, CleanupStart, workVars
  <2> QED
    BY <2>1 DEF Quiet, Active, SubmitUrbNoGrefs, RequeueFinished, BackendAnswers, DpcSkips,
                DpcScratchAnswer, WatchdogUnplugs, CleanupStart, Unplug, reqVars, dpcVars,
                plugVars
<1>2. CASE \E u \in Urbs : SubmitUrbNoGrefs(u) \/ RequeueFinished(u)
  BY <1>1, <1>2, RequeueEffect, AbandonEffect, QuietKeepsOrder
  DEF SubmitUrbNoGrefs, RequeueFinished, Order
<1>3. CASE \E e \in backend : BackendAnswers(e)
  <2>1. /\ Outstanding' = Outstanding
        /\ UNCHANGED <<inUse, holder, request, window>>
    BY <1>3, RespondExact DEF BackendAnswers, BackendRespond, listVars, RingInv
  <2> QED
    BY <1>1, <2>1, QuietKeepsOrder DEF Order, ServesOn, NoNewEntry, WindowHeld
<1>4. CASE DpcSkips
  <2>1. ConsumeResponse /\ UNCHANGED <<inUse, holder, request>>
    BY <1>4 DEF DpcSkips, DpcAlreadyProcessed, listVars
  <2>2. WindowHeld' /\ Outstanding' \subseteq Outstanding
    BY <2>1, AnswerEffect DEF Order
  <2> QED
    BY <1>1, <2>1, <2>2, QuietKeepsOrder DEF ServesOn, NoNewEntry
<1>5. CASE DpcScratchAnswer
  <2>1. /\ ConsumeResponse /\ PutShadow(AnsweredId) /\ request[AnsweredId] = NULL
        /\ holder[AnsweredId] = Head(responses)[2]
    BY <1>5 DEF DpcScratchAnswer, DpcScratch, HandleAnswer
  <2>2. /\ WindowHeld' /\ Outstanding' \subseteq Outstanding
        /\ \A i \in Ids : i # AnsweredId => request'[i] = request[i]
    BY <2>1, AnswerEffect DEF Order
  <2> QED
    BY <1>1, <2>1, <2>2, QuietKeepsOrder DEF ServesOn, NoNewEntry
<1>6. CASE WatchdogUnplugs \/ CleanupStart
  BY <1>1, <1>6, StillRing, QuietKeepsOrder DEF WatchdogUnplugs, CleanupStart, Order
<1> QED
  BY <1>2, <1>3, <1>4, <1>5, <1>6

-------------------------------------------------------------------------------
(* Steps of one request.                                                   *)

\* The other requests are left alone.
OthersKept(r) ==
  /\ \A q \in Requests \ {r} :
       /\ fw'[q] = fw[q] /\ cancelSet'[q] = cancelSet[q]
       /\ requestCompleted'[q] = requestCompleted[q]
       /\ refs'[q] = refs[q] /\ completions'[q] = completions[q]
       /\ q \in collected' <=> q \in collected
       /\ Active(q)' => Active(q)
  /\ deviceUnplugged => deviceUnplugged'

\* It is enough to look at the request and at its entries.
LEMMA OneRequestKeepsOrder ==
  ASSUME Order, NEW r \in Requests, OthersKept(r), WindowHeld',
         \A i \in Ids : request[i] # NULL /\ request[i] # r => request'[i] = request[i],
         \A i \in Ids, q \in Requests :
           <<i, q>> \in Outstanding' /\ q # r => <<i, q>> \in Outstanding,
         RequestOrder(r)',
         \A i \in Ids : <<i, r>> \in Outstanding' => EntryOrder(i, r)'
  PROVE  Order'
<1>1. ASSUME NEW q \in Requests, q # r PROVE RequestOrder(q)'
  <2>1. RequestOrder(q)
    BY DEF Order, RequestsOrdered
  <2> QED
    BY <1>1, <2>1 DEF RequestOrder, Untouched, OthersKept
<1>2. ASSUME NEW i \in Ids, NEW q \in Requests, q # r, <<i, q>> \in Outstanding'
      PROVE  EntryOrder(i, q)'
  <2>1. EntryOrder(i, q) /\ q # NULL
    BY <1>2, NullIsNothing DEF Order, EntriesOrdered
  <2> QED
    BY <1>2, <2>1 DEF EntryOrder, OthersKept
<1> QED
  BY <1>1, <1>2 DEF Order, RequestsOrdered, EntriesOrdered

\* A request is put on the ring.
LEMMA SubmitKeepsOrder ==
  ASSUME RingInv, CancelInv, Order, NEW r \in Requests, SubmitUrb(r) \/ SubmitReset(r)
  PROVE  Order'
<1>1. /\ fw[r] = "new" /\ MarkCancelable(r) /\ shadowFree > 0 /\ r \in Jobs
      /\ Unreferenced(r) /\ GetShadow(r, r) /\ PutOnRing(r) /\ UNCHANGED <<responses, window>>
      /\ UNCHANGED <<worker, collected, deviceUnplugged>>
  BY DEF SubmitUrb, SubmitReset, PutUrbOnRing, PutResetOrCycleUrbOnRing, RingInv, TypeOK, Jobs,
         workVars, dpcVars, plugVars
<1>2. /\ ServesOn /\ WindowHeld' /\ Outstanding' = Outstanding \cup {<<Top, r>>}
      /\ Top \in Ids /\ request'[Top] = r
  BY <1>1, PutEffect DEF Order
<1>3. /\ fw'[r] = "cancelable" /\ cancelSet'[r] = TRUE /\ refs'[r] = refs[r] + 1
      /\ requestCompleted' = requestCompleted /\ completions' = completions
      /\ \A q \in Requests \ {r} :
           fw'[q] = fw[q] /\ cancelSet'[q] = cancelSet[q] /\ refs'[q] = refs[q]
  BY <1>1 DEF MarkCancelable, CancelInv, CancelTypeOK
<1>4. /\ RequestOrder(r) /\ refs[r] = 0 /\ Untouched(r)
      /\ ~Active(r) /\ \A i \in Ids : <<i, r>> \notin Outstanding
  BY <1>1 DEF Order, RequestsOrdered, RequestOrder, EntriesOrdered, EntryOrder, CancelInv,
              PipesInv, WorkersOwned
<1>5. OthersKept(r)
  BY <1>1, <1>3 DEF OthersKept, Active
<1>6. RequestOrder(r)'
  BY <1>1, <1>3, <1>4 DEF RequestOrder, Untouched, Active
<1>7. ASSUME NEW i \in Ids, <<i, r>> \in Outstanding' PROVE EntryOrder(i, r)'
  <2>1. i = Top
    BY <1>2, <1>4, <1>7
  <2> QED
    BY <1>2, <1>3, <1>4, <2>1 DEF EntryOrder
<1> QED
  BY <1>2, <1>5, <1>6, <1>7, OneRequestKeepsOrder DEF ServesOn

\* A request is cancelled, or its cancel routine starts a work item.
LEMMA CancelKeepsOrder ==
  ASSUME RingInv, CancelInv, Order, NEW r \in Requests,
         Cancel(r) \/ CancelStartAbort(r) \/ CancelAwaitAbort(r) \/ CancelStartReset(r)
  PROVE  Order'
<1>1. /\ fw[r] \in {"cancelable", "cancelling"}
      /\ fw'[r] \in {"cancelling", "routine"}
      /\ \A q \in Requests \ {r} : fw'[q] = fw[q] /\ worker'[q] = worker[q]
      /\ UNCHANGED ringVars
      /\ UNCHANGED <<cancelSet, requestCompleted, refs, completions, collected,
                     deviceUnplugged>>
      /\ Active(r)' => fw'[r] = "routine"
  <2>1. CASE Cancel(r)
    BY <2>1 DEF Cancel, CancelInv, CancelTypeOK, PipesInv, WorkersOwned, Active, workVars,
                plugVars, dpcVars
  <2>2. CASE CancelStartAbort(r) \/ CancelAwaitAbort(r) \/ CancelStartReset(r)
    <3>1. /\ RoutineRuns(r) /\ UNCHANGED ringVars
          /\ UNCHANGED <<cancelSet, requestCompleted, refs, completions, collected,
                         deviceUnplugged>>
          /\ \E kind \in Kinds : NewWorkItem(r, kind)
      BY <2>2 DEF CancelStartAbort, CancelAwaitAbort, CancelStartReset, Kinds, plugVars, dpcVars
    <3> QED
      BY <3>1, NewWorkItemEffect DEF RoutineRuns, CancelInv, CancelTypeOK
  <2> QED
    BY <2>1, <2>2
<1>2. OthersKept(r)
  BY <1>1 DEF OthersKept, Active
<1>3. /\ WindowHeld' /\ Outstanding' = Outstanding /\ request' = request
  BY <1>1, StillRing DEF Order, ringVars
<1>4. RequestOrder(r) /\ Untouched(r)
  BY <1>1 DEF Order, RequestsOrdered, RequestOrder
<1>5. RequestOrder(r)'
  BY <1>1, <1>4 DEF RequestOrder, Untouched
<1>6. ASSUME NEW i \in Ids, <<i, r>> \in Outstanding' PROVE EntryOrder(i, r)'
  <2>1. EntryOrder(i, r)
    BY <1>3, <1>6 DEF Order, EntriesOrdered
  <2> QED
    BY <1>1, <1>3, <2>1 DEF EntryOrder
<1> QED
  BY <1>2, <1>3, <1>5, <1>6, OneRequestKeepsOrder

\* The cancel side completes the request: nobody did before, and nobody can after
\* that, because RequestCompleted stays set behind the entry that may still come
\* back.
LEMMA CancelSideKeepsOrder ==
  ASSUME RingInv, CancelInv, Order, NEW r \in Requests,
         Untouched(r), fw'[r] = "routine", \A q \in Requests \ {r} : fw'[q] = fw[q],
         CompleteCancelled(r), FreeShadow(r) \/ UNCHANGED ringVars,
         UNCHANGED <<collected, deviceUnplugged>>,
         \/ refs' = refs
         \/ deviceUnplugged /\ refs' = [refs EXCEPT ![r] = @ - 1],
         ~Active(r)', \A q \in Requests \ {r} : worker'[q] = worker[q]
  PROVE  Order'
<1>1. /\ requestCompleted'[r] = TRUE /\ cancelSet'[r] = FALSE
      /\ completions'[r] = 1
      /\ \A q \in Requests \ {r} : /\ requestCompleted'[q] = requestCompleted[q]
                                   /\ cancelSet'[q] = cancelSet[q]
                                   /\ completions'[q] = completions[q]
  BY DEF CompleteCancelled, Untouched, CancelInv, CancelTypeOK
<1>2. /\ \A q \in Requests \ {r} : refs'[q] = refs[q]
      /\ refs'[r] = refs[r] \/ deviceUnplugged
  BY DEF CancelInv, CancelTypeOK
<1>3. OthersKept(r)
  BY <1>1, <1>2 DEF OthersKept, Active
<1>4. /\ Outstanding' = Outstanding /\ WindowHeld'
      /\ \A i \in Ids : request[i] # NULL /\ request[i] # r => request'[i] = request[i]
  BY FreeEffect, StillRing DEF Order, ringVars
<1>5. RequestOrder(r)'
  BY <1>1 DEF RequestOrder, Untouched
<1>6. ASSUME NEW i \in Ids, <<i, r>> \in Outstanding' PROVE EntryOrder(i, r)'
  <2>1. EntryOrder(i, r)
    BY <1>4, <1>6 DEF Order, EntriesOrdered
  <2> QED
    BY <1>1, <1>2, <2>1 DEF EntryOrder
<1> QED
  BY <1>3, <1>4, <1>5, <1>6, OneRequestKeepsOrder

\* In its cancel routine ...
LEMMA RoutineCompletesOnce ==
  ASSUME RingInv, CancelInv, Order, NEW r \in Requests,
         CancelUnplugged(r) \/ CancelNoAbortItem(r) \/ CancelWithoutReset(r)
  PROVE  Order'
<1>1. RoutineRuns(r) /\ CompleteCancelled(r)
  BY DEF CancelUnplugged, CancelNoAbortItem, CancelWithoutReset
<1>2. FreeShadow(r) \/ UNCHANGED ringVars
  BY DEF CancelUnplugged, CancelNoAbortItem, CancelWithoutReset
<1>3. /\ UNCHANGED <<collected, deviceUnplugged>> /\ UNCHANGED worker
      /\ \/ refs' = refs
         \/ deviceUnplugged /\ refs' = [refs EXCEPT ![r] = @ - 1]
  BY DEF CancelUnplugged, CancelNoAbortItem, CancelWithoutReset, workVars, plugVars, dpcVars
<1>4. /\ fw[r] = "cancelling" /\ fw'[r] = "routine"
      /\ \A q \in Requests \ {r} : fw'[q] = fw[q]
  BY <1>1 DEF RoutineRuns, CancelInv, CancelTypeOK
<1>5. Untouched(r) /\ ~Active(r)'
  BY <1>3, <1>4 DEF Order, RequestsOrdered, RequestOrder, CancelInv, PipesInv, WorkersOwned,
                    Active
<1> QED
  BY <1>1, <1>2, <1>3, <1>4, <1>5, CancelSideKeepsOrder

\* ... or at the end of its work item.
LEMMA WorkerCompletesOnce ==
  ASSUME RingInv, CancelInv, Order, NEW r \in Requests, Active(r), FinishWorker(r)
  PROVE  Order'
<1>1. /\ UNCHANGED <<fw, refs, collected, deviceUnplugged>>
      /\ worker'[r].pc = "return" /\ \A q \in Requests \ {r} : worker'[q] = worker[q]
      /\ CompleteCancelled(r) /\ FreeShadow(r)
  BY FinishEffect DEF CancelInv, FinishWorker, plugVars, dpcVars
<1>2. Untouched(r) /\ fw[r] = "routine"
  BY DEF Order, RequestsOrdered, RequestOrder, CancelInv, PipesInv, WorkersOwned
<1> QED
  BY <1>1, <1>2, CancelSideKeepsOrder DEF Active

\* The DPC looks at the answer to a request: it is the answer to this one, and
\* there is no other entry of it.
LEMMA AnswerOfRequest ==
  ASSUME RingInv, Order, NEW r \in Requests, ConsumeResponse, request[AnsweredId] = r,
         holder[AnsweredId] = Head(responses)[2],
         UNCHANGED <<inUse, holder, request>> \/ PutShadow(AnsweredId)
  PROVE  /\ AnsweredId \in Ids /\ EntryOrder(AnsweredId, r)
         /\ WindowHeld'
         /\ \A i \in Ids : <<i, r>> \notin Outstanding'
         /\ \A i \in Ids, q \in Requests :
              <<i, q>> \in Outstanding' /\ q # r => <<i, q>> \in Outstanding
         /\ \A i \in Ids : request[i] # NULL /\ request[i] # r => request'[i] = request[i]
<1>1. /\ AnsweredId \in Ids /\ WindowHeld'
      /\ Head(responses) \in Outstanding /\ Outstanding' = Outstanding \ {Head(responses)}
      /\ \A i \in Ids : i # AnsweredId => request'[i] = request[i]
  BY AnswerEffect DEF Order
<1>2. holder[AnsweredId] = r
  BY <1>1, NullIsNothing DEF RingInv, ServedByHolder
<1>3. Head(responses) = <<AnsweredId, r>>
  BY <1>2 DEF AnsweredId, RingInv, TypeOK, ConsumeResponse
<1>4. \A i \in Ids : <<i, r>> \notin Outstanding'
  <2> SUFFICES ASSUME NEW i \in Ids, <<i, r>> \in Outstanding, i # AnsweredId PROVE FALSE
    BY <1>1, <1>3
  <2>1. <<i, r>>[2] = <<AnsweredId, r>>[2]
    OBVIOUS
  <2>2. <<i, r>> = <<AnsweredId, r>>
    BY <1>1, <1>3, <2>1 DEF RingInv, EntriesExact
  <2> QED
    BY <2>2
<1> QED
  BY <1>1, <1>3, <1>4 DEF Order, EntriesOrdered

\* It leaves the request to the cancel side ...
LEMMA DeferKeepsOrder ==
  ASSUME RingInv, CancelInv, Order, ~mismatched', NEW r \in Requests, DpcDefers(r)
  PROVE  Order'
<1>1. /\ ConsumeResponse /\ request[AnsweredId] = r /\ holder[AnsweredId] = Head(responses)[2]
      /\ UNCHANGED <<inUse, holder, request>> /\ CancelOwns(r)
      /\ UNCHANGED <<fw, requestCompleted, completions, worker, collected, deviceUnplugged>>
      /\ \A q \in Requests \ {r} : cancelSet'[q] = cancelSet[q] /\ refs'[q] = refs[q]
  BY DEF DpcDefers, DpcDeferToCancel, HandleAnswer, Dereference, CancelInv, CancelTypeOK,
         workVars, plugVars
<1>2. /\ WindowHeld' /\ EntryOrder(AnsweredId, r)
      /\ \A i \in Ids : <<i, r>> \notin Outstanding'
      /\ \A i \in Ids, q \in Requests :
           <<i, q>> \in Outstanding' /\ q # r => <<i, q>> \in Outstanding
      /\ \A i \in Ids : request[i] # NULL /\ request[i] # r => request'[i] = request[i]
  BY <1>1, AnswerOfRequest
<1>3. OthersKept(r)
  BY <1>1 DEF OthersKept, Active
<1>4. RequestOrder(r)'
  <2>1. RequestOrder(r) /\ fw[r] \notin {"absent", "new"}
    BY <1>2 DEF Order, RequestsOrdered, EntryOrder
  <2> QED
    BY <1>1, <2>1 DEF RequestOrder, Untouched, Active
<1> QED
  BY <1>2, <1>3, <1>4, OneRequestKeepsOrder

\* ... or takes it: it is still marked cancelable then, and nobody has touched it.
LEMMA CompleteKeepsOrder ==
  ASSUME RingInv, CancelInv, Order, ~mismatched', NEW r \in Requests, DpcCompletes(r)
  PROVE  Order'
<1>1. /\ ConsumeResponse /\ request[AnsweredId] = r /\ holder[AnsweredId] = Head(responses)[2]
      /\ PutShadow(AnsweredId) /\ ~CancelOwns(r)
      /\ UNCHANGED <<requestCompleted, completions, worker, deviceUnplugged>>
      /\ collected' = collected \cup {r}
      /\ fw' = [fw EXCEPT ![r] = IF cancelSet[r] THEN "unmarked" ELSE @]
      /\ \A q \in Requests \ {r} : cancelSet'[q] = cancelSet[q] /\ refs'[q] = refs[q]
  BY DEF DpcCompletes, DpcCompleteRequest, HandleAnswer, Dereference, CancelInv, CancelTypeOK,
         workVars, plugVars
<1>2. /\ WindowHeld' /\ EntryOrder(AnsweredId, r)
      /\ \A i \in Ids : <<i, r>> \notin Outstanding'
      /\ \A i \in Ids, q \in Requests :
           <<i, q>> \in Outstanding' /\ q # r => <<i, q>> \in Outstanding
      /\ \A i \in Ids : request[i] # NULL /\ request[i] # r => request'[i] = request[i]
  BY <1>1, AnswerOfRequest
<1>3. /\ ~requestCompleted[r] /\ cancelSet[r] /\ fw[r] = "cancelable"
      /\ fw'[r] = "unmarked" /\ \A q \in Requests \ {r} : fw'[q] = fw[q]
  BY <1>1, <1>2 DEF CancelOwns, Cancelled, EntryOrder, CancelInv, CancelTypeOK
<1>4. OthersKept(r)
  BY <1>1, <1>3 DEF OthersKept, Active
<1>5. RequestOrder(r)'
  <2>1. Untouched(r) /\ ~Active(r)
    BY <1>3 DEF Order, RequestsOrdered, RequestOrder, CancelInv, PipesInv, WorkersOwned
  <2> QED
    BY <1>1, <1>3, <2>1 DEF RequestOrder, Untouched, Active
<1> QED
  BY <1>2, <1>4, <1>5, OneRequestKeepsOrder

\* What it took it completes, once.
LEMMA CollectedKeepsOrder ==
  ASSUME RingInv, CancelInv, Order, NEW r \in Requests, DpcCompletesCollected(r)
  PROVE  Order'
<1>1. /\ r \in collected /\ collected' = collected \ {r}
      /\ completions'[r] = completions[r] + 1
      /\ \A q \in Requests \ {r} : completions'[q] = completions[q]
      /\ UNCHANGED ringVars
      /\ UNCHANGED <<fw, cancelSet, requestCompleted, refs, worker, deviceUnplugged>>
      /\ completions[r] \in Nat
  BY DEF DpcCompletesCollected, CancelInv, CancelTypeOK, workVars, plugVars
<1>2. WindowHeld' /\ Outstanding' = Outstanding /\ request' = request
  BY <1>1, StillRing DEF Order, ringVars
<1>3. OthersKept(r)
  BY <1>1 DEF OthersKept, Active
<1>4. RequestOrder(r)'
  <2>1. RequestOrder(r)
    BY DEF Order, RequestsOrdered
  <2>2. completions[r] = 0 /\ ~Untouched(r)
    BY <1>1, <2>1 DEF RequestOrder, Untouched
  <2> QED
    BY <1>1, <2>1, <2>2 DEF RequestOrder, Active
<1>5. ASSUME NEW i \in Ids, <<i, r>> \in Outstanding' PROVE EntryOrder(i, r)'
  <2>1. EntryOrder(i, r)
    BY <1>2, <1>5 DEF Order, EntriesOrdered
  <2> QED
    BY <1>1, <1>2, <2>1 DEF EntryOrder
<1> QED
  BY <1>2, <1>3, <1>4, <1>5, OneRequestKeepsOrder

-------------------------------------------------------------------------------
(* All steps.                                                              *)

\* The device does not come back, an answer that was mistaken stays so, and only
\* the clean-up after a disconnect moves on to the sweep.
LEMMA NextPlugs ==
  ASSUME [CancelNext]_cancelVars
  PROVE  /\ deviceUnplugged => deviceUnplugged'
         /\ mismatched => mismatched' = TRUE
         /\ \/ UNCHANGED <<sweep, ctlrDisconnected>>
            \/ CleanupStart \/ CleanupUnplugs \/ SweepEnds
<1>1. CASE UNCHANGED cancelVars
  BY <1>1 DEF cancelVars, plugVars, dpcVars
<1>2. ASSUME NEW r \in Requests,
             \/ SubmitUrb(r) \/ SubmitUrbNoGrefs(r) \/ RequeueFinished(r) \/ SubmitReset(r)
             \/ Cancel(r) \/ CancelRoutine(r)
      PROVE  UNCHANGED <<deviceUnplugged, mismatched, sweep, ctlrDisconnected>>
  BY <1>2 DEF SubmitUrb, SubmitUrbNoGrefs, RequeueFinished, SubmitReset, Cancel,
              CancelRoutine, CancelUnplugged, CancelStartAbort, CancelAwaitAbort,
              CancelNoAbortItem, CancelWithoutReset, CancelStartReset, plugVars, dpcVars
<1>3. ASSUME NEW r \in Requests, WorkerStep(r) \/ ScratchTimeout(r)
      PROVE  /\ UNCHANGED <<mismatched, sweep, ctlrDisconnected>>
             /\ deviceUnplugged => deviceUnplugged'
  <2>1. CASE FinishWorker(r)
    BY <2>1 DEF FinishWorker, plugVars, dpcVars
  <2>2. CASE ScratchUnplugs(r)
    BY <2>2 DEF ScratchUnplugs, Unplug, dpcVars
  <2>3. CASE UNCHANGED <<plugVars, dpcVars>>
    BY <2>3 DEF plugVars, dpcVars
  <2> QED
    BY <1>3, <2>1, <2>2, <2>3
    DEF WorkerStep, ReturnWorkItem, AbortNotNeeded, AwaitPad, AbortPadUnplugged, AbortPut,
        AbortNoShadow, AbortDone, ScratchWaitOver, ClearScratchEvent, WaitNotNeeded,
        WaitStart, WaitWoken, WaitDone, ResetUnplugged, ResetGetsPad, ResetPut,
        ResetNoShadow, ResetDone, ScratchTimeout
<1>4. ASSUME NEW r \in Requests,
             DpcDefers(r) \/ DpcCompletes(r) \/ DpcCompletesCollected(r)
      PROVE  /\ UNCHANGED <<deviceUnplugged, sweep, ctlrDisconnected>>
             /\ mismatched => mismatched' = TRUE
  BY <1>4 DEF DpcDefers, DpcCompletes, DpcCompletesCollected, HandleAnswer, plugVars
<1>5. CASE \/ \E e \in backend : BackendAnswers(e)
           \/ DpcSkips \/ DpcScratchAnswer
           \/ WatchdogUnplugs
           \/ \E n \in Ids : SweepCompletes(n)
  <2>1. UNCHANGED <<sweep, ctlrDisconnected>>
    BY <1>5 DEF BackendAnswers, DpcSkips, DpcScratchAnswer, WatchdogUnplugs, SweepCompletes,
                plugVars
  <2>2. deviceUnplugged => deviceUnplugged'
    BY <1>5 DEF BackendAnswers, DpcSkips, DpcScratchAnswer, WatchdogUnplugs, Unplug,
                SweepCompletes, plugVars
  <2>3. mismatched => mismatched' = TRUE
    BY <1>5 DEF BackendAnswers, DpcSkips, DpcScratchAnswer, HandleAnswer, WatchdogUnplugs,
                SweepCompletes, dpcVars
  <2> QED
    BY <2>1, <2>2, <2>3
<1>6. CASE CleanupStart \/ CleanupUnplugs \/ SweepEnds
  BY <1>6 DEF CleanupStart, CleanupUnplugs, SweepEnds, Unplug, dpcVars
<1> QED
  BY <1>1, <1>2, <1>3, <1>4, <1>5, <1>6 DEF CancelNext, Requests

\* What is Sound was so before; the sweep does not begin earlier.
LEMMA NextSweepPhases ==
  SweepPhases /\ [CancelNext]_cancelVars => SweepPhases' /\ (Sound' => Sound)
<1> SUFFICES ASSUME SweepPhases, [CancelNext]_cancelVars
             PROVE  SweepPhases' /\ (Sound' => Sound)
  OBVIOUS
<1>1. /\ deviceUnplugged => deviceUnplugged'
      /\ mismatched => mismatched' = TRUE
      /\ \/ UNCHANGED <<sweep, ctlrDisconnected>>
         \/ CleanupStart \/ CleanupUnplugs \/ SweepEnds
  BY NextPlugs
<1>2. CASE UNCHANGED <<sweep, ctlrDisconnected>>
  BY <1>1, <1>2 DEF SweepPhases, Sound
<1>3. CASE CleanupStart \/ CleanupUnplugs \/ SweepEnds
  BY <1>1, <1>3 DEF CleanupStart, CleanupUnplugs, SweepEnds, Unplug, SweepPhases, Sound
<1> QED
  BY <1>1, <1>2, <1>3

\* Every step keeps the invariant.
LEMMA NextOwnerInv ==
  RingInv /\ CancelInv /\ OwnerInv /\ [CancelNext]_cancelVars => OwnerInv'
<1> SUFFICES ASSUME RingInv, CancelInv, SweepPhases, Sound', Order, [CancelNext]_cancelVars
             PROVE  Order'
  BY NextSweepPhases DEF OwnerInv
<1>1. ~mismatched' /\ sweep' \notin {"scan", "done"} /\ Sound
  BY NextSweepPhases DEF Sound
<1>2. CASE UNCHANGED cancelVars
  <2>1. Quiet
    BY <1>2 DEF cancelVars, reqVars, dpcVars, plugVars, workVars, Quiet, Active
  <2> QED
    BY <1>2, <2>1, StillRing, QuietKeepsOrder DEF Order, cancelVars
<1>3. ASSUME NEW u \in Urbs, SubmitUrb(u) \/ SubmitUrbNoGrefs(u) \/ RequeueFinished(u)
      PROVE  Order'
  BY <1>1, <1>3, SubmitKeepsOrder, RingStepsKeepOrder DEF Requests
<1>4. ASSUME NEW v \in Resets, SubmitReset(v) PROVE Order'
  BY <1>4, SubmitKeepsOrder DEF Requests
<1>5. ASSUME NEW r \in Requests, Cancel(r) \/ CancelRoutine(r) PROVE Order'
  BY <1>5, CancelKeepsOrder, RoutineCompletesOnce DEF CancelRoutine
<1>6. ASSUME NEW r \in Requests, WorkerStep(r) \/ ScratchTimeout(r) PROVE Order'
  <2>1. CASE \/ AwaitPad(r) \/ AbortPut(r) \/ ScratchWaitOver(r) \/ ClearScratchEvent(r)
             \/ ScratchUnplugs(r) \/ ScratchTimeout(r) \/ WaitStart(r) \/ WaitWoken(r)
             \/ ResetGetsPad(r) \/ ResetPut(r) \/ ResetNoShadow(r) \/ ReturnWorkItem(r)
    BY <2>1, GoingOnKeepsOrder
  <2>2. CASE \/ AbortNotNeeded(r) \/ AbortPadUnplugged(r) \/ AbortNoShadow(r) \/ AbortDone(r)
             \/ WaitNotNeeded(r) \/ WaitDone(r) \/ ResetUnplugged(r) \/ ResetDone(r)
    <3>1. Active(r) /\ FinishWorker(r)
      BY <2>2 DEF AbortNotNeeded, AbortPadUnplugged, AbortNoShadow, AbortDone, WaitNotNeeded,
                  WaitDone, ResetUnplugged, ResetDone, AbortGetsPad, PadAccess, At, Active
    <3> QED
      BY <3>1, WorkerCompletesOnce
  <2> QED
    BY <1>6, <2>1, <2>2 DEF WorkerStep
<1>7. ASSUME NEW r \in Requests, DpcDefers(r) \/ DpcCompletes(r) \/ DpcCompletesCollected(r)
      PROVE  Order'
  BY <1>1, <1>7, DeferKeepsOrder, CompleteKeepsOrder, CollectedKeepsOrder
<1>8. CASE \/ \E e \in backend : BackendAnswers(e)
           \/ DpcSkips \/ DpcScratchAnswer \/ WatchdogUnplugs \/ CleanupStart
  BY <1>1, <1>8, RingStepsKeepOrder
<1>9. CASE \/ CleanupUnplugs \/ SweepEnds \/ \E n \in Ids : SweepCompletes(n)
  BY <1>1, <1>9 DEF CleanupUnplugs, SweepEnds, SweepCompletes, Sound
<1> QED
  BY <1>2, <1>3, <1>4, <1>5, <1>6, <1>7, <1>8, <1>9 DEF CancelNext

\* Nothing has happened to any request in the initial state.
LEMMA InitOwnerInv == CancelInit => OwnerInv
<1> SUFFICES ASSUME NEW present \in SUBSET Requests, CancelInitFor(present) PROVE OwnerInv
  BY DEF CancelInit
<1>1. SweepPhases
  BY DEF CancelInitFor, SweepPhases
<1>2. RequestsOrdered
  BY DEF CancelInitFor, RequestsOrdered, RequestOrder, Untouched, Active, NoWorker
<1>3. EntriesOrdered
  BY DEF CancelInitFor, RingInit, EntriesOrdered, Outstanding, ResponseSet
<1>4. WindowHeld
  BY DEF CancelInitFor, RingInit, WindowHeld
<1> QED
  BY <1>1, <1>2, <1>3, <1>4 DEF OwnerInv, Order

\* The inductive invariant, for the theorems below.
LEMMA OwnerInvariant == CancelSpec => [](RingInv /\ CancelInv /\ OwnerInv)
<1>1. CancelSpec => []RingInv
  BY RingImplemented, RingInvariant DEF RingRefined
<1>2. CancelSpec => []CancelInv
  BY CancelInvariant DEF CancelInv
<1> QED
  BY <1>1, <1>2, InitOwnerInv, NextOwnerInv, PTL DEF CancelSpec

\* CompletedOnce: until the controller is disconnected a request is completed once
\* at most, whichever of XenDpc, the cancel routine and its work item is first.
THEOREM RequestsCompletedOnce == CancelSpec => []CompletedOnce
<1>1. OwnerInv => CompletedOnce
  <2> SUFFICES ASSUME OwnerInv, ~ctlrDisconnected, ~mismatched PROVE RequestsOrdered
    BY DEF CompletedOnce, RequestsOrdered, RequestOrder
  <2> QED
    BY DEF OwnerInv, SweepPhases, Sound, Order
<1> QED
  BY <1>1, OwnerInvariant, PTL

\* ReferencedOnRing: while XenDpc may still find the handle of a request behind an
\* answer, the reference PutUrbOnRing took for the ring is there, and only one.
THEOREM RequestsReferenced == CancelSpec => []ReferencedOnRing
<1>1. RingInv /\ OwnerInv => ReferencedOnRing
  <2> SUFFICES ASSUME RingInv, OwnerInv, ~deviceUnplugged, ~mismatched,
                      NEW e \in Outstanding, e[2] \in Requests
               PROVE  refs[e[2]] = 1
    BY DEF ReferencedOnRing
  <2>1. EntriesOrdered
    BY DEF OwnerInv, SweepPhases, Sound, Order
  <2>2. e = <<e[1], e[2]>> /\ e[1] \in Ids
    BY DEF RingInv, TypeOK, Outstanding, ResponseSet
  <2> QED
    BY <2>1, <2>2 DEF EntriesOrdered, EntryOrder
<1> QED
  BY <1>1, OwnerInvariant, PTL

-------------------------------------------------------------------------------
(* Resets.                                                                 *)

\* The work items that reset the device go on, or one of them clears
\* ResetInProgress.
ResetsGoOn ==
  \A q \in Requests : Active(q) /\ worker[q].kind = "reset" =>
    Active(q)' /\ worker'[q].kind = "reset"

\* The cancel routines of port resets stay called.
StayCancelled == \A v \in Resets : Cancelled(v) => Cancelled(v)'

\* Steps that take no reset away from its owner.
LEMMA OwnersStay ==
  ASSUME ResetHasOwner, resetInProgress' => resetInProgress,
         ~deviceUnplugged, ~mismatched, ResetsGoOn, StayCancelled,
         \A e \in Outstanding : e[2] \in Resets => e \in Outstanding' \/ Cancelled(e[2])
  PROVE  ResetHasOwner'
<1> SUFFICES ASSUME resetInProgress
             PROVE  \/ \E r \in Requests : worker'[r].kind = "reset" /\ Active(r)'
                    \/ \E v \in Resets : Cancelled(v)' \/ \E e \in Outstanding' : e[2] = v
  BY DEF ResetHasOwner
<1>1. CASE \E r \in Requests : worker[r].kind = "reset" /\ Active(r)
  BY <1>1 DEF ResetsGoOn
<1>2. ASSUME NEW v \in Resets, Cancelled(v) \/ \E e \in Outstanding : e[2] = v
      PROVE  Cancelled(v)' \/ \E e \in Outstanding' : e[2] = v
  BY <1>2 DEF StayCancelled
<1> QED
  BY <1>1, <1>2 DEF ResetHasOwner

\* Nobody takes a cancellation back.
LEMMA CancelledStays == CancelTypeOK /\ TypeOK /\ [CancelNext]_cancelVars => StayCancelled
<1> SUFFICES ASSUME CancelTypeOK, TypeOK, [CancelNext]_cancelVars,
                    NEW v \in Requests, Cancelled(v)
             PROVE  Cancelled(v)'
  BY DEF StayCancelled, Requests
<1>1. CASE UNCHANGED fw
  BY <1>1 DEF Cancelled
<1>2. ASSUME NEW r \in Requests, SubmitUrb(r) \/ SubmitReset(r) \/ Cancel(r) \/ RoutineRuns(r)
      PROVE  Cancelled(v)'
  BY <1>2 DEF SubmitUrb, SubmitReset, MarkCancelable, Cancel, RoutineRuns, Cancelled,
              CancelTypeOK
<1>3. ASSUME NEW r \in Requests, DpcCompletes(r) PROVE Cancelled(v)'
  BY <1>3 DEF DpcCompletes, CancelOwns, Cancelled, CancelTypeOK
<1>4. ASSUME NEW n \in Ids, SweepCompletes(n) PROVE Cancelled(v)'
  <2>1. request[n] \in Requests
    BY <1>4 DEF SweepCompletes, TypeOK
  <2> QED
    BY <1>4, <2>1 DEF SweepCompletes, CancelOwns, Cancelled, CancelTypeOK
<1>5. ASSUME NEW r \in Requests, CancelRoutine(r) PROVE RoutineRuns(r)
  BY <1>5 DEF CancelRoutine, CancelUnplugged, CancelStartAbort, CancelAwaitAbort,
              CancelNoAbortItem, CancelWithoutReset, CancelStartReset
<1>6. ASSUME NEW r \in Requests, WorkerStep(r) \/ ScratchTimeout(r) PROVE UNCHANGED fw
  BY <1>6
  DEF WorkerStep, ReturnWorkItem, AbortNotNeeded, AwaitPad, AbortPadUnplugged, AbortPut,
      AbortNoShadow, AbortDone, ScratchWaitOver, ClearScratchEvent, ScratchUnplugs,
      WaitNotNeeded, WaitStart, WaitWoken, WaitDone, ResetUnplugged, ResetGetsPad, ResetPut,
      ResetNoShadow, ResetDone, ScratchTimeout, FinishWorker, reqVars
<1>7. CASE \/ \E u \in Urbs : SubmitUrbNoGrefs(u) \/ RequeueFinished(u)
           \/ \E r \in Requests : DpcDefers(r) \/ DpcCompletesCollected(r)
           \/ \E e \in backend : BackendAnswers(e)
           \/ DpcSkips \/ DpcScratchAnswer \/ WatchdogUnplugs \/ CleanupStart
           \/ CleanupUnplugs \/ SweepEnds \/ UNCHANGED cancelVars
  BY <1>1, <1>7 DEF SubmitUrbNoGrefs, RequeueFinished, DpcDefers, DpcCompletesCollected,
                    BackendAnswers, DpcSkips, DpcScratchAnswer, WatchdogUnplugs, CleanupStart,
                    CleanupUnplugs, SweepEnds, reqVars, cancelVars
<1> QED
  BY <1>1, <1>2, <1>3, <1>4, <1>5, <1>6, <1>7 DEF CancelNext, Requests

\* A work item that is not at its end goes on.
LEMMA GoingOnKeepsResets ==
  ASSUME CancelTypeOK, NEW r \in Requests,
         \/ AwaitPad(r) \/ AbortPut(r) \/ ScratchWaitOver(r) \/ ClearScratchEvent(r)
         \/ ScratchUnplugs(r) \/ ScratchTimeout(r) \/ WaitStart(r) \/ WaitWoken(r)
         \/ ResetGetsPad(r) \/ ResetPut(r) \/ ResetNoShadow(r) \/ ReturnWorkItem(r)
  PROVE  ResetsGoOn
<1>1. CASE AbortPut(r) \/ ResetPut(r)
  BY <1>1, AwaitAnswerEffect DEF AbortPut, ResetPut, Internal, ResetsGoOn, Active
<1>2. CASE ReturnWorkItem(r)
  BY <1>2, ReturnEffect DEF ResetsGoOn, ReturnWorkItem, Active
<1>3. CASE ~(AbortPut(r) \/ ResetPut(r) \/ ReturnWorkItem(r))
  <2>1. \E pc \in Counters \ {"none", "return"} : Goto(r, pc)
    BY <1>3 DEF AwaitPad, ScratchWaitOver, ClearScratchEvent, ScratchUnplugs,
                ScratchTimeout, WaitStart, WaitWoken, ResetGetsPad, ResetNoShadow, Counters
  <2> QED
    BY <2>1, GotoEffect DEF ResetsGoOn, Active
<1> QED
  BY <1>1, <1>2, <1>3

\* An answer is consumed that is not that of a reset which is waited for.
LEMMA ConsumeKeepsOwners ==
  ASSUME RingInv, ResetHasOwner, ConsumeResponse,
         resetInProgress' => resetInProgress,
         ~deviceUnplugged, ~mismatched, UNCHANGED worker, StayCancelled,
         Head(responses)[2] \in Resets => Cancelled(Head(responses)[2])
  PROVE  ResetHasOwner'
<1>1. ResetsGoOn
  BY DEF ResetsGoOn, Active
<1>2. Outstanding' = Outstanding \ {Head(responses)}
  BY ConsumeExact DEF RingInv
<1> QED
  BY <1>1, <1>2, OwnersStay

\* Answers.
LEMMA AnswersKeepOwners ==
  ASSUME RingInv, CancelInv, Order, ResetHasOwner, StayCancelled,
         ~deviceUnplugged, ~mismatched, ~mismatched', resetInProgress',
         \/ DpcSkips \/ DpcScratchAnswer
         \/ \E r \in Requests : DpcDefers(r) \/ DpcCompletes(r)
  PROVE  ResetHasOwner'
<1> DEFINE j == Head(responses)[2]
<1>1. /\ ConsumeResponse /\ UNCHANGED worker
      /\ resetInProgress' => resetInProgress
      /\ DpcSkips \/ holder[AnsweredId] = j
  BY DEF DpcSkips, DpcScratchAnswer, DpcDefers, DpcCompletes, DpcAlreadyProcessed, DpcScratch,
         DpcDeferToCancel, DpcCompleteRequest, HandleAnswer, workVars
<1>2. /\ AnsweredId \in Ids /\ <<AnsweredId, j>> \in Outstanding
  <2>1. Head(responses) \in Outstanding /\ AnsweredId \in Ids
    BY <1>1, ConsumeExact, ConsumeTypes DEF RingInv
  <2>2. Head(responses) = <<AnsweredId, j>>
    BY <1>1 DEF AnsweredId, RingInv, TypeOK, ConsumeResponse
  <2> QED
    BY <2>1, <2>2
<1>3. j \in Resets => EntryOrder(AnsweredId, j)
  BY <1>2 DEF Order, EntriesOrdered, Requests
<1>4. ASSUME j \in Resets PROVE Cancelled(j)
  <2>1. j \in Requests /\ j # NULL
    BY <1>4, NullIsNothing DEF Requests
  <2>2. CASE DpcSkips \/ DpcScratchAnswer
    <3>1. request[AnsweredId] # j
      BY <1>2, <2>1, <2>2 DEF DpcSkips, DpcAlreadyProcessed, DpcScratchAnswer, DpcScratch,
                              RingInv, ServedByHolder
    <3> QED
      BY <1>3, <1>4, <3>1 DEF EntryOrder, Cancelled
  <2>3. ASSUME NEW r \in Requests, DpcDefers(r) \/ DpcCompletes(r) PROVE Cancelled(j)
    <3>1. r = j /\ request[AnsweredId] = j
      <4>1. request[AnsweredId] = r /\ r # NULL /\ holder[AnsweredId] = j
        BY <2>3, NullIsNothing DEF DpcDefers, DpcCompletes, HandleAnswer
      <4> QED
        BY <1>2, <4>1 DEF RingInv, ServedByHolder
    <3>2. CASE DpcDefers(r)
      <4>1. CancelOwns(j)
        BY <3>1, <3>2 DEF DpcDefers
      <4>2. requestCompleted[j] => fw[j] = "routine"
        BY <2>1 DEF Order, RequestsOrdered, RequestOrder
      <4> QED
        BY <4>1, <4>2 DEF CancelOwns, Cancelled
    <3>3. CASE DpcCompletes(r)
      <4>1. isReset[AnsweredId]
        BY <1>2, <1>4, <3>1 DEF RingInv, ResetsMarked
      <4> QED
        BY <3>3, <4>1 DEF DpcCompletes
    <3> QED
      BY <2>3, <3>2, <3>3
  <2> QED
    BY <2>2, <2>3
<1> QED
  BY <1>1, <1>4, ConsumeKeepsOwners

\* Work items that end: the one that resets the device clears ResetInProgress.
LEMMA EndKeepsOwners ==
  ASSUME RingInv, CancelInv, Order, ResetHasOwner, StayCancelled,
         ~deviceUnplugged, ~mismatched, resetInProgress', NEW r \in Requests,
         \/ AbortNotNeeded(r) \/ AbortPadUnplugged(r) \/ AbortNoShadow(r) \/ AbortDone(r)
         \/ WaitNotNeeded(r) \/ WaitDone(r) \/ ResetUnplugged(r) \/ ResetDone(r)
  PROVE  ResetHasOwner'
<1>1. /\ FinishWorker(r) /\ worker[r].kind # "reset"
      /\ resetInProgress' = resetInProgress
  BY DEF AbortNotNeeded, AbortPadUnplugged, AbortNoShadow, AbortDone, WaitNotNeeded, WaitDone,
         ResetUnplugged, ResetDone, AbortGetsPad, At
<1>2. ResetsGoOn
  BY <1>1, FinishEffect DEF CancelInv, ResetsGoOn, Active
<1>3. Outstanding' = Outstanding
  BY <1>1, FreeEffect DEF FinishWorker, Order
<1> QED
  BY <1>1, <1>2, <1>3, OwnersStay

\* The cancel routine: it starts a reset or leaves the resets alone.
LEMMA RoutineKeepsOwners ==
  ASSUME RingInv, CancelInv, Order, ResetHasOwner, StayCancelled,
         ~deviceUnplugged, ~mismatched, NEW r \in Requests, CancelRoutine(r)
  PROVE  ResetHasOwner'
<1>1. CASE CancelStartReset(r)
  BY <1>1, NewWorkItemEffect DEF CancelStartReset, CancelInv, Kinds, ResetHasOwner, Active
<1>2. CASE CancelStartAbort(r) \/ CancelAwaitAbort(r)
  <2>1. /\ Outstanding' = Outstanding /\ resetInProgress' = resetInProgress
        /\ fw[r] = "cancelling"
    BY <1>2, StillRing DEF CancelStartAbort, CancelAwaitAbort, RoutineRuns, Order
  <2>2. \A q \in Requests \ {r} : worker'[q] = worker[q]
    BY <1>2, NewWorkItemEffect DEF CancelStartAbort, CancelAwaitAbort, CancelInv, Kinds
  <2>3. ResetsGoOn
    BY <2>1, <2>2 DEF ResetsGoOn, Active, CancelInv, PipesInv, WorkersOwned
  <2> QED
    BY <2>1, <2>3, OwnersStay
<1>3. CASE CancelUnplugged(r)
  BY <1>3 DEF CancelUnplugged
<1>4. CASE CancelNoAbortItem(r) \/ CancelWithoutReset(r)
  <2>1. Outstanding' = Outstanding /\ UNCHANGED worker /\ resetInProgress' = resetInProgress
    BY <1>4, FreeEffect, StillRing DEF CancelNoAbortItem, CancelWithoutReset, Order, workVars
  <2> QED
    BY <2>1, OwnersStay DEF ResetsGoOn, Active
<1> QED
  BY <1>1, <1>2, <1>3, <1>4 DEF CancelRoutine

\* Every step keeps the owner of a reset.
LEMMA NextResetHasOwner ==
  /\ RingInv /\ CancelInv /\ OwnerInv /\ ResetHasOwner /\ [CancelNext]_cancelVars
  => ResetHasOwner'
<1> SUFFICES ASSUME RingInv, CancelInv, OwnerInv, ResetHasOwner, [CancelNext]_cancelVars,
                    resetInProgress', ~deviceUnplugged', ~mismatched'
             PROVE  ResetHasOwner'
  BY DEF ResetHasOwner
<1>1. ~deviceUnplugged /\ ~mismatched
  BY NextPlugs
<1>2. Order
  BY <1>1 DEF OwnerInv, SweepPhases, Sound
<1>3. StayCancelled
  BY CancelledStays DEF RingInv, CancelInv
<1>4. ASSUME UNCHANGED worker, resetInProgress' = resetInProgress,
             Outstanding \subseteq Outstanding'
      PROVE  ResetHasOwner'
  BY <1>1, <1>3, <1>4, OwnersStay DEF ResetsGoOn, Active
<1>5. CASE UNCHANGED cancelVars
  BY <1>2, <1>4, <1>5, StillRing DEF cancelVars, workVars, Order
<1>6. ASSUME NEW u \in Urbs, SubmitUrb(u) \/ SubmitUrbNoGrefs(u) \/ RequeueFinished(u)
      PROVE  ResetHasOwner'
  <2>1. UNCHANGED worker /\ resetInProgress' = resetInProgress
    BY <1>6 DEF SubmitUrb, SubmitUrbNoGrefs, RequeueFinished, workVars
  <2>2. Outstanding \subseteq Outstanding'
    BY <1>6 DEF SubmitUrb, SubmitUrbNoGrefs, RequeueFinished, PutUrbOnRing, PutOnRing,
                RequeueWithShadow, AbandonShadow, Outstanding, ResponseSet
  <2> QED
    BY <1>4, <2>1, <2>2
<1>7. ASSUME NEW v \in Resets, SubmitReset(v) PROVE ResetHasOwner'
  <2>1. v \in Jobs /\ Outstanding' = Outstanding \cup {<<Top, v>>}
    BY <1>7, PutExact
    DEF SubmitReset, PutResetOrCycleUrbOnRing, RingInv, Jobs, Requests
  <2> QED
    BY <2>1 DEF ResetHasOwner
<1>8. ASSUME NEW r \in Requests, Cancel(r) \/ DpcCompletesCollected(r) PROVE ResetHasOwner'
  BY <1>2, <1>4, <1>8, StillRing DEF Cancel, DpcCompletesCollected, workVars, Order
<1>9. ASSUME NEW r \in Requests, CancelRoutine(r) PROVE ResetHasOwner'
  BY <1>1, <1>2, <1>3, <1>9, RoutineKeepsOwners
<1>10. ASSUME NEW r \in Requests, WorkerStep(r) \/ ScratchTimeout(r) PROVE ResetHasOwner'
  <2>1. CASE \/ AwaitPad(r) \/ AbortPut(r) \/ ScratchWaitOver(r) \/ ClearScratchEvent(r)
             \/ ScratchUnplugs(r) \/ ScratchTimeout(r) \/ WaitStart(r) \/ WaitWoken(r)
             \/ ResetGetsPad(r) \/ ResetPut(r) \/ ResetNoShadow(r) \/ ReturnWorkItem(r)
    <3>1. ResetsGoOn
      BY <2>1, GoingOnKeepsResets DEF CancelInv
    <3>2. resetInProgress' = resetInProgress
      BY <2>1 DEF AwaitPad, AbortPut, ScratchWaitOver, ClearScratchEvent, ScratchUnplugs,
                  ScratchTimeout, WaitStart, WaitWoken, ResetGetsPad, ResetPut, ResetNoShadow,
                  ReturnWorkItem
    <3>3. (\E s \in Internal : PutScratchOnRing(s)) \/ UNCHANGED ringVars
      BY <2>1 DEF AwaitPad, AbortPut, ScratchWaitOver, ClearScratchEvent, ScratchUnplugs,
                  ScratchTimeout, WaitStart, WaitWoken, ResetGetsPad, ResetPut, ResetNoShadow,
                  ReturnWorkItem, Internal
    <3>4. Outstanding \subseteq Outstanding'
      BY <1>2, <3>3, StillRing DEF PutScratchOnRing, PutOnRing, Outstanding, ResponseSet, Order
    <3> QED
      BY <1>1, <1>3, <3>1, <3>2, <3>4, OwnersStay
  <2>2. CASE \/ AbortNotNeeded(r) \/ AbortPadUnplugged(r) \/ AbortNoShadow(r) \/ AbortDone(r)
             \/ WaitNotNeeded(r) \/ WaitDone(r) \/ ResetUnplugged(r) \/ ResetDone(r)
    BY <1>1, <1>2, <1>3, <2>2, EndKeepsOwners
  <2> QED
    BY <1>10, <2>1, <2>2 DEF WorkerStep
<1>11. CASE DpcSkips \/ DpcScratchAnswer \/ \E r \in Requests : DpcDefers(r) \/ DpcCompletes(r)
  BY <1>1, <1>2, <1>3, <1>11, AnswersKeepOwners
<1>12. ASSUME NEW e \in backend, BackendAnswers(e) PROVE ResetHasOwner'
  BY <1>4, <1>12, RespondExact DEF BackendAnswers, RingInv, workVars
<1>13. CASE CleanupStart
  BY <1>2, <1>4, <1>13, StillRing DEF CleanupStart, workVars, Order
<1>14. CASE \/ WatchdogUnplugs \/ CleanupUnplugs \/ SweepEnds
            \/ \E n \in Ids : SweepCompletes(n)
  BY <1>1, <1>14 DEF WatchdogUnplugs, CleanupUnplugs, Unplug, SweepEnds, SweepCompletes,
                     OwnerInv, SweepPhases
<1> QED
  BY <1>5, <1>6, <1>7, <1>8, <1>9, <1>10, <1>11, <1>12, <1>13, <1>14 DEF CancelNext

\* ResetHasOwner: ResetInProgress, which holds every transfer back, always has a
\* work item or an answer to come that clears it, or was left by a port reset that
\* was cancelled.
THEOREM ResetHasOwnerAlways == CancelSpec => []ResetHasOwner
<1>1. CancelInit => ResetHasOwner
  BY DEF CancelInit, CancelInitFor, ResetHasOwner
<1> QED
  BY <1>1, OwnerInvariant, NextResetHasOwner, PTL DEF CancelSpec

\* RequestsOnRingbuffer covers the shadows cancellation frees as well: none of the
\* callers of FreeShadowForRequest takes a count back twice.
THEOREM CancelCounterNeverShort == CancelSpec => []CounterCovers
BY RingImplemented, CounterNeverShort DEF RingRefined

===============================================================================
