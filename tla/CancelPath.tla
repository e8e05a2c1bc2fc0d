------------------------------ MODULE CancelPath ------------------------------
(***************************************************************************)
(* Cancelling a request that is on the ring (UsbRequest.cpp), racing with  *)
(* its answer (XenDpc), with the aborts and resets that cancellation       *)
(* starts, with surprise removal (Device.cpp) and with the sweep of the    *)
(* shadows on the way out (CompleteRequestsFromShadow).                    *)
(*                                                                         *)
(* The module extends ShadowRing: every action that touches the ring       *)
(* contains the ring action it performs, so RingSpec is refined.  A        *)
(* request is used once: a request object that comes back after completion *)
(* is another request.  An action is what one thread does in one critical  *)
(* section; a WdfRequestComplete made right after the lock is released     *)
(* belongs to it, unless the code does other work first.  The one-second   *)
(* and two-second delays may end at any time.                              *)
(***************************************************************************)
EXTENDS ShadowRing, Integers

CONSTANTS
  Pipes,           \* PIPE_DESCRIPTORs of the current configuration
  PipeOf,          \* the pipe of a request, NULL when it has no endpoint
  GrefFailures,    \* transfers whose AllocateGrefs may fail
  InitWorkItems,   \* work items allocated in FdoDeviceAdd
  ItemsCanFail,    \* whether WdfWorkItemCreate may fail
  Disconnects      \* bound: whether CleanupDisconnectedDevice may run

ASSUME CancelAssumption ==
  /\ PipeOf \in [Requests -> Pipes \cup {NULL}]
  /\ \A v \in Resets : PipeOf[v] = NULL
  /\ NULL \notin Pipes
  /\ GrefFailures \subseteq Urbs
  /\ InitWorkItems \in Nat
  /\ ItemsCanFail \in BOOLEAN /\ Disconnects \in BOOLEAN

VARIABLES
  fw,                \* the framework's view of a request
  cancelSet,         \* CancelSet of the request context
  requestCompleted,  \* RequestCompleted of the request context
  refs,              \* references taken for the ring and not yet dropped
  completions,       \* history: calls of WdfRequestComplete for the request
  collected,         \* RequestCollection: answered, to be completed by the DPC
  worker,            \* the work item cancellation started for a request
  freeItems,         \* FreeWorkItems, by number
  abortInProgress, abortCompleteEvent, abortWaiters,   \* of each pipe
  configBusy, completionEvent,                         \* the scratch pad
  resetInProgress, deviceUnplugged, ctlrDisconnected,
  sweep,             \* CleanupDisconnectedDevice: "no", "unplug", "scan", "done"
  sweepIndex,        \* the shadow CompleteRequestsFromShadow looks at next
  mismatched         \* history: XenDpc handled an answer with the shadow of
                     \* another request than the one it answers

reqVars    == <<fw, cancelSet, requestCompleted, refs, completions>>
workVars   == <<worker, freeItems>>
pipeVars   == <<abortInProgress, abortCompleteEvent, abortWaiters>>
padVars    == <<configBusy, completionEvent>>
dpcVars    == <<collected, mismatched>>
plugVars   == <<deviceUnplugged, ctlrDisconnected, sweep, sweepIndex>>
cancelVars == <<ringVars, reqVars, workVars, pipeVars, padVars, plugVars,
                dpcVars, resetInProgress>>

NoWorker == [kind |-> "none", pc |-> "none", job |-> NULL]

\* The stack above sends the requests in present, and no others.
CancelInitFor(present) ==
  /\ RingInit
  /\ fw = [r \in Requests |-> IF r \in present THEN "new" ELSE "absent"]
  /\ cancelSet = [r \in Requests |-> FALSE]
  /\ requestCompleted = [r \in Requests |-> FALSE]
  /\ refs = [r \in Requests |-> 0]
  /\ completions = [r \in Requests |-> 0]
  /\ collected = {} /\ mismatched = FALSE
  /\ worker = [r \in Requests |-> NoWorker]
  /\ freeItems = InitWorkItems
  /\ abortInProgress = [p \in Pipes |-> FALSE]
  /\ abortCompleteEvent = [p \in Pipes |-> FALSE]
  /\ abortWaiters = [p \in Pipes |-> 0]
  /\ configBusy = FALSE /\ completionEvent = FALSE
  /\ resetInProgress = FALSE
  /\ deviceUnplugged = FALSE /\ ctlrDisconnected = FALSE
  /\ sweep = "no" /\ sweepIndex = 0

CancelInit == \E present \in SUBSET Requests : CancelInitFor(present)

-------------------------------------------------------------------------------
(* Small parts of several handlers.                                        *)

\* The cancel routine was called, or is going to be: WdfRequestUnmarkCancelable
\* returns STATUS_CANCELLED.
Cancelled(r) == fw[r] \in {"cancelling", "routine"}

\* Mutant of FreeShadow: the entry stays counted.
FreeShadowStillCounted(r) ==
  IF \E i \in Ids : request[i] = r
  THEN \E i \in Ids : /\ request[i] = r
                      /\ PutShadow(i)
                      /\ UNCHANGED <<isReset, requestsOnRingbuffer, backend, responses,
                                     window, scratchPuts>>
  ELSE UNCHANGED ringVars

\* FreeShadowForRequest when no shadow may have the request any more.
FreeShadow(r) ==
  IF \E i \in Ids : request[i] = r THEN FreeShadowForRequest(r)
  ELSE UNCHANGED ringVars

\* RequestCompleted = 1, CancelSet = 0, WdfRequestComplete.
CompleteCancelled(r) ==
  /\ requestCompleted' = [requestCompleted EXCEPT ![r] = TRUE]
  /\ cancelSet' = [cancelSet EXCEPT ![r] = FALSE]
  /\ completions' = [completions EXCEPT ![r] = @ + 1]

\* NewWorkItem: a free item, or a new one, which may fail to be created.
NewWorkItem(r, kind) ==
  /\ freeItems' = IF freeItems = 0 THEN 0 ELSE freeItems - 1
  /\ worker' = [worker EXCEPT ![r] = [kind |-> kind, pc |-> "queued", job |-> NULL]]

NoWorkItem == ItemsCanFail /\ freeItems = 0

Goto(r, pc) == worker' = [worker EXCEPT ![r].pc = pc]

\* PutScratchOnRing succeeded: wait for the answer to the internal request.
AwaitAnswer(r, job) ==
  worker' = [worker EXCEPT ![r] = [kind |-> worker[r].kind, pc |-> "scratch", job |-> job]]

-------------------------------------------------------------------------------
(* Requests reach the ring.                                                *)

MarkCancelable(r) ==
  /\ fw' = [fw EXCEPT ![r] = "cancelable"]
  /\ cancelSet' = [cancelSet EXCEPT ![r] = TRUE]
  /\ refs' = [refs EXCEPT ![r] = @ + 1]
  /\ UNCHANGED <<requestCompleted, completions>>

\* UrbEvtIoInternalDeviceControl and DrainRequestQueue submit a transfer while
\* no reset is in progress; the drain does not look at ConfigBusy.
SubmitUrb(u) ==
  /\ fw[u] = "new" /\ ~deviceUnplugged /\ ~resetInProgress
  /\ PutUrbOnRing(u)
  /\ MarkCancelable(u)
  /\ UNCHANGED <<workVars, pipeVars, padVars, plugVars, dpcVars, resetInProgress>>

\* The same, when grant references run out: the request goes to RequestQueue.
SubmitUrbNoGrefs(u) ==
  /\ u \in GrefFailures
  /\ fw[u] = "new" /\ ~deviceUnplugged /\ ~resetInProgress
  /\ RequeueWithShadow(u)
  /\ UNCHANGED <<reqVars, workVars, pipeVars, padVars, plugVars, dpcVars,
                 resetInProgress>>

RequeueFinished(u) ==
  /\ AbandonShadow(u)
  /\ UNCHANGED <<reqVars, workVars, pipeVars, padVars, plugVars, dpcVars,
                 resetInProgress>>

\* A port reset is submitted by UrbEvtIoInternalDeviceControl only.
SubmitReset(v) ==
  /\ fw[v] = "new" /\ ~deviceUnplugged /\ ~configBusy /\ ~resetInProgress
  /\ PutResetOrCycleUrbOnRing(v)
  /\ MarkCancelable(v)
  /\ resetInProgress' = TRUE
  /\ UNCHANGED <<workVars, pipeVars, padVars, plugVars, dpcVars>>

\* The I/O manager cancels a request that is marked cancelable; the framework
\* will call EvtFdoOnHardwareRequestCancelled (external).
Cancel(r) ==
  /\ fw[r] = "cancelable"
  /\ fw' = [fw EXCEPT ![r] = "cancelling"]
  /\ UNCHANGED <<ringVars, cancelSet, requestCompleted, refs, completions, workVars,
                 pipeVars, padVars, plugVars, dpcVars, resetInProgress>>

-------------------------------------------------------------------------------
(* EvtFdoOnHardwareRequestCancelled: the first branch that applies.        *)

RoutineRuns(r) ==
  /\ fw[r] = "cancelling"
  /\ fw' = [fw EXCEPT ![r] = "routine"]

\* DeviceUnplugged: complete now, and drop the reference of the ring.
CancelUnplugged(r) ==
  /\ RoutineRuns(r)
  /\ deviceUnplugged
  /\ FreeShadow(r)
  /\ CompleteCancelled(r)
  /\ refs' = [refs EXCEPT ![r] = @ - 1]
  /\ UNCHANGED <<workVars, pipeVars, padVars, plugVars, dpcVars, resetInProgress>>

\* Mutant of CancelStartAbort: a pipe that is being aborted is aborted again.
CancelStartAbortAgain(r) ==
  LET p == PipeOf[r] IN
  /\ RoutineRuns(r)
  /\ ~deviceUnplugged /\ p # NULL
  /\ NewWorkItem(r, "abort")
  /\ abortInProgress' = [abortInProgress EXCEPT ![p] = TRUE]
  /\ abortCompleteEvent' = [abortCompleteEvent EXCEPT ![p] = FALSE]
  /\ abortWaiters' = [abortWaiters EXCEPT ![p] = 0]
  /\ UNCHANGED <<ringVars, cancelSet, requestCompleted, refs, completions, padVars,
                 plugVars, dpcVars, resetInProgress>>

\* A request with an endpoint: the first one on its pipe aborts the pipe.
CancelStartAbort(r) ==
  LET p == PipeOf[r] IN
  /\ RoutineRuns(r)
  /\ ~deviceUnplugged /\ p # NULL
  /\ ~abortInProgress[p]
  /\ NewWorkItem(r, "abort")
  /\ abortInProgress' = [abortInProgress EXCEPT ![p] = TRUE]
  /\ abortCompleteEvent' = [abortCompleteEvent EXCEPT ![p] = FALSE]
  /\ abortWaiters' = [abortWaiters EXCEPT ![p] = 0]
  /\ UNCHANGED <<ringVars, cancelSet, requestCompleted, refs, completions, padVars,
                 plugVars, dpcVars, resetInProgress>>

\* Mutant of CancelAwaitAbort: the reference of the ring is dropped as well.
CancelAwaitDereferences(r) ==
  LET p == PipeOf[r] IN
  /\ RoutineRuns(r)
  /\ ~deviceUnplugged /\ p # NULL
  /\ abortInProgress[p]
  /\ NewWorkItem(r, "wait")
  /\ abortWaiters' = [abortWaiters EXCEPT ![p] = @ + 1]
  /\ refs' = [refs EXCEPT ![r] = @ - 1]
  /\ UNCHANGED <<ringVars, cancelSet, requestCompleted, completions, padVars, plugVars,
                 dpcVars, resetInProgress, abortInProgress, abortCompleteEvent>>

\* The others wait for that abort.
CancelAwaitAbort(r) ==
  LET p == PipeOf[r] IN
  /\ RoutineRuns(r)
  /\ ~deviceUnplugged /\ p # NULL
  /\ abortInProgress[p]
  /\ NewWorkItem(r, "wait")
  /\ abortWaiters' = [abortWaiters EXCEPT ![p] = @ + 1]
  /\ UNCHANGED <<ringVars, cancelSet, requestCompleted, refs, completions, padVars,
                 plugVars, dpcVars, resetInProgress, abortInProgress,
                 abortCompleteEvent>>

\* No work item: the request is completed; its shadow is not touched.
CancelNoAbortItem(r) ==
  /\ RoutineRuns(r)
  /\ ~deviceUnplugged /\ PipeOf[r] # NULL
  /\ NoWorkItem
  /\ CompleteCancelled(r)
  /\ UNCHANGED <<ringVars, refs, workVars, pipeVars, padVars, plugVars, dpcVars,
                 resetInProgress>>

\* No endpoint, and a reset is under way or no work item can be had.
CancelWithoutReset(r) ==
  /\ RoutineRuns(r)
  /\ ~deviceUnplugged /\ PipeOf[r] = NULL
  /\ resetInProgress \/ NoWorkItem
  /\ FreeShadow(r)
  /\ CompleteCancelled(r)
  /\ UNCHANGED <<refs, workVars, pipeVars, padVars, plugVars, dpcVars,
                 resetInProgress>>

\* No endpoint: reset the device.
CancelStartReset(r) ==
  /\ RoutineRuns(r)
  /\ ~deviceUnplugged /\ PipeOf[r] = NULL /\ ~resetInProgress
  /\ NewWorkItem(r, "reset")
  /\ resetInProgress' = TRUE
  /\ UNCHANGED <<ringVars, cancelSet, requestCompleted, refs, completions, pipeVars,
                 padVars, plugVars, dpcVars>>

CancelRoutine(r) ==
  \/ CancelUnplugged(r)   \/ CancelStartAbort(r)   \/ CancelAwaitAbort(r)
  \/ CancelNoAbortItem(r) \/ CancelWithoutReset(r) \/ CancelStartReset(r)

-------------------------------------------------------------------------------
(* The work items cancellation starts.                                     *)

At(r, kind, pc) == worker[r].kind = kind /\ worker[r].pc = pc

\* The end of every worker: free the shadow, complete the request.
FinishWorker(r) ==
  /\ FreeShadow(r)
  /\ CompleteCancelled(r)
  /\ Goto(r, "return")
  /\ UNCHANGED <<fw, refs, freeItems, plugVars, dpcVars>>

\* EvtFdoDeviceGenericWorkItem: the item goes back to FreeWorkItems.
ReturnWorkItem(r) ==
  /\ worker[r].pc = "return"
  /\ worker' = [worker EXCEPT ![r] = NoWorker]
  /\ freeItems' = freeItems + 1
  /\ UNCHANGED <<ringVars, reqVars, pipeVars, padVars, plugVars, dpcVars,
                 resetInProgress>>

\* The abort is over: wake the waiters; without any, reset the pipe.
SignalPipe(p) ==
  /\ abortCompleteEvent' = [abortCompleteEvent EXCEPT ![p] = abortWaiters[p] # 0]
  /\ abortInProgress' = [abortInProgress EXCEPT ![p] = abortWaiters[p] # 0]
  /\ UNCHANGED abortWaiters

\* AbortEndpointWorker, already unplugged or (against its ASSERT) with nothing to
\* abort.
AbortNotNeeded(r) ==
  /\ At(r, "abort", "queued")
  /\ deviceUnplugged \/ ~abortInProgress[PipeOf[r]]
  /\ IF deviceUnplugged THEN SignalPipe(PipeOf[r]) ELSE UNCHANGED pipeVars
  /\ FinishWorker(r)
  /\ UNCHANGED <<padVars, resetInProgress>>

\* WaitForScratchPadAccess finds ConfigBusy set and sleeps without the lock.
AwaitPad(r) ==
  /\ worker[r].pc = "queued" /\ worker[r].kind \in {"abort", "reset"}
  /\ ~deviceUnplugged /\ configBusy
  /\ worker[r].kind = "abort" => abortInProgress[PipeOf[r]]
  /\ Goto(r, "access")
  /\ UNCHANGED <<ringVars, reqVars, freeItems, pipeVars, padVars, plugVars, dpcVars,
                 resetInProgress>>

\* WaitForScratchPadAccess succeeds: the pad is free, or this was the fifth
\* delay, after which it is taken whoever uses it.
PadAccess(r) ==
  /\ ~deviceUnplugged
  /\ \/ worker[r].pc = "access"
     \/ worker[r].pc = "queued" /\ ~configBusy

\* WaitForScratchPadAccess fails: the worker forgets the pipe.
AbortPadUnplugged(r) ==
  /\ At(r, "abort", "access") /\ deviceUnplugged
  /\ FinishWorker(r)
  /\ UNCHANGED <<pipeVars, padVars, resetInProgress>>

AbortGetsPad(r) ==
  /\ worker[r].kind = "abort" /\ PadAccess(r)
  /\ worker[r].pc = "queued" => abortInProgress[PipeOf[r]]

AbortPut(r) ==
  /\ AbortGetsPad(r)
  /\ configBusy' = TRUE
  /\ \E s \in Scratches :
       /\ PutScratchOnRing(s)
       /\ AwaitAnswer(r, s)
  /\ UNCHANGED <<reqVars, freeItems, pipeVars, plugVars, dpcVars, resetInProgress,
                 completionEvent>>

\* No shadow is left for the abort: the request is completed without one.
AbortNoShadow(r) ==
  /\ AbortGetsPad(r) /\ shadowFree = 0
  /\ configBusy' = FALSE
  /\ SignalPipe(PipeOf[r])
  /\ FinishWorker(r)
  /\ UNCHANGED <<completionEvent, resetInProgress>>

\* WaitForScratchCompletion returns from its wait ...
ScratchWaitOver(r) ==
  /\ worker[r].pc = "scratch"
  /\ completionEvent \/ deviceUnplugged
  /\ Goto(r, "answered")
  /\ UNCHANGED <<ringVars, reqVars, freeItems, pipeVars, padVars, plugVars, dpcVars,
                 resetInProgress>>

\* Mutant of ScratchTimeout: the wait has no timeout.
ScratchWaitsForever(r) ==
  /\ worker[r].pc = "scratch" /\ worker[r].pc # "scratch"
  /\ UNCHANGED cancelVars

\* ... or times out five times ...
ScratchTimeout(r) ==
  /\ worker[r].pc = "scratch"
  /\ ~completionEvent
  /\ Goto(r, "timedOut")
  /\ UNCHANGED <<ringVars, reqVars, freeItems, pipeVars, padVars, plugVars, dpcVars,
                 resetInProgress>>

\* ... and clears the event, without the lock in all cases.
ClearScratchEvent(r) ==
  /\ worker[r].pc \in {"answered", "timedOut"}
  /\ completionEvent' = FALSE
  /\ Goto(r, IF worker[r].pc = "answered" THEN "locked" ELSE "busted")
  /\ UNCHANGED <<ringVars, reqVars, freeItems, pipeVars, configBusy, plugVars,
                 dpcVars, resetInProgress>>

\* FdoUnplugDevice: whoever waits for the scratch pad is woken.
Unplug ==
  /\ deviceUnplugged' = TRUE
  /\ completionEvent' = (completionEvent \/ (configBusy /\ ~deviceUnplugged))

\* "this device is busted."
ScratchUnplugs(r) ==
  /\ worker[r].pc = "busted"
  /\ Unplug
  /\ Goto(r, "locked")
  /\ UNCHANGED <<ringVars, reqVars, freeItems, pipeVars, configBusy, dpcVars,
                 resetInProgress, ctlrDisconnected, sweep, sweepIndex>>

\* AbortEndpointWorker with the lock again.
AbortDone(r) ==
  /\ At(r, "abort", "locked")
  /\ configBusy' = FALSE
  /\ SignalPipe(PipeOf[r])
  /\ FinishWorker(r)
  /\ UNCHANGED <<completionEvent, resetInProgress>>

\* AbortEndpointWaitWorker.  It waits for the event without a timeout.
WaitNotNeeded(r) ==
  /\ At(r, "wait", "queued")
  /\ deviceUnplugged \/ ~abortInProgress[PipeOf[r]]
  /\ FinishWorker(r)
  /\ UNCHANGED <<pipeVars, padVars, resetInProgress>>

WaitStart(r) ==
  /\ At(r, "wait", "queued") /\ ~deviceUnplugged /\ abortInProgress[PipeOf[r]]
  /\ Goto(r, "event")
  /\ UNCHANGED <<ringVars, reqVars, freeItems, pipeVars, padVars, plugVars, dpcVars,
                 resetInProgress>>

WaitWoken(r) ==
  /\ At(r, "wait", "event") /\ abortCompleteEvent[PipeOf[r]]
  /\ Goto(r, "woken")
  /\ UNCHANGED <<ringVars, reqVars, freeItems, pipeVars, padVars, plugVars, dpcVars,
                 resetInProgress>>

\* Mutant of WaitDone: the last waiter leaves abortInProgress set.
WaitDoneKeepsAbort(r) ==
  /\ At(r, "wait", "woken")
  /\ abortWaiters' = [abortWaiters EXCEPT ![PipeOf[r]] = @ - 1]
  /\ abortCompleteEvent' = [abortCompleteEvent EXCEPT ![PipeOf[r]] = FALSE]
  /\ FinishWorker(r)
  /\ UNCHANGED <<abortInProgress, padVars, resetInProgress>>

\* Mutant of WaitDone: every waiter resets the pipe.
WaitDoneAlwaysResets(r) ==
  LET p == PipeOf[r] IN
  /\ At(r, "wait", "woken")
  /\ abortWaiters' = [abortWaiters EXCEPT ![p] = @ - 1]
  /\ abortCompleteEvent' = [abortCompleteEvent EXCEPT ![p] = FALSE]
  /\ abortInProgress' = [abortInProgress EXCEPT ![p] = FALSE]
  /\ FinishWorker(r)
  /\ UNCHANGED <<padVars, resetInProgress>>

\* The last waiter resets the pipe.
WaitDone(r) ==
  LET p == PipeOf[r] IN
  /\ At(r, "wait", "woken")
  /\ abortWaiters' = [abortWaiters EXCEPT ![p] = @ - 1]
  /\ abortCompleteEvent' = [abortCompleteEvent EXCEPT ![p] = @ /\ abortWaiters[p] # 1]
  /\ abortInProgress' = [abortInProgress EXCEPT ![p] = @ /\ abortWaiters[p] # 1]
  /\ FinishWorker(r)
  /\ UNCHANGED <<padVars, resetInProgress>>

\* ResetDeviceWorker, unplugged on entry or while waiting for the pad.
ResetUnplugged(r) ==
  /\ At(r, "reset", "queued") \/ At(r, "reset", "access")
  /\ deviceUnplugged
  /\ resetInProgress' = FALSE
  /\ FinishWorker(r)
  /\ UNCHANGED <<pipeVars, padVars>>

ResetGetsPad(r) ==
  /\ worker[r].kind = "reset" /\ PadAccess(r)
  /\ configBusy' = TRUE
  /\ Goto(r, "put")
  /\ UNCHANGED <<ringVars, reqVars, freeItems, pipeVars, completionEvent,
                 plugVars, dpcVars, resetInProgress>>

\* ResetDevice.
ResetPut(r) ==
  /\ At(r, "reset", "put")
  /\ \E t \in ScratchResets :
       /\ PutScratchOnRing(t)
       /\ AwaitAnswer(r, t)
  /\ UNCHANGED <<reqVars, freeItems, pipeVars, padVars, plugVars, dpcVars,
                 resetInProgress>>

ResetNoShadow(r) ==
  /\ At(r, "reset", "put") /\ shadowFree = 0
  /\ Goto(r, "locked")
  /\ UNCHANGED <<ringVars, reqVars, freeItems, pipeVars, padVars, plugVars, dpcVars,
                 resetInProgress>>

ResetDone(r) ==
  /\ At(r, "reset", "locked")
  /\ configBusy' = FALSE
  /\ resetInProgress' = FALSE
  /\ FinishWorker(r)
  /\ UNCHANGED <<pipeVars, completionEvent>>

WorkerStep(r) ==
  \/ ReturnWorkItem(r)
  \/ AbortNotNeeded(r)    \/ AwaitPad(r)
  \/ AbortPadUnplugged(r) \/ AbortPut(r)           \/ AbortNoShadow(r)
  \/ AbortDone(r)
  \/ ScratchWaitOver(r)   \/ ClearScratchEvent(r)  \/ ScratchUnplugs(r)
  \/ WaitNotNeeded(r)     \/ WaitStart(r)          \/ WaitWoken(r)
  \/ WaitDone(r)
  \/ ResetUnplugged(r)    \/ ResetGetsPad(r)       \/ ResetPut(r)
  \/ ResetNoShadow(r)     \/ ResetDone(r)

-------------------------------------------------------------------------------
(* Answers.                                                                *)

BackendAnswers(e) ==
  /\ BackendRespond(e)
  /\ UNCHANGED <<reqVars, workVars, pipeVars, padVars, plugVars, dpcVars, resetInProgress>>

\* XenDpc returns at once when the device is unplugged.
DpcSkips ==
  /\ ~deviceUnplugged
  /\ DpcAlreadyProcessed
  /\ UNCHANGED <<reqVars, workVars, pipeVars, padVars, plugVars, dpcVars,
                 resetInProgress>>

\* The shadow of the answer may be another request's by now.
HandleAnswer ==
  mismatched' = (mismatched \/ holder[AnsweredId] # Head(responses)[2])

\* PostProcessScratch: whoever waits for the pad is woken.
DpcScratchAnswer ==
  /\ ~deviceUnplugged
  /\ DpcScratch
  /\ completionEvent' = TRUE
  /\ HandleAnswer
  /\ UNCHANGED <<reqVars, workVars, pipeVars, configBusy, plugVars, collected,
                 resetInProgress>>

Dereference(r) == refs' = [refs EXCEPT ![r] = @ - 1]

\* "the cancel race": the cancel routine owns the request when unmarking it
\* fails, or when it has completed it.
CancelOwns(r) == requestCompleted[r] \/ (cancelSet[r] /\ Cancelled(r))

DpcDefers(r) ==
  /\ ~deviceUnplugged
  /\ responses # <<>> /\ request[AnsweredId] = r
  /\ CancelOwns(r)
  /\ DpcDeferToCancel
  /\ HandleAnswer
  /\ cancelSet' = [cancelSet EXCEPT ![r] = @ /\ requestCompleted[r]]
  /\ Dereference(r)
  /\ UNCHANGED <<fw, requestCompleted, completions, workVars, pipeVars, padVars, plugVars,
                 collected, resetInProgress>>

\* Mutant of DpcCompletes: the race with cancellation is not dealt with.
DpcCompletesAnyway(r) ==
  /\ ~deviceUnplugged
  /\ responses # <<>> /\ request[AnsweredId] = r
  /\ DpcCompleteRequest
  /\ HandleAnswer
  /\ cancelSet' = [cancelSet EXCEPT ![r] = FALSE]
  /\ Dereference(r)
  /\ collected' = collected \cup {r}
  /\ UNCHANGED <<fw, resetInProgress, requestCompleted, completions, workVars, pipeVars,
                 padVars, plugVars>>

\* Mutant of DpcCompletes: the reset is not marked finished.
DpcForgetsReset(r) ==
  /\ ~deviceUnplugged
  /\ responses # <<>> /\ request[AnsweredId] = r
  /\ ~CancelOwns(r)
  /\ DpcCompleteRequest
  /\ HandleAnswer
  /\ fw' = [fw EXCEPT ![r] = IF cancelSet[r] THEN "unmarked" ELSE @]
  /\ cancelSet' = [cancelSet EXCEPT ![r] = FALSE]
  /\ Dereference(r)
  /\ collected' = collected \cup {r}
  /\ UNCHANGED <<resetInProgress, requestCompleted, completions, workVars, pipeVars,
                 padVars, plugVars>>

\* The DPC takes the request off the ring; it is completed after XenDpc.
DpcCompletes(r) ==
  /\ ~deviceUnplugged
  /\ responses # <<>> /\ request[AnsweredId] = r
  /\ ~CancelOwns(r)
  /\ DpcCompleteRequest
  /\ HandleAnswer
  /\ fw' = [fw EXCEPT ![r] = IF cancelSet[r] THEN "unmarked" ELSE @]
  /\ cancelSet' = [cancelSet EXCEPT ![r] = FALSE]
  /\ Dereference(r)
  /\ collected' = collected \cup {r}
  /\ resetInProgress' = (resetInProgress /\ ~isReset[AnsweredId])
  /\ UNCHANGED <<requestCompleted, completions, workVars, pipeVars, padVars, plugVars>>

\* FdoEvtDeviceDpcFunc completes what it collected, without the lock.
DpcCompletesCollected(r) ==
  /\ r \in collected
  /\ collected' = collected \ {r}
  /\ completions' = [completions EXCEPT ![r] = @ + 1]
  /\ UNCHANGED <<ringVars, fw, cancelSet, requestCompleted, refs, workVars, pipeVars,
                 padVars, plugVars, mismatched, resetInProgress>>

-------------------------------------------------------------------------------
(* Surprise removal.                                                       *)

\* FdoEvtTimerFunc finds that the backend is gone.
WatchdogUnplugs ==
  /\ ~deviceUnplugged
  /\ Unplug
  /\ UNCHANGED <<ringVars, reqVars, workVars, pipeVars, configBusy, dpcVars,
                 resetInProgress, ctlrDisconnected, sweep, sweepIndex>>

\* CleanupDisconnectedDevice: CtlrDisconnected first, then unplug, then sweep.
CleanupStart ==
  /\ Disconnects /\ ~ctlrDisconnected
  /\ ctlrDisconnected' = TRUE
  /\ sweep' = "unplug"
  /\ UNCHANGED <<ringVars, reqVars, workVars, pipeVars, padVars, deviceUnplugged,
                 sweepIndex, dpcVars, resetInProgress>>

CleanupUnplugs ==
  /\ sweep = "unplug"
  /\ Unplug
  /\ sweep' = "scan"
  /\ UNCHANGED <<ringVars, reqVars, workVars, pipeVars, configBusy, dpcVars,
                 resetInProgress, ctlrDisconnected, sweepIndex>>

\* The requests on the shadows lo .. hi.
OnShadows(lo, hi) == {request[i] : i \in lo .. hi} \ {NULL}

\* CompleteRequestsFromShadow passes over a request the cancel side owns.
PassOver(R) ==
  /\ \A r \in R : CancelOwns(r)
  /\ cancelSet' = [r \in Requests |-> cancelSet[r] /\ (r \in R => requestCompleted[r])]

\* It stops at shadow n to complete the request there without the lock.
SweepCompletes(n) ==
  LET passed == OnShadows(sweepIndex, n - 1)
      r == request[n]
  IN
  /\ sweep = "scan" /\ n >= sweepIndex
  /\ r # NULL /\ ~CancelOwns(r)
  /\ \A q \in passed : CancelOwns(q)
  /\ cancelSet' = [q \in Requests |->
                     q # r /\ cancelSet[q] /\ (q \in passed => requestCompleted[q])]
  /\ fw' = [fw EXCEPT ![r] = IF cancelSet[r] THEN "unmarked" ELSE @]
  /\ refs' = [q \in Requests |-> IF q \in passed \cup {r} THEN refs[q] - 1 ELSE refs[q]]
  /\ requestCompleted' = [requestCompleted EXCEPT ![r] = TRUE]
  /\ completions' = [completions EXCEPT ![r] = @ + 1]
  /\ FreeShadowForRequest(r)
  /\ sweepIndex' = n + 1
  /\ UNCHANGED <<workVars, pipeVars, padVars, deviceUnplugged, ctlrDisconnected, sweep,
                 dpcVars, resetInProgress>>

\* Nothing is left to complete.
SweepEnds ==
  LET passed == OnShadows(sweepIndex, ShadowEntries - 1) IN
  /\ sweep = "scan"
  /\ PassOver(passed)
  /\ refs' = [q \in Requests |-> IF q \in passed THEN refs[q] - 1 ELSE refs[q]]
  /\ sweep' = "done"
  /\ UNCHANGED <<ringVars, fw, requestCompleted, completions, workVars, pipeVars, padVars,
                 deviceUnplugged, ctlrDisconnected, sweepIndex, dpcVars, resetInProgress>>

-------------------------------------------------------------------------------

CancelNext ==
  \/ \E u \in Urbs : SubmitUrb(u) \/ SubmitUrbNoGrefs(u) \/ RequeueFinished(u)
  \/ \E v \in Resets : SubmitReset(v)
  \/ \E r \in Requests : \/ Cancel(r) \/ CancelRoutine(r)
                         \/ WorkerStep(r) \/ ScratchTimeout(r)
                         \/ DpcDefers(r) \/ DpcCompletes(r) \/ DpcCompletesCollected(r)
  \/ \E e \in backend : BackendAnswers(e)
  \/ DpcSkips \/ DpcScratchAnswer
  \/ WatchdogUnplugs \/ CleanupStart \/ CleanupUnplugs
  \/ \E n \in Ids : SweepCompletes(n)
  \/ SweepEnds

CancelSpec == CancelInit /\ [][CancelNext]_cancelVars

\* The system schedules the cancel routine, the work items and the DPC, the
\* backend answers every entry, and a wait with a timeout ends.  Nothing has to
\* be cancelled or to be unplugged by the watchdog.
CancelFairness ==
  /\ \A r \in Requests : /\ WF_cancelVars(CancelRoutine(r))
                         /\ WF_cancelVars(WorkerStep(r))
                         /\ WF_cancelVars(ScratchTimeout(r))
                         /\ WF_cancelVars(DpcDefers(r) \/ DpcCompletes(r))
                         /\ WF_cancelVars(DpcCompletesCollected(r))
  /\ WF_cancelVars(DpcSkips \/ DpcScratchAnswer)
  /\ WF_cancelVars(\E e \in backend : BackendAnswers(e))

FairCancelSpec == CancelSpec /\ CancelFairness

-------------------------------------------------------------------------------
(* Properties.                                                             *)

\* Every variable keeps the range of the field it stands for; in particular
\* abortWaiters, an unsigned count, never goes below zero.
CancelTypeOK ==
  /\ fw \in [Requests ->
             {"absent", "new", "cancelable", "cancelling", "routine", "unmarked"}]
  /\ cancelSet \in [Requests -> BOOLEAN] /\ requestCompleted \in [Requests -> BOOLEAN]
  /\ refs \in [Requests -> Int] /\ completions \in [Requests -> Nat]
  /\ collected \subseteq Requests
  /\ worker \in [Requests ->
       [kind : {"none", "abort", "wait", "reset"},
        pc : {"none", "queued", "access", "put", "scratch", "answered", "timedOut", "busted",
              "locked", "event", "woken", "return"},
        job : Internal \cup {NULL}]]
  /\ freeItems \in Nat
  /\ abortInProgress \in [Pipes -> BOOLEAN] /\ abortCompleteEvent \in [Pipes -> BOOLEAN]
  /\ abortWaiters \in [Pipes -> Nat]
  /\ configBusy \in BOOLEAN /\ completionEvent \in BOOLEAN
  /\ resetInProgress \in BOOLEAN
  /\ deviceUnplugged \in BOOLEAN /\ ctlrDisconnected \in BOOLEAN
  /\ sweep \in {"no", "unplug", "scan", "done"} /\ sweepIndex \in 0 .. ShadowEntries

Active(r) == worker[r].pc \notin {"none", "return"}

\* While the device is there, abortWaiters of a pipe is the number of work items
\* that still wait, or are going to wait, for the abort of that pipe: the last
\* of them finds 1 and resets the pipe, and nobody resets it earlier.
WaitersCounted ==
  ~deviceUnplugged =>
    \A p \in Pipes :
      abortWaiters[p] = Cardinality({r \in Requests : /\ PipeOf[r] = p /\ Active(r)
                                                      /\ worker[r].kind = "wait"})

\* An abort that is in progress has somebody to end it: its worker, or waiters
\* that were woken.  Otherwise every later cancellation on the pipe would wait
\* for an abort that nobody does.
AbortHasOwner ==
  ~deviceUnplugged =>
    \A p \in Pipes : abortInProgress[p] =>
      \/ \E r \in Requests : PipeOf[r] = p /\ worker[r].kind = "abort" /\ Active(r)
      \/ abortCompleteEvent[p] /\ abortWaiters[p] > 0

\* The ASSERTs of AbortEndpointWorker and AbortEndpointWaitWorker: between the
\* cancel routine that queued a work item and the start of that work item nobody
\* ends the abort of its pipe, whichever waiters are woken meanwhile.
AbortStillInProgress ==
  \A r \in Requests :
    At(r, "abort", "queued") \/ At(r, "wait", "queued") =>
      abortInProgress[PipeOf[r]] \/ deviceUnplugged

\* Until the controller is disconnected a request is completed once at most,
\* whichever of the DPC, the cancel routine and its work items gets to it first.
\* (Not once an answer was taken for another request's: see AnswersMatch.)
CompletedOnce ==
  ~ctlrDisconnected /\ ~mismatched =>
    \A r \in Requests : completions[r] + (IF r \in collected THEN 1 ELSE 0) <= 1

\* The handle XenDpc will find behind an answer is a referenced object until the
\* answer was looked at: the ring's reference is not dropped by anyone else.
ReferencedOnRing ==
  ~deviceUnplugged /\ ~mismatched =>
    \A e \in Outstanding :
      e[2] \in Requests /\ request[e[1]] = e[2] => refs[e[2]] = 1

\* A cancelled request is completed in the end, however the abort, the answer
\* and the other cancellations on its pipe interleave.
CancelledIsCompleted ==
  \A r \in Requests : fw[r] = "cancelling" ~> (completions[r] > 0 \/ deviceUnplugged)

\* ResetInProgress, which holds all transfers back, is cleared by the worker or
\* the answer of the reset that set it (unless that was cancelled:
\* its routine completes it because a reset, its own, is in progress).
ResetHasOwner ==
  resetInProgress /\ ~deviceUnplugged /\ ~mismatched =>
    \/ \E r \in Requests : worker[r].kind = "reset" /\ Active(r)
    \/ \E v \in Resets : Cancelled(v) \/ \E e \in Outstanding : e[2] = v

\* The shadows implement the pool of ids, and everything cancellation does to
\* them is a step of ShadowRing.
RingRefined == RingSpec

\* xenif.cpp:768-769 "don't complete the request here it is owned by the cancel
\* routine": the sweep never completes a request that the cancel side completes.
CancelRoutineOwns ==
  \A r \in Requests : Cancelled(r) => completions[r] <= 1

\* UsbRequest.cpp:2724 "The abort worker has to guarantee that this event is
\* signalled": nobody waits for a pipe that no abort worker is left to signal.
WaitersAreSignalled ==
  \A r \in Requests :
    At(r, "wait", "event") =>
      \/ abortCompleteEvent[PipeOf[r]]
      \/ \E q \in Requests : /\ PipeOf[q] = PipeOf[r] /\ worker[q].kind = "abort"
                             /\ Active(q)

\* usbxenif.h:120 "private guest value, echoed in resp": an answer is handled with
\* the shadow of the request it answers, never with a later user of that shadow.
AnswersMatch == ~mismatched

===============================================================================
