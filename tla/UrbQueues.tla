------------------------------- MODULE UrbQueues -------------------------------
(***************************************************************************)
(* How a URB gets to the ring (Queue.cpp): the framework's UrbQueue        *)
(* dispatches it, and when it cannot be submitted it is moved to the       *)
(* RequestQueue while the UrbQueue is stopped.  The DPC, the watchdog and  *)
(* a passive work item drain the RequestQueue and restart the UrbQueue.    *)
(*                                                                         *)
(* RequeueRequest gives up the FDO lock, stops the queue, forwards the     *)
(* request and takes the lock again: these are separate steps here, with   *)
(* the lock as a variable, because any other thread may drain meanwhile.   *)
(* A request is requeued by its own dispatch thread or by one of the       *)
(* Drainers.  Only the number of ring entries matters here; ShadowRing     *)
(* models the ring itself, and CancelPath the cancellation of what is on   *)
(* it.                                                                     *)
(***************************************************************************)
EXTENDS Naturals, Sequences, FiniteSets

CONSTANTS
  Transfers,       \* URBs that go to the ring
  Selects,         \* URB_FUNCTION_SELECT_INTERFACE: uses the scratch pad, at PASSIVE_LEVEL
  Locals,          \* URBs that SubmitUrb answers itself
  PortResets,      \* IOCTL_INTERNAL_USB_RESET_PORT
  RingEntries,     \* ring entries (shadows)
  ForwardFailures, \* requests WdfRequestForwardToIoQueue may fail for
  ItemsCanFail,    \* whether NewWorkItem may fail
  Watchdog,        \* whether the timer of FdoEvtTimerFunc is running
  CanUnplug,       \* bound: whether the backend may go away
  CanCancel,       \* bound: requests the client may cancel while they are queued
  Configs,         \* bound: how many times the scratch pad is used
  NULL

Urbs == Transfers \cup Selects \cup Locals
Reqs == Urbs \cup PortResets

\* The threads that drain: the DPC, the watchdog timer, the PassiveDrain item.
Drainers == {"dpc", "timer", "passive"}

ASSUME QueuesAssumption ==
  /\ Selects \cap Transfers = {} /\ Locals \cap (Selects \cup Transfers) = {}
  /\ PortResets \cap Urbs = {} /\ NULL \notin Reqs /\ "scratch" \notin Reqs
  /\ IsFiniteSet(Reqs)
  /\ ForwardFailures \subseteq Reqs /\ CanCancel \subseteq Reqs
  /\ RingEntries \in Nat /\ Configs \in Nat
  /\ ItemsCanFail \in BOOLEAN /\ Watchdog \in BOOLEAN /\ CanUnplug \in BOOLEAN
  /\ NULL \notin Drainers

VARIABLES
  place,            \* where a request is: "new", "urbQueue", "handler",
                    \* "requestQueue", "drainer", "ring", "done"
  thread,           \* what the dispatch thread of a request does next: "idle",
                    \* "enter", "stop", "forward", "count", "config"
  urbStarted,       \* the UrbQueue dispatches
  requestQueue,     \* the RequestQueue
  requeuedCount,    \* RequeuedCount
  fdoLock,          \* the drainer that keeps the FDO lock between steps
  drainer,          \* what a drainer does next
  own,              \* the request a drainer works on with the lock released
  passiveQueued,    \* a PassiveDrain item is queued (several are merged)
  ring, answered,   \* requests and "scratch" with the backend, or answered
  dpcQueued,        \* the event channel has signalled
  configBusy, resetInProgress, deviceUnplugged,
  configWaits,      \* a worker waits for its scratch request
  configs           \* times that happened

reqVars   == <<place, thread>>
queueVars == <<urbStarted, requestQueue, requeuedCount>>
drainVars == <<fdoLock, drainer, own, passiveQueued>>
hwVars    == <<ring, answered, dpcQueued>>
padVars   == <<configWaits, configs>>
devVars   == <<configBusy, resetInProgress, deviceUnplugged, padVars>>
queueSpecVars == <<reqVars, queueVars, drainVars, hwVars, devVars>>

QueuesInit ==
  /\ place = [r \in Reqs |-> "new"] /\ thread = [r \in Reqs |-> "idle"]
  /\ urbStarted = TRUE /\ requestQueue = <<>> /\ requeuedCount = 0
  /\ fdoLock = NULL /\ drainer = [d \in Drainers |-> "idle"]
  /\ own = [d \in Drainers |-> NULL] /\ passiveQueued = FALSE
  /\ ring = {} /\ answered = {} /\ dpcQueued = FALSE
  /\ configBusy = FALSE /\ resetInProgress = FALSE /\ deviceUnplugged = FALSE
  /\ configWaits = FALSE /\ configs = 0

\* AvailableRequests.
Available == RingEntries - Cardinality(ring \cup answered)

\* WaitForScratchCompletion returns: the DPC saw the answer, or the device is gone.
PadAnswered == "scratch" \notin ring \cup answered \/ deviceUnplugged

Move(r, where) == place' = [place EXCEPT ![r] = where]

Lock(d) == fdoLock = NULL /\ fdoLock' = d
Goto(d, pc) == drainer' = [drainer EXCEPT ![d] = pc]

-------------------------------------------------------------------------------
(* UrbEvtIoInternalDeviceControl.                                          *)

\* A request arrives at the UrbQueue ...
Arrive(r) ==
  /\ place[r] = "new"
  /\ Move(r, "urbQueue")
  /\ UNCHANGED <<thread, queueVars, drainVars, hwVars, devVars>>

\* ... and is dispatched, in a thread of its own (external).
Dispatch(r) ==
  /\ place[r] = "urbQueue" /\ urbStarted
  /\ Move(r, "handler")
  /\ thread' = [thread EXCEPT ![r] = "enter"]
  /\ UNCHANGED <<queueVars, drainVars, hwVars, devVars>>

Enters(r) == thread[r] = "enter" /\ fdoLock = NULL

\* A SELECT_INTERFACE that needs no answer of the backend, is malformed, or
\* finds no ring entry: then ConfigBusy stays TRUE.
SelectEnds(busy) == busy \in {FALSE} \cup {b \in {TRUE} : Available = 0}

\* The request is answered at once: the device is gone, the URB is a local
\* one, a reset is ignored during a reset, or SELECT_INTERFACE came at
\* DISPATCH_LEVEL.
HandlerCompletes(r) ==
  /\ Enters(r)
  /\ \/ deviceUnplugged
     \/ r \in Locals /\ ~configBusy /\ ~resetInProgress
     \/ r \in PortResets /\ ~configBusy /\ resetInProgress
     \/ r \in Selects /\ ~configBusy /\ ~resetInProgress
  /\ Move(r, "done")
  /\ thread' = [thread EXCEPT ![r] = "idle"]
  /\ IF r \in Selects /\ ~deviceUnplugged THEN SelectEnds(configBusy')
     ELSE UNCHANGED configBusy
  /\ UNCHANGED <<queueVars, drainVars, hwVars, resetInProgress, deviceUnplugged, padVars>>

\* ProcessSelectInterface at PASSIVE_LEVEL: PutScratchOnRing, and the wait with
\* the lock released.
HandlerSelects(r) ==
  /\ Enters(r) /\ ~deviceUnplugged /\ ~configBusy /\ ~resetInProgress
  /\ r \in Selects /\ Available > 0
  /\ configBusy' = TRUE
  /\ ring' = ring \cup {"scratch"}
  /\ thread' = [thread EXCEPT ![r] = "config"]
  /\ UNCHANGED <<place, queueVars, drainVars, answered, dpcQueued, resetInProgress,
                 deviceUnplugged, padVars>>

HandlerSelected(r) ==
  /\ thread[r] = "config" /\ fdoLock = NULL /\ PadAnswered
  /\ configBusy' = FALSE
  /\ Move(r, "done")
  /\ thread' = [thread EXCEPT ![r] = "idle"]
  /\ UNCHANGED <<queueVars, drainVars, hwVars, resetInProgress, deviceUnplugged, padVars>>

\* It goes to the ring.  A transfer leaves the last entry alone.
HandlerSubmits(r) ==
  /\ Enters(r) /\ ~deviceUnplugged /\ ~configBusy /\ ~resetInProgress
  /\ \/ r \in Transfers /\ Available > 1
     \/ r \in PortResets /\ Available > 0
  /\ Move(r, "ring")
  /\ thread' = [thread EXCEPT ![r] = "idle"]
  /\ ring' = ring \cup {r}
  /\ resetInProgress' = (r \in PortResets)
  /\ UNCHANGED <<queueVars, drainVars, answered, dpcQueued, configBusy, deviceUnplugged,
                 padVars>>

\* It has to wait: RequeueRequest, which releases the lock.
HandlerRequeues(r) ==
  /\ Enters(r) /\ ~deviceUnplugged
  /\ \/ configBusy
     \/ r \in Urbs /\ resetInProgress
     \/ ~resetInProgress /\ r \in Transfers /\ Available <= 1
     \/ ~resetInProgress /\ r \in PortResets /\ Available = 0
  /\ thread' = [thread EXCEPT ![r] = "stop"]
  /\ UNCHANGED <<place, queueVars, drainVars, hwVars, devVars>>

HandlerStopsQueue(r) ==
  /\ thread[r] = "stop"
  /\ urbStarted' = FALSE
  /\ thread' = [thread EXCEPT ![r] = "forward"]
  /\ UNCHANGED <<place, requestQueue, requeuedCount, drainVars, hwVars, devVars>>

HandlerForwards(r) ==
  /\ thread[r] = "forward"
  /\ Move(r, "requestQueue")
  /\ requestQueue' = Append(requestQueue, r)
  /\ thread' = [thread EXCEPT ![r] = "count"]
  /\ UNCHANGED <<urbStarted, requeuedCount, drainVars, hwVars, devVars>>

\* "unfortunately the requeue can fail": the request is completed, uncounted.
HandlerForwardFails(r) ==
  /\ thread[r] = "forward" /\ r \in ForwardFailures
  /\ Move(r, "done")
  /\ thread' = [thread EXCEPT ![r] = "idle"]
  /\ UNCHANGED <<queueVars, drainVars, hwVars, devVars>>

HandlerCounts(r) ==
  /\ thread[r] = "count" /\ fdoLock = NULL
  /\ requeuedCount' = requeuedCount + 1
  /\ thread' = [thread EXCEPT ![r] = "idle"]
  /\ UNCHANGED <<place, urbStarted, requestQueue, drainVars, hwVars, devVars>>

HandlerStep(r) ==
  \/ HandlerCompletes(r)  \/ HandlerSelects(r)  \/ HandlerSelected(r)
  \/ HandlerSubmits(r)    \/ HandlerRequeues(r)
  \/ HandlerStopsQueue(r) \/ HandlerForwards(r) \/ HandlerForwardFails(r)
  \/ HandlerCounts(r)

-------------------------------------------------------------------------------
(* DrainRequestQueue.  At "drain" the drainer holds the lock.              *)

FromPassiveLevel(d) == d = "passive"

Drains(d) == drainer[d] = "drain" /\ fdoLock = d

\* Mutant of DrainEmpty: the UrbQueue is not started again.
DrainEmptyForgets(d) ==
  /\ Drains(d) /\ requestQueue = <<>>
  /\ fdoLock' = NULL
  /\ Goto(d, "idle")
  /\ UNCHANGED <<reqVars, queueVars, own, passiveQueued, hwVars, devVars>>

\* Nothing is left: the lock is released ...
DrainEmpty(d) ==
  /\ Drains(d) /\ requestQueue = <<>>
  /\ fdoLock' = NULL
  /\ Goto(d, "start")
  /\ UNCHANGED <<reqVars, queueVars, own, passiveQueued, hwVars, devVars>>

\* ... and the UrbQueue started.
DrainStartsQueue(d) ==
  /\ drainer[d] = "start"
  /\ urbStarted' = TRUE
  /\ Goto(d, "idle")
  /\ UNCHANGED <<reqVars, requestQueue, requeuedCount, fdoLock, own, passiveQueued, hwVars,
                 devVars>>

\* The next request.
Next1 == Head(requestQueue)
Retrieves(d) == Drains(d) /\ requestQueue # <<>> /\ requestQueue' = Tail(requestQueue)

\* It is completed, with the lock released: the device is gone, the request is
\* not a URB (a requeued port reset), or no work item is left.
DrainCompletes(d) ==
  /\ Retrieves(d)
  /\ \/ deviceUnplugged
     \/ Next1 \in PortResets
     \/ /\ Next1 \in Selects /\ ~resetInProgress
        /\ ~FromPassiveLevel(d) /\ ItemsCanFail
  /\ Move(Next1, "done")
  /\ fdoLock' = NULL
  /\ Goto(d, "relock")
  /\ UNCHANGED <<thread, urbStarted, requeuedCount, own, passiveQueued, hwVars, devVars>>

Relock(d) ==
  /\ drainer[d] = "relock"
  /\ Lock(d)
  /\ Goto(d, "drain")
  /\ UNCHANGED <<reqVars, queueVars, own, passiveQueued, hwVars, devVars>>

\* SubmitUrb puts it on the ring, with the lock held all the time.
DrainSubmits(d) ==
  /\ Retrieves(d)
  /\ Next1 \in Transfers /\ ~deviceUnplugged /\ ~resetInProgress /\ Available > 1
  /\ Move(Next1, "ring")
  /\ ring' = ring \cup {Next1}
  /\ requeuedCount' = 0
  /\ UNCHANGED <<thread, urbStarted, drainVars, answered, dpcQueued, devVars>>

\* SubmitUrb answers it, releasing the lock ...
DrainLocal(d) ==
  /\ Retrieves(d)
  /\ ~deviceUnplugged /\ ~resetInProgress
  /\ \/ Next1 \in Locals /\ UNCHANGED configBusy
     \/ Next1 \in Selects /\ FromPassiveLevel(d) /\ ~configBusy /\ SelectEnds(configBusy')
  /\ Move(Next1, "done")
  /\ requeuedCount' = 0
  /\ fdoLock' = NULL
  /\ Goto(d, "local")
  /\ UNCHANGED <<thread, urbStarted, own, passiveQueued, hwVars, resetInProgress,
                 deviceUnplugged, padVars>>

DrainSelects(d) ==
  /\ Retrieves(d)
  /\ Next1 \in Selects /\ FromPassiveLevel(d)
  /\ ~deviceUnplugged /\ ~resetInProgress /\ ~configBusy /\ Available > 0
  /\ requeuedCount' = 0
  /\ configBusy' = TRUE
  /\ ring' = ring \cup {"scratch"}
  /\ Move(Next1, "drainer") /\ own' = [own EXCEPT ![d] = Next1]
  /\ fdoLock' = NULL
  /\ Goto(d, "config")
  /\ UNCHANGED <<thread, urbStarted, passiveQueued, answered, dpcQueued, resetInProgress,
                 deviceUnplugged, padVars>>

DrainSelected(d) ==
  /\ drainer[d] = "config" /\ fdoLock = NULL /\ PadAnswered
  /\ configBusy' = FALSE
  /\ Move(own[d], "done") /\ own' = [own EXCEPT ![d] = NULL]
  /\ Goto(d, "local")
  /\ UNCHANGED <<thread, queueVars, fdoLock, passiveQueued, hwVars, resetInProgress,
                 deviceUnplugged, padVars>>

\* ... and RequeuedCount may not be its own afterwards.
DrainLocalDone(d) ==
  /\ drainer[d] = "local" /\ fdoLock = NULL
  /\ IF requeuedCount = 0 THEN fdoLock' = d /\ Goto(d, "drain")
     ELSE UNCHANGED fdoLock /\ Goto(d, "idle")
  /\ UNCHANGED <<reqVars, queueVars, own, passiveQueued, hwVars, devVars>>

\* It has to wait longer: a reset is in progress, the ring is full, the scratch
\* pad is busy, or it needs PASSIVE_LEVEL, for which a work item is queued first.
NeedsPassive(d) == Next1 \in Selects /\ ~FromPassiveLevel(d)

\* Mutant of DrainRequeues: RequeuedCount is not reset before the requeue.
DrainRequeuesKeepsCount(d) ==
  /\ Retrieves(d)
  /\ ~deviceUnplugged /\ Next1 \in Urbs
  /\ \/ resetInProgress
     \/ Next1 \in Transfers /\ Available <= 1
  /\ Move(Next1, "drainer")
  /\ own' = [own EXCEPT ![d] = Next1]
  /\ fdoLock' = NULL
  /\ Goto(d, "stop")
  /\ UNCHANGED <<thread, urbStarted, requeuedCount, passiveQueued, hwVars, devVars>>

DrainRequeues(d) ==
  /\ Retrieves(d)
  /\ ~deviceUnplugged /\ Next1 \in Urbs
  /\ \/ resetInProgress
     \/ NeedsPassive(d)
     \/ Next1 \in Transfers /\ Available <= 1
     \/ Next1 \in Selects /\ configBusy
  /\ passiveQueued' = (passiveQueued \/ (NeedsPassive(d) /\ ~resetInProgress))
  /\ Move(Next1, "drainer")
  /\ own' = [own EXCEPT ![d] = Next1]
  /\ requeuedCount' = 0
  /\ fdoLock' = NULL
  /\ Goto(d, "stop")
  /\ UNCHANGED <<thread, urbStarted, hwVars, devVars>>

\* Mutant of DrainStopsQueue: nothing is put back.
DrainStopsAndLoses(d) ==
  /\ drainer[d] = "stop"
  /\ urbStarted' = FALSE
  /\ Goto(d, "idle")
  /\ UNCHANGED <<reqVars, requestQueue, requeuedCount, fdoLock, own, passiveQueued, hwVars,
                 devVars>>

\* RequeueRequest in a drainer.
DrainStopsQueue(d) ==
  /\ drainer[d] = "stop"
  /\ urbStarted' = FALSE
  /\ Goto(d, "forward")
  /\ UNCHANGED <<reqVars, requestQueue, requeuedCount, fdoLock, own, passiveQueued, hwVars,
                 devVars>>

\* WdfRequestRequeue puts a request back at the head of its queue.
DrainForwards(d) ==
  /\ drainer[d] = "forward"
  /\ requestQueue' = <<own[d]>> \o requestQueue
  /\ Move(own[d], "requestQueue")
  /\ own' = [own EXCEPT ![d] = NULL]
  /\ Goto(d, "count")
  /\ UNCHANGED <<thread, urbStarted, requeuedCount, fdoLock, passiveQueued, hwVars, devVars>>

DrainForwardFails(d) ==
  /\ drainer[d] = "forward" /\ own[d] \in ForwardFailures
  /\ Move(own[d], "done")
  /\ own' = [own EXCEPT ![d] = NULL]
  /\ Goto(d, "local")
  /\ UNCHANGED <<thread, queueVars, fdoLock, passiveQueued, hwVars, devVars>>

\* The drain ends when something was requeued.
DrainCounts(d) ==
  /\ drainer[d] = "count" /\ fdoLock = NULL
  /\ requeuedCount' = requeuedCount + 1
  /\ Goto(d, "idle")
  /\ UNCHANGED <<reqVars, urbStarted, requestQueue, fdoLock, own, passiveQueued, hwVars,
                 devVars>>

DrainStep(d) ==
  \/ DrainEmpty(d)      \/ DrainStartsQueue(d) \/ DrainCompletes(d) \/ Relock(d)
  \/ DrainSubmits(d)    \/ DrainLocal(d)       \/ DrainLocalDone(d)
  \/ DrainSelects(d)    \/ DrainSelected(d)
  \/ DrainRequeues(d)   \/ DrainStopsQueue(d)  \/ DrainForwards(d)
  \/ DrainForwardFails(d) \/ DrainCounts(d)

-------------------------------------------------------------------------------
(* Who drains.                                                             *)

\* FdoEvtDeviceDpcFunc: XenDpc under the lock, completion of what it collected
\* with the lock released, then the drain.
RunDpc(d) ==
  /\ fdoLock = NULL
  /\ IF deviceUnplugged THEN UNCHANGED <<ring, answered, resetInProgress>>
     ELSE /\ answered' = {}
          /\ UNCHANGED ring
          /\ resetInProgress' = (resetInProgress /\ answered \cap PortResets = {})
  /\ place' = [r \in Reqs |-> IF ~deviceUnplugged /\ r \in answered THEN "done" ELSE place[r]]
  /\ IF deviceUnplugged \/ answered \cap Reqs = {} THEN fdoLock' = d /\ Goto(d, "drain")
     ELSE UNCHANGED fdoLock /\ Goto(d, "relock")

Dpc ==
  /\ dpcQueued /\ drainer["dpc"] = "idle"
  /\ dpcQueued' = FALSE
  /\ RunDpc("dpc")
  /\ UNCHANGED <<thread, queueVars, own, passiveQueued, configBusy, deviceUnplugged, padVars>>

\* FdoEvtTimerFunc, the backend is operational: the timer runs the DPC as well.
TimerRunsDpc ==
  /\ Watchdog /\ drainer["timer"] = "idle" /\ ~deviceUnplugged
  /\ RunDpc("timer")
  /\ UNCHANGED <<thread, queueVars, own, passiveQueued, dpcQueued, configBusy,
                 deviceUnplugged, padVars>>

\* FdoEvtTimerFunc, the backend is gone: FdoUnplugDevice releases the lock while
\* it removes the children, then drains.
TimerUnplugs ==
  /\ Watchdog /\ CanUnplug
  /\ drainer["timer"] = "idle" /\ ~deviceUnplugged /\ fdoLock = NULL
  /\ deviceUnplugged' = TRUE
  /\ Goto("timer", "relock")
  /\ UNCHANGED <<reqVars, queueVars, fdoLock, own, passiveQueued, hwVars, configBusy,
                 resetInProgress, padVars>>

PassiveDrain ==
  /\ passiveQueued /\ drainer["passive"] = "idle"
  /\ passiveQueued' = FALSE
  /\ Lock("passive")
  /\ Goto("passive", "drain")
  /\ UNCHANGED <<reqVars, queueVars, own, hwVars, devVars>>

-------------------------------------------------------------------------------
(* The backend, and the threads that use the scratch pad.                  *)

BackendAnswers(j) ==
  /\ j \in ring
  /\ ring' = ring \ {j} /\ answered' = answered \cup {j}
  /\ dpcQueued' = (dpcQueued \/ ~deviceUnplugged)
  /\ UNCHANGED <<reqVars, queueVars, drainVars, devVars>>

\* The framework completes a request that its client cancels in a queue (external).
QueuedCancelled(r) ==
  /\ r \in CanCancel
  /\ \/ place[r] = "urbQueue" /\ UNCHANGED requestQueue
     \/ \E i \in 1 .. Len(requestQueue) :
          /\ requestQueue[i] = r
          /\ requestQueue' = SubSeq(requestQueue, 1, i - 1)
                              \o SubSeq(requestQueue, i + 1, Len(requestQueue))
  /\ Move(r, "done")
  /\ UNCHANGED <<thread, urbStarted, requeuedCount, drainVars, hwVars, devVars>>

\* WaitForScratchPadAccess and PutScratchOnRing, in the reset and abort workers
\* and in ProcessSelectConfiguration.
ConfigStarts ==
  /\ configs < Configs /\ ~configBusy /\ ~deviceUnplugged
  /\ fdoLock = NULL /\ Available > 0
  /\ configBusy' = TRUE /\ configWaits' = TRUE /\ configs' = configs + 1
  /\ ring' = ring \cup {"scratch"}
  /\ UNCHANGED <<reqVars, queueVars, drainVars, answered, dpcQueued, resetInProgress,
                 deviceUnplugged>>

\* The scratch request was answered and its caller has the lock again.
ConfigEnds ==
  /\ configWaits /\ fdoLock = NULL /\ PadAnswered
  /\ configWaits' = FALSE
  /\ configBusy' = FALSE
  /\ UNCHANGED <<reqVars, queueVars, drainVars, hwVars, resetInProgress, deviceUnplugged,
                 configs>>

-------------------------------------------------------------------------------

QueuesNext ==
  \/ \E r \in Reqs : Arrive(r) \/ Dispatch(r) \/ HandlerStep(r) \/ QueuedCancelled(r)
  \/ \E d \in Drainers : DrainStep(d)
  \/ Dpc \/ TimerRunsDpc \/ TimerUnplugs \/ PassiveDrain
  \/ \E j \in ring : BackendAnswers(j)
  \/ ConfigStarts \/ ConfigEnds

QueuesSpec == QueuesInit /\ [][QueuesNext]_queueSpecVars

\* Threads run, the lock is granted to who waits for it, a started queue
\* dispatches, the backend answers, the watchdog fires again and again.  Strong
\* fairness, one condition per thread: the lock and the queue come and go.
QueuesFairness ==
  /\ \A r \in Reqs : SF_queueSpecVars(Dispatch(r) \/ HandlerStep(r))
  /\ SF_queueSpecVars(Dpc \/ DrainStep("dpc"))
  /\ SF_queueSpecVars(TimerRunsDpc \/ DrainStep("timer"))
  /\ SF_queueSpecVars(PassiveDrain \/ DrainStep("passive"))
  /\ SF_queueSpecVars(ConfigEnds)
  /\ WF_queueSpecVars(\E j \in ring : BackendAnswers(j))

FairQueuesSpec == QueuesSpec /\ QueuesFairness

-------------------------------------------------------------------------------
(* Properties.                                                             *)

\* Every variable keeps its range; RequeuedCount stays within the number of
\* threads that can requeue.
QueuesTypeOK ==
  /\ place \in [Reqs -> {"new", "urbQueue", "handler", "requestQueue", "drainer", "ring",
                         "done"}]
  /\ thread \in [Reqs -> {"idle", "enter", "stop", "forward", "count", "config"}]
  /\ urbStarted \in BOOLEAN
  /\ requestQueue \in Seq(Reqs)
  /\ requeuedCount \in 0 .. Cardinality(Reqs) + Cardinality(Drainers)
  /\ fdoLock \in Drainers \cup {NULL}
  /\ drainer \in [Drainers -> {"idle", "drain", "start", "relock", "local", "stop",
                               "forward", "count", "config"}]
  /\ own \in [Drainers -> Reqs \cup {NULL}]
  /\ passiveQueued \in BOOLEAN /\ dpcQueued \in BOOLEAN
  /\ ring \subseteq Reqs \cup {"scratch"} /\ answered \subseteq Reqs \cup {"scratch"}
  /\ configBusy \in BOOLEAN /\ resetInProgress \in BOOLEAN /\ deviceUnplugged \in BOOLEAN
  /\ configWaits \in BOOLEAN /\ configs \in 0 .. Configs

\* However dispatch threads, drainers and cancellation interleave, a request is
\* in exactly one place: once in the RequestQueue, or with one thread, or on the
\* ring (RequeueRequest "Must Queue or Complete the Request").
RequestAccounted ==
  \A r \in Reqs :
    /\ Cardinality({i \in DOMAIN requestQueue : requestQueue[i] = r})
         = IF place[r] = "requestQueue" THEN 1 ELSE 0
    /\ Cardinality({d \in Drainers : own[d] = r /\ drainer[d] \in {"stop", "forward", "config"}})
         = IF place[r] = "drainer" THEN 1 ELSE 0
    /\ r \in ring \cup answered => place[r] = "ring"
    /\ place[r] = "ring" => r \in ring \cup answered
    /\ place[r] = "handler" => thread[r] # "idle"

\* A URB is put on the ring or completed in the end, wherever it was queued and
\* whoever drained meanwhile, as long as the watchdog runs.  (Without it the last
\* answer may be processed between the decision to requeue and the forward.)
UrbServed ==
  \A r \in Reqs : place[r] = "urbQueue" ~> (place[r] \in {"ring", "done"} \/ deviceUnplugged)

===============================================================================
