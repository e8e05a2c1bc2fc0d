-------------------------------- MODULE DpcLoop --------------------------------
(***************************************************************************)
(* How answers are noticed (Device.cpp FdoEvtDeviceDpcFunc, xenif.cpp      *)
(* XenDpc).  The backend publishes answers without any lock and signals    *)
(* the event channel only when rsp_event asks for it; the DPC repeats      *)
(* XenDpc until it finds nothing more, then completes what it collected,   *)
(* giving up the FDO lock for every completion.  The watchdog calls the    *)
(* same function, so several threads may be in it.                         *)
(*                                                                         *)
(* Here an answer is its index on the ring.  What becomes of the shadow    *)
(* behind it is modelled in ShadowRing and CancelPath, which take it for   *)
(* granted that XenDpc runs until no answer is left: that is shown here.   *)
(* Ring indices are numbers that do not wrap (bound: MaxRequests).         *)
(***************************************************************************)
EXTENDS Naturals, Sequences

CONSTANTS
  Dpcs,          \* processors the DPC of the event channel may run on
  Timers,        \* threads in which FdoEvtTimerFunc calls the DPC function
  Processors,    \* KeQueryActiveProcessorCount
  AddFailures,   \* answers WdfCollectionAdd may fail for
  MaxRequests,   \* bound: entries put on the ring
  MaxOverlaps,   \* bound of DpcOverLapCount, of which only zero matters
  NULL

Threads == Dpcs \cup Timers
Answers == 0 .. MaxRequests - 1

ASSUME DpcAssumption == /\ Dpcs \cap Timers = {} /\ NULL \notin Threads \cup Nat
                        /\ Processors \in Nat \ {0} /\ MaxRequests \in Nat
                        /\ MaxOverlaps \in Nat \ {0} /\ AddFailures \subseteq Answers

VARIABLES
  reqProd,          \* req_prod_pvt and req_prod, which PutOnRing moves together
  rspProd,          \* rsp_prod of the shared ring
  rspEvent,         \* rsp_event of the shared ring
  rspCons,          \* rsp_cons
  published,        \* the backend's old rsp_prod before it looks at rsp_event,
                    \* NULL when it has no look outstanding
  pending,          \* the event channel is raised: a DPC will be started
  fdoLock,          \* the thread in the DPC function that has the FDO lock
  inDpc, dpcOverLapCount,
  requestCollection,
  pc, index, rp, moreWork, passes,   \* locals of each thread
  item,             \* the request a thread completes with the lock released
  completed,        \* history: how often the request of an answer was completed
  deviceUnplugged

ringIndices == <<reqProd, rspProd, rspEvent, rspCons, published>>
threadVars  == <<pc, index, rp, moreWork, passes, item>>
dpcLoopVars == <<ringIndices, pending, fdoLock, inDpc, dpcOverLapCount, requestCollection,
                 threadVars, completed, deviceUnplugged>>

DpcInit ==
  /\ reqProd = 0 /\ rspProd = 0 /\ rspEvent = 1 /\ rspCons = 0
  /\ published = NULL /\ pending = FALSE
  /\ fdoLock = NULL /\ inDpc = FALSE /\ dpcOverLapCount = 0
  /\ requestCollection = <<>>
  /\ pc = [t \in Threads |-> "idle"]
  /\ index = [t \in Threads |-> 0] /\ rp = [t \in Threads |-> 0]
  /\ moreWork = [t \in Threads |-> FALSE] /\ passes = [t \in Threads |-> 0]
  /\ item = [t \in Threads |-> NULL]
  /\ completed = [i \in Answers |-> 0]
  /\ deviceUnplugged = FALSE

Goto(t, where) == pc' = [pc EXCEPT ![t] = where]

-------------------------------------------------------------------------------
(* The rest of the driver and the backend.                                 *)

\* PutOnRing, in any thread that has the lock.
PutOnRing ==
  /\ fdoLock = NULL /\ ~deviceUnplugged
  /\ reqProd < MaxRequests
  /\ reqProd' = reqProd + 1
  /\ UNCHANGED <<rspProd, rspEvent, rspCons, published, pending, fdoLock, inDpc,
                 dpcOverLapCount, requestCollection, threadVars, completed, deviceUnplugged>>

\* The backend (external) publishes some answers ...
BackendPublishes ==
  /\ published = NULL
  /\ \E n \in rspProd + 1 .. reqProd : rspProd' = n
  /\ published' = rspProd
  /\ UNCHANGED <<reqProd, rspEvent, rspCons, pending, fdoLock, inDpc, dpcOverLapCount,
                 requestCollection, threadVars, completed, deviceUnplugged>>

\* ... and then signals, if rsp_event lies among them.
BackendNotifies ==
  /\ published # NULL
  /\ pending' = (pending \/ rspEvent \in published + 1 .. rspProd)
  /\ published' = NULL
  /\ UNCHANGED <<reqProd, rspProd, rspEvent, rspCons, fdoLock, inDpc, dpcOverLapCount,
                 requestCollection, threadVars, completed, deviceUnplugged>>

\* FdoUnplugDevice sets the flag with the lock held.
Unplug ==
  /\ fdoLock = NULL /\ ~deviceUnplugged
  /\ deviceUnplugged' = TRUE
  /\ UNCHANGED <<ringIndices, pending, fdoLock, inDpc, dpcOverLapCount, requestCollection,
                 threadVars, completed>>

-------------------------------------------------------------------------------
(* FdoEvtDeviceDpcFunc up to the loop.                                     *)

\* The DPC of the event channel, or the watchdog, which needs no event.
Enter(t) ==
  /\ pc[t] = "idle"
  /\ IF t \in Dpcs THEN pending /\ pending' = FALSE
     ELSE ~deviceUnplugged /\ UNCHANGED pending
  /\ Goto(t, "enter")
  /\ UNCHANGED <<ringIndices, fdoLock, inDpc, dpcOverLapCount, requestCollection, index, rp,
                 moreWork, passes, item, completed, deviceUnplugged>>

\* Another thread is in the loop: count on it.
Overlap(t) ==
  /\ pc[t] = "enter" /\ fdoLock = NULL /\ inDpc
  /\ dpcOverLapCount < MaxOverlaps
  /\ dpcOverLapCount' = dpcOverLapCount + 1
  /\ Goto(t, "idle")
  /\ UNCHANGED <<ringIndices, pending, fdoLock, inDpc, requestCollection, index, rp,
                 moreWork, passes, item, completed, deviceUnplugged>>

BeginLoop(t) ==
  /\ pc[t] = "enter" /\ fdoLock = NULL /\ ~inDpc
  /\ fdoLock' = t /\ inDpc' = TRUE
  /\ Goto(t, "scan")
  /\ UNCHANGED <<ringIndices, pending, dpcOverLapCount, requestCollection, index, rp,
                 moreWork, passes, item, completed, deviceUnplugged>>

-------------------------------------------------------------------------------
(* XenDpc.                                                                 *)

ReadProducer(t) ==
  /\ pc[t] = "scan"
  /\ rp' = [rp EXCEPT ![t] = rspProd]
  /\ index' = [index EXCEPT ![t] = rspCons]
  /\ Goto(t, "work")
  /\ UNCHANGED <<ringIndices, pending, fdoLock, inDpc, dpcOverLapCount, requestCollection,
                 moreWork, passes, item, completed, deviceUnplugged>>

\* "let somebody else clean up the mess": rsp_cons stays where it was.
WorkUnplugged(t) ==
  /\ pc[t] = "work" /\ index[t] # rp[t] /\ deviceUnplugged
  /\ moreWork' = [moreWork EXCEPT ![t] = FALSE]
  /\ Goto(t, "loop")
  /\ UNCHANGED <<ringIndices, pending, fdoLock, inDpc, dpcOverLapCount, requestCollection,
                 index, rp, passes, item, completed, deviceUnplugged>>

\* An answer: its request is collected, or is not the DPC's to complete.
WorkAnswer(t) ==
  /\ pc[t] = "work" /\ index[t] # rp[t] /\ ~deviceUnplugged
  /\ requestCollection' \in {requestCollection, Append(requestCollection, index[t])}
  /\ index' = [index EXCEPT ![t] = @ + 1]
  /\ UNCHANGED <<ringIndices, pending, fdoLock, inDpc, dpcOverLapCount, pc, rp, moreWork,
                 passes, item, completed, deviceUnplugged>>

\* It cannot be collected: it is completed at once, without the lock.
WorkAddFails(t) ==
  /\ pc[t] = "work" /\ index[t] # rp[t] /\ ~deviceUnplugged
  /\ index[t] \in AddFailures
  /\ completed' = [completed EXCEPT ![index[t]] = @ + 1]
  /\ index' = [index EXCEPT ![t] = @ + 1]
  /\ fdoLock' = NULL
  /\ Goto(t, "addFailed")
  /\ UNCHANGED <<ringIndices, pending, inDpc, dpcOverLapCount, requestCollection, rp,
                 moreWork, passes, item, deviceUnplugged>>

WorkRelocks(t) ==
  /\ pc[t] = "addFailed" /\ fdoLock = NULL
  /\ fdoLock' = t
  /\ Goto(t, "work")
  /\ UNCHANGED <<ringIndices, pending, inDpc, dpcOverLapCount, requestCollection, index, rp,
                 moreWork, passes, item, completed, deviceUnplugged>>

\* The end of the loop, when entries are still with the backend: the first half
\* of RING_FINAL_CHECK_FOR_RESPONSES (external).
EndOutstanding(t) ==
  /\ pc[t] = "work" /\ index[t] = rp[t]
  /\ index[t] # reqProd
  /\ rspCons' = index[t]
  /\ moreWork' = [moreWork EXCEPT ![t] = rspProd # index[t]]
  /\ Goto(t, IF rspProd # index[t] THEN "loop" ELSE "arm")
  /\ UNCHANGED <<reqProd, rspProd, rspEvent, published, pending, fdoLock, inDpc,
                 dpcOverLapCount, requestCollection, index, rp, passes, item, completed,
                 deviceUnplugged>>

\* Its second half asks for an event, and looks again.
Arm(t) ==
  /\ pc[t] = "arm"
  /\ rspEvent' = rspCons + 1
  /\ Goto(t, "recheck")
  /\ UNCHANGED <<reqProd, rspProd, rspCons, published, pending, fdoLock, inDpc,
                 dpcOverLapCount, requestCollection, index, rp, moreWork, passes, item,
                 completed, deviceUnplugged>>

Recheck(t) ==
  /\ pc[t] = "recheck"
  /\ moreWork' = [moreWork EXCEPT ![t] = rspProd # rspCons]
  /\ Goto(t, "loop")
  /\ UNCHANGED <<ringIndices, pending, fdoLock, inDpc, dpcOverLapCount, requestCollection,
                 index, rp, passes, item, completed, deviceUnplugged>>

\* Mutant of EndIdle: taken whenever nothing is left that was read, even though
\* the backend still holds entries.
EndIdleAlways(t) ==
  /\ pc[t] = "work" /\ index[t] = rp[t]
  /\ rspCons' = index[t]
  /\ rspEvent' = IF deviceUnplugged THEN rspEvent ELSE index[t] + 1
  /\ moreWork' = [moreWork EXCEPT ![t] = FALSE]
  /\ Goto(t, "loop")
  /\ UNCHANGED <<reqProd, rspProd, published, pending, fdoLock, inDpc, dpcOverLapCount,
                 requestCollection, index, rp, passes, item, completed, deviceUnplugged>>

\* Every entry is answered: there is nothing to look for again.
EndIdle(t) ==
  /\ pc[t] = "work" /\ index[t] = rp[t]
  /\ index[t] = reqProd
  /\ rspCons' = index[t]
  /\ rspEvent' = IF deviceUnplugged THEN rspEvent ELSE index[t] + 1
  /\ moreWork' = [moreWork EXCEPT ![t] = FALSE]
  /\ Goto(t, "loop")
  /\ UNCHANGED <<reqProd, rspProd, published, pending, fdoLock, inDpc, dpcOverLapCount,
                 requestCollection, index, rp, passes, item, completed, deviceUnplugged>>

XenDpcStep(t) ==
  \/ ReadProducer(t)  \/ WorkUnplugged(t) \/ WorkAnswer(t) \/ WorkAddFails(t)
  \/ WorkRelocks(t)   \/ EndOutstanding(t) \/ Arm(t) \/ Recheck(t) \/ EndIdle(t)

-------------------------------------------------------------------------------
(* The loop, and the completion of what was collected.                     *)

\* Another thread overlapped: that counts as more work.
More(t) == moreWork[t] \/ dpcOverLapCount # 0

\* InDpc is cleared; the locals of the loop are not used any more.
EndLoop(t) ==
  /\ inDpc' = FALSE
  /\ index' = [index EXCEPT ![t] = 0] /\ rp' = [rp EXCEPT ![t] = 0]
  /\ moreWork' = [moreWork EXCEPT ![t] = FALSE] /\ passes' = [passes EXCEPT ![t] = 0]
  /\ Goto(t, "collect")

\* Mutant of Again: one pass more than there are processors.
AgainOnceMore(t) ==
  /\ pc[t] = "loop"
  /\ More(t) /\ passes[t] + 1 <= Processors
  /\ passes' = [passes EXCEPT ![t] = @ + 1]
  /\ dpcOverLapCount' = 0
  /\ Goto(t, "scan")
  /\ UNCHANGED <<ringIndices, pending, fdoLock, inDpc, requestCollection, index, rp,
                 moreWork, item, completed, deviceUnplugged>>

Again(t) ==
  /\ pc[t] = "loop"
  /\ More(t) /\ passes[t] + 1 < Processors
  /\ passes' = [passes EXCEPT ![t] = @ + 1]
  /\ dpcOverLapCount' = 0
  /\ Goto(t, "scan")
  /\ UNCHANGED <<ringIndices, pending, fdoLock, inDpc, requestCollection, index, rp,
                 moreWork, item, completed, deviceUnplugged>>

\* Mutant of Reschedule: the DPC is not scheduled again.
RescheduleForgets(t) ==
  /\ pc[t] = "loop"
  /\ More(t) /\ passes[t] + 1 >= Processors
  /\ dpcOverLapCount' = 0
  /\ EndLoop(t)
  /\ UNCHANGED <<ringIndices, pending, fdoLock, requestCollection, item, completed,
                 deviceUnplugged>>

\* "reschedule the dpc to prevent starvation".
Reschedule(t) ==
  /\ pc[t] = "loop"
  /\ More(t) /\ passes[t] + 1 >= Processors
  /\ pending' = TRUE
  /\ dpcOverLapCount' = 0
  /\ EndLoop(t)
  /\ UNCHANGED <<ringIndices, fdoLock, requestCollection, item, completed, deviceUnplugged>>

LeaveLoop(t) ==
  /\ pc[t] = "loop"
  /\ ~More(t)
  /\ EndLoop(t)
  /\ UNCHANGED <<ringIndices, pending, fdoLock, dpcOverLapCount, requestCollection, item,
                 completed, deviceUnplugged>>

\* Mutant of TakeCollected: the item is removed when the lock is back.
TakeWithoutRemoving(t) ==
  /\ pc[t] = "collect" /\ requestCollection # <<>>
  /\ item' = [item EXCEPT ![t] = Head(requestCollection)]
  /\ fdoLock' = NULL
  /\ Goto(t, "complete")
  /\ UNCHANGED <<ringIndices, pending, inDpc, dpcOverLapCount, requestCollection, index, rp,
                 moreWork, passes, completed, deviceUnplugged>>

\* "this section is re-entrant": an item is taken with the lock held ...
TakeCollected(t) ==
  /\ pc[t] = "collect" /\ requestCollection # <<>>
  /\ item' = [item EXCEPT ![t] = Head(requestCollection)]
  /\ requestCollection' = Tail(requestCollection)
  /\ fdoLock' = NULL
  /\ Goto(t, "complete")
  /\ UNCHANGED <<ringIndices, pending, inDpc, dpcOverLapCount, index, rp, moreWork, passes,
                 completed, deviceUnplugged>>

\* ... completed without it ...
CompleteTaken(t) ==
  /\ pc[t] = "complete"
  /\ completed' = [completed EXCEPT ![item[t]] = @ + 1]
  /\ item' = [item EXCEPT ![t] = NULL]
  /\ Goto(t, "relock")
  /\ UNCHANGED <<ringIndices, pending, fdoLock, inDpc, dpcOverLapCount, requestCollection,
                 index, rp, moreWork, passes, deviceUnplugged>>

\* Mutant of Relock: one item is completed per DPC.
RelockAndLeave(t) ==
  /\ pc[t] = "relock" /\ fdoLock = NULL
  /\ Goto(t, "idle")
  /\ UNCHANGED <<ringIndices, pending, fdoLock, inDpc, dpcOverLapCount, requestCollection,
                 index, rp, moreWork, passes, item, completed, deviceUnplugged>>

\* ... and the lock taken back for the next.
Relock(t) ==
  /\ pc[t] = "relock" /\ fdoLock = NULL
  /\ fdoLock' = t
  /\ Goto(t, "collect")
  /\ UNCHANGED <<ringIndices, pending, inDpc, dpcOverLapCount, requestCollection, index, rp,
                 moreWork, passes, item, completed, deviceUnplugged>>

\* Nothing is collected: DrainRequestQueue (UrbQueues), and the end.
Leave(t) ==
  /\ pc[t] = "collect" /\ requestCollection = <<>>
  /\ fdoLock' = NULL
  /\ Goto(t, "idle")
  /\ UNCHANGED <<ringIndices, pending, inDpc, dpcOverLapCount, requestCollection, index, rp,
                 moreWork, passes, item, completed, deviceUnplugged>>

DpcFuncStep(t) ==
  \/ Overlap(t) \/ BeginLoop(t) \/ XenDpcStep(t)
  \/ Again(t) \/ Reschedule(t) \/ LeaveLoop(t)
  \/ TakeCollected(t) \/ CompleteTaken(t) \/ Relock(t) \/ Leave(t)

DpcNext ==
  \/ PutOnRing \/ BackendPublishes \/ BackendNotifies \/ Unplug
  \/ \E t \in Threads : Enter(t) \/ DpcFuncStep(t)

DpcSpec == DpcInit /\ [][DpcNext]_dpcLoopVars

\* A raised event starts the DPC, a thread in the function runs on, whatever the
\* others do with the lock, and the backend looks at rsp_event after publishing.
\* Nothing makes the watchdog run, the backend answer or the device stay.
DpcFairness ==
  /\ \A t \in Threads : SF_dpcLoopVars(DpcFuncStep(t))
  /\ SF_dpcLoopVars(\E t \in Dpcs : Enter(t))
  /\ WF_dpcLoopVars(BackendNotifies)

FairDpcSpec == DpcSpec /\ DpcFairness

-------------------------------------------------------------------------------
(* Properties.                                                             *)

InLoop == {"scan", "work", "addFailed", "arm", "recheck", "loop"}
PcValues == InLoop \cup {"idle", "enter", "collect", "complete", "relock"}

RingTypeOK ==
  /\ reqProd \in 0 .. MaxRequests /\ rspProd \in 0 .. reqProd /\ rspCons \in 0 .. rspProd
  /\ rspEvent \in 1 .. MaxRequests + 1
  /\ published \in (0 .. rspProd) \cup {NULL}

SharedTypeOK ==
  /\ pending \in BOOLEAN /\ inDpc \in BOOLEAN /\ deviceUnplugged \in BOOLEAN
  /\ fdoLock \in Threads \cup {NULL}
  /\ dpcOverLapCount \in 0 .. MaxOverlaps
  /\ requestCollection \in Seq(Answers)
  /\ completed \in [Answers -> Nat]

LocalTypeOK ==
  /\ pc \in [Threads -> PcValues]
  /\ index \in [Threads -> 0 .. rspProd] /\ rp \in [Threads -> 0 .. rspProd]
  /\ moreWork \in [Threads -> BOOLEAN] /\ passes \in [Threads -> 0 .. Processors - 1]
  /\ item \in [Threads -> Answers \cup {NULL}]

\* Every variable keeps its range, and so do the indices among each other:
\* the frontend never runs past the answers, nor the backend past the requests.
\* passes stays below Processors: a DPC gives way after that many passes.
DpcTypeOK == RingTypeOK /\ SharedTypeOK /\ LocalTypeOK

\* No wakeup is lost: while an answer waits in the ring of a device that is there,
\* the event channel is raised, or the backend is about to raise it, or some
\* thread is still in the loop and will look at the ring again.
AnswerNoticed ==
  rspProd # rspCons /\ ~deviceUnplugged =>
    \/ pending
    \/ published # NULL /\ rspEvent \in published + 1 .. rspProd
    \/ \E t \in Threads : pc[t] \in InLoop \cup {"enter"}

IsCollected(i) == \E k \in DOMAIN requestCollection : requestCollection[k] = i

\* Several threads complete from one collection, and the lock is released for
\* each completion: no request is completed twice all the same, nor completed
\* while it is still collected.
CollectedOnce ==
  \A i \in Answers :
    completed[i] + (IF IsCollected(i) THEN 1 ELSE 0) <= 1

\* An answer is taken off the ring in the end, without any help of the watchdog.
AnswersAreTaken == \A i \in Answers : rspProd > i ~> (rspCons > i \/ deviceUnplugged)

\* What was collected is completed, even by a DPC that finds the device gone.
CollectedIsCompleted ==
  \A i \in Answers : IsCollected(i) ~> completed[i] = 1
-------------------------------------------------------------------------------
(* The inductive invariant behind AnswerNoticed.                           *)

Looping(t) == pc[t] \in InLoop

\* A thread never reads past what it saw of rsp_prod.
IndexBehind == \A t \in Threads : index[t] <= rp[t]

\* InDpc says that a thread is in the loop, and there is only one.
OneInLoop ==
  /\ inDpc <=> \E t \in Threads : Looping(t)
  /\ \A t, u \in Threads : Looping(t) /\ Looping(u) => t = u

\* The next answer will be noticed without anybody looking again.
Safe ==
  \/ deviceUnplugged \/ pending
  \/ published # NULL /\ rspEvent \in published + 1 .. rspProd
  \/ \E t \in Threads : pc[t] = "enter"
  \/ rspProd = rspCons /\ rspEvent = rspCons + 1

\* The thread in the loop has asked for an event before it looks again, and
\* stops looking only when that is safe.
LoopLooksAgain ==
  \A t \in Threads :
    /\ pc[t] = "recheck" => rspEvent = rspCons + 1
    /\ pc[t] = "loop" => More(t) \/ Safe

DpcInv == /\ DpcTypeOK /\ IndexBehind /\ OneInLoop /\ LoopLooksAgain
          /\ ~inDpc => Safe

(* The inductive invariant behind CollectedOnce, beside DpcInv.            *)

\* The answer was taken off the ring to be completed, or is completed.
Seen(i) == IsCollected(i) \/ completed[i] # 0 \/ \E t \in Threads : item[t] = i

\* An answer is in the collection, with one thread, or completed: only one of these.
InOnePlace ==
  /\ \A k, l \in DOMAIN requestCollection : requestCollection[k] = requestCollection[l] => k = l
  /\ \A t, u \in Threads : item[t] # NULL /\ item[t] = item[u] => t = u
  /\ \A t \in Threads : item[t] # NULL => ~IsCollected(item[t]) /\ completed[item[t]] = 0
  /\ \A i \in Answers : IsCollected(i) => completed[i] = 0
  /\ \A i \in Answers : completed[i] <= 1

Working(t) == pc[t] \in {"work", "addFailed"}

\* XenDpc will not come across an answer again: those seen are behind its index,
\* or behind rsp_cons when nobody is between the two.  (After the unplug rsp_cons
\* is not written back, and nothing is taken off the ring.)
SeenBehind ==
  ~deviceUnplugged =>
    \A i \in Answers : Seen(i) =>
      /\ \A t \in Threads : Working(t) => i < index[t]
      /\ (\A t \in Threads : ~Working(t)) => i < rspCons

HasItem == \A t \in Threads : pc[t] = "complete" <=> item[t] # NULL

OnceInv == InOnePlace /\ SeenBehind /\ HasItem

===============================================================================
