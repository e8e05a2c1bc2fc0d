---------------------------- MODULE DpcLoop_proofs ----------------------------
(***************************************************************************)
(* No wakeup is lost, for every number of threads, processors and          *)
(* requests.  AnswerNoticed is not inductive: a thread may be about to     *)
(* leave the loop.  DpcInv says what that thread has done before: it asked *)
(* for an event and looked again, or found every entry answered, or saw    *)
(* the device unplugged; or it has found more and goes on.                 *)
(***************************************************************************)
EXTENDS DpcLoop, TLAPS

USE DpcAssumption

-------------------------------------------------------------------------------
(* Types.                                                                  *)

\* The types, and IndexBehind with them, hold at the start.
LEMMA InitTypes == DpcInit => DpcTypeOK /\ IndexBehind
<1> SUFFICES ASSUME DpcInit PROVE DpcTypeOK /\ IndexBehind
  OBVIOUS
<1>1. /\ reqProd \in 0 .. MaxRequests /\ rspProd \in 0 .. reqProd /\ rspCons \in 0 .. rspProd
      /\ rspEvent \in 1 .. MaxRequests + 1
      /\ dpcOverLapCount \in 0 .. MaxOverlaps
  BY DEF DpcInit
<1>2. /\ index \in [Threads -> 0 .. rspProd] /\ rp \in [Threads -> 0 .. rspProd]
      /\ passes \in [Threads -> 0 .. Processors - 1]
      /\ completed \in [Answers -> Nat]
      /\ IndexBehind
  BY DEF DpcInit, IndexBehind
<1>3. requestCollection \in Seq(Answers)
  BY DEF DpcInit
<1>4. /\ published \in (0 .. rspProd) \cup {NULL}
      /\ pending \in BOOLEAN /\ inDpc \in BOOLEAN /\ deviceUnplugged \in BOOLEAN
      /\ fdoLock \in Threads \cup {NULL}
      /\ pc \in [Threads -> PcValues]
      /\ item \in [Threads -> Answers \cup {NULL}]
      /\ moreWork \in [Threads -> BOOLEAN]
  BY DEF DpcInit, PcValues
<1> QED
  BY <1>1, <1>2, <1>3, <1>4 DEF DpcTypeOK, RingTypeOK, SharedTypeOK, LocalTypeOK

\* Steps of the driver and of the backend.
LEMMA EnvironmentTypes ==
  ASSUME DpcTypeOK, IndexBehind,
         PutOnRing \/ BackendPublishes \/ BackendNotifies \/ Unplug
  PROVE  DpcTypeOK' /\ IndexBehind'
<1>1. CASE PutOnRing
  BY <1>1
  DEF PutOnRing, DpcTypeOK, RingTypeOK, SharedTypeOK, LocalTypeOK, IndexBehind, threadVars
<1>2. CASE BackendPublishes
  BY <1>2
  DEF BackendPublishes, DpcTypeOK, RingTypeOK, SharedTypeOK, LocalTypeOK, IndexBehind,
      threadVars
<1>3. CASE BackendNotifies
  BY <1>3
  DEF BackendNotifies, DpcTypeOK, RingTypeOK, SharedTypeOK, LocalTypeOK, IndexBehind,
      threadVars
<1>4. CASE Unplug
  BY <1>4
  DEF Unplug, DpcTypeOK, RingTypeOK, SharedTypeOK, LocalTypeOK, IndexBehind, threadVars,
      ringIndices
<1> QED
  BY <1>1, <1>2, <1>3, <1>4

\* Entering the function, overlapping and getting the lock keep them.
LEMMA EntryTypes ==
  ASSUME DpcTypeOK, IndexBehind, NEW t \in Threads,
         Enter(t) \/ Overlap(t) \/ BeginLoop(t)
  PROVE  DpcTypeOK' /\ IndexBehind'
<1>1. CASE Enter(t)
  BY <1>1
  DEF Enter, Goto, DpcTypeOK, RingTypeOK, SharedTypeOK, LocalTypeOK, IndexBehind,
      ringIndices, InLoop, PcValues
<1>2. CASE Overlap(t)
  BY <1>2
  DEF Overlap, Goto, DpcTypeOK, RingTypeOK, SharedTypeOK, LocalTypeOK, IndexBehind,
      ringIndices, InLoop, PcValues
<1>3. CASE BeginLoop(t)
  BY <1>3
  DEF BeginLoop, Goto, DpcTypeOK, RingTypeOK, SharedTypeOK, LocalTypeOK, IndexBehind,
      ringIndices, InLoop, PcValues
<1> QED
  BY <1>1, <1>2, <1>3

\* The answer a thread looks at exists.
LEMMA AnswerExists ==
  ASSUME DpcTypeOK, IndexBehind, NEW t \in Threads, index[t] # rp[t]
  PROVE  /\ index[t] \in Answers
         /\ index[t] + 1 \in 0 .. rspProd
         /\ index[t] + 1 <= rp[t]
<1>1. /\ index[t] \in 0 .. rspProd /\ rp[t] \in 0 .. rspProd
      /\ rspProd \in 0 .. reqProd /\ reqProd \in 0 .. MaxRequests
  BY DEF DpcTypeOK, RingTypeOK, SharedTypeOK, LocalTypeOK
<1>2. index[t] <= rp[t]
  BY DEF IndexBehind
<1> QED
  BY <1>1, <1>2 DEF Answers

\* So does XenDpc: its index never passes the producer it read.
LEMMA XenDpcTypes ==
  ASSUME DpcTypeOK, IndexBehind, NEW t \in Threads, XenDpcStep(t)
  PROVE  DpcTypeOK' /\ IndexBehind'
<1>1. CASE ReadProducer(t)
  BY <1>1
  DEF ReadProducer, Goto, DpcTypeOK, RingTypeOK, SharedTypeOK, LocalTypeOK, IndexBehind,
      ringIndices, InLoop, PcValues
<1>2. CASE WorkUnplugged(t)
  BY <1>2
  DEF WorkUnplugged, Goto, DpcTypeOK, RingTypeOK, SharedTypeOK, LocalTypeOK, IndexBehind,
      ringIndices, InLoop, PcValues
<1>3. CASE WorkAnswer(t)
  <2>1. requestCollection' \in Seq(Answers)
    <3>1. requestCollection \in Seq(Answers)
      BY DEF DpcTypeOK, SharedTypeOK
    <3>2. index[t] \in Answers
      BY <1>3, AnswerExists DEF WorkAnswer
    <3>3. Append(requestCollection, index[t]) \in Seq(Answers)
      BY <3>1, <3>2
    <3> QED
      BY <1>3, <3>1, <3>3 DEF WorkAnswer
  <2>2. index' \in [Threads -> 0 .. rspProd] /\ IndexBehind'
    <3>1. index' = [index EXCEPT ![t] = index[t] + 1] /\ rp' = rp
      BY <1>3 DEF WorkAnswer
    <3>2. index \in [Threads -> 0 .. rspProd]
      BY DEF DpcTypeOK, LocalTypeOK
    <3>3. /\ index[t] + 1 \in 0 .. rspProd
          /\ index[t] + 1 <= rp[t]
      BY <1>3, AnswerExists DEF WorkAnswer
    <3> QED
      BY <3>1, <3>2, <3>3 DEF IndexBehind
  <2>3. UNCHANGED <<ringIndices, pending, fdoLock, inDpc, dpcOverLapCount, pc, rp, moreWork,
                    passes, item, completed, deviceUnplugged>>
    BY <1>3 DEF WorkAnswer
  <2>4. RingTypeOK'
    BY <2>3 DEF DpcTypeOK, RingTypeOK, ringIndices
  <2>5. SharedTypeOK'
    BY <2>1, <2>3, Zenon DEF DpcTypeOK, SharedTypeOK
  <2>6. LocalTypeOK'
    BY <2>1, <2>2, <2>3 DEF DpcTypeOK, LocalTypeOK, ringIndices
  <2> QED
    BY <2>1, <2>2, <2>4, <2>5, <2>6 DEF DpcTypeOK
<1>4. CASE WorkAddFails(t)
  <2>1. completed' \in [Answers -> Nat]
    BY <1>4, AnswerExists DEF WorkAddFails, DpcTypeOK, RingTypeOK, SharedTypeOK, LocalTypeOK
  <2> QED
    BY <1>4, <2>1, AnswerExists
   
    DEF WorkAddFails, Goto, DpcTypeOK, RingTypeOK, SharedTypeOK, LocalTypeOK, IndexBehind,
        ringIndices, InLoop, PcValues
<1>5. CASE WorkRelocks(t)
  BY <1>5
  DEF WorkRelocks, Goto, DpcTypeOK, RingTypeOK, SharedTypeOK, LocalTypeOK, IndexBehind,
      ringIndices, InLoop, PcValues
<1>6. CASE EndOutstanding(t)
  BY <1>6
  DEF EndOutstanding, Goto, DpcTypeOK, RingTypeOK, SharedTypeOK, LocalTypeOK, IndexBehind,
      InLoop, PcValues
<1>7. CASE Arm(t)
  BY <1>7
  DEF Arm, Goto, DpcTypeOK, RingTypeOK, SharedTypeOK, LocalTypeOK, IndexBehind, InLoop,
      PcValues
<1>8. CASE Recheck(t)
  BY <1>8
  DEF Recheck, Goto, DpcTypeOK, RingTypeOK, SharedTypeOK, LocalTypeOK, IndexBehind,
      ringIndices, InLoop, PcValues
<1>9. CASE EndIdle(t)
  BY <1>9
  DEF EndIdle, Goto, DpcTypeOK, RingTypeOK, SharedTypeOK, LocalTypeOK, IndexBehind, InLoop,
      PcValues
<1> QED
  BY <1>1, <1>2, <1>3, <1>4, <1>5, <1>6, <1>7, <1>8, <1>9 DEF XenDpcStep

\* So does the end of a pass: passes stays below Processors.
LEMMA LoopTypes ==
  ASSUME DpcTypeOK, IndexBehind, NEW t \in Threads,
         Again(t) \/ Reschedule(t) \/ LeaveLoop(t)
  PROVE  DpcTypeOK' /\ IndexBehind'
<1>1. CASE Again(t)
  <2>1. passes' \in [Threads -> 0 .. Processors - 1]
    BY <1>1 DEF Again, DpcTypeOK, RingTypeOK, SharedTypeOK, LocalTypeOK
  <2>2. pc' \in [Threads -> PcValues]
    BY <1>1
    DEF Again, Goto, DpcTypeOK, RingTypeOK, SharedTypeOK, LocalTypeOK, InLoop, PcValues
  <2> QED
    BY <1>1, <2>1, <2>2
    DEF Again, DpcTypeOK, RingTypeOK, SharedTypeOK, LocalTypeOK, IndexBehind, ringIndices
<1>2. CASE Reschedule(t)
  <2>1. /\ passes' \in [Threads -> 0 .. Processors - 1]
        /\ index' \in [Threads -> 0 .. rspProd] /\ rp' \in [Threads -> 0 .. rspProd]
        /\ IndexBehind'
    BY <1>2
    DEF Reschedule, EndLoop, DpcTypeOK, RingTypeOK, SharedTypeOK, LocalTypeOK, IndexBehind
  <2>2. /\ pc' \in [Threads -> PcValues]
        /\ moreWork' \in [Threads -> BOOLEAN]
    BY <1>2
    DEF Reschedule, EndLoop, Goto, DpcTypeOK, RingTypeOK, SharedTypeOK, LocalTypeOK,
        InLoop, PcValues
  <2>3. /\ pending' = TRUE /\ inDpc' = FALSE /\ dpcOverLapCount' = 0
        /\ UNCHANGED <<ringIndices, fdoLock, requestCollection, item, completed,
                       deviceUnplugged>>
    BY <1>2 DEF Reschedule, EndLoop
  <2>4. RingTypeOK'
    BY <2>3 DEF DpcTypeOK, RingTypeOK, ringIndices
  <2>5. SharedTypeOK'
    <3>1. dpcOverLapCount' \in 0 .. MaxOverlaps
      BY <2>3 DEF DpcTypeOK, SharedTypeOK
    <3> QED
      BY <2>3, <3>1, Zenon DEF DpcTypeOK, SharedTypeOK
  <2>6. LocalTypeOK'
    BY <2>1, <2>2, <2>3 DEF DpcTypeOK, LocalTypeOK, ringIndices
  <2> QED
    BY <2>1, <2>2, <2>4, <2>5, <2>6 DEF DpcTypeOK
<1>3. CASE LeaveLoop(t)
  <2>1. /\ passes' \in [Threads -> 0 .. Processors - 1]
        /\ index' \in [Threads -> 0 .. rspProd] /\ rp' \in [Threads -> 0 .. rspProd]
        /\ IndexBehind'
    BY <1>3
    DEF LeaveLoop, EndLoop, DpcTypeOK, RingTypeOK, SharedTypeOK, LocalTypeOK, IndexBehind
  <2>2. /\ pc' \in [Threads -> PcValues]
        /\ moreWork' \in [Threads -> BOOLEAN]
    BY <1>3
    DEF LeaveLoop, EndLoop, Goto, DpcTypeOK, RingTypeOK, SharedTypeOK, LocalTypeOK, InLoop,
        PcValues
  <2>3. /\ inDpc' = FALSE
        /\ UNCHANGED <<ringIndices, pending, fdoLock, dpcOverLapCount, requestCollection, item,
                       completed, deviceUnplugged>>
    BY <1>3 DEF LeaveLoop, EndLoop
  <2>4. RingTypeOK'
    BY <2>3 DEF DpcTypeOK, RingTypeOK, ringIndices
  <2>5. SharedTypeOK'
    <3>1. dpcOverLapCount' \in 0 .. MaxOverlaps
      BY <2>3 DEF DpcTypeOK, SharedTypeOK
    <3> QED
      BY <2>3, <3>1, Zenon DEF DpcTypeOK, SharedTypeOK
  <2>6. LocalTypeOK'
    BY <2>1, <2>2, <2>3 DEF DpcTypeOK, LocalTypeOK, ringIndices
  <2> QED
    BY <2>1, <2>2, <2>4, <2>5, <2>6 DEF DpcTypeOK
<1> QED
  BY <1>1, <1>2, <1>3

\* So does the completion of what was collected.
LEMMA CompletionTypes ==
  ASSUME DpcTypeOK, IndexBehind, NEW t \in Threads,
         TakeCollected(t) \/ CompleteTaken(t) \/ Relock(t) \/ Leave(t)
  PROVE  DpcTypeOK' /\ IndexBehind'
<1>1. CASE TakeCollected(t)
  <2>1. /\ Head(requestCollection) \in Answers
        /\ Tail(requestCollection) \in Seq(Answers)
    BY <1>1 DEF TakeCollected, DpcTypeOK, RingTypeOK, SharedTypeOK, LocalTypeOK
  <2>2. /\ item' \in [Threads -> Answers \cup {NULL}]
        /\ requestCollection' \in Seq(Answers)
    BY <1>1, <2>1 DEF TakeCollected, DpcTypeOK, RingTypeOK, SharedTypeOK, LocalTypeOK
  <2>3. pc' \in [Threads -> PcValues]
    BY <1>1
    DEF TakeCollected, Goto, DpcTypeOK, RingTypeOK, SharedTypeOK, LocalTypeOK, InLoop,
        PcValues
  <2>4. /\ fdoLock' \in Threads \cup {NULL}
        /\ UNCHANGED <<ringIndices, pending, inDpc, dpcOverLapCount, index, rp, moreWork,
                       passes, completed, deviceUnplugged>>
    BY <1>1 DEF TakeCollected
  <2>5. RingTypeOK' /\ IndexBehind'
    BY <2>4 DEF DpcTypeOK, RingTypeOK, IndexBehind, ringIndices
  <2>6. SharedTypeOK'
    BY <2>2, <2>4 DEF DpcTypeOK, SharedTypeOK
  <2>7. LocalTypeOK'
    BY <2>2, <2>3, <2>4 DEF DpcTypeOK, LocalTypeOK, ringIndices
  <2> QED
    BY <2>5, <2>6, <2>7 DEF DpcTypeOK
<1>2. CASE CompleteTaken(t)
  <2>1. completed' \in [Answers -> Nat]
    <3>1. /\ completed' = [completed EXCEPT ![item[t]] = completed[item[t]] + 1]
          /\ completed \in [Answers -> Nat]
      BY <1>2 DEF CompleteTaken, DpcTypeOK, SharedTypeOK
    <3>2. CASE item[t] \in Answers
      BY <3>1, <3>2
    <3>3. CASE item[t] \notin Answers
      BY <3>1, <3>3
    <3> QED
      BY <3>2, <3>3
  <2>2. /\ pc' \in [Threads -> PcValues]
        /\ item' \in [Threads -> Answers \cup {NULL}]
    BY <1>2 DEF CompleteTaken, Goto, DpcTypeOK, LocalTypeOK, PcValues
  <2>3. UNCHANGED <<ringIndices, pending, fdoLock, inDpc, dpcOverLapCount, requestCollection,
                    index, rp, moreWork, passes, deviceUnplugged>>
    BY <1>2 DEF CompleteTaken
  <2>4. RingTypeOK' /\ IndexBehind'
    BY <2>3 DEF DpcTypeOK, RingTypeOK, IndexBehind, ringIndices
  <2>5. SharedTypeOK'
    BY <2>1, <2>3 DEF DpcTypeOK, SharedTypeOK
  <2>6. LocalTypeOK'
    BY <2>2, <2>3 DEF DpcTypeOK, LocalTypeOK, ringIndices
  <2> QED
    BY <2>4, <2>5, <2>6 DEF DpcTypeOK
<1>3. CASE Relock(t)
  BY <1>3
  DEF Relock, Goto, DpcTypeOK, RingTypeOK, SharedTypeOK, LocalTypeOK, IndexBehind,
      ringIndices, InLoop, PcValues
<1>4. CASE Leave(t)
  BY <1>4
  DEF Leave, Goto, DpcTypeOK, RingTypeOK, SharedTypeOK, LocalTypeOK, IndexBehind,
      ringIndices, InLoop, PcValues
<1> QED
  BY <1>1, <1>2, <1>3, <1>4

\* Every step keeps the types.
LEMMA StepTypes ==
  ASSUME DpcTypeOK, IndexBehind, [DpcNext]_dpcLoopVars
  PROVE  DpcTypeOK' /\ IndexBehind'
<1>1. CASE UNCHANGED dpcLoopVars
  BY <1>1
  DEF dpcLoopVars, ringIndices, threadVars, DpcTypeOK, RingTypeOK, SharedTypeOK,
      LocalTypeOK, IndexBehind
<1>2. CASE PutOnRing \/ BackendPublishes \/ BackendNotifies \/ Unplug
  BY <1>2, EnvironmentTypes
<1>3. ASSUME NEW t \in Threads, Enter(t) \/ DpcFuncStep(t)
      PROVE  DpcTypeOK' /\ IndexBehind'
  BY <1>3, EntryTypes, XenDpcTypes, LoopTypes, CompletionTypes DEF DpcFuncStep
<1> QED
  BY <1>1, <1>2, <1>3 DEF DpcNext

\* Every variable of the DPC loop keeps its range, the ring indices their order,
\* for every number of threads (FdoEvtDeviceDpcFunc, XenDpc).
THEOREM DpcTypeCorrect == DpcSpec => []DpcTypeOK
<1>1. DpcInit => DpcTypeOK /\ IndexBehind
  BY InitTypes
<1>2. DpcTypeOK /\ IndexBehind /\ [DpcNext]_dpcLoopVars => DpcTypeOK' /\ IndexBehind'
  BY StepTypes
<1> QED
  BY <1>1, <1>2, PTL DEF DpcSpec

-------------------------------------------------------------------------------
(* The loop invariant.                                                     *)

\* The inductive invariant holds at the start.
LEMMA InitInv == DpcInit => DpcInv
<1> SUFFICES ASSUME DpcInit PROVE DpcInv
  OBVIOUS
<1>1. DpcTypeOK /\ IndexBehind
  BY InitTypes
<1>2. \A t \in Threads : pc[t] = "idle"
  BY DEF DpcInit
<1>3. OneInLoop /\ LoopLooksAgain
  BY <1>2 DEF DpcInit, OneInLoop, LoopLooksAgain, Looping, InLoop
<1>4. Safe
  BY DEF DpcInit, Safe
<1> QED
  BY <1>1, <1>3, <1>4 DEF DpcInv

\* The backend never makes the state unsafe: what it publishes past rsp_event
\* it is going to signal.
LEMMA BackendSafe ==
  ASSUME DpcTypeOK, Safe, BackendPublishes \/ BackendNotifies
  PROVE  Safe'
<1>1. CASE BackendPublishes
  <2>1. /\ rspProd \in Nat /\ rspCons \in Nat /\ rspProd < rspProd' /\ rspProd' \in Nat
        /\ published' = rspProd /\ published = NULL
        /\ UNCHANGED <<rspEvent, rspCons, deviceUnplugged, pending, pc>>
    BY <1>1 DEF BackendPublishes, DpcTypeOK, RingTypeOK, threadVars
  <2>2. published' # NULL
    BY <2>1, DpcAssumption DEF DpcTypeOK, RingTypeOK
  <2> QED
    BY <2>1, <2>2 DEF Safe
<1>2. CASE BackendNotifies
  BY <1>2 DEF BackendNotifies, Safe, threadVars
<1> QED
  BY <1>1, <1>2

\* The driver, the backend and the unplug keep it: the backend that publishes an
\* answer owes the look at rsp_event that Safe counts on.
LEMMA EnvironmentInv ==
  ASSUME DpcInv, PutOnRing \/ BackendPublishes \/ BackendNotifies \/ Unplug
  PROVE  OneInLoop' /\ LoopLooksAgain' /\ (~inDpc => Safe)'
<1>1. UNCHANGED <<pc, inDpc, rspEvent, rspCons, moreWork, dpcOverLapCount>>
  BY DEF PutOnRing, BackendPublishes, BackendNotifies, Unplug, threadVars, ringIndices
<1>2. OneInLoop'
  BY <1>1 DEF DpcInv, OneInLoop, Looping
<1>3. Safe => Safe'
  <2>1. CASE PutOnRing
    BY <2>1 DEF PutOnRing, Safe, threadVars
  <2>2. CASE Unplug
    BY <2>2 DEF Unplug, Safe
  <2> QED
    BY <2>1, <2>2, BackendSafe DEF DpcInv
<1>4. LoopLooksAgain'
  BY <1>1, <1>3 DEF DpcInv, LoopLooksAgain, More
<1> QED
  BY <1>1, <1>2, <1>3, <1>4 DEF DpcInv

\* A thread that enters or overlaps does not disturb the one in the loop.
LEMMA EnterInv ==
  ASSUME DpcInv, NEW t \in Threads, Enter(t)
  PROVE  OneInLoop' /\ LoopLooksAgain' /\ (~inDpc => Safe)'
<1>1. /\ pc[t] = "idle" /\ pc' = [pc EXCEPT ![t] = "enter"]
      /\ UNCHANGED <<inDpc, rspEvent, rspCons, moreWork, dpcOverLapCount>>
      /\ pc \in [Threads -> PcValues]
  BY DEF Enter, Goto, ringIndices, DpcInv, DpcTypeOK, LocalTypeOK
<1>2. OneInLoop'
  BY <1>1 DEF DpcInv, OneInLoop, Looping, InLoop
<1>3. Safe'
  BY <1>1 DEF Safe
<1>4. LoopLooksAgain'
  BY <1>1, <1>3 DEF DpcInv, LoopLooksAgain
<1> QED
  BY <1>2, <1>3, <1>4

\* A thread that overlaps leaves a count behind, which the looping thread sees.
LEMMA OverlapInv ==
  ASSUME DpcInv, NEW t \in Threads, Overlap(t)
  PROVE  OneInLoop' /\ LoopLooksAgain' /\ (~inDpc => Safe)'
<1>1. /\ pc[t] = "enter" /\ pc' = [pc EXCEPT ![t] = "idle"] /\ inDpc
      /\ dpcOverLapCount' # 0
      /\ UNCHANGED <<inDpc, rspEvent, rspCons, moreWork>>
      /\ pc \in [Threads -> PcValues]
  BY DEF Overlap, Goto, ringIndices, DpcInv, DpcTypeOK, SharedTypeOK, LocalTypeOK
<1>2. OneInLoop'
  BY <1>1 DEF DpcInv, OneInLoop, Looping, InLoop
<1>3. LoopLooksAgain'
  BY <1>1 DEF DpcInv, LoopLooksAgain, More
<1> QED
  BY <1>1, <1>2, <1>3

\* A thread gets into the loop only when nobody is in it.
LEMMA BeginLoopInv ==
  ASSUME DpcInv, NEW t \in Threads, BeginLoop(t)
  PROVE  OneInLoop' /\ LoopLooksAgain' /\ (~inDpc => Safe)'
<1>1. /\ pc[t] = "enter" /\ pc' = [pc EXCEPT ![t] = "scan"] /\ ~inDpc /\ inDpc' = TRUE
      /\ pc \in [Threads -> PcValues]
  BY DEF BeginLoop, Goto, DpcInv, DpcTypeOK, LocalTypeOK
<1>2. \A u \in Threads : pc[u] \notin InLoop
  BY <1>1 DEF DpcInv, OneInLoop, Looping
<1>3. /\ Looping(t)'
      /\ \A u \in Threads : u # t => ~Looping(u)'
  BY <1>1, <1>2 DEF Looping, InLoop
<1>4. OneInLoop'
  BY <1>1, <1>3 DEF OneInLoop
<1>5. LoopLooksAgain'
  <2>1. \A u \in Threads : pc'[u] \notin {"recheck", "loop"}
    BY <1>1, <1>2 DEF InLoop
  <2> QED
    BY <2>1 DEF LoopLooksAgain
<1> QED
  BY <1>1, <1>4, <1>5

\* A step of the looping thread inside the loop: it stays the only one, so only
\* what it has to know itself at its next place is left to show.
LEMMA StaysInLoop ==
  ASSUME DpcInv, NEW t \in Threads, Looping(t), NEW where \in InLoop,
         pc' = [pc EXCEPT ![t] = where], inDpc' = inDpc,
         where = "recheck" => rspEvent' = rspCons' + 1,
         where = "loop" => More(t)' \/ Safe'
  PROVE  OneInLoop' /\ LoopLooksAgain' /\ (~inDpc => Safe)'
<1>1. pc \in [Threads -> PcValues]
  BY DEF DpcInv, DpcTypeOK, LocalTypeOK
<1>2. /\ \A u \in Threads : u # t => pc'[u] = pc[u] /\ pc'[u] \notin InLoop
      /\ pc'[t] = where
  BY <1>1 DEF DpcInv, OneInLoop, Looping
<1>3. inDpc'
  BY DEF DpcInv, OneInLoop
<1>4. OneInLoop'
  BY <1>2, <1>3 DEF OneInLoop, Looping
<1>5. \A u \in Threads : u # t => pc'[u] \notin {"recheck", "loop"}
  BY <1>2 DEF InLoop
<1>6. LoopLooksAgain'
  BY <1>2, <1>5 DEF LoopLooksAgain
<1> QED
  BY <1>3, <1>4, <1>6

\* In XenDpc: whoever stops looking has asked for an event and looked again.
LEMMA XenDpcInv ==
  ASSUME DpcInv, NEW t \in Threads, XenDpcStep(t)
  PROVE  OneInLoop' /\ LoopLooksAgain' /\ (~inDpc => Safe)'
<1>1. CASE ReadProducer(t)
  <2>1. Looping(t) /\ pc' = [pc EXCEPT ![t] = "work"] /\ inDpc' = inDpc
    BY <1>1 DEF ReadProducer, Goto, Looping, InLoop
  <2> QED
    BY <2>1, StaysInLoop DEF InLoop
<1>2. CASE WorkUnplugged(t)
  <2>1. /\ Looping(t) /\ pc' = [pc EXCEPT ![t] = "loop"] /\ inDpc' = inDpc
        /\ deviceUnplugged'
    BY <1>2 DEF WorkUnplugged, Goto, Looping, InLoop
  <2>2. Safe'
    BY <2>1 DEF Safe
  <2> QED
    BY <2>1, <2>2, StaysInLoop DEF InLoop
<1>3. CASE WorkAnswer(t)
  <2>1. Looping(t) /\ pc[t] = "work" /\ pc' = pc /\ inDpc' = inDpc
    BY <1>3 DEF WorkAnswer, Looping, InLoop
  <2>2. pc' = [pc EXCEPT ![t] = "work"]
    BY <2>1 DEF DpcInv, DpcTypeOK, LocalTypeOK
  <2> QED
    BY <2>1, <2>2, StaysInLoop DEF InLoop
<1>4. CASE WorkAddFails(t)
  <2>1. Looping(t) /\ pc' = [pc EXCEPT ![t] = "addFailed"] /\ inDpc' = inDpc
    BY <1>4 DEF WorkAddFails, Goto, Looping, InLoop
  <2> QED
    BY <2>1, StaysInLoop DEF InLoop
<1>5. CASE WorkRelocks(t)
  <2>1. Looping(t) /\ pc' = [pc EXCEPT ![t] = "work"] /\ inDpc' = inDpc
    BY <1>5 DEF WorkRelocks, Goto, Looping, InLoop
  <2> QED
    BY <2>1, StaysInLoop DEF InLoop
<1>6. CASE EndOutstanding(t)
  <2>1. Looping(t) /\ inDpc' = inDpc
    BY <1>6 DEF EndOutstanding, Looping, InLoop
  <2>2. CASE rspProd # index[t]
    <3>1. pc' = [pc EXCEPT ![t] = "loop"] /\ moreWork'[t]
      BY <1>6, <2>2 DEF EndOutstanding, Goto, DpcInv, DpcTypeOK, LocalTypeOK
    <3>2. More(t)'
      BY <3>1 DEF More
    <3> QED
      BY <2>1, <3>1, <3>2, StaysInLoop DEF InLoop
  <2>3. CASE rspProd = index[t]
    <3>1. pc' = [pc EXCEPT ![t] = "arm"]
      BY <1>6, <2>3 DEF EndOutstanding, Goto
    <3> QED
      BY <2>1, <3>1, StaysInLoop DEF InLoop
  <2> QED
    BY <2>2, <2>3
<1>7. CASE Arm(t)
  <2>1. /\ Looping(t) /\ pc' = [pc EXCEPT ![t] = "recheck"] /\ inDpc' = inDpc
        /\ rspEvent' = rspCons' + 1
    BY <1>7 DEF Arm, Goto, Looping, InLoop
  <2> QED
    BY <2>1, StaysInLoop DEF InLoop
<1>8. CASE Recheck(t)
  <2>1. /\ Looping(t) /\ pc' = [pc EXCEPT ![t] = "loop"] /\ inDpc' = inDpc
        /\ moreWork'[t] = (rspProd # rspCons)
        /\ UNCHANGED <<rspProd, rspCons, rspEvent>>
    BY <1>8 DEF Recheck, Goto, Looping, InLoop, ringIndices, DpcInv, DpcTypeOK, LocalTypeOK
  <2>2. rspEvent = rspCons + 1
    BY <1>8 DEF Recheck, DpcInv, LoopLooksAgain
  <2>3. More(t)' \/ Safe'
    BY <2>1, <2>2 DEF More, Safe
  <2> QED
    BY <2>1, <2>3, StaysInLoop DEF InLoop
<1>9. CASE EndIdle(t)
  <2>1. Looping(t) /\ pc' = [pc EXCEPT ![t] = "loop"] /\ inDpc' = inDpc
    BY <1>9 DEF EndIdle, Goto, Looping, InLoop
  <2>2. rspProd = index[t]
    BY <1>9 DEF EndIdle, DpcInv, DpcTypeOK, RingTypeOK, LocalTypeOK
  <2>3. Safe'
    BY <1>9, <2>2 DEF EndIdle, Safe
  <2> QED
    BY <2>1, <2>3, StaysInLoop DEF InLoop
<1> QED
  BY <1>1, <1>2, <1>3, <1>4, <1>5, <1>6, <1>7, <1>8, <1>9 DEF XenDpcStep

\* A thread leaves the loop only when that is safe.
LEMMA LeavesLoop ==
  ASSUME DpcInv, NEW t \in Threads, Looping(t),
         pc' = [pc EXCEPT ![t] = "collect"], inDpc' = FALSE, Safe'
  PROVE  OneInLoop' /\ LoopLooksAgain' /\ (~inDpc => Safe)'
<1>1. pc \in [Threads -> PcValues]
  BY DEF DpcInv, DpcTypeOK, LocalTypeOK
<1>2. \A u \in Threads : pc'[u] \notin InLoop
  BY <1>1 DEF DpcInv, OneInLoop, Looping, InLoop
<1>3. \A u \in Threads : pc'[u] \notin {"recheck", "loop"}
  BY <1>2 DEF InLoop
<1> QED
  BY <1>2, <1>3 DEF OneInLoop, LoopLooksAgain, Looping

\* At the end of a pass: nobody leaves the loop unless that is Safe.
LEMMA LoopInv ==
  ASSUME DpcInv, NEW t \in Threads, Again(t) \/ Reschedule(t) \/ LeaveLoop(t)
  PROVE  OneInLoop' /\ LoopLooksAgain' /\ (~inDpc => Safe)'
<1>1. Looping(t)
  BY DEF Again, Reschedule, LeaveLoop, Looping, InLoop
<1>2. CASE Again(t)
  <2>1. pc' = [pc EXCEPT ![t] = "scan"] /\ inDpc' = inDpc
    BY <1>2 DEF Again, Goto
  <2> QED
    BY <1>1, <2>1, StaysInLoop DEF InLoop
<1>3. CASE Reschedule(t)
  <2>1. pc' = [pc EXCEPT ![t] = "collect"] /\ inDpc' = FALSE /\ pending'
    BY <1>3 DEF Reschedule, EndLoop, Goto
  <2>2. Safe'
    BY <2>1 DEF Safe
  <2> QED
    BY <1>1, <2>1, <2>2, LeavesLoop
<1>4. CASE LeaveLoop(t)
  <2>1. /\ pc[t] = "loop" /\ ~More(t)
        /\ pc' = [pc EXCEPT ![t] = "collect"] /\ inDpc' = FALSE
        /\ UNCHANGED <<rspProd, rspEvent, rspCons, published, pending, deviceUnplugged>>
    BY <1>4 DEF LeaveLoop, EndLoop, Goto, ringIndices
  <2>2. Safe
    BY <2>1 DEF DpcInv, LoopLooksAgain
  <2>3. \A u \in Threads : pc[u] = "enter" => pc'[u] = "enter"
    BY <2>1 DEF DpcInv, DpcTypeOK, LocalTypeOK
  <2>4. Safe'
    BY <2>1, <2>2, <2>3 DEF Safe
  <2> QED
    BY <1>1, <2>1, <2>4, LeavesLoop
<1> QED
  BY <1>2, <1>3, <1>4

\* Completing what was collected touches nothing the invariant speaks of.
LEMMA CompletionInv ==
  ASSUME DpcInv, NEW t \in Threads,
         TakeCollected(t) \/ CompleteTaken(t) \/ Relock(t) \/ Leave(t)
  PROVE  OneInLoop' /\ LoopLooksAgain' /\ (~inDpc => Safe)'
<1>1. PICK where \in {"complete", "relock", "collect", "idle"} :
        pc' = [pc EXCEPT ![t] = where]
  BY DEF TakeCollected, CompleteTaken, Relock, Leave, Goto
<1>2. /\ pc[t] \in {"collect", "complete", "relock"}
      /\ UNCHANGED <<rspProd, rspEvent, rspCons, published, pending, inDpc,
                     dpcOverLapCount, moreWork, deviceUnplugged>>
  BY DEF TakeCollected, CompleteTaken, Relock, Leave, ringIndices
<1>3. pc \in [Threads -> PcValues]
  BY DEF DpcInv, DpcTypeOK, LocalTypeOK
<1>4. \A u \in Threads : \A w \in InLoop \cup {"enter"} : pc'[u] = w <=> pc[u] = w
  BY <1>1, <1>2, <1>3 DEF InLoop
<1>5. \A u \in Threads : Looping(u)' <=> Looping(u)
  BY <1>4 DEF Looping
<1>6. OneInLoop'
  BY <1>2, <1>5 DEF DpcInv, OneInLoop
<1>7. Safe => Safe'
  BY <1>2, <1>4 DEF Safe
<1>8. LoopLooksAgain'
  BY <1>2, <1>4, <1>7 DEF DpcInv, LoopLooksAgain, More, InLoop
<1> QED
  BY <1>2, <1>6, <1>7, <1>8 DEF DpcInv

\* Every step keeps the inductive invariant.
LEMMA StepInv == DpcInv /\ [DpcNext]_dpcLoopVars => DpcInv'
<1> SUFFICES ASSUME DpcInv, [DpcNext]_dpcLoopVars PROVE DpcInv'
  OBVIOUS
<1>1. DpcTypeOK' /\ IndexBehind'
  BY StepTypes DEF DpcInv
<1>2. OneInLoop' /\ LoopLooksAgain' /\ (~inDpc => Safe)'
  <2>1. CASE UNCHANGED dpcLoopVars
    BY <2>1
    DEF DpcInv, dpcLoopVars, ringIndices, threadVars, OneInLoop, Looping, LoopLooksAgain,
        More, Safe
  <2>2. CASE PutOnRing \/ BackendPublishes \/ BackendNotifies \/ Unplug
    BY <2>2, EnvironmentInv
  <2>3. ASSUME NEW t \in Threads, Enter(t) \/ DpcFuncStep(t)
        PROVE  OneInLoop' /\ LoopLooksAgain' /\ (~inDpc => Safe)'
    BY <2>3, EnterInv, OverlapInv, BeginLoopInv, XenDpcInv, LoopInv, CompletionInv
    DEF DpcFuncStep
  <2> QED
    BY <2>1, <2>2, <2>3 DEF DpcNext
<1> QED
  BY <1>1, <1>2 DEF DpcInv

\* No answer waits unnoticed, whatever the backend, the DPCs, the watchdog and a
\* failing collection do (XenDpc's RING_FINAL_CHECK_FOR_RESPONSES and rsp_event).
THEOREM NoLostWakeup == DpcSpec => []AnswerNoticed
<1>1. DpcInv => AnswerNoticed
  BY DEF DpcInv, OneInLoop, Looping, Safe, AnswerNoticed
<1> QED
  BY <1>1, InitInv, StepInv, PTL DEF DpcSpec

-------------------------------------------------------------------------------
(* Nothing is completed twice.                                             *)

\* An index that is added to the collection.
LEMMA AppendCollects ==
  ASSUME requestCollection \in Seq(Answers), NEW j \in Answers,
         requestCollection' = Append(requestCollection, j)
  PROVE  /\ \A i \in Answers : IsCollected(i)' <=> IsCollected(i) \/ i = j
         /\ ~IsCollected(j) /\ (\A k, l \in DOMAIN requestCollection :
                                  requestCollection[k] = requestCollection[l] => k = l)
            => \A k, l \in DOMAIN requestCollection' :
                 requestCollection'[k] = requestCollection'[l] => k = l
<1>1. /\ DOMAIN requestCollection = 1 .. Len(requestCollection)
      /\ DOMAIN requestCollection' = 1 .. Len(requestCollection) + 1
      /\ Len(requestCollection) \in Nat
      /\ requestCollection'[Len(requestCollection) + 1] = j
      /\ \A k \in 1 .. Len(requestCollection) : requestCollection'[k] = requestCollection[k]
  OBVIOUS
<1>2. \A k \in 1 .. Len(requestCollection) + 1 :
        k \in 1 .. Len(requestCollection) \/ k = Len(requestCollection) + 1
  BY <1>1
<1> QED
  BY <1>1, <1>2 DEF IsCollected

\* The first index leaves the collection.
LEMMA TakeUncollects ==
  ASSUME requestCollection \in Seq(Answers), requestCollection # <<>>,
         requestCollection' = Tail(requestCollection),
         \A k, l \in DOMAIN requestCollection :
           requestCollection[k] = requestCollection[l] => k = l
  PROVE  /\ Head(requestCollection) \in Answers /\ IsCollected(Head(requestCollection))
         /\ \A i \in Answers :
              IsCollected(i)' <=> IsCollected(i) /\ i # Head(requestCollection)
         /\ \A k, l \in DOMAIN requestCollection' :
              requestCollection'[k] = requestCollection'[l] => k = l
<1> DEFINE n == Len(requestCollection)
<1>1. /\ n \in Nat /\ n > 0
      /\ DOMAIN requestCollection = 1 .. n /\ DOMAIN requestCollection' = 1 .. n - 1
      /\ Head(requestCollection) = requestCollection[1]
      /\ \A k \in 1 .. n - 1 : requestCollection'[k] = requestCollection[k + 1]
      /\ requestCollection[1] \in Answers
  OBVIOUS
<1>2. \A k \in 1 .. n - 1 : k + 1 \in 1 .. n /\ k + 1 # 1
  BY <1>1
<1>3. \A k \in 1 .. n : k = 1 \/ (k - 1 \in 1 .. n - 1 /\ (k - 1) + 1 = k)
  BY <1>1
<1>4. 1 \in 1 .. n
  BY <1>1
<1>5. IsCollected(Head(requestCollection))
  BY <1>1, <1>4 DEF IsCollected
<1>6. ASSUME NEW i \in Answers
      PROVE  IsCollected(i)' <=> IsCollected(i) /\ i # Head(requestCollection)
  <2>1. IsCollected(i)' => IsCollected(i) /\ i # Head(requestCollection)
    BY <1>1, <1>2, <1>4 DEF IsCollected
  <2>2. IsCollected(i) /\ i # Head(requestCollection) => IsCollected(i)'
    <3> SUFFICES ASSUME IsCollected(i), i # Head(requestCollection)
                 PROVE  IsCollected(i)'
      OBVIOUS
    <3>1. PICK k \in 1 .. n : requestCollection[k] = i
      BY <1>1 DEF IsCollected
    <3>2. k - 1 \in 1 .. n - 1 /\ requestCollection'[k - 1] = i
      BY <1>1, <1>3, <3>1
    <3> QED
      BY <1>1, <3>2 DEF IsCollected
  <2> QED
    BY <2>1, <2>2
<1>7. \A k, l \in 1 .. n - 1 : requestCollection[k + 1] = requestCollection[l + 1] => k = l
  BY <1>1, <1>2
<1> QED
  BY <1>1, <1>5, <1>6, <1>7

\* Steps that leave the requests alone.
LEMMA OnceQuiet ==
  ASSUME OnceInv, UNCHANGED <<requestCollection, completed, item>>
  PROVE  InOnePlace' /\ \A i \in Answers : Seen(i)' <=> Seen(i)
BY DEF OnceInv, InOnePlace, Seen, IsCollected

\* At the start nothing was seen.
LEMMA InitOnce == DpcInit => OnceInv
<1> SUFFICES ASSUME DpcInit PROVE OnceInv
  OBVIOUS
<1>1. /\ DOMAIN requestCollection = {}
      /\ \A t \in Threads : item[t] = NULL /\ pc[t] = "idle"
      /\ \A i \in Answers : completed[i] = 0
  BY DEF DpcInit
<1>2. \A i \in Answers : ~IsCollected(i)
  BY <1>1 DEF IsCollected
<1>3. NULL \notin Answers
  BY DEF Answers
<1> QED
  BY <1>1, <1>2, <1>3 DEF OnceInv, InOnePlace, SeenBehind, Seen, HasItem

\* Steps outside of XenDpc that leave the requests, the indices of the working
\* threads and rsp_cons alone.
LEMMA QuietSteps ==
  ASSUME DpcInv, OnceInv, UNCHANGED <<requestCollection, completed, item, rspCons>>,
         deviceUnplugged => deviceUnplugged',
         \A t \in Threads : pc'[t] = "complete" <=> pc[t] = "complete",
         deviceUnplugged' \/ \A t \in Threads :
           (Working(t)' <=> Working(t)) /\ (Working(t) => index'[t] = index[t])
  PROVE  OnceInv'
<1>1. InOnePlace' /\ \A i \in Answers : Seen(i)' <=> Seen(i)
  BY OnceQuiet
<1>2. HasItem'
  BY DEF OnceInv, HasItem
<1>3. SeenBehind'
  BY <1>1 DEF OnceInv, SeenBehind
<1> QED
  BY <1>1, <1>2, <1>3 DEF OnceInv

\* The driver, the backend, and threads that enter or overlap.
LEMMA EnvironmentOnce ==
  ASSUME DpcInv, OnceInv,
         \/ PutOnRing \/ BackendPublishes \/ BackendNotifies \/ Unplug
         \/ \E t \in Threads : Enter(t) \/ Overlap(t) \/ BeginLoop(t)
  PROVE  OnceInv'
<1>1. /\ UNCHANGED <<requestCollection, completed, item, rspCons, index>>
      /\ deviceUnplugged => deviceUnplugged'
  BY DEF PutOnRing, BackendPublishes, BackendNotifies, Unplug, Enter, Overlap, BeginLoop,
         threadVars, ringIndices
<1>2. \A t \in Threads : \A w \in {"complete", "work", "addFailed"} : pc'[t] = w <=> pc[t] = w
  <2>1. CASE PutOnRing \/ BackendPublishes \/ BackendNotifies \/ Unplug
    BY <2>1 DEF PutOnRing, BackendPublishes, BackendNotifies, Unplug, threadVars
  <2>2. ASSUME NEW t \in Threads, Enter(t) \/ Overlap(t) \/ BeginLoop(t)
        PROVE  \A u \in Threads : \A w \in {"complete", "work", "addFailed"} :
                 pc'[u] = w <=> pc[u] = w
    BY <2>2 DEF Enter, Overlap, BeginLoop, Goto, DpcInv, DpcTypeOK, LocalTypeOK
  <2> QED
    BY <2>1, <2>2
<1> QED
  BY <1>1, <1>2, QuietSteps DEF Working

\* Steps of the loop that touch neither the requests nor rsp_cons, and do not
\* move the index.
LEMMA LoopOnce ==
  ASSUME DpcInv, OnceInv, NEW t \in Threads,
         \/ WorkUnplugged(t) \/ WorkRelocks(t) \/ Arm(t) \/ Recheck(t)
         \/ Again(t) \/ Reschedule(t) \/ LeaveLoop(t) \/ Relock(t) \/ Leave(t)
  PROVE  OnceInv'
<1>1. /\ UNCHANGED <<requestCollection, completed, item, rspCons, deviceUnplugged>>
      /\ pc \in [Threads -> PcValues] /\ index \in [Threads -> 0 .. rspProd]
  BY DEF WorkUnplugged, WorkRelocks, Arm, Recheck, Again, Reschedule, LeaveLoop, Relock, Leave,
         ringIndices, DpcInv, DpcTypeOK, LocalTypeOK
<1>2. PICK where \in {"work", "recheck", "loop", "scan", "collect", "idle"} :
        pc' = [pc EXCEPT ![t] = where]
  BY DEF WorkUnplugged, WorkRelocks, Arm, Recheck, Again, Reschedule, LeaveLoop, Relock, Leave,
         EndLoop, Goto
<1>3. pc[t] # "complete"
  BY DEF WorkUnplugged, WorkRelocks, Arm, Recheck, Again, Reschedule, LeaveLoop, Relock, Leave
<1>4. \A u \in Threads : pc'[u] = "complete" <=> pc[u] = "complete"
  BY <1>1, <1>2, <1>3
<1>5. deviceUnplugged' \/ \A u \in Threads :
        (Working(u)' <=> Working(u)) /\ (Working(u) => index'[u] = index[u])
  <2>1. CASE WorkUnplugged(t)
    BY <2>1 DEF WorkUnplugged
  <2>2. CASE WorkRelocks(t)
    BY <1>1, <2>2 DEF WorkRelocks, Goto, Working
  <2>3. CASE Arm(t) \/ Recheck(t) \/ Again(t) \/ Relock(t) \/ Leave(t)
    BY <1>1, <2>3 DEF Arm, Recheck, Again, Relock, Leave, Goto, Working
  <2>4. CASE Reschedule(t) \/ LeaveLoop(t)
    BY <1>1, <2>4 DEF Reschedule, LeaveLoop, EndLoop, Goto, Working
  <2> QED
    BY <2>1, <2>2, <2>3, <2>4
<1> QED
  BY <1>1, <1>4, <1>5, QuietSteps

\* A pass begins where the last one ended, and ends where the next will begin.
LEMMA PassOnce ==
  ASSUME DpcInv, OnceInv, NEW t \in Threads,
         ReadProducer(t) \/ EndOutstanding(t) \/ EndIdle(t)
  PROVE  OnceInv'
<1>1. /\ UNCHANGED <<requestCollection, completed, item, deviceUnplugged>>
      /\ pc \in [Threads -> PcValues] /\ index \in [Threads -> 0 .. rspProd]
  BY DEF ReadProducer, EndOutstanding, EndIdle, ringIndices, DpcInv, DpcTypeOK, LocalTypeOK
<1>2. PICK where \in {"work", "arm", "loop"} : pc' = [pc EXCEPT ![t] = where]
  BY DEF ReadProducer, EndOutstanding, EndIdle, Goto
<1>3. pc[t] \in {"scan", "work"}
  BY DEF ReadProducer, EndOutstanding, EndIdle
<1>4. \A u \in Threads : u # t => ~Working(u) /\ ~Working(u)'
  BY <1>1, <1>2, <1>3 DEF DpcInv, OneInLoop, Looping, InLoop, Working
<1>5. InOnePlace' /\ \A i \in Answers : Seen(i)' <=> Seen(i)
  BY <1>1, OnceQuiet
<1>6. HasItem'
  BY <1>1, <1>2, <1>3 DEF OnceInv, HasItem
<1>7. SeenBehind'
  <2>1. CASE ReadProducer(t)
    <3>1. /\ index'[t] = rspCons /\ rspCons' = rspCons /\ Working(t)' /\ ~Working(t)
      BY <1>1, <2>1 DEF ReadProducer, Goto, Working, ringIndices
    <3> QED
      BY <1>1, <1>4, <1>5, <3>1 DEF OnceInv, SeenBehind
  <2>2. CASE EndOutstanding(t) \/ EndIdle(t)
    <3>1. rspCons' = index[t] /\ Working(t) /\ ~Working(t)'
      BY <1>1, <2>2 DEF EndOutstanding, EndIdle, Goto, Working
    <3> QED
      BY <1>1, <1>4, <1>5, <3>1 DEF OnceInv, SeenBehind
  <2> QED
    BY <2>1, <2>2
<1> QED
  BY <1>5, <1>6, <1>7 DEF OnceInv

\* An answer is taken off the ring: it was not seen before.
LEMMA WorkOnce ==
  ASSUME DpcInv, OnceInv, NEW t \in Threads, WorkAnswer(t) \/ WorkAddFails(t)
  PROVE  OnceInv'
<1> DEFINE j == index[t]
<1>1. /\ pc \in [Threads -> PcValues] /\ index \in [Threads -> 0 .. rspProd]
      /\ requestCollection \in Seq(Answers) /\ completed \in [Answers -> Nat]
      /\ item \in [Threads -> Answers \cup {NULL}]
      /\ MaxRequests \in Nat
  BY DEF DpcInv, DpcTypeOK, SharedTypeOK, LocalTypeOK
<1>2. /\ pc[t] = "work" /\ Working(t) /\ ~deviceUnplugged
      /\ UNCHANGED <<item, deviceUnplugged>>
      /\ index' = [index EXCEPT ![t] = j + 1]
      /\ pc' = [pc EXCEPT ![t] = "work"] \/ pc' = [pc EXCEPT ![t] = "addFailed"]
  BY <1>1 DEF WorkAnswer, WorkAddFails, Goto, Working
<1>3. j \in Answers /\ j \in Nat
  <2>1. j # rp[t] /\ j <= rp[t] /\ rp[t] \in 0 .. rspProd /\ j \in 0 .. rspProd
    BY <1>1 DEF WorkAnswer, WorkAddFails, DpcInv, DpcTypeOK, LocalTypeOK, IndexBehind
  <2>2. rspProd \in Nat /\ rspProd <= reqProd /\ reqProd <= MaxRequests /\ reqProd \in Nat
    BY <1>1 DEF DpcInv, DpcTypeOK, RingTypeOK
  <2> QED
    BY <1>1, <2>1, <2>2 DEF Answers
<1>4. ~Seen(j)
  BY <1>2, <1>3 DEF OnceInv, SeenBehind
<1>5. \A u \in Threads : u # t => ~Working(u) /\ ~Working(u)'
  BY <1>1, <1>2 DEF DpcInv, OneInLoop, Looping, InLoop, Working
<1>6. InOnePlace' /\ \A i \in Answers : Seen(i)' => Seen(i) \/ i = j
  <2>1. CASE UNCHANGED <<requestCollection, completed>>
    BY <1>2, <2>1, OnceQuiet
  <2>2. CASE requestCollection' = Append(requestCollection, j) /\ UNCHANGED completed
    <3>1. /\ \A i \in Answers : IsCollected(i)' <=> IsCollected(i) \/ i = j
          /\ \A k, l \in DOMAIN requestCollection' :
               requestCollection'[k] = requestCollection'[l] => k = l
      BY <1>1, <1>3, <1>4, <2>2, AppendCollects DEF Seen, OnceInv, InOnePlace
    <3>2. \A u \in Threads : item[u] # NULL => item[u] \in Answers /\ item[u] # j
      BY <1>1, <1>4 DEF Seen
    <3> QED
      BY <1>2, <1>4, <2>2, <3>1, <3>2 DEF OnceInv, InOnePlace, Seen
  <2>3. CASE completed' = [completed EXCEPT ![j] = @ + 1] /\ UNCHANGED requestCollection
    <3>1. \A i \in Answers : completed'[i] = IF i = j THEN 1 ELSE completed[i]
      BY <1>1, <1>3, <1>4, <2>3 DEF Seen
    <3>2. \A i \in Answers : IsCollected(i)' <=> IsCollected(i)
      BY <2>3 DEF IsCollected
    <3>3. \A u \in Threads : item[u] # NULL => item[u] \in Answers /\ item[u] # j
      BY <1>1, <1>4 DEF Seen
    <3> QED
      BY <1>2, <1>4, <2>3, <3>1, <3>2, <3>3 DEF OnceInv, InOnePlace, Seen
  <2> QED
    BY <2>1, <2>2, <2>3 DEF WorkAnswer, WorkAddFails
<1>7. HasItem'
  BY <1>1, <1>2 DEF OnceInv, HasItem
<1>8. Working(t)' /\ index'[t] = j + 1
  BY <1>1, <1>2 DEF Working
<1>9. \A i \in Answers : Seen(i)' => i < j + 1
  BY <1>2, <1>3, <1>6 DEF OnceInv, SeenBehind, Answers
<1> QED
  BY <1>5, <1>6, <1>7, <1>8, <1>9 DEF OnceInv, SeenBehind

\* What was seen stays seen, and nothing new is, while it moves from the
\* collection to a thread.
LEMMA TakeOnce ==
  ASSUME DpcInv, OnceInv, NEW t \in Threads, TakeCollected(t)
  PROVE  OnceInv'
<1> DEFINE h == Head(requestCollection)
<1>1. /\ pc \in [Threads -> PcValues] /\ pc[t] = "collect" /\ item[t] = NULL
      /\ requestCollection \in Seq(Answers) /\ requestCollection # <<>>
      /\ item \in [Threads -> Answers \cup {NULL}] /\ NULL \notin Answers
      /\ item' = [item EXCEPT ![t] = h] /\ requestCollection' = Tail(requestCollection)
      /\ pc' = [pc EXCEPT ![t] = "complete"]
      /\ UNCHANGED <<completed, index, rspCons, deviceUnplugged>>
  BY DEF TakeCollected, Goto, ringIndices, DpcInv, DpcTypeOK, SharedTypeOK, LocalTypeOK,
         OnceInv, HasItem, Answers
<1>2. /\ h \in Answers /\ IsCollected(h)
      /\ \A i \in Answers : IsCollected(i)' <=> IsCollected(i) /\ i # h
      /\ \A k, l \in DOMAIN requestCollection' :
           requestCollection'[k] = requestCollection'[l] => k = l
  BY <1>1, TakeUncollects DEF OnceInv, InOnePlace
<1>3. \A u \in Threads : u # t => item'[u] = item[u] /\ item[u] # h
  BY <1>1, <1>2 DEF OnceInv, InOnePlace
<1>4. item'[t] = h /\ completed[h] = 0
  BY <1>1, <1>2 DEF OnceInv, InOnePlace
<1>5. InOnePlace'
  BY <1>1, <1>2, <1>3, <1>4 DEF OnceInv, InOnePlace
<1>6. \A i \in Answers : Seen(i)' => Seen(i)
  BY <1>1, <1>2, <1>3, <1>4 DEF Seen
<1>7. HasItem'
  BY <1>1, <1>2, <1>3, <1>4 DEF OnceInv, HasItem
<1>8. \A u \in Threads : Working(u)' <=> Working(u)
  BY <1>1 DEF Working
<1>9. SeenBehind'
  BY <1>1, <1>6, <1>8 DEF OnceInv, SeenBehind
<1> QED
  BY <1>5, <1>7, <1>9 DEF OnceInv

\* The completion of what a thread took, which no other thread has.
LEMMA CompleteOnce ==
  ASSUME DpcInv, OnceInv, NEW t \in Threads, CompleteTaken(t)
  PROVE  OnceInv'
<1> DEFINE h == item[t]
<1>1. /\ pc \in [Threads -> PcValues] /\ pc[t] = "complete" /\ h # NULL /\ h \in Answers
      /\ completed \in [Answers -> Nat]
      /\ item \in [Threads -> Answers \cup {NULL}]
      /\ completed' = [completed EXCEPT ![h] = @ + 1]
      /\ item' = [item EXCEPT ![t] = NULL]
      /\ pc' = [pc EXCEPT ![t] = "relock"]
      /\ UNCHANGED <<requestCollection, index, rspCons, deviceUnplugged>>
  BY DEF CompleteTaken, Goto, ringIndices, DpcInv, DpcTypeOK, SharedTypeOK, LocalTypeOK,
         OnceInv, HasItem
<1>2. completed[h] = 0 /\ ~IsCollected(h)
  BY <1>1 DEF OnceInv, InOnePlace
<1>3. \A i \in Answers : completed'[i] = IF i = h THEN 1 ELSE completed[i]
  BY <1>1, <1>2
<1>4. \A u \in Threads : u # t => item'[u] = item[u] /\ item[u] # h
  BY <1>1 DEF OnceInv, InOnePlace
<1>5. \A i \in Answers : IsCollected(i)' <=> IsCollected(i)
  BY <1>1 DEF IsCollected
<1>6. item'[t] = NULL /\ \A u \in Threads : item'[u] # NULL => item'[u] \in Answers /\ item'[u] # h
  BY <1>1, <1>4
<1>7. InOnePlace'
  BY <1>1, <1>2, <1>3, <1>4, <1>5, <1>6 DEF OnceInv, InOnePlace
<1>8. \A i \in Answers : Seen(i)' => Seen(i)
  <2>1. NULL \notin Answers
    BY DEF Answers
  <2>2. Seen(h)
    BY DEF Seen
  <2>3. ASSUME NEW i \in Answers, i # h, Seen(i)'
        PROVE  Seen(i)
    BY <1>3, <1>4, <1>5, <1>6, <2>1, <2>3 DEF Seen
  <2> QED
    BY <2>2, <2>3
<1>9. HasItem'
  BY <1>1, <1>4 DEF OnceInv, HasItem
<1>10. \A u \in Threads : Working(u)' <=> Working(u)
  BY <1>1 DEF Working
<1>11. SeenBehind'
  BY <1>1, <1>8, <1>10 DEF OnceInv, SeenBehind
<1> QED
  BY <1>7, <1>9, <1>11 DEF OnceInv

\* Every step keeps the invariant.
LEMMA StepOnce == DpcInv /\ OnceInv /\ [DpcNext]_dpcLoopVars => OnceInv'
<1> SUFFICES ASSUME DpcInv, OnceInv, [DpcNext]_dpcLoopVars PROVE OnceInv'
  OBVIOUS
<1>1. CASE UNCHANGED dpcLoopVars
  BY <1>1, QuietSteps DEF dpcLoopVars, ringIndices, threadVars, Working
<1>2. CASE PutOnRing \/ BackendPublishes \/ BackendNotifies \/ Unplug
  BY <1>2, EnvironmentOnce
<1>3. ASSUME NEW t \in Threads, Enter(t) \/ DpcFuncStep(t)
      PROVE  OnceInv'
  BY <1>3, EnvironmentOnce, LoopOnce, PassOnce, WorkOnce, TakeOnce, CompleteOnce
  DEF DpcFuncStep, XenDpcStep
<1> QED
  BY <1>1, <1>2, <1>3 DEF DpcNext

\* Threads that complete from one collection, giving up the lock for each item,
\* never complete a request twice, nor one that is still collected ("this section
\* is re-entrant", FdoEvtDeviceDpcFunc).
THEOREM NothingTwice == DpcSpec => []CollectedOnce
<1>1. DpcInv /\ OnceInv => CollectedOnce
  <2> SUFFICES ASSUME DpcInv, OnceInv, NEW i \in Answers
               PROVE  completed[i] + (IF IsCollected(i) THEN 1 ELSE 0) <= 1
    BY DEF CollectedOnce
  <2>1. completed[i] \in Nat /\ completed[i] <= 1 /\ (IsCollected(i) => completed[i] = 0)
    BY DEF DpcInv, DpcTypeOK, SharedTypeOK, OnceInv, InOnePlace
  <2> QED
    BY <2>1
<1>2. DpcInit => DpcInv /\ OnceInv
  BY InitInv, InitOnce
<1>3. DpcInv /\ OnceInv /\ [DpcNext]_dpcLoopVars => DpcInv' /\ OnceInv'
  BY StepInv, StepOnce
<1> QED
  BY <1>1, <1>2, <1>3, PTL DEF DpcSpec
===============================================================================
