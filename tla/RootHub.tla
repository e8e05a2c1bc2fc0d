-------------------------------- MODULE RootHub --------------------------------
(***************************************************************************)
(* The root hub PDO: the port's status and change words, the interrupt     *)
(* requests parked until a change, the class requests of the hub driver,   *)
(* the port reset IOCTL that waits for the DPC, and the PnP callbacks.     *)
(*                                                                         *)
(* The queue of the hub is parallel and the words have no lock: a handler  *)
(* is a sequence of steps of its own thread, and a "|=" or "&=" is a load  *)
(* and a store.  ReportedStatus and HubDisconnectReported are written for  *)
(* the log only and are left out.                                          *)
(***************************************************************************)
EXTENDS Naturals, FiniteSets, Sequences

CONSTANTS HubRequests,     \* URBs and IOCTLs of the hub driver
          StatusRequests,  \* transfers on the hub's interrupt pipe
          HubOps,          \* the operations HubRequests are sent with
          MaxSends,        \* bound: how often each request is sent
          MaxPowerUps      \* bound: how often the hub enters D0

AllHubOps == {"SET_PORT_RESET", "SET_PORT_POWER", "CLEAR_PORT_ENABLE", "CLEAR_C_CONNECTION",
              "CLEAR_C_ENABLE", "CLEAR_C_RESET", "GET_PORT_STATUS", "IOCTL_PORT_STATUS",
              "RESET_PORT", "CYCLE_PORT", "TO_DEVICE", "LOCAL"}

ASSUME HubOpsAssumption == HubOps \subseteq AllHubOps
ASSUME HubBoundsAssumption == MaxSends \in Nat /\ MaxPowerUps \in Nat
ASSUME HubRequestsAssumption ==
  /\ HubRequests \cap StatusRequests = {}
  /\ "pnp" \notin HubRequests \cup StatusRequests

Features == {"CONNECT", "ENABLE", "RESET", "POWER"}
Requests == HubRequests \cup StatusRequests
Threads  == Requests \cup {"pnp"}

VARIABLES
  word,        \* PortFeatureStatus and PortFeatureChange
  parked,      \* StatusChangeQueue
  hubPower,    \* where the PnP thread has taken the hub
  removed,     \* the hub was surprise removed
  portConnected, \* fdoContext->PortConnected
  resetCompleteEvent,
  todo,        \* the steps a thread has still to take
  loaded,      \* the word a thread has loaded and not stored yet, in a singleton
  taken,       \* the parked request a thread has retrieved and not completed yet
  holder,      \* who owns a request: its client, a handler, the queue, the parent
  completions, \* how often a request was completed since its client sent it
  sends, powerUps, \* how often, for the bounds
  \* History
  hubOp,       \* the operation a request was last sent with
  stopped,     \* requests EvtIoStop completed under their handler
  signalled,   \* port resets whose answer has set the event
  overlapped,  \* port resets during which another reset was under way
  lostUpdate,  \* a store of the status word has overwritten another thread's
  unreported,  \* since the last check: a change made silently, brought back by a
               \* racing store, or not reported because the queue was paused
  goneSeen     \* a GET_STATUS answered "connected" although the port was gone before

portVars == <<word, parked, hubPower, removed, portConnected, resetCompleteEvent>>
reqHubVars == <<holder, completions, hubOp, stopped>>
resetVars == <<signalled, overlapped>>
noteVars == <<lostUpdate, unreported, goneSeen>>
hubBounds == <<sends, powerUps>>
hubVars == <<portVars, todo, loaded, taken, reqHubVars, resetVars, noteVars, hubBounds>>

Do(x) == [do |-> x]
Set(w, S)   == [do |-> "update", word |-> w, add |-> S, del |-> {}, silent |-> FALSE]
Clear(w, S) == [do |-> "update", word |-> w, add |-> {}, del |-> S, silent |-> FALSE]

Check == Do("check")
Complete == Do("complete")

At(t, x) == todo[t] # <<>> /\ Head(todo[t]).do = x
Advance(t) == todo' = [todo EXCEPT ![t] = Tail(@)]
Continue(t, steps) == todo' = [todo EXCEPT ![t] = steps \o Tail(@)]

\* The queues of the hub hand out requests only in D0: they start after
\* EvtDeviceD0Entry and stop before EvtDeviceD0Exit.
QueuesStarted == hubPower = "D0"

\* What a handler takes for "Unplugged": the device is lost, or the parent has
\* DeviceUnplugged or CtlrDisconnected set, which it does at any moment.
UnpluggedValues == {~portConnected, TRUE}

(***************************************************************************)
(* The framework's operations on requests.                                 *)
(***************************************************************************)
CompleteRequest(r) ==
  /\ holder' = [holder EXCEPT ![r] = IF @ = "handler" THEN "client" ELSE @]
  /\ completions' = [completions EXCEPT ![r] = @ + 1]

(***************************************************************************)
(* What each operation does, as the steps of its thread.                   *)
(***************************************************************************)
\* Mutant of SetFeatureSteps: nobody is told of the reset.
SetFeatureSilently(op) ==
  IF op = "SET_PORT_RESET"
  THEN <<Set("status", {"ENABLE", "RESET"}), Set("change", {"RESET"}), Do("resetDevice"), Complete>>
  ELSE <<Set("status", {"POWER"}), Complete>>

SetFeatureSteps(op) ==
  IF op = "SET_PORT_RESET"
  THEN <<Set("status", {"ENABLE", "RESET"}), Set("change", {"RESET"}), Do("resetDevice"), Complete,
         Check>>
  ELSE <<Set("status", {"POWER"}), Complete>>

ClearFeatureSteps(op) ==
  IF op = "CLEAR_PORT_ENABLE"
  THEN <<Clear("status", {"ENABLE"}), Set("change", {"ENABLE"}), Complete, Check>>
  ELSE <<Clear("change", CASE op = "CLEAR_C_CONNECTION" -> {"CONNECT"}
                           [] op = "CLEAR_C_ENABLE" -> {"ENABLE"}
                           [] op = "CLEAR_C_RESET" -> {"RESET"}), Complete>>

GetStatusSteps == <<Do("probe"), Complete>>

InterruptRequestSteps == <<Do("park"), Check>>

\* Mutant of ResetPortSteps: the event is cleared when the request is under way.
ResetPortClearsLate(unplugged, passive) ==
  IF unplugged THEN <<Do("forward")>>
  ELSE <<Do("forward"), Do("clearEvent")>> \o (IF passive THEN <<Do("wait")>> ELSE <<>>)

\* At a raised IRQL the handler forwards the request and does not wait.
ResetPortSteps(unplugged, passive) ==
  IF unplugged THEN <<Do("forward")>>
  ELSE <<Do("clearEvent"), Do("forward")>> \o (IF passive THEN <<Do("wait")>> ELSE <<>>)

GetPortStatusSteps(unplugged) == (IF unplugged THEN <<Clear("status", {"CONNECT"})>> ELSE <<>>) \o <<Complete>>

\* Mutant of ToDeviceSteps: the handler completes what it has forwarded.
ForwardAndComplete == <<Do("forward"), Complete>>

ToDeviceSteps == <<Do("forward")>>

\* The steps of operation op, as the dispatch routines choose them.
HandlerSteps(op, unplugged, passive) ==
  CASE op \in {"SET_PORT_RESET", "SET_PORT_POWER"} -> SetFeatureSteps(op)
    [] op \in {"CLEAR_PORT_ENABLE", "CLEAR_C_CONNECTION", "CLEAR_C_ENABLE", "CLEAR_C_RESET"} ->
         ClearFeatureSteps(op)
    [] op = "GET_PORT_STATUS" -> GetStatusSteps
    [] op = "IOCTL_PORT_STATUS" -> GetPortStatusSteps(unplugged)
    [] op = "RESET_PORT" -> ResetPortSteps(unplugged, passive)
    [] op = "CYCLE_PORT" -> <<Do("cycle"), Complete>>
    [] op = "TO_DEVICE" -> ToDeviceSteps
    [] op = "LOCAL" -> <<Complete>>       \* descriptors, capabilities, refused requests

ConnectSteps ==
  IF portConnected THEN <<Set("status", {"CONNECT"}), Set("change", {"CONNECT"}), Check>> ELSE <<>>

DisconnectSteps == <<Clear("status", {"CONNECT"}), Set("change", {"CONNECT"}), Check>>

--------------------------------------------------------------------------------
\* Requests that make the parent put a reset or a cycle on its ring.
ResetsUnderWay ==
  {r \in HubRequests : /\ hubOp[r] \in {"RESET_PORT", "CYCLE_PORT"}
                       /\ todo[r] # <<>> \/ holder[r] = "parent"}

\* HubQueueInitialize.  sent and ups: how much of the bounds is used up.
HubInitWith(sent, ups) ==
  /\ sends = sent /\ powerUps = ups
  /\ portConnected \in BOOLEAN
  /\ word = [status |-> IF portConnected THEN {"CONNECT"} ELSE {}, change |-> {"CONNECT"}]
  /\ parked = <<>>
  /\ hubPower = "Dx"
  /\ removed = FALSE
  /\ resetCompleteEvent = FALSE
  /\ todo = [t \in Threads |-> <<>>]
  /\ loaded = [t \in Threads |-> {}]
  /\ taken = [t \in Threads |-> {}]
  /\ holder = [r \in Requests |-> "client"]
  /\ completions = [r \in Requests |-> 0]
  /\ hubOp = [r \in HubRequests |-> "LOCAL"]
  /\ stopped = {}
  /\ signalled = {}
  /\ overlapped = {}
  /\ lostUpdate = FALSE
  /\ unreported = FALSE
  /\ goneSeen = FALSE

HubInit == HubInitWith([r \in Requests |-> 0], 0)

\* The queue dispatches request r; the client reuses it when it is back.
Dispatch(r, steps) ==
  /\ QueuesStarted /\ sends[r] < MaxSends
  /\ sends' = [sends EXCEPT ![r] = @ + 1]
  /\ holder[r] = "client" /\ todo[r] = <<>>
  /\ \A t \in Threads : r \notin taken[t]
  /\ holder' = [holder EXCEPT ![r] = "handler"]
  /\ completions' = [completions EXCEPT ![r] = 0]
  /\ stopped' = stopped \ {r}
  /\ todo' = [todo EXCEPT ![r] = steps]
  /\ signalled' = signalled \ {r}

HubEvtIoInternalDeviceControl(r) ==
  /\ \E op \in HubOps, unplugged \in UnpluggedValues, passive \in BOOLEAN :
       /\ passive \/ op = "RESET_PORT"
       /\ Dispatch(r, HandlerSteps(op, unplugged, passive))
       /\ hubOp' = [hubOp EXCEPT ![r] = op]
       /\ overlapped' = IF op \notin {"RESET_PORT", "CYCLE_PORT"} \/ ResetsUnderWay = {}
                        THEN overlapped \ {r}
                        ELSE overlapped \cup ResetsUnderWay \cup {r}
  /\ UNCHANGED <<portVars, loaded, taken, noteVars, powerUps>>

\* A bad buffer or length, or no memory for the context, completes the request at once.
HubProcessHubInterruptRequest(r) ==
  /\ \E steps \in {<<Complete>>, InterruptRequestSteps} : Dispatch(r, steps)
  /\ UNCHANGED <<portVars, loaded, taken, hubOp, overlapped, noteVars, powerUps>>

--------------------------------------------------------------------------------
(***************************************************************************)
(* Steps of a thread.                                                      *)
(***************************************************************************)
Load(t) ==
  /\ At(t, "update") /\ loaded[t] = {}
  /\ loaded' = [loaded EXCEPT ![t] = {word[Head(todo[t]).word]}]
  /\ UNCHANGED <<portVars, todo, taken, reqHubVars, resetVars, noteVars, hubBounds>>

Store(t) ==
  /\ At(t, "update") /\ loaded[t] # {}
  /\ LET u == Head(todo[t]) IN
       \E old \in loaded[t] :
         /\ word' = [word EXCEPT ![u.word] = (old \ u.del) \cup u.add]
         /\ lostUpdate' = (lostUpdate \/ (u.word = "status" /\ old # word.status))
         /\ unreported' = (unreported \/ u.silent \/ (u.word = "change" /\ old # word.change))
  /\ loaded' = [loaded EXCEPT ![t] = {}]
  /\ Advance(t)
  /\ UNCHANGED <<parked, hubPower, removed, portConnected, resetCompleteEvent,
                 taken, reqHubVars, resetVars, goneSeen, hubBounds>>

CompleteStep(t) ==
  /\ At(t, "complete")
  /\ CompleteRequest(t)
  /\ Advance(t)
  /\ UNCHANGED <<portVars, loaded, taken, hubOp, stopped, resetVars, noteVars, hubBounds>>

\* HubCheckStatusChange: a change, and a parked request to report it with.
HubCheckStatusChange(t) ==
  /\ At(t, "check")
  /\ Continue(t, IF word.change = {} THEN <<>> ELSE <<Do("retrieve")>>)
  /\ unreported' = (unreported /\ word.change # {})
  /\ UNCHANGED <<portVars, loaded, taken, reqHubVars, resetVars, lostUpdate, goneSeen, hubBounds>>

RetrieveNextRequest(t) ==
  /\ At(t, "retrieve")
  /\ unreported' = ~QueuesStarted
  /\ \/ /\ ~QueuesStarted \/ parked = <<>>   \* STATUS_WDF_PAUSED, STATUS_NO_MORE_ENTRIES
        /\ Advance(t)
        /\ UNCHANGED <<parked, taken, holder>>
     \/ /\ QueuesStarted /\ parked # <<>>
        /\ taken' = [taken EXCEPT ![t] = {Head(parked)}]
        /\ holder' = [holder EXCEPT ![Head(parked)] = "handler"]
        /\ parked' = Tail(parked)
        /\ Continue(t, <<Do("report")>>)
  /\ UNCHANGED <<word, hubPower, removed, portConnected, resetCompleteEvent, loaded,
                 completions, hubOp, stopped, resetVars, lostUpdate, goneSeen, hubBounds>>

ReportChange(t) ==
  /\ At(t, "report")
  /\ \E r \in taken[t] : CompleteRequest(r)
  /\ taken' = [taken EXCEPT ![t] = {}]
  /\ Advance(t)
  /\ UNCHANGED <<portVars, loaded, hubOp, stopped, resetVars, noteVars, hubBounds>>

\* Mutant of ProbeSteps: the parent is not asked.
ProbeNothing == <<>>

\* HubGetStatus takes the port for disconnected when its parent has lost the
\* device; it does not look for a parked request.
ProbeSteps ==
  IF ~portConnected /\ "CONNECT" \in word.status
  THEN <<Clear("status", {"CONNECT"}), [Set("change", {"CONNECT"}) EXCEPT !.silent = TRUE]>>
  ELSE <<>>

ProbePort(r) ==
  /\ At(r, "probe")
  /\ Continue(r, ProbeSteps \o <<[do |-> "sample", gone |-> ~portConnected]>>)
  /\ UNCHANGED <<portVars, loaded, taken, reqHubVars, resetVars, noteVars, hubBounds>>

\* The answer, and the end of the reset it reports.
SamplePort(r) ==
  /\ At(r, "sample")
  /\ Continue(r, IF "RESET" \in word.status THEN <<Clear("status", {"RESET"})>> ELSE <<>>)
  /\ goneSeen' = (goneSeen \/ (Head(todo[r]).gone /\ "CONNECT" \in word.status /\ r \notin stopped))
  /\ UNCHANGED <<portVars, loaded, taken, reqHubVars, resetVars, lostUpdate, unreported, hubBounds>>

\* The queue refuses a request that was completed, or when it is being purged.
ParkRequest(r) ==
  /\ At(r, "park")
  /\ \/ /\ r \notin stopped
        /\ parked' = Append(parked, r)
        /\ holder' = [holder EXCEPT ![r] = "queue"]
        /\ Advance(r)
     \/ /\ todo' = [todo EXCEPT ![r] = <<Complete>>]
        /\ UNCHANGED <<parked, holder>>
  /\ UNCHANGED <<word, hubPower, removed, portConnected, resetCompleteEvent, loaded, taken,
                 completions, hubOp, stopped, resetVars, noteVars, hubBounds>>

ClearResetEvent(r) ==
  /\ At(r, "clearEvent")
  /\ resetCompleteEvent' = FALSE
  /\ Advance(r)
  /\ UNCHANGED <<word, parked, hubPower, removed, portConnected, loaded, taken,
                 reqHubVars, resetVars, noteVars, hubBounds>>

\* ForwardToParent.
ForwardToParent(r) ==
  /\ At(r, "forward")
  /\ \/ /\ r \notin stopped
        /\ holder' = [holder EXCEPT ![r] = "parent"]
        /\ UNCHANGED completions
     \/ CompleteRequest(r)
  /\ Advance(r)
  /\ UNCHANGED <<portVars, loaded, taken, hubOp, stopped, resetVars, noteVars, hubBounds>>

\* KeWaitForSingleObject: a signal enables the port, ten seconds end the wait.
WaitReset(r) ==
  /\ At(r, "wait")
  /\ IF resetCompleteEvent THEN Continue(r, <<Set("status", {"ENABLE"})>>) ELSE Advance(r)
  /\ resetCompleteEvent' = FALSE
  /\ UNCHANGED <<word, parked, hubPower, removed, portConnected, loaded, taken,
                 reqHubVars, resetVars, noteVars, hubBounds>>

\* ProcessHubCyclePort sends the parent a request of its own and waits for it;
\* the answer of a cycle sets the event of a reset.
CyclePort(r) ==
  /\ At(r, "cycle")
  /\ resetCompleteEvent' \in {resetCompleteEvent, TRUE}
  /\ Advance(r)
  /\ UNCHANGED <<word, parked, hubPower, removed, portConnected, loaded, taken,
                 reqHubVars, resetVars, noteVars, hubBounds>>

\* ResetDevice: an exchange over the parent's scratch pad, which the handler of
\* SET_PORT_RESET waits for, ten seconds at most, and whose result it ignores.  It
\* sets no resetCompleteEvent; a device it unplugs is one of UnpluggedValues.
ResetDevice(r) ==
  /\ At(r, "resetDevice")
  /\ Advance(r)
  /\ UNCHANGED <<portVars, loaded, taken, reqHubVars, resetVars, noteVars, hubBounds>>

ThreadStep(t) ==
  \/ Load(t) \/ Store(t)
  \/ HubCheckStatusChange(t) \/ RetrieveNextRequest(t) \/ ReportChange(t)

RequestStep(r) ==
  \/ CompleteStep(r) \/ ProbePort(r) \/ SamplePort(r) \/ ParkRequest(r)
  \/ ClearResetEvent(r) \/ ForwardToParent(r) \/ WaitReset(r) \/ CyclePort(r)
  \/ ResetDevice(r)

--------------------------------------------------------------------------------
(***************************************************************************)
(* The parent, the client and the PnP thread.                              *)
(***************************************************************************)
\* The parent completes a request: the DPC sets the event for a reset the
\* device did; a refused or cancelled reset sets nothing.
ParentCompletes(r) ==
  /\ holder[r] = "parent"
  /\ holder' = [holder EXCEPT ![r] = "client"]
  /\ completions' = [completions EXCEPT ![r] = @ + 1]
  /\ \/ UNCHANGED <<resetCompleteEvent, signalled>>
     \/ /\ hubOp[r] = "RESET_PORT"
        /\ resetCompleteEvent' = TRUE
        /\ signalled' = signalled \cup {r}
  /\ UNCHANGED <<word, parked, hubPower, removed, portConnected, todo, loaded, taken,
                 hubOp, stopped, overlapped, noteVars, hubBounds>>

\* The DPC sees USBD_STATUS_DEVICE_GONE; nobody tells the hub.
ParentLosesDevice ==
  /\ portConnected
  /\ portConnected' = FALSE
  /\ UNCHANGED <<word, parked, hubPower, removed, resetCompleteEvent, todo, loaded, taken,
                 reqHubVars, resetVars, noteVars, hubBounds>>

\* A parked request is cancelled in the queue.
CancelParked(r) ==
  /\ \E i \in 1..Len(parked) : /\ parked[i] = r
                               /\ parked' = [j \in 1..(Len(parked) - 1) |->
                                               parked[IF j < i THEN j ELSE j + 1]]
  /\ holder' = [holder EXCEPT ![r] = "client"]
  /\ completions' = [completions EXCEPT ![r] = @ + 1]
  /\ UNCHANGED <<word, hubPower, removed, portConnected, resetCompleteEvent, todo, loaded,
                 taken, hubOp, stopped, resetVars, noteVars, hubBounds>>

PnpIdle == todo["pnp"] = <<>>

HubEvtDeviceD0Entry ==
  /\ hubPower = "Dx" /\ PnpIdle /\ ~removed
  /\ powerUps < MaxPowerUps
  /\ powerUps' = powerUps + 1
  /\ hubPower' = "entry"
  /\ todo' = [todo EXCEPT !["pnp"] = ConnectSteps]
  /\ UNCHANGED <<word, parked, removed, portConnected, resetCompleteEvent, loaded, taken,
                 reqHubVars, resetVars, noteVars, sends>>

StartQueues ==
  /\ hubPower = "entry" /\ PnpIdle
  /\ hubPower' = "D0"
  /\ UNCHANGED <<word, parked, removed, portConnected, resetCompleteEvent, todo, loaded, taken,
                 reqHubVars, resetVars, noteVars, hubBounds>>

\* The framework calls the callback while the hub is still in D0.
HubEvtDeviceSurpriseRemoval ==
  /\ hubPower = "D0" /\ PnpIdle /\ ~removed
  /\ removed' = TRUE
  /\ todo' = [todo EXCEPT !["pnp"] = DisconnectSteps]
  /\ UNCHANGED <<word, parked, hubPower, portConnected, resetCompleteEvent, loaded, taken,
                 reqHubVars, resetVars, noteVars, hubBounds>>

StopQueues ==
  /\ hubPower = "D0" /\ PnpIdle
  /\ hubPower' = "stopping"
  /\ UNCHANGED <<word, parked, removed, portConnected, resetCompleteEvent, todo, loaded, taken,
                 reqHubVars, resetVars, noteVars, hubBounds>>

\* HubEvtIoStop and HubStatusChangeEvtIoStop: a request the driver still owns
\* is completed, whatever its handler is doing with it.
HubEvtIoStop(r) ==
  /\ hubPower = "stopping"
  /\ holder[r] = "handler"
  /\ CompleteRequest(r)
  /\ stopped' = stopped \cup {r}
  /\ UNCHANGED <<portVars, todo, loaded, taken, hubOp, resetVars, noteVars, hubBounds>>

\* The framework goes on when the driver owns no request.
HubEvtDeviceD0Exit ==
  /\ hubPower = "stopping"
  /\ \A r \in Requests : holder[r] # "handler"
  /\ hubPower' = "exit"
  /\ todo' = [todo EXCEPT !["pnp"] = DisconnectSteps]
  /\ UNCHANGED <<word, parked, removed, portConnected, resetCompleteEvent, loaded, taken,
                 reqHubVars, resetVars, noteVars, hubBounds>>

HubPoweredDown ==
  /\ hubPower = "exit" /\ PnpIdle
  /\ hubPower' = "Dx"
  /\ UNCHANGED <<word, parked, removed, portConnected, resetCompleteEvent, todo, loaded, taken,
                 reqHubVars, resetVars, noteVars, hubBounds>>

HubNext ==
  \/ \E r \in HubRequests : HubEvtIoInternalDeviceControl(r)
  \/ \E r \in StatusRequests : HubProcessHubInterruptRequest(r) \/ CancelParked(r)
  \/ \E t \in Threads : ThreadStep(t)
  \/ \E r \in Requests : RequestStep(r) \/ HubEvtIoStop(r) \/ ParentCompletes(r)
  \/ ParentLosesDevice
  \/ HubEvtDeviceD0Entry \/ StartQueues \/ HubEvtDeviceSurpriseRemoval
  \/ StopQueues \/ HubEvtDeviceD0Exit \/ HubPoweredDown

HubSpec == HubInit /\ [][HubNext]_hubVars

--------------------------------------------------------------------------------
\* A thread that will look for a parked request.
WillCheck(t) == \E i \in 1..Len(todo[t]) : todo[t][i].do \in {"check", "retrieve"}

\* No lost wake-up: while a request is parked and the port has a change, some
\* thread is on its way to report it (HubCheckStatusChange, called after a
\* change and after a park) - unless, since the last check, the change was
\* made by GET_STATUS, which does not check; was checked for while the queue
\* was paused; or was brought back by a store that overwrote another one.  The
\* hub driver keeps one interrupt transfer pending: a check reports to one.
ChangeIsReported ==
  \/ parked = <<>> \/ word.change = {}
  \/ unreported
  \/ \E t \in Threads : WillCheck(t)

\* A request is completed twice only when EvtIoStop completed it under its
\* handler; otherwise it is completed exactly when it is back at its client.
HubCompletesOnce ==
  \A r \in Requests : r \notin stopped =>
    /\ completions[r] <= 1
    /\ completions[r] = 1 => holder[r] = "client"

\* IOCTL_INTERNAL_USB_RESET_PORT waits for its own reset: from the moment it
\* has cleared the event to the end of its wait the event says whether this
\* reset is done - unless another reset or a cycle of the port overlapped.
EventIsOfThisReset ==
  \A r \in HubRequests :
    /\ At(r, "wait")
    /\ r \notin overlapped
    => (resetCompleteEvent <=> r \in signalled)

\* GET_STATUS never reports a connected port after the parent has lost the
\* device (HubGetStatus asks the parent) - unless an update of the status word
\* was overwritten or the device was lost while the request was handled.
GoneIsSeen == goneSeen => lostUpdate
================================================================================
