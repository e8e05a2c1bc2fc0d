------------------------------ MODULE FdoLifecycle ------------------------------
(***************************************************************************)
(* The life of the FDO and of its connection to the backend: Device.cpp,   *)
(* the first part of xenif.cpp, and xenlower.cpp.                          *)
(*                                                                         *)
(* The framework calls the PnP and power callbacks one at a time.  Beside  *)
(* them run the watchdog, a thread whose wait for a scratch answer has     *)
(* timed out, and the backend with its state in xenstore.  What a thread   *)
(* has still to do in its callback is a sequence of steps; a step is what  *)
(* it does between two points where others can interfere.                  *)
(***************************************************************************)
EXTENDS Integers, Sequences

CONSTANTS Requests,         \* URBs
          NULL,
          MaxGen,           \* bound: how often an interface is allocated
          Restarts,         \* bound: how often a closed backend comes back
          ScratchTimeouts,  \* whether a thread can give the device up by itself
          Failures          \* the steps that can fail

ASSUME LifeAssumption == /\ MaxGen \in Nat \ {0} /\ Restarts \in Nat
                         /\ ScratchTimeouts \in BOOLEAN
                         /\ NULL \notin [ring : {"none", "live", "freed"}, granted : BOOLEAN,
                                     port : BOOLEAN, handler : BOOLEAN]

Threads == {"pnp", "timer", "waiter"}

VARIABLES
  pnp,      \* where the framework has the device between callbacks
  todo,     \* per thread: the rest of its callback
  saw,      \* per thread: the interface whose open port it saw last
  xen,      \* fdoContext->Xen: NULL, or what it holds
  gen,      \* number of interfaces allocated so far: the name of the present one
  ledger,   \* history: allocations minus releases, by kind of resource
  fdo,      \* the fields of the FDO context
  place,    \* where each URB is
  store,    \* xenstore, and what the backend has mapped
  seen,     \* the backend state the frontend has seen last
  history   \* the events that properties speak of

xenVars  == <<saw, xen, gen, ledger>>
lifeVars == <<pnp, todo, xenVars, fdo, place, store, seen, history>>

\* The steps of the callbacks, in the order of the code.
ConfigureSteps == <<"configure", "initialize", "connect", "awaitInitWait", "publish",
                    "awaitConnected", "configured">>
LateSetupSteps == ConfigureSteps \o <<"getUsbConfigData", "createRootHubPdo", "added">>
CleanupSteps   == <<"cleanup", "stopTimer", "timerStopped", "checkPort", "closePort",
                    "unplug", "sweep">>
UnplugSteps    == <<"checkPort", "closePort", "removeChildren">>
D0ExitSteps    == <<"stopTimer", "timerStopped", "deconfigure", "checkPort", "closePort",
                    "stabilise", "closing", "closed", "unregister">>

At(t, step)    == todo[t] # <<>> /\ Head(todo[t]) = step
Idle(t)        == todo[t] = <<>>
Goto(t, steps) == todo' = [todo EXCEPT ![t] = steps]
Skip(t, n)     == Goto(t, SubSeq(todo[t], n + 1, Len(todo[t])))
Continue(t)    == Skip(t, 1)
Fails          == Goto("pnp", <<"failed">>)
MayFail        == Head(todo["pnp"]) \in Failures
Record(e)      == history' = history \cup {e}
RecordIf(e, b) == history' = history \cup {x \in {e} : b}

NoXen == [ring |-> "none", granted |-> FALSE, port |-> FALSE, handler |-> FALSE]

LifeInit ==
  /\ pnp = "adding" /\ xen = NULL /\ gen = 0
  /\ todo = [t \in Threads |-> IF t = "pnp" THEN <<"deviceAdd">> ELSE <<>>]
  /\ saw = [t \in Threads |-> 0]
  /\ ledger = [page |-> 0, grant |-> 0, port |-> 0, handler |-> 0]
  /\ fdo = [configured |-> FALSE, unplugged |-> FALSE, disconnected |-> FALSE,
            timer |-> "none", scratch |-> FALSE, child |-> FALSE]
  /\ place = [r \in Requests |-> "none"]
  /\ store = [fe |-> "closed", be |-> "initialising", online |-> TRUE, ringRef |-> 0,
              mapped |-> 0, restarts |-> 0]
  /\ seen = "unknown"
  /\ history = {}

-------------------------------------------------------------------------------
(* FdoEvtDeviceAdd and LateSetup.                                          *)

\* Scratch pad, queues, watchdog timer, work items, in this order.
DeviceAdd ==
  /\ At("pnp", "deviceAdd")
  /\ \/ /\ fdo' = [fdo EXCEPT !.scratch = TRUE, !.timer = "off"]
        /\ Goto("pnp", LateSetupSteps)
     \/ /\ MayFail /\ Fails
        /\ \E s \in BOOLEAN, t \in {"none", "off"} :
             /\ t = "off" => s
             /\ fdo' = [fdo EXCEPT !.scratch = s, !.timer = t]
  /\ UNCHANGED <<pnp, xenVars, place, store, seen, history>>

\* Mutant of Released: the handler is left to XenLowerDisonnectBackend.
ReleasedButHandler ==
  [page    |-> ledger.page - (IF xen.ring = "none" THEN 0 ELSE 1),
   grant   |-> ledger.grant - (IF xen.granted /\ store.mapped # gen THEN 1 ELSE 0),
   port    |-> ledger.port - (IF xen.port THEN 1 ELSE 0),
   handler |-> ledger.handler]

\* The interface gives back what it holds.  A page that XenDeviceInitialize freed
\* on its way out is freed again: SringPage is not cleared.  The end of the grant
\* is refused while the backend maps the ring, and nobody looks.
Released ==
  [page    |-> ledger.page - (IF xen.ring = "none" THEN 0 ELSE 1),
   grant   |-> ledger.grant - (IF xen.granted /\ store.mapped # gen THEN 1 ELSE 0),
   port    |-> ledger.port - (IF xen.port THEN 1 ELSE 0),
   handler |-> ledger.handler - (IF xen.handler THEN 1 ELSE 0)]

\* Requests whose shadow goes with the interface are nobody's.
DeallocateXenInterface ==
  IF xen = NULL THEN UNCHANGED <<ledger, place, history>>
  ELSE /\ ledger' = Released
       /\ RecordIf("freedMapped", store.mapped = gen)
       /\ place' = [r \in Requests |-> IF place[r] = "ring" THEN "lost" ELSE place[r]]

Configure ==
  /\ At("pnp", "configure")
  /\ IF fdo.configured
     THEN /\ Skip("pnp", Len(ConfigureSteps))
          /\ UNCHANGED <<xen, gen, ledger, place, history>>
     ELSE /\ DeallocateXenInterface
          /\ \/ gen' = gen + 1 /\ xen' = NoXen /\ Continue("pnp")
             \/ MayFail /\ xen' = NULL /\ Fails /\ UNCHANGED gen
  /\ UNCHANGED <<pnp, saw, fdo, store, seen>>

\* XenDeviceInitialize: paths and version, ring page and grant, shadows, event
\* channel.  A failure after the page was had frees it.
Initialize ==
  /\ At("pnp", "initialize")
  /\ \/ /\ xen' = [xen EXCEPT !.ring = "live", !.granted = TRUE, !.port = TRUE]
        /\ ledger' = [ledger EXCEPT !.page = @ + 1, !.grant = @ + 1, !.port = @ + 1]
        /\ Continue("pnp") /\ UNCHANGED history
     \/ MayFail /\ Fails /\ UNCHANGED <<xen, ledger, history>>
     \/ /\ MayFail /\ Fails
        /\ xen' = [xen EXCEPT !.ring = "freed", !.granted = TRUE]
        /\ ledger' = [ledger EXCEPT !.grant = @ + 1]
        /\ Record("freedEarly")
  /\ UNCHANGED <<pnp, saw, gen, fdo, place, store, seen>>

(* XenLowerConnectBackend.                                                 *)

\* The suspend handler is registered whether or not the connection succeeded.
RegisterSuspendHandler ==
  /\ xen' = [xen EXCEPT !.handler = TRUE]
  /\ ledger' = [ledger EXCEPT !.handler = @ + 1]

\* No suspend token, or no port; else the state of the frontend.
Connect ==
  /\ At("pnp", "connect")
  /\ \/ /\ xen.port
        /\ store' = [store EXCEPT !.fe = "initialising"] /\ seen' = "unknown"
        /\ Continue("pnp") /\ UNCHANGED <<xen, ledger>>
     \/ ~xen.port /\ RegisterSuspendHandler /\ Fails /\ UNCHANGED <<store, seen>>
     \/ MayFail /\ Fails /\ UNCHANGED <<xen, ledger, store, seen>>
  /\ UNCHANGED <<pnp, saw, gen, fdo, place, history>>

\* XenbusWaitForBackendStateChange returns a state other than the one it was given,
\* at once when the backend has none.
BackendStateChanged == store.be # seen \/ store.be = "unknown"

AwaitInitWait ==
  /\ At("pnp", "awaitInitWait") /\ BackendStateChanged
  /\ seen' = store.be
  /\ \/ seen' = "initwait" /\ Continue("pnp") /\ UNCHANGED <<xen, ledger>>
     \/ seen' \in {"closing", "unknown"} /\ Fails /\ RegisterSuspendHandler
     \/ seen' \notin {"initwait", "closing", "unknown"} /\ UNCHANGED <<todo, xen, ledger>>
  /\ UNCHANGED <<pnp, saw, gen, fdo, place, store, history>>

\* Mutant of Publish: a ring-ref that is there is taken for ours.
PublishOnce ==
  /\ At("pnp", "publish")
  /\ store' = [store EXCEPT !.ringRef = IF @ = 0 THEN gen ELSE @, !.fe = "connected"]
  /\ seen' = "unknown"
  /\ Continue("pnp")
  /\ UNCHANGED <<pnp, xenVars, fdo, place, history>>

\* The transaction that publishes ring and event channel.
Publish ==
  /\ At("pnp", "publish")
  /\ \/ /\ store' = [store EXCEPT !.ringRef = gen, !.fe = "connected"] /\ seen' = "unknown"
        /\ Continue("pnp") /\ UNCHANGED <<xen, ledger>>
     \/ MayFail /\ Fails /\ RegisterSuspendHandler /\ UNCHANGED <<store, seen>>
  /\ UNCHANGED <<pnp, saw, gen, fdo, place, history>>

BackendRefused == {"closing", "closed", "unknown"}

AwaitConnected ==
  /\ At("pnp", "awaitConnected") /\ BackendStateChanged
  /\ seen' = store.be
  /\ \/ /\ seen' = "connected"
        /\ Continue("pnp") /\ RegisterSuspendHandler /\ UNCHANGED history
     \/ /\ seen' \in BackendRefused
        /\ Fails /\ RegisterSuspendHandler /\ Record("refused")
     \/ /\ seen' \notin BackendRefused \cup {"connected"}
        /\ UNCHANGED <<todo, xen, ledger, history>>
  /\ UNCHANGED <<pnp, saw, gen, fdo, place, store>>

Configured ==
  /\ At("pnp", "configured")
  /\ fdo' = [fdo EXCEPT !.configured = TRUE]
  /\ Continue("pnp")
  /\ UNCHANGED <<pnp, xenVars, place, store, seen, history>>

\* The requests for the descriptors go over the ring: they may fail, time out, or
\* find a device that is blacklisted, which gets no root hub.
GetUsbConfigData ==
  /\ At("pnp", "getUsbConfigData")
  /\ \/ Continue("pnp")
     \/ /\ MayFail
        /\ \E rest \in {<<"failed">>, <<"unplug", "failed">>, <<"added">>} : Goto("pnp", rest)
  /\ UNCHANGED <<pnp, xenVars, fdo, place, store, seen, history>>

\* The watchdog is started with the child.
CreateRootHubPdo ==
  /\ At("pnp", "createRootHubPdo")
  /\ \/ fdo' = [fdo EXCEPT !.child = TRUE, !.timer = "armed"] /\ Continue("pnp")
     \/ MayFail /\ Fails /\ UNCHANGED fdo
  /\ UNCHANGED <<pnp, xenVars, place, store, seen, history>>

-------------------------------------------------------------------------------
(* The framework (external): which callback comes next.                    *)

PowerUp ==
  /\ pnp \in {"added", "dx"} /\ Idle("pnp")
  /\ fdo.configured \/ gen < MaxGen
  /\ Goto("pnp", <<"online", "d0">>)
  /\ UNCHANGED <<pnp, xenVars, fdo, place, store, seen, history>>

\* Sleep, rebalance, disable.  FdoEvtIoStop acknowledges the requests on the ring
\* without completing them.
PowerDown ==
  /\ pnp = "d0" /\ Idle("pnp")
  /\ pnp' = "stopping"
  /\ Goto("pnp", D0ExitSteps \o <<"dx">>)
  /\ RecordIf("stoppedBusy", \E r \in Requests : place[r] = "ring")
  /\ UNCHANGED <<xenVars, fdo, place, store, seen>>

\* Mutant: the FDO leaves D0 before it is cleaned up.
SurpriseRemovalAfterD0Exit ==
  /\ pnp \in {"d0", "dx"} /\ Idle("pnp")
  /\ Goto("pnp", (IF pnp = "d0" THEN D0ExitSteps ELSE <<>>) \o CleanupSteps \o <<"remove">>)
  /\ UNCHANGED <<pnp, xenVars, fdo, place, store, seen, history>>

\* The bus driver finds the device gone.
SurpriseRemoval ==
  /\ pnp \in {"d0", "dx"} /\ Idle("pnp")
  /\ Goto("pnp", CleanupSteps \o (IF pnp = "d0" THEN D0ExitSteps ELSE <<>>) \o <<"remove">>)
  /\ UNCHANGED <<pnp, xenVars, fdo, place, store, seen, history>>

\* The device object is deleted: FdoEvtDeviceContextCleanup.  A device that never
\* was in D0 gets no FdoEvtDeviceD0Exit.  The framework waits for requests.
Remove ==
  /\ \/ At("pnp", "remove")
     \/ pnp \in {"added", "dx", "failed"} /\ Idle("pnp")
  /\ Idle("waiter")
  /\ Goto("pnp", CleanupSteps \o <<"deallocate", "removed">>)
  /\ RecordIf("removedConnected", fdo.configured)
  /\ UNCHANGED <<pnp, xenVars, fdo, place, store, seen>>

\* A callback has returned.  A device that could not be powered up is powered down.
Returned ==
  /\ \E s \in {"added", "d0", "dx", "removed", "failed", "crashed"} : At("pnp", s) /\ pnp' = s
  /\ IF pnp' = "failed" /\ pnp # "adding" THEN Goto("pnp", D0ExitSteps) ELSE Continue("pnp")
  /\ UNCHANGED <<xenVars, fdo, place, store, seen, history>>

-------------------------------------------------------------------------------
(* FdoEvtDeviceD0EntryPostInterruptsEnabled.                               *)

XenCheckOnline == store.online /\ store.be # "unknown"

Online ==
  /\ At("pnp", "online")
  /\ LET rest == Tail(todo["pnp"]) IN
       Goto("pnp", IF ~XenCheckOnline THEN CleanupSteps \o rest
                   ELSE IF fdo.configured THEN rest
                   ELSE ConfigureSteps \o <<"startTimer">> \o rest)
  /\ UNCHANGED <<pnp, xenVars, fdo, place, store, seen, history>>

StartTimer ==
  /\ At("pnp", "startTimer")
  /\ fdo' = [fdo EXCEPT !.timer = "armed"]
  /\ Continue("pnp")
  /\ UNCHANGED <<pnp, xenVars, place, store, seen, history>>

-------------------------------------------------------------------------------
(* CleanupDisconnectedDevice and FdoUnplugDevice.                          *)

Cleanup ==
  /\ At("pnp", "cleanup")
  /\ fdo' = [fdo EXCEPT !.disconnected = TRUE]
  /\ IF fdo.disconnected THEN Skip("pnp", Len(CleanupSteps)) ELSE Continue("pnp")
  /\ UNCHANGED <<pnp, xenVars, place, store, seen, history>>

\* Mutant: the timer is cancelled, its callback not waited for.
StopTimerNoWait ==
  /\ \/ At("pnp", "stopTimer") /\ fdo.timer # "none"
     \/ At("pnp", "timerStopped")
  /\ fdo' = [fdo EXCEPT !.timer = "off"]
  /\ Continue("pnp")
  /\ UNCHANGED <<pnp, xenVars, place, store, seen, history>>

\* WdfTimerStop cancels the timer, waits for the callback, and lets it start nothing.
StopTimer ==
  /\ \/ /\ At("pnp", "stopTimer") /\ fdo.timer = "none"
        /\ Goto("pnp", <<"crashed">>) /\ UNCHANGED fdo
     \/ /\ At("pnp", "stopTimer") /\ fdo.timer # "none"
        /\ fdo' = [fdo EXCEPT !.timer = "stopping"] /\ Continue("pnp")
     \/ /\ At("pnp", "timerStopped") /\ Idle("timer")
        /\ fdo' = [fdo EXCEPT !.timer = "off"] /\ Continue("pnp")
  /\ UNCHANGED <<pnp, xenVars, place, store, seen, history>>

\* XenLowerDisconnectEvtChnDPC looks at the port, then stops and closes it, under no
\* lock.
CheckPort(t) ==
  /\ At(t, "checkPort")
  /\ IF xen = NULL
     THEN Goto(t, <<"crashed">>) /\ UNCHANGED saw
     ELSE /\ saw' = [saw EXCEPT ![t] = IF xen.port THEN gen ELSE 0]
          /\ Skip(t, IF xen.port THEN 1 ELSE 2)
  /\ UNCHANGED <<pnp, xen, gen, ledger, fdo, place, store, seen, history>>

ClosePort(t) ==
  /\ At(t, "closePort")
  /\ LET open == xen # NULL /\ saw[t] = gen /\ xen.port IN
       /\ ledger' = [ledger EXCEPT !.port = @ - 1]
       /\ xen' = IF open THEN [xen EXCEPT !.port = FALSE] ELSE xen
       /\ RecordIf("closedTwice", ~open)
  /\ Continue(t)
  /\ UNCHANGED <<pnp, saw, gen, fdo, place, store, seen>>

\* FdoUnplugDevice, up to where it gives up the lock.  Once
\* CleanupDisconnectedDevice has begun the port and the child are left to it.
Unplug(t) ==
  /\ At(t, "unplug")
  /\ fdo' = [fdo EXCEPT !.unplugged = TRUE]
  /\ Goto(t, (IF fdo.unplugged \/ fdo.disconnected THEN <<>> ELSE UnplugSteps) \o Tail(todo[t]))
  /\ UNCHANGED <<pnp, xenVars, place, store, seen, history>>

RemoveAllChildDevices(t) ==
  /\ At(t, "removeChildren")
  /\ fdo' = [fdo EXCEPT !.child = FALSE]
  /\ Continue(t)
  /\ UNCHANGED <<pnp, xenVars, place, store, seen, history>>

\* CompleteRequestsFromShadow, only on a configured interface.
Sweep ==
  /\ At("pnp", "sweep")
  /\ place' = [r \in Requests |->
                 IF fdo.configured /\ place[r] = "ring" THEN "done" ELSE place[r]]
  /\ Continue("pnp")
  /\ UNCHANGED <<pnp, xenVars, fdo, store, seen, history>>

\* The rest of FdoEvtDeviceContextCleanup.
Deallocate ==
  /\ At("pnp", "deallocate")
  /\ fdo' = [fdo EXCEPT !.scratch = FALSE]
  /\ DeallocateXenInterface
  /\ xen' = NULL
  /\ Continue("pnp")
  /\ UNCHANGED <<pnp, saw, gen, store, seen>>

-------------------------------------------------------------------------------
(* XenDeconfigure and XenLowerDisonnectBackend.                            *)

Deconfigure ==
  /\ At("pnp", "deconfigure")
  /\ fdo' = [fdo EXCEPT !.configured = FALSE]
  /\ seen' = "unknown"
  /\ IF fdo.configured THEN Continue("pnp") ELSE Skip("pnp", Len(D0ExitSteps) - 2)
  /\ UNCHANGED <<pnp, xenVars, place, store, history>>

\* One wait for the backend, in any of the loops.
Await(step, leaves) ==
  /\ At("pnp", step) /\ BackendStateChanged
  /\ seen' = store.be
  /\ IF leaves THEN Continue("pnp") ELSE UNCHANGED todo
  /\ UNCHANGED <<pnp, xenVars, fdo, place, store, history>>

\* Mutant of AskFor: the frontend stays in the state it took first.
AskForClosing(step, enough) ==
  /\ At("pnp", step)
  /\ IF seen \in enough
     THEN Continue("pnp") /\ UNCHANGED store
     ELSE Goto("pnp", <<"awaitChange">> \o todo["pnp"]) /\ store' = [store EXCEPT !.fe = "closing"]
  /\ UNCHANGED <<pnp, xenVars, fdo, place, seen, history>>

\* Ask for a state by taking it, and wait for a change, until the backend is there.
AskFor(step, enough) ==
  /\ At("pnp", step)
  /\ IF seen \in enough
     THEN Continue("pnp") /\ UNCHANGED store
     ELSE Goto("pnp", <<"awaitChange">> \o todo["pnp"]) /\ store' = [store EXCEPT !.fe = step]
  /\ UNCHANGED <<pnp, xenVars, fdo, place, seen, history>>

\* Mutant: a backend that is closing will close by itself.
DisonnectBackendEarly ==
  \/ Await("stabilise", store.be # "initialising")
  \/ AskFor("closing", {"closing", "closed", "unknown"})
  \/ AskFor("closed", {"closing", "closed", "unknown"})
  \/ Await("awaitChange", TRUE)

DisonnectBackend ==
  \/ Await("stabilise", store.be # "initialising")
  \/ AskFor("closing", {"closing", "closed", "unknown"})
  \/ AskFor("closed", {"closed", "unknown"})
  \/ Await("awaitChange", TRUE)

\* Mutant: the pointer is left to XenLowerFree.
UnregisterKeepsHandler ==
  /\ At("pnp", "unregister")
  /\ ledger' = [ledger EXCEPT !.handler = @ - 1]
  /\ Continue("pnp")
  /\ UNCHANGED <<pnp, saw, xen, gen, fdo, place, store, seen, history>>

Unregister ==
  /\ At("pnp", "unregister")
  /\ IF xen.handler
     THEN /\ xen' = [xen EXCEPT !.handler = FALSE]
          /\ ledger' = [ledger EXCEPT !.handler = @ - 1]
     ELSE UNCHANGED <<xen, ledger>>
  /\ Continue("pnp")
  /\ UNCHANGED <<pnp, saw, gen, fdo, place, store, seen, history>>

-------------------------------------------------------------------------------
(* The watchdog and the thread that waits for a scratch answer.            *)

TimerFires ==
  /\ fdo.timer = "armed" /\ Idle("timer")
  /\ fdo' = [fdo EXCEPT !.timer = "off"]
  /\ Goto("timer", <<"readState">>)
  /\ UNCHANGED <<pnp, xenVars, place, store, seen, history>>

NotOperational == {"unknown", "closing", "closed"}

\* XenCheckOperationalState, under no lock.
TimerReadsState ==
  /\ At("timer", "readState")
  /\ Goto("timer", IF xen = NULL THEN <<"crashed">>
                   ELSE IF store.be \in NotOperational THEN <<"gone">> ELSE <<"restart">>)
  /\ UNCHANGED <<pnp, xenVars, fdo, place, store, seen, history>>

\* Mutant of TimerDecides: the watchdog looks once.
TimerDecidesOnce ==
  /\ \/ At("timer", "restart") /\ Continue("timer") /\ UNCHANGED fdo
     \/ /\ At("timer", "gone")
        /\ fdo' = [fdo EXCEPT !.unplugged = TRUE]
        /\ Goto("timer", IF fdo.unplugged \/ fdo.disconnected THEN <<>> ELSE UnplugSteps)
  /\ UNCHANGED <<pnp, xenVars, place, store, seen, history>>

\* The rest, under the lock.
TimerDecides ==
  /\ \/ /\ At("timer", "restart")
        /\ fdo' = [fdo EXCEPT !.timer = IF fdo.unplugged \/ @ = "stopping" THEN @
                                                ELSE "armed"]
        /\ Continue("timer")
     \/ /\ At("timer", "gone")
        /\ fdo' = [fdo EXCEPT !.unplugged = TRUE]
        /\ Goto("timer", IF fdo.unplugged \/ fdo.disconnected THEN <<>> ELSE UnplugSteps)
  /\ UNCHANGED <<pnp, xenVars, place, store, seen, history>>

\* WaitForScratchCompletion: a request was not answered in time.
WaitForScratchCompletion ==
  /\ ScratchTimeouts /\ Idle("waiter")
  /\ pnp = "d0" /\ fdo.child /\ fdo.configured /\ ~fdo.unplugged
  /\ Goto("waiter", <<"unplug">>)
  /\ Record("gaveUp")
  /\ UNCHANGED <<pnp, xenVars, fdo, place, store, seen>>

-------------------------------------------------------------------------------
(* Requests, and the backend (external).                                   *)

\* UrbEvtIoInternalDeviceControl looks at XenConfigured and DeviceUnplugged.
Submit(r) ==
  /\ place[r] = "none" /\ pnp = "d0" /\ fdo.child
  /\ fdo.configured /\ ~fdo.unplugged
  /\ place' = [place EXCEPT ![r] = "ring"]
  /\ UNCHANGED <<pnp, todo, xenVars, fdo, store, seen, history>>

\* The DPC takes the answer.
Answer(r) ==
  /\ place[r] = "ring" /\ xen # NULL /\ xen.port
  /\ store.be = "connected" /\ store.mapped = gen
  /\ place' = [place EXCEPT ![r] = "done"]
  /\ UNCHANGED <<pnp, todo, xenVars, fdo, store, seen, history>>

\* The backend follows the frontend, and maps the ring it finds.
BackendFollows ==
  /\ \/ store.be = "initialising" /\ store' = [store EXCEPT !.be = "initwait"]
     \/ /\ store.be = "initwait" /\ store.fe = "connected"
        /\ store' = [store EXCEPT !.be = "connected", !.mapped = store.ringRef]
     \/ /\ store.be \in {"initwait", "connected"} /\ store.fe \in {"closing", "closed"}
        /\ store' = [store EXCEPT !.be = "closing"]
     \/ /\ store.be = "closing" /\ store.fe = "closed"
        /\ store' = [store EXCEPT !.be = "closed", !.mapped = 0]
  /\ UNCHANGED <<pnp, todo, xenVars, fdo, place, seen, history>>

\* A closed backend comes back for a new frontend.
BackendRestarts ==
  /\ store.be = "closed" /\ store.fe = "initialising" /\ store.online
  /\ store.restarts < Restarts
  /\ store' = [store EXCEPT !.be = "initwait", !.restarts = @ + 1]
  /\ UNCHANGED <<pnp, todo, xenVars, fdo, place, seen, history>>

\* The device is detached: the backend closes, whatever the frontend does.
Detach ==
  /\ store.online /\ store.be \notin NotOperational
  /\ store' = [store EXCEPT !.online = FALSE, !.be = "closing"]
  /\ UNCHANGED <<pnp, todo, xenVars, fdo, place, seen, history>>

BackendGoes ==
  /\ ~store.online /\ store.be \in {"closing", "closed"}
  /\ store' = [store EXCEPT !.be = IF @ = "closing" THEN "closed" ELSE "unknown",
                            !.mapped = 0]
  /\ UNCHANGED <<pnp, todo, xenVars, fdo, place, seen, history>>

-------------------------------------------------------------------------------
PnpStep ==
  \/ DeviceAdd \/ Configure \/ Initialize \/ Connect \/ AwaitInitWait \/ Publish
  \/ AwaitConnected \/ Configured \/ GetUsbConfigData \/ CreateRootHubPdo \/ Returned
  \/ Online \/ StartTimer \/ Cleanup \/ StopTimer \/ Sweep \/ Deallocate
  \/ Deconfigure \/ DisonnectBackend \/ Unregister

ThreadStep(t) == CheckPort(t) \/ ClosePort(t) \/ Unplug(t) \/ RemoveAllChildDevices(t)

TimerStep == TimerReadsState \/ TimerDecides

LifeNext ==
  \/ PnpStep \/ PowerUp \/ PowerDown \/ SurpriseRemoval \/ Remove
  \/ \E t \in Threads : ThreadStep(t)
  \/ TimerFires \/ TimerStep \/ WaitForScratchCompletion
  \/ \E r \in Requests : Submit(r) \/ Answer(r)
  \/ BackendFollows \/ BackendRestarts \/ Detach \/ BackendGoes

LifeSpec == LifeInit /\ [][LifeNext]_lifeVars

\* Threads run, the timer expires, the backend follows the frontend and a detached
\* one goes.  Nothing has to be powered up or down, removed, detached or restarted,
\* except that a device that is gone is removed to the end.
LifeFairness ==
  /\ WF_lifeVars(PnpStep) /\ WF_lifeVars(At("pnp", "remove") /\ Remove)
  /\ \A t \in Threads : WF_lifeVars(ThreadStep(t))
  /\ WF_lifeVars(TimerFires) /\ WF_lifeVars(TimerStep)
  /\ WF_lifeVars(BackendFollows) /\ WF_lifeVars(BackendGoes)

FairLifeSpec == LifeSpec /\ LifeFairness

-------------------------------------------------------------------------------
(* Properties.                                                             *)

BackendStates == {"unknown", "initialising", "initwait", "connected", "closing", "closed"}

\* Every variable keeps its range; no resource is released more often than it was
\* had, except the page of a failed initialisation and a port that a thread which
\* gave up closed too.
LifeTypeOK ==
  /\ pnp \in {"adding", "added", "d0", "stopping", "dx", "failed", "removed", "crashed"}
  /\ xen = NULL \/ xen \in [ring : {"none", "live", "freed"}, granted : BOOLEAN,
                            port : BOOLEAN, handler : BOOLEAN]
  /\ gen \in 0..MaxGen
  /\ fdo.timer \in {"none", "off", "armed", "stopping"}
  /\ place \in [Requests -> {"none", "ring", "done", "lost"}]
  /\ store.be \in BackendStates /\ store.fe \in BackendStates /\ seen \in BackendStates
  /\ ledger.grant >= 0 /\ ledger.handler >= 0
  /\ ledger.page < 0 => "freedEarly" \in history
  /\ ledger.port < 0 => "closedTwice" \in history

\* A device that is removed has given back the ring page, the grant, the event
\* channel and the suspend handler, whatever failed on the way, and each once.  The
\* exceptions do not excuse each other: no page and no port is ever kept, a page is
\* freed too often only when XenDeviceInitialize had freed it before, a port closed
\* too often only by two threads at once, and a grant is kept only when the backend
\* had the ring mapped.
ResourcesReturned ==
  pnp = "removed" =>
    /\ ledger.handler = 0 /\ ~fdo.scratch
    /\ ledger.page <= 0 /\ (ledger.page < 0 => "freedEarly" \in history)
    /\ ledger.port <= 0 /\ (ledger.port < 0 => "closedTwice" \in history)
    /\ ledger.grant = 0 \/ "freedMapped" \in history

\* XenConfigure and FdoEvtDeviceContextCleanup free a ring that the backend has mapped
\* only where the handshake never ended or FdoEvtDeviceD0Exit never came: the
\* connection was refused after the backend had mapped the ring, or the device
\* was deleted while connected (FdoEvtDeviceAdd failed after XenConfigure, or the
\* device was never started).
MappedRingKept ==
  "freedMapped" \in history
    => "refused" \in history \/ "removedConnected" \in history

\* XenDisconnectDPC is called by three threads under no lock.  Waiting for the
\* watchdog in WdfTimerStop keeps the port from being closed twice, but not
\* against a thread whose scratch request timed out.
PortClosedOnce == "closedTwice" \in history => "gaveUp" \in history

\* A request whose shadow goes with the interface was on the ring when the device was
\* powered down: no other path forgets one.
LostOnlyByPowerDown ==
  (\E r \in Requests : place[r] = "lost") => "stoppedBusy" \in history

\* When XenLowerConnectBackendInternal succeeds the backend has taken the ring of this
\* interface and no older one.
ConnectedToThisRing ==
  [][~fdo.configured /\ fdo'.configured => store.mapped \in {gen, 0}]_lifeVars

\* A backend that stays away is noticed, if the device stays in D0.
LossIsNoticed ==
  []<>(\/ store.be \notin {"unknown", "closing", "closed"} \/ fdo.unplugged \/ pnp # "d0"
       \/ ~fdo.child)

\* Every PnP callback ends, but for the wait for a closed backend to come back.
CallbacksEnd ==
  []<>(Idle("pnp") \/ (At("pnp", "awaitInitWait") /\ store.be = "closed"))
===============================================================================
