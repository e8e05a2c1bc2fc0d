# TLA+ models of xc-vusb

xc-vusb is the OpenXT Windows frontend driver for paravirtual USB (KMDF, C++).  One FDO stands
for one virtual USB controller with one device.  USB request blocks (URBs) of the Windows USB
stack become entries of a ring shared with a backend in another domain; the driver also plays
the controller's root hub towards the hub driver.  This directory models the driver's core, the
way of a URB to the ring and back, with everything that may happen to it on the way.

All paths below are in `src/Drivers/xenvusb/`.  In the driver nearly all shared state is
protected by one spin lock per device, the *FDO lock*.  What is hard is where the code gives it
up: to wait, to complete a request, to stop or start a framework queue.

## 1. Inventory

### Shadow ring: `xenif.cpp`, `xenif.h`
- State: the shared ring; `Shadows[]`, one per ring slot, whose index is the id of the entry
  (`InUse`, `Request`, `isReset`, grant references); `ShadowFreeList[]` with `ShadowFree`, a
  stack of ids; `RequestsOnRingbuffer`.
- Operations: `PutUrbOnRing`, `PutIsoUrbOnRing`, `PutResetOrCycleUrbOnRing`, `PutScratchOnRing`
  take a shadow; `XenDpc` consumes the answers and gives it back; `FreeShadowForRequest` takes
  it away from a request that is cancelled or swept.
- Hard: a shadow freed early has its entry still at the backend; `RequeueRequest` releases the
  lock while a shadow is taken; the last shadow is reserved for resets.
- Correct when: a free id is on the stack once and a used one not at all; no shadow leaks; a
  transfer never takes the last one.

### Cancellation and removal: `UsbRequest.cpp`, `Device.cpp`, `xenif.cpp`
- State: per request `CancelSet` and `RequestCompleted`, and the framework's own idea of whether
  it is cancelable; per pipe `abortInProgress`, `abortWaiters`, `abortCompleteEvent`;
  `ResetInProgress`; the free work items; `DeviceUnplugged`, `CtlrDisconnected`.
- Operations: `EvtFdoOnHardwareRequestCancelled` and the work items it starts,
  `AbortEndpointWorker`, `AbortEndpointWaitWorker`, `ResetDeviceWorker`; the cancel race in
  `XenDpc`; `FdoUnplugDevice`; `CompleteRequestsFromShadow`.
- Hard: answer, cancel routine, work item and sweep compete for one request; several requests of
  one pipe are cancelled around one abort; waits with and without timeouts.
- Correct when: a request is completed exactly once; the ring's reference lives as long as the
  entry may be looked at; an abort or reset in progress always has somebody who will end it.

### URB queues: `Queue.cpp`, `Device.cpp`
- State: the `UrbQueue` (parallel dispatch, started or stopped), the `RequestQueue` (manual),
  `RequeuedCount`, `ConfigBusy`, `ResetInProgress`.
- Operations: `UrbEvtIoInternalDeviceControl`, `SubmitUrb`, `RequeueRequest`,
  `DrainRequestQueue` from the DPC, the watchdog and a passive work item.
- Hard: `RequeueRequest` drops the lock, stops the queue, forwards, and takes the lock again,
  while others drain and start the queue.
- Correct when: no request is lost, duplicated or left for ever in a stopped queue.

### Scratch pad: `xenif.cpp`, `UsbConfig.cpp`, `UsbRequest.cpp`
- State: one page, `ConfigBusy`, `CompletionEvent`, `Status`, `BytesTransferred`.
- Operations: `WaitForScratchPadAccess` (takes the pad after five delays even from its owner),
  `PutScratchOnRing`, `WaitForScratchCompletion` (gives the device up after five timeouts),
  `PostProcessScratch`.
- Correct when: each user gets the answer to its own request, or fails.

### DPC loop: `Device.cpp`, `xenif.cpp`
- State: `InDpc`, `DpcOverLapCount`, `RequestCollection`, the indices of the ring.
- Operations: `FdoEvtDeviceDpcFunc` (the event channel, and the watchdog through
  `FdoEvtTimerFunc`), `XenDpc`, the backend's publication and notification.
- Hard: the backend takes no lock; one DPC relies on another; the collected requests are
  completed with the lock released, in a section that is re-entrant.
- Correct when: no answer stays unnoticed; each collected request is completed once.

### Grant references and transfers: `xenif.cpp`
- State: the free list of grant references; per shadow the references of its data pages, its
  indirect pages, MDLs and packet buffer.
- Operations: `PutUrbOnRing` and `PutIsoUrbOnRing` up to the ring, `AllocateGrefs`,
  `AllocateIndirectGrefs`, `GetGrantFromFreelist`, `PutShadowOnFreelist` and what it frees.
- Hard: each allocation may be refused; what is freed depends on how far the function got
  and on whether it has a shadow; the number of pages at a multiple of a page's capacity.
- Correct when: a reference is free, held once or lost to a backend that keeps it mapped; nothing
  else is forgotten; a request on the ring describes all of its pages.

### Answers: `UsbResponse.cpp`, `xenif.cpp`
- State: `isReset` of the shadow, `PortConnected`.
- Operations: `MapUsbifToUsbdStatus`, `PostProcessUrb`, `XenPostProcessIsoResponse`,
  `PostProcessSelectConfig`.
- Hard: 17 statuses of usbback, four kinds of URB, two ages of Windows, resets, stale flags.
- Correct when: the IRP, the URB and its packets tell the same story as the backend.

### Configuration: `UsbConfig.cpp`, `UsbRequest.cpp`
- State: `ConfigData` (a parsed descriptor per configuration), the current configuration as value,
  offset and four pointers, `ConfigBusy`, OS strings, the `usbflags` of the device.
- Operations: `GetUsbConfigData` and the exchanges it is made of, `ParseConfig`,
  `SetInterfaceDescriptorPipes`, SELECT_CONFIGURATION, SELECT_INTERFACE, `ReleaseConfigData`.
- Hard: every exchange may be refused, short or lost in the middle of the sequence; descriptors are
  the device's; several places clear `ConfigBusy`.
- Correct when: what was parsed is what the bytes say, pipes go to their own interface, and the
  driver's idea of the current configuration is the device's.

### FDO life cycle: `Device.cpp`, first part of `xenif.cpp`
- State: where the framework has the device, `Xen` and what it holds, the watchdog,
  `XenConfigured`, `DeviceUnplugged`, `CtlrDisconnected`, the child PDO.
- Operations: `FdoEvtDeviceAdd`, `LateSetup`, D0 entry and exit, surprise removal,
  `CleanupDisconnectedDevice`, context cleanup, `XenConfigure`/`XenDeconfigure`, `FdoUnplugDevice`.
- Hard: every step can fail half-way; the watchdog and a thread that gives a scratch request up
  unplug the device meanwhile.
- Correct when: a removed device has given everything back once, no request is forgotten, and every
  callback ends.

### Connection to the backend: `xenlower.cpp`
- State: both ends' states and the published ring in xenstore; ring page, grant, event channel,
  suspend handler.
- Operations: initialise, connect, disconnect, the port from three threads under no lock, the resume
  callback.
- Hard: waits without timeouts for a backend that may close, restart or be detached; what xenstore
  says may be of an earlier interface.
- Correct when: a connected frontend shares its present ring, a mapped ring is not freed, and a
  backend that stays away is noticed.

### Root hub: `RootHubPdo.cpp`
- State: `PortFeatureStatus`, `PortFeatureChange`, `StatusChangeQueue`, `ResetCompleteEvent`,
  `PortConnected` of the parent.
- Operations: the class requests, GET_STATUS, port reset and cycle IOCTLs, the interrupt transfer,
  `HubCheckStatusChange`, `HubEvtIoStop`, D0 entry and exit, surprise removal.
- Hard: the queue is parallel and the words have no lock, so `|=` and `&=` of two threads mix; a
  change and the transfer that reports it pass each other.
- Correct when: a change is reported; a request is completed once; a reset waits for its own answer;
  a device that is gone is not reported as connected.

### Not modelled
- **Bus interfaces** (`UsbInterface.cpp`): tables of callbacks, most of which return constants.
- **Child PDO queue** (`DevicePdo.cpp`): forwards each request or completes it with a fixed status.
- **Tracing**: diagnostics.  None of the three has state of its own that a step could spoil.

### How the parts meet
The life cycle allocates the interface, connects it, reads the configuration and creates the root
hub, above which the client sits.  A URB is dispatched by the `UrbQueue`, takes a shadow, pages and
grants and becomes a ring entry (or goes to the `RequestQueue`), is marked cancelable and is
answered.  The DPC loop takes the answer, decides with the framework who owns the request, maps its
status, gives the shadow back, completes the request and then drains the `RequestQueue`.  A
cancellation starts a work item that sends an internal request through the scratch pad, which needs
a shadow again; selections of a configuration use the same pad.  Removal sweeps whatever the shadows
hold, and tells the root hub through `PortConnected`.

## 2. Modules

| module | models | extends or uses |
|---|---|---|
| `IdPool` | abstract: a pool of ids with one owner each | |
| `ShadowRing` | shadows, free list, entries, answers | refines `IdPool` (`INSTANCE`) |
| `CancelPath` | cancellation, work items, scratch pad waits, removal | EXTENDS `ShadowRing`, refines `RingSpec` |
| `UrbQueues` | dispatch, requeue and drain | |
| `DpcLoop` | noticing and collecting answers | |
| `FdoLifecycle` | PnP and power callbacks, connection, watchdog, backend | |
| `RootHub` | the port and the requests of the hub driver | |
| `RingTransfers` | allocations of a transfer, grants, their release | |
| `UsbDescriptors` | parsing and look-ups, as operators | |
| `DeviceConfig` | set-up, selections, release | EXTENDS `UsbDescriptors` |
| `UsbAnswers` | status mapping and post-processing | |
| `MCUsbLogic` | TLC instance of the four above that share no state | EXTENDS them |
| other `MC*` | TLC instances | the module of that name |
| `ShadowRing_proofs`, `CancelPath_proofs`, `DpcLoop_proofs`, `UrbQueues_proofs`, `RingTransfers_proofs`, `RootHub_proofs`, `FdoLifecycle_proofs` | theorems | EXTENDS the module, `TLAPS` |
| `UsbLogic_proofs` | theorems of `UsbDescriptors`, `DeviceConfig`, `UsbAnswers` | EXTENDS `DeviceConfig`, `UsbAnswers`, `TLAPS` |

One action is what one thread does in one critical section.  Where a function gives up the lock
it is cut there.  `PROJECT.json` maps each definition to its lines.

**ShadowRing.**  `shadowFree`, `freeList`, `inUse`, `request`, `isReset`,
`requestsOnRingbuffer` are the fields of that name.  `backend` and `responses` are the two halves
of the ring.  `window` holds the shadow that `PutUrbOnRing` keeps while `RequeueRequest` has the
lock released.  `holder`, `deferred` and `scratchPuts` are history.  The backend answers any
entry in any order.  `FreeShadowForRequest` is allowed for any request at any time here, so what
holds in `ShadowRing` holds for every caller.

**CancelPath.**  Every action that touches the ring contains the `ShadowRing` action it performs.
`fw` is the framework's view of a request, `worker[r]` the work item cancellation started for
`r` with its program counter.  `WaitForScratchPadAccess` and `WaitForScratchCompletion` are
several steps: the pad may be taken from its owner, a wait may time out, and the event is
cleared without the lock.  A request is used once: the memory of a completed request that comes
back is another request.  `CancelInit` leaves open which requests the stack above sends;
`MCCancelPath` narrows that down to scenarios.

**UrbQueues.**  The FDO lock is a variable, `place[r]` says where a request is, `thread[r]` and
`drainer[d]` are program counters.  The ring is only the number of entries in use, and the last
is reserved.  SELECT_INTERFACE stands for the URBs that need PASSIVE_LEVEL and the scratch pad;
`Locals` for URBs that are answered without the backend; `ConfigStarts` and `ConfigEnds` for the
other users of the scratch pad.

**DpcLoop.**  An answer is its index on the ring.  `XenDpc` is cut at every read or write the
backend can see: reading `rsp_prod`, writing `rsp_event`, reading `rsp_prod` again.  `published`
is the backend between its publication and its look at `rsp_event`.  The completion loop gives up
the lock per item.

**FdoLifecycle.**  Three threads: the framework's PnP thread, the watchdog, and a client thread that
gives a scratch request up.  `todo[t]` is the sequence of steps `t` has still to take in its
callback, in the order of the code; a failure replaces the rest.  `xen` is NULL or what the
interface holds, `gen` names the interface that was allocated last, `ledger` counts allocations
minus releases per kind of resource, `store` is xenstore with what the backend has mapped.  `saw[t]`
is the interface whose port `t` found open before it closes it: check and close are two steps.

**RootHub.**  A handler is a sequence of small steps of its own thread; a `|=` or `&=` is a load
(`loaded[t]`) and a store.  `ResetDevice`, the exchange over the scratch pad in the middle of
SET_PORT_RESET (2148), is a step of its own between the words and the completion; it changes no word
and does not set the event of the hub's resets.  `taken[t]` is a parked transfer a thread has
retrieved and not completed yet, `holder[r]` who owns a request.  The answer of a reset (`XenDpc`) and
the loss of the device are external steps.

**RingTransfers.**  A transfer needs a list of things in the order the function asks for them.  A
step puts one on the ring or refuses it, with a set of failing needs and as many references as there
are; the FINALLY block decides what goes back, and whatever nobody knows any more is in `leaked`.
References are numbers, handed out lowest first, which loses nothing: the properties do not depend
on which one it is.

**UsbDescriptors, DeviceConfig.**  A descriptor memory is the sequence of the descriptors found by
following `bLength`; `ParseConfig` is a loop over it (`Turns`, what it has come to after each
descriptor) with the code's tests in the code's order.
`DeviceConfig` has one action per exchange of `GetUsbConfigData` with the outcomes full, short,
stalled, answer lost, or not sent at all, and the client's selections.  A configuration is read
twice: the first `wTotalLength` sizes the buffer, `ParseConfig` goes by the second, which may be
another (`OtherTotals`), so it can read behind the buffer (`BufferHolds`).  A wait that is given up
before the first exchange finds the zero pad, which looks like a short answer.  The thread that
completed a selection and has `ConfigBusy` still to clear is counted in `late`.  The pad itself is in
`CancelPath`.

**UsbAnswers.**  One shadow is used for any kind of request, again and again, so that `isReset` can be
left over.  `result` is what the client was told of the last answer.

## 3. Runs

| run | question | result |
|---|---|---|
| `shadow_ring` | free list, reserve, leaks, counter; refinement of `IdPool` | holds |
| `cancel_abort` | waiters counted, aborts and resets owned and not ended under a queued work item, completed once, reference kept | holds |
| `cancel_ring` | everything cancellation and removal do to the shadows is a step of `ShadowRing` | holds |
| `cancel_live` | a cancelled request is completed, also when the pad is taken over | holds |
| `urb_queues` | a request is in exactly one place; `RequeuedCount` bounded | holds |
| `urb_queues_live` | every transfer is served | holds with the watchdog |
| `dpc_loop` | no lost wakeup; answers taken without the watchdog; collected once and completed | holds |
| `fdo_lifecycle` | resources given back, ring not freed while mapped, port closed once, requests not forgotten, the ring connected is the present one; loss noticed, callbacks end | holds, with the exceptions of section 4 |
| `usb_logic` | hub: changes reported, completed once, own reset, gone is gone; transfers: resources and descriptions; configuration: parsed and agreed; answers: agree | holds, with the exceptions of section 4 |
| `cancel_sweep`, `cancel_signal`, `cancel_answers` | what comments promise | **violated**, section 4 |

The properties and their meaning are written above each definition.

### Bounds
- `shadow_ring`: two shadows, one for transfers and the reserve; two transfers, a reset and one
  internal job of each kind.  `MaxCount` = 3 stops new entries when the counter, which the DPC
  does not lower for internal requests, has reached it.  Two shadows are the smallest array with
  a reserve, and enough for an id to be freed early, reused, and answered late.
- `cancel_*`: three shadows (two transfers and the reserve), so that aborts can find none left.
  Three transfers of one pipe are an abort, a waiter that is the last one and one that is not.
  `Controls` have no endpoint, so their cancellation resets the device.  `cancel_abort` has either
  the three transfers of the pipe, or two requests one of which has no endpoint (a control transfer
  or a port reset): an abort and a reset that compete for the pad; `cancel_live` has the same
  scenarios with two transfers.  In `cancel_abort` and `cancel_ring` work items run out too
  (`ItemsCanFail`), so that a completed request whose shadow is left to a work item that was never
  queued is among the states.  `GrefFailures`,
  `InitWorkItems`, `ItemsCanFail`, `Disconnects` switch on the partial failures and the removal;
  `cancel_ring` has all of them.  Each run fires only the part of the next-state relation its
  question needs, together they fire all of it.
- `urb_queues`: one request of each kind, ring of two entries so that the second finds it full;
  a failing forward, a cancellable request, an unplug.  `Configs` bounds the foreign uses of the
  scratch pad.
- `dpc_loop`: a DPC and the watchdog, two processors (so two passes before it reschedules), three
  answers of which the first may fail to be collected, one counted overlap (the code only asks
  whether the count is zero).  Indices do not wrap; the code compares them for equality only.
- `fdo_lifecycle`: one request; two interfaces (`MaxGen`), so one suspend and resume or one failed
  attempt before the present one; one restart of the backend; every step that can fail may fail.
- `usb_logic` checks four modules that share no state side by side: a behaviour takes the steps of
  one of them and the others rest.  *Hub*: two requests of the hub driver and one interrupt
  transfer with budgets (one request once and the transfer twice; two requests once each, which is
  every pair of handlers interleaved; one twice and the transfer once), one power-up.  CLEAR_C_ENABLE
  and SET_PORT_POWER do to the words what CLEAR_C_RESET and CLEAR_PORT_ENABLE do, and `LOCAL` only
  completes, so they are left out.  *Transfers*: two shadows, eight references, three segments per
  request, two entries per indirect page, transfers that fill one, two and more than two pages
  exactly and not exactly, one reference a backend keeps.  *Configuration*: every memory of a
  configuration descriptor and up to three more, of ten kinds, with two total lengths; a second read
  that gives the same total or one of two others (20, 36); five
  devices with two faults and one selection or one fault and two selections, and a replug.
  *Answers*: every status for every kind, two answers, so that the second finds what the first left.
- Symmetry is used in safety runs only, for transfers of one pipe, for internal requests of one
  kind and for the requests of the hub driver.  The VIEWs leave out array slots above `ShadowFree`,
  which the code writes before it reads them, and what neither a later step nor a property of
  that run looks at.
- No deadlock check: all requests may be served, the device may be removed, a bound reached, and then
  nothing has to happen.

### Fairness
- `CancelPath` (`CancelFairness`): weak, per request, for the cancel routine (the framework calls
  it), the work items (system worker threads), the DPC (event channel), the end of a wait with a
  timeout; weak for the backend.  Nothing must be cancelled and the watchdog need not unplug.
- `UrbQueues` (`QueuesFairness`): strong, per thread, because lock and queue state come and go
  while a thread waits: a spin lock is granted eventually, a started queue dispatches, the
  watchdog is a periodic timer.  `UrbServed` needs the watchdog: the last answer may be processed
  between the decision to requeue and the forward, and then nobody else would drain.  The
  obligation ends when the device is unplugged.
- `DpcLoop` (`DpcFairness`): strong per thread once it is in the DPC function and for the start of
  the DPC when the channel is raised; weak for the backend's look at `rsp_event`.  Nothing
  is assumed of the watchdog, so the liveness does not depend on it.
- `FdoLifecycle` (`LifeFairness`): weak for each thread inside its callback, for the timer, for a
  backend that follows the frontend's state and for a detached backend that goes.  Nothing has to be
  powered up or down, removed, detached or restarted: `CallbacksEnd` therefore excepts the wait
  for a closed backend that nobody brings back, which the code does without a timeout.

## 4. Where code and comments disagree

1. **`cancel_sweep`**: `xenif.cpp:2331` clears `CancelSet` of a request that it leaves to the
   cancel routine.  `CompleteRequestsFromShadow` decides by `CancelSet`, so it completes
   that request, and the cancel side completes it again.  The comment at 768-769 says that it is
   owned by the cancel routine.
2. **`cancel_signal`**: `AbortEndpointWorker` forgets its pipe when the device is unplugged while
   it waits for the scratch pad (`UsbRequest.cpp:2832`), and does not set the event for which
   the other work items wait without a timeout.  The comment at 2724 makes it guarantee that.
3. **`cancel_answers`**: a cancel worker frees the shadow while the entry is still with the
   backend; the id is reused, and the late answer is handled as the new request's.
   `usbxenif.h:120` relies on the id as the guest's private value, echoed.

`CompletedOnce` is stated up to the first and third of these (`ctlrDisconnected`, `mismatched`),
`CancelledIsCompleted`, `WaitersCounted` and `AbortHasOwner` up to the second
(`deviceUnplugged`).  These are conditions a reader should know about: they are where the driver
itself loses the property.

The other exceptions the properties make are each a place in the code, reached by the run:

*Connection and life cycle* (`fdo_lifecycle`)
- The ring page is freed by `XenInterfaceCleanup` and again by the failure path of
  `XenDeviceInitialize` (`xenif.cpp:313`): the event `freedEarly`.
- The ring is freed while the backend has it mapped when the connection is refused after the
  mapping, or the device is deleted without a D0 exit (`xenlower.cpp:180`).
- Two threads that unplug can both find the port open and close it; stopping the timer protects
  against the watchdog, not against a thread that gave a scratch request up (`xenlower.cpp:399`).
- A D0 exit without removal drops the shadows, and with them the requests on the ring.

*Root hub* (`usb_logic`)
- The status and change words are updated under no lock: a store can bring back a bit another
  thread has cleared (`RootHubPdo.cpp:1945`), so a port that is gone can be reported as connected.
- A change made by GET_STATUS itself, or one checked for while the queue is paused, is not reported
  until the next one.
- `HubEvtIoStop` completes a request its handler is about to complete (3311).
- One event serves all resets of the port (3087): of two overlapping ones, either answer wakes both.

*Transfers* (`usb_logic`)
- `PutIsoUrbOnRing` loses the packet buffer and the MDL it built when a later allocation is refused
  (`xenif.cpp:2150`).
- `AllocateIndirectGrefs` writes a header behind the last page when the entries fill it exactly
  (about 1016).

*Configuration* (`usb_logic`)
- The status of SET_CONFIGURATION is not looked at (`UsbConfig.cpp:2013`), and a request that was
  not even sent is waited for, ten seconds, until the device is unplugged (1917, 2002).
- After an unconfigure the pointers are NULL and every later SELECT_CONFIGURATION fails
  (`UsbRequest.cpp:1403`, "this should never happen").
- `ConfigBusy` stays set when `SetConfiguration` requeues its URB (`UsbRequest.cpp:1379`) or a
  SELECT_INTERFACE cannot be sent (1836), and is cleared too late, under the next selection (1616).
- `ParseConfig` goes by the `wTotalLength` of the second read, the buffer has the length of the first
  (`UsbConfig.cpp:845`, 1154-1161): a device that answers twice differently has it read behind the
  buffer.
- A descriptor of unknown type with length 0 is looked at for ever (`UsbConfig.cpp:859`, 1098): the
  state "hung" of the model.
- `SetInterfaceDescriptorPipes` reads behind the last pipe when an interface claims more endpoints
  than follow it (2469).
- A short device descriptor read by the client overwrites `bNumConfigurations`
  (`UsbResponse.cpp:160-171`), which `ReleaseConfigData` uses.

*Answers* (`usb_logic`)
- A successful unconfigure is reported as failure, in a URB that was zeroed and so says success
  (`UsbResponse.cpp:227`).
- The packets of an isochronous URB carry the raw status of usbback.
- `isReset` survives into an internal request and hides DEVICE_GONE (`xenif.cpp:1129`).

Also seen while reading, and in no run: `XenDpc` never takes an internal request off
`RequestsOnRingbuffer` (the counter is covered by `CounterCovers` only from one side); a requeued
port reset is refused by the drain (`Queue.cpp:1471`); a SELECT_INTERFACE that drains at DPC level
is requeued for a work item (1433); GET_DEVICE_CONFIG_INFO releases the lock twice on its error path
(1165); the SELECT_INTERFACE branch of `PostProcessUrb` cannot be reached; the context cleanup uses
`Xen` and the timer before it asks whether they exist.

## 5. Proofs

Checked by TLAPS with SMT, Zenon and LS4, for all values of the constants that satisfy the
named assumptions.

**ShadowRing** (from `ShadowEntriesAssumption`: at least one shadow; `JobsAssumption`: kinds of
jobs disjoint, `NULL` neither a job nor a number)
- `TypeCorrect`: `TypeOK`.  `GetShadowTypes` and `PutShadowTypes` carry it through every action.
- `FreeListSafe`: `FreeListExact`.  Inductive with `TypeOK`.  `ListStep` reduces every action to
  a pop, a push or neither; `PutShadowExact` needs that the stack has room when a shadow is in
  use (`ListHasRoom`, by the pigeonhole principle), otherwise `PushId` would drop the id.
- `ReserveSafe`: `ReserveForReset`.  A transfer pops only if another id lies beneath, which is not
  in use by `FreeListExact`.
- `PoolImplemented`: `RingSpec => Pool!PoolSpec`, with `HolderExact` (a shadow has a holder
  exactly while in use) as the strengthening.
- `NoShadowLeaks`: `ShadowAccounted`.  Inductive with `TypeOK`.  A shadow is taken together with
  its entry on the ring (`PutAccounted`), an answer takes only its own entry away
  (`ConsumeKeepsOthers`), and giving a shadow back leaves the others as they were
  (`GiveAccounted`); the step of `RequeueRequest` and the deferral to the cancel side move a
  shadow from one place to another.
- `CounterNeverShort`: `CounterCovers`.  A shadow that names a request is in use (`RequestInUse`), so
  giving one back takes at most one from the set that is counted and one from the counter
  (`PutServes`); the set is finite because the ids are.
- `RingInvariant`: `RingInv`, that is `TypeOK`, `FreeListExact` and what the proofs about the ring's
  clients need: a shadow serves the job it was taken for (`ServedByHolder`), is marked as a reset
  only for one (`ResetsMarked`), and every entry is on the ring once (`EntriesExact`).

**DpcLoop** (from `DpcAssumption`)
- `DpcTypeCorrect`: `DpcTypeOK`, with `IndexBehind`; it contains `rspCons <= rspProd <= reqProd`
  and `passes < Processors`.
- `NoLostWakeup`: `AnswerNoticed`.  It is not inductive: that a raised event is owed depends
  on where in its loop the thread is.  `DpcInv` adds that `InDpc` means exactly one thread in
  the loop (`OneInLoop`), that this thread has asked for an event before its last look and leaves
  only when no answer can be missed (`LoopLooksAgain`), and that without a thread in the loop the
  next answer will be noticed (`Safe`).
- `NothingTwice`: `CollectedOnce`.  `OnceInv` strengthens it: an answer is in one place only, in
  the collection, with a thread or completed (`InOnePlace`); what was seen lies behind the
  consumer index (`SeenBehind`), although that index is written back late; and a thread that
  completes has exactly the item it took from the collection (`HasItem`).

**CancelPath** (from `CancelAssumption` and those of `ShadowRing`)
- `RingImplemented`: `CancelSpec => RingRefined`, that is `RingSpec` by refinement: every action of
  cancellation, requeueing, removal and the sweep is an action of `ShadowRing` or leaves the ring
  alone (`NextIsRingStep`; the sweep needs `TypeOK` to know that a shadow names a request).  So
  the theorems above hold of `CancelPath`; `CancelFreeListSafe` says so of the free list.
- `CancelTypeCorrect`: `CancelTypeOK`.  `abortWaiters` is unsigned in the code, so that it stays a
  natural number when `WaitDone` lowers it is the point: a waiter is counted (`WaitIsCounted`), also
  when the device is unplugged and the count no longer exact.
- `WaitersCountedAlways`, `AbortHasOwnerAlways`, `AbortStillInProgressAlways`.  None of the three is
  inductive.  `PipesInv` is: a request's work item is started once, by its cancel routine
  (`WorkersOwned`); the waiters of a pipe are at most `abortWaiters` (`WaitsCovered`); and while the
  device is there `AbortOrder` makes the three fields of a pipe functions of the set of work items
  that abort it (`Aborts`, one at most) and of the set that waits (`Waits`), with nobody woken while
  an abort runs.  The step lemmas follow what happens to the two sets: a work item enters
  (`RoutineEnters`), leaves (`AbortEndsKeepsOrder`, `WaitEndsKeepsOrder`), is woken
  (`WokenKeepsPipes`) or goes on (`GoOnKeepsPipes`).

**CancelPath, who owns a request** (same module and assumptions)
- `RequestsCompletedOnce`, `RequestsReferenced`, `ResetHasOwnerAlways`: `CompletedOnce`,
  `ReferencedOnRing`, `ResetHasOwner`.  None is inductive, because three parties may complete a
  request and each goes by what it finds in a shadow or in the request's context.  `OwnerInv` says how
  far a request has come from its state in the framework alone (`RequestsOrdered`), and what an entry
  of the ring, in the hands of the backend or answered, says of the request behind it
  (`EntriesOrdered`): either its `CancelSet` is still there, or the cancel side has completed it.
  `WindowHeld` keeps the shadow of a thread inside `RequeueRequest` its own.  The invariant is stated
  until the sweep begins and while no answer was taken for that of another request (`Sound`): after
  that the code itself gives the promise up (findings of section 4).
- `CancelCounterNeverShort`: `CounterCovers` of `CancelSpec`, by `RingImplemented` and
  `CounterNeverShort`.

**UrbQueues** (from `QueuesAssumption`: kinds of requests disjoint, finitely many requests; the last
only for the bound of `RequeuedCount`)
- `QueuesInvariant`: `QueuesInv`; `RequestsAccounted`: `RequestAccounted`; `QueuesTypes`:
  `QueuesTypeOK`.  That a request is not in two places depends on the thread that is about to put it
  there being the only one that has it, also across the moments at which the lock is not held:
  `ThreadsAgree` ties a dispatch thread's counter to `place`, `OwnsOne` and `HasDrainer` give every
  request in a drainer's hands exactly one drainer, `QueueExact` and `RingExact` tie the queue, without
  duplicates, and the ring to `place`.
- `RequeuedCount` is only compared with zero.  That it stays bounded is `CountBounded`: it is at most
  the number of requests and drainers less those that may still count.

**RingTransfers** (from `TransfersAssumption`: a transfer has a kind, a buffer and some number of pages;
`GrantsAssumption`: finitely many references, at least one entry in a request and two in an
indirect page)
- `TransferResources`: `ResourcesAccounted`; `TransfersDescribed`: `TransferDescribed`.  `TransfersInv`
  adds that a shadow on the ring holds what its transfer needs and nothing else (`ShadowsExact`).
  References are handed out by rank; `RankExact` (a finite set of numbers has one member of each
  rank) makes a reference that is given to one need the reference of no other.  The FINALLY block
  releases exactly what was taken because the references are exhausted only at the end of the list.

**RootHub** (from `HubRequestsAssumption` and `HubOpsAssumption`)
- `HubInvariant`: `HubInv`.  The steps a thread has still to take are data of this model, so the
  part the others rest on says what such a sequence looks like (`HubSteps`): which steps can be in
  whose sequence, that a request is given away once in it, that the event of a reset is cleared before
  anything else, that an answer is followed by the completion, and that a change made aloud or a
  parked request is followed by a check.  `OrderKept` shows that a step which adds steps of its own
  keeps that; the sequences of all twelve operations have it (`HandlerStepsOrderly`).
- `HubRequestsCompletedOnce`: `HubCompletesOnce`, from `RequestOwned` (somebody who will complete or
  give a request away owns it, and nobody else) and `ParkedOnce`.
- `ResetWaitsForItsOwn`: `EventIsOfThisReset`, from `ResetAlone` (a reset that is not overlapped is
  the only one under way, from its dispatch to its answer) and `EventOwned` (the event says whether
  this reset was answered from the moment it was cleared).
- `GoneIsSeenAlways`: `GoneIsSeen`, from `GoneCleared`: an answer that found the device gone reads a
  word without CONNECT, or clears it first, since nobody connects the port while a request is with
  its handler (`WhileSampling`).
- `ChangesReported`: `ChangeIsReported`, under `OneInterruptTransfer`: the hub driver keeps one
  interrupt transfer pending.  With two of them the property is false, as one check reports to one
  of them.

**FdoLifecycle** (from `LifeAssumption`: at least one interface may be allocated, and `NULL` is not what
an interface holds)
- `LifeInvariant`: `LifeInv`, which every theorem below rests on.  The steps of a callback are data
  here too, and callbacks are put together at run time (D0 entry, D0 exit, cleanup, a failure in the
  middle, an unplug inside any of them), so its first part, `Control`, says what the rest of a
  callback can look like: which step follows which (`Follows`), what a step has ahead of it by
  position, because skips count steps (`Placed`), and what may stand before the sweep and the
  deletion (`Behind`).  `Shorter` and `Joined` keep that through every skip and every insertion; each
  action then has a lemma that says where it stands, what it changes and what comes next (`...Does`).
- `PortClosedOnceAlways`: `PortClosedOnce`.  The check and the close of the port are two steps without
  a lock; what makes them safe is `Watchdog`: while the PnP thread connects, or is past
  `WdfTimerStop`, the watchdog is neither running nor about to (`Quiet`).  So what a thread saw open is
  open when it closes it (`SawOpen`), as long as no thread gave a scratch request up.
- `ResourcesReturnedAlways`, `LifeTypesAlways`: `ResourcesReturned`, `LifeTypeOK`.  `Books` ties the
  ledger to what the interface holds at every moment.  The exceptions of section 4 hold per resource:
  the handler and the scratch data are given back exactly once, always; the page and the port are
  never kept, and given back twice only after `freedEarly` or `closedTwice`; the grant is kept only
  after `freedMapped`.  It needs that the handler is registered once: nothing registers one between `initialize` and the end
  of the handshake (`Accounts`).
- `LostOnlyByPowerDownAlways`: `LostOnlyByPowerDown`.  While a request is on the ring the device is in
  D0, configured, and no cleanup has begun, or the sweep is still ahead, behind the unplug
  (`OnTheRing`).
- `MappedRingKeptAlways`: `MappedRingKept`, and `ConnectedToThisRingAlways`: the action property
  `ConnectedToThisRing`.  `Handshake` relates the two states in xenstore to the place in the callback:
  what the backend has mapped is the ring of this interface, and while it is mapped the frontend is
  bound to undo it (`Bound`), unless the connection was refused.

**UsbDescriptors** (in `UsbLogic_proofs`; no assumption)
- `ParsedIsWellFormed`: for every memory and every `wTotalLength`, what `ParseConfig` accepts is
  `WellFormed`: exactly the interfaces and endpoints that lie before the end, each endpoint under the
  last interface before it, and from `SetInterfaceDescriptorPipes` each interface its own pipes only.
  The reference (`Starts`, `Inside`, `Whole`) says where descriptors lie and when one lies before the
  end, and has nothing else in common with the loop.
- The loop is followed by induction over its turns.  The library's induction theorems take an operator
  as a parameter and cannot be used, but `WFMin` of `WellFoundedInduction` takes sets, so
  `NatSetInduction` states induction for a set of numbers.  `TurnsEquations` and `StartsEquations`
  make the two recursive functions what their equations say; `ParseInv` is the invariant of the loop
  (where it stands, and that lists and memory agree up to there), `TurnKeeps` its step, one case per
  type of descriptor.  `InterfaceGiven` needs that the endpoints of an interface are an interval of the list
  of pipes (`NoGaps`), which is why walking on from the first pipe finds them all.

**DeviceConfig** (in `UsbLogic_proofs`; from `DevicesAssumption`: the configurations of a device have values
that fit a byte and memories that are not empty, and it is in none or one of them;
`GarbageAssumption`: what a short answer leaves, and what lies behind the buffer, can be any sequence
of descriptors but the empty one; `OtherTotalsAssumption`: the other totals are any numbers)
- `ConfigInvAlways`: `ConfigInv`, the inductive invariant, with one lemma per action.  `SetUp` says
  how far `GetUsbConfigData` has come: nothing is selected, and the device is where it was when it
  was plugged in, until the default configuration is looked at; how many entries there are; and
  `OffsetFound`, that `CurrentConfigOffset` tells a device whose only configuration has the value 0
  from one that is not configured.  `LoadedIsParsed`: what is loaded has passed `ParseConfig`.
- `ConfigWellFormedAlways`: `ConfigWellFormed`, from `LoadedIsParsed` and `ParsedIsWellFormed`.
- `ConfigAgreesAlways`: `ConfigAgrees`.  It is not inductive: it speaks of the time between two
  selections, and a selection with one interface notes its value between two exchanges, before
  the pointers are set.  `Selecting` says what holds then: the value the pointers will be set for is
  the one the device has taken.  At the first look, a device that answers with anything but one byte
  leaves the value 0; that this is not taken for the configuration of a device which is in another
  is `OffsetFound` again.

**UsbAnswers** (in `UsbLogic_proofs`; from `PacketsAssumption`: the first packet has a length, or a second one
begins behind it; with a single packet of length 0 `XenPostProcessIsoResponse` reads an offset behind
the array, `xenif.cpp:2606`)
- `AnswersAgreeAlways`: `AnswersAgree`, for every list of packets.  `AnswersInv` adds that a shadow which
  carries a URB has `isReset` clear, whatever was answered in it before: otherwise a device that is
  gone would be mapped to a cancelled transfer.

**Model-checked only**: liveness (`CancelledIsCompleted`, `UrbServed`, `AnswersAreTaken`,
`CollectedIsCompleted`, `LossIsNoticed`, `CallbacksEnd`), which needs fairness and ENABLED and is out of
the prover's reach.  Every safety property the passing runs check is proved.

## 6. What the models leave out

- `CancelPath`: `WdfRequestMarkCancelableEx` failing, `FdoEvtIoStop`, the idle request,
  `ScratchPad.Status`, that is which answer a waiter sees.
- `UrbQueues`: SELECT_CONFIGURATION as a request of its own (it appears as a user of the scratch
  pad); a request forwarded after the last drain of `FdoUnplugDevice` (`Device.cpp:771`).
- `FdoLifecycle`: `Driver.cpp`, idle settings, parts of a xenstore transaction, the version of
  usbback; of the requests only that they are on the ring.
- `RootHub`: what the exchange of SET_PORT_RESET does to the pad, which it uses without `ConfigBusy`,
  and so to an exchange of another thread, and that it may end in an unplug (the loss of the device
  is an external step here);
  descriptors, names and topology that only fill in buffers; `ReportedStatus` and
  `HubDisconnectReported`, which are written for the log.
- `RingTransfers`, `UsbAnswers`: frame numbers, packet offsets, the bytes of an entry.
- `DeviceConfig`: `NxprepBoot`, which would turn a failed set-up into success
  (`UsbConfig.cpp:218-227`): nothing in the repository sets it, and where it is looked at before,
  `LateSetup` does not call `GetUsbConfigData` (`Device.cpp:531`); a second read whose header differs
  in more than `wTotalLength`; the text of strings, the classes and the blacklist of devices, and the
  takeover of the pad by a node request during an exchange (which `CancelPath` has).
- Wraparound of the ring indices.
- The order of transfers on a pipe: URBs may overtake each other through the `RequestQueue`, and
  nothing in the repository promises otherwise.
- Bus interfaces, the child PDO queue and tracing (section 1).

## 7. Plan

1. `ScratchPad` as a module of its own under `CancelPath` and `DeviceConfig`: users, owner, takeover
   after five delays, `Status` and the stale `CompletionEvent`; abstract specification: a lock whose
   answer belongs to its owner.
2. `RingTransfers` under `ShadowRing`: a shadow that goes early takes its references with it.
3. Removal with the requests in the `RequestQueue`: `FdoLifecycle` with the queue steps of
   `UrbQueues` made coarser.

Theorems: the refinements by which these modules would be composed.

## 8. Running

`tlc -config <X>.cfg <module>` for the runs listed in `PROJECT.json`, each a few seconds to two
minutes; `tlapm <M>_proofs.tla` for the proofs, a few minutes each.
