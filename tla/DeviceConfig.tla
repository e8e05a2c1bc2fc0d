------------------------------ MODULE DeviceConfig ------------------------------
(***************************************************************************)
(* The configuration of the device: GetUsbConfigData when the FDO is added  *)
(* (descriptors, Microsoft OS strings, the default configuration), then     *)
(* SELECT_CONFIGURATION and SELECT_INTERFACE of the client, and the release *)
(* of the data.  One action per exchange with the device over the scratch   *)
(* pad; ConfigBusy keeps the exchanges apart.  The pad itself, and the node *)
(* requests that take it from its owner, are in CancelPath.                 *)
(***************************************************************************)
EXTENDS UsbDescriptors, FiniteSets

CONSTANTS
  Devices,      \* the devices there are
  Garbage,      \* memories a short answer may leave, the 9 bytes of the header first
  OtherTotals,  \* wTotalLengths a device may give when its descriptor is read again
  MaxFaults,    \* bound: exchanges and allocations that fail
  MaxSelects,   \* bound: requests of the client
  MaxReplugs    \* bound: how often the device is plugged in again

\* configs: of each configuration its value, the memory and its wTotalLength;
\* active: the configuration the device is in when it is plugged in.
ASSUME DevicesAssumption ==
  \A d \in Devices :
    /\ d.configs \in Seq([value : 0..255, memory : Seq(Descriptors) \ {<<>>}, total : Nat])
    /\ d.active \in {0} \cup {d.configs[i].value : i \in 1..Len(d.configs)}
ASSUME GarbageAssumption == Garbage \subseteq Seq(Descriptors) \ {<<>>}
ASSUME OtherTotalsAssumption == OtherTotals \subseteq Nat
ASSUME ConfigBoundsAssumption == {MaxFaults, MaxSelects, MaxReplugs} \subseteq Nat

VARIABLES
  device,       \* the device that is plugged in
  devValue,     \* the configuration it is in
  step,         \* what GetUsbConfigData does next, "ready", "failed" or "hung"
  index,        \* the configuration it is fetching
  tries,        \* of ResetDevice
  configData,   \* ConfigData: what is known of each configuration
  numConfigs,   \* DeviceDescriptor.bNumConfigurations
  currentValue, offset, \* CurrentConfigValue, CurrentConfigOffset
  pointers,     \* the configuration SetConfigPointers found, 0: all are NULL
  osStrings,    \* which of OsDescriptorString and CompatIds are allocated
  fetchOs, resetDevice, \* FetchOsDescriptor, ResetDevice
  registry,     \* the usbflags of the device
  select,       \* the selection under way, in a singleton
  configBusy,   \* ConfigBusy
  late,         \* how many threads have completed their request and still clear it
  answer,       \* the last exchange: "full", "short" or "stalled"
  unplugged,    \* DeviceUnplugged
  \* History
  refused,      \* the device refused a configuration and nobody looked
  busyLost,     \* ConfigBusy was left set
  cleared,      \* ConfigBusy was cleared under another selection
  badCount,     \* a short device descriptor was copied to DeviceDescriptor
  faults, selects, replugs

setupVars == <<step, index, tries>>
dataVars == <<configData, numConfigs, pointers, osStrings>>
valueVars == <<currentValue, offset, devValue>>
flagVars == <<fetchOs, resetDevice, registry>>
selectVars == <<select, configBusy, late, busyLost, cleared, selects>>
linkVars == <<answer, unplugged, faults>>
configVars == <<device, replugs, refused, badCount, setupVars, dataVars, valueVars,
                flagVars, selectVars, linkVars>>

NoInfo == [loaded |-> FALSE, value |-> 0, memory |-> <<>>, total |-> 0, ifs |-> <<>>, pipes |-> <<>>]

--------------------------------------------------------------------------------
(***************************************************************************)
(* An exchange over the scratch pad: PutScratchOnRing, then                *)
(* WaitForScratchCompletion.                                                *)
(***************************************************************************)
\* "full", "short" and "stalled" are answers; "lost": no answer in ten seconds,
\* and the device is unplugged; "notSent": no room or no grefs.  With the device
\* unplugged the wait returns at once and successfully, with the last answer.
Outcomes == {"full", "short", "stalled", "lost", "notSent"}
Answered == {"full", "short", "stalled"}

\* memory: the allocations that come with the exchange succeed.
ExchangeAnd(o, memory) ==
  /\ IF unplugged THEN o \in {answer, "notSent"} ELSE o \in Outcomes
  /\ answer' = IF o \in Answered THEN o ELSE answer
  /\ unplugged' = (unplugged \/ o = "lost")
  /\ faults' = IF (o = "full" \/ unplugged) /\ memory THEN faults ELSE faults + 1
  /\ faults' <= MaxFaults

Exchange(o) == ExchangeAnd(o, TRUE)

NoExchange == UNCHANGED linkVars

\* Get- and SetCurrentConfigurationLocked do not look whether they could send:
\* they wait in vain.  NT_SUCCESS of the wait is all they test.
WaitsInVain(o) == o = "notSent" => unplugged
Waited(o) == o \in Answered \/ (o = "notSent" /\ unplugged)

Configs == device.configs

(***************************************************************************)
(* Helpers of UsbConfig.cpp.                                                *)
(***************************************************************************)
\* CurrentConfigValue(), an unsigned char.
CurrentConfigValue(v, o) == (v - o) % 256

ConfigInfoByValue(v) ==
  First({i \in 1..Len(configData) : i <= numConfigs /\ configData[i].loaded /\ configData[i].value = v})

\* SetConfigPointers for CurrentConfigValue = v.
SetConfigPointers(v) == IF CurrentConfigValue(v, offset) # 0 THEN ConfigInfoByValue(v) ELSE 0

SetUsbInfo(enable, reset) ==
  /\ fetchOs' = enable
  /\ resetDevice' = reset
  /\ registry' = [fetchOs |-> enable, reset |-> reset]

Go(s) == step' = s /\ UNCHANGED <<index, tries>>

\* NxprepBoot, which turns a failure into a success, is set nowhere, and with it
\* LateSetup would not call GetUsbConfigData at all.
FailSetup == Go("failed")

\* A new FDO context is zero, and so its scratch pad: a success of no bytes.  f
\* and s: how much of the bounds is used up.
ConfigInitWith(devices, f, s) ==
  /\ device \in devices /\ devValue = device.active
  /\ step = "deviceDescriptor" /\ index = 1 /\ tries = 0
  /\ configData = <<>> /\ numConfigs = 0
  /\ currentValue = 0 /\ offset = 0 /\ pointers = 0
  /\ osStrings = {}
  /\ fetchOs = FALSE /\ resetDevice = FALSE
  /\ registry \in [fetchOs : BOOLEAN, reset : BOOLEAN]
  /\ select = {} /\ configBusy = FALSE /\ late = 0 /\ cleared = FALSE
  /\ answer = "short" /\ unplugged = FALSE
  /\ refused = FALSE /\ busyLost = FALSE /\ badCount = FALSE
  /\ faults = f /\ selects = s /\ replugs = 0

ConfigInit == ConfigInitWith(Devices, 0, 0)

--------------------------------------------------------------------------------
(***************************************************************************)
(* GetUsbConfigData.                                                        *)
(***************************************************************************)
\* GetDeviceDescriptor, then GetUsbInfo.  A short answer is not an error: the
\* descriptor stays zero, and no configuration is fetched.
GetDeviceDescriptor ==
  /\ step = "deviceDescriptor"
  /\ \E o \in Outcomes, memory \in BOOLEAN :
       LET n == IF o = "full" THEN Len(Configs) ELSE 0 IN
       /\ ExchangeAnd(o, memory)
       /\ numConfigs' = n
       /\ IF o \notin {"full", "short"} \/ (o = "full" /\ n = 0)
          THEN FailSetup /\ UNCHANGED <<configData, fetchOs, resetDevice>>
          ELSE /\ configData' = IF memory THEN [i \in 1..n |-> NoInfo] ELSE <<>>
               /\ fetchOs' = registry.fetchOs
               /\ resetDevice' = registry.reset
               /\ Go(IF ~memory THEN "failed" ELSE IF registry.reset THEN "reset" ELSE "speed")
  /\ UNCHANGED <<device, replugs, refused, badCount, pointers, osStrings, valueVars, registry, selectVars>>

ResetTries == 6

\* A device that cannot be reset is remembered in the registry.
Reset ==
  /\ step = "reset"
  /\ \E o \in Outcomes :
       /\ Exchange(o)
       /\ IF o \in {"full", "short"}
          THEN Go("speed") /\ UNCHANGED flagVars
          ELSE IF tries + 1 < ResetTries
          THEN tries' = tries + 1 /\ UNCHANGED <<step, index, flagVars>>
          ELSE FailSetup /\ SetUsbInfo(fetchOs, FALSE)
  /\ UNCHANGED <<device, replugs, refused, badCount, dataVars, valueVars, selectVars>>

\* GetDeviceSpeed, whose failure is no failure; GetAllConfigDescriptors has
\* nothing to fetch when bNumConfigurations is zero.
GetDeviceSpeed ==
  /\ step = "speed"
  /\ \E o \in Outcomes : WaitsInVain(o) /\ Exchange(o)
  /\ Go(IF numConfigs = 0 THEN "failed" ELSE "header")
  /\ UNCHANGED <<device, replugs, refused, badCount, dataVars, valueVars, flagVars, selectVars>>

\* GetConfigDescriptor: at least nine bytes; the value 0 only for a single one.
ValueAllowed(i) == Configs[i].value # 0 \/ (i = 1 /\ numConfigs = 1)
NewOffset(i) == IF Configs[i].value = 0 /\ ValueAllowed(i) THEN 1 ELSE offset

GetConfigHeader ==
  /\ step = "header"
  /\ \E o \in Outcomes, memory \in BOOLEAN :
       /\ ExchangeAnd(o, memory)
       /\ offset' = IF o = "full" THEN NewOffset(index) ELSE offset
       /\ Go(IF o = "full" /\ ValueAllowed(index) /\ memory /\ Configs[index].total >= ConfigLength
             THEN "body" ELSE "failed")
  /\ UNCHANGED <<device, replugs, refused, badCount, dataVars, currentValue, devValue, flagVars, selectVars>>

\* The rest of GetCompleteConfigDescriptor: the whole descriptor, with the header
\* once more; the two passes, and the arrays.
Loaded(i, memory, total) ==
  LET p == ParseConfig(memory, total)
  IN [loaded |-> TRUE, value |-> Configs[i].value, memory |-> memory, total |-> total,
      ifs |-> p.ifs, pipes |-> p.pipes]

\* What ParseConfig finds before "total", the wTotalLength of the second read: a
\* short answer ("partial") leaves a part of the buffer as it was, and behind the
\* buffer, which has the length the first read gave, lies what belongs to others.
BufferHolds(i, partial, total) ==
  IF partial THEN Garbage
  ELSE IF total > Configs[i].total THEN {Configs[i].memory \o Tail(g) : g \in Garbage}
  ELSE {Configs[i].memory}

GetConfigBody ==
  /\ step = "body"
  /\ \E o \in Outcomes, partial \in BOOLEAN, arrays \in BOOLEAN,
        total \in {Configs[index].total} \cup OtherTotals :
       \E memory \in BufferHolds(index, partial, total) :
         LET status == ParseConfig(memory, total).status
             info   == Loaded(index, memory, total)
             ok     == o = "full" /\ status = "parsed" /\ info.ifs # <<>> /\ arrays
         IN
         /\ ExchangeAnd(o, arrays /\ ~partial /\ total = Configs[index].total)
         /\ configData' = IF ok THEN [configData EXCEPT ![index] = info] ELSE configData
         /\ IF ok /\ index < numConfigs
            THEN step' = "header" /\ index' = index + 1 /\ UNCHANGED tries
            ELSE Go(IF ok THEN "osString"
                    ELSE IF o = "full" /\ status = "loops" THEN "hung" ELSE "failed")
  /\ UNCHANGED <<device, replugs, refused, badCount, numConfigs, pointers, osStrings, valueVars,
                 flagVars, selectVars>>

(***************************************************************************)
(* GetDeviceStrings: GetOsDescriptorString, then the strings, which may all *)
(* be missing (GetString returns NULL for any failure).                     *)
(***************************************************************************)
\* The OS string: a device that cannot return it is asked no more, and reset;
\* one that returns another string is asked no more.
GetOsString ==
  /\ step = "osString"
  /\ IF ~fetchOs
     THEN Go("strings") /\ NoExchange /\ UNCHANGED <<osStrings, flagVars>>
     ELSE \E o \in Outcomes, signature \in BOOLEAN :
            /\ Exchange(o)
            /\ osStrings' = IF o = "full" /\ signature THEN {"OsDescriptorString"} ELSE {}
            /\ IF o = "full" /\ signature THEN UNCHANGED flagVars ELSE SetUsbInfo(FALSE, resetDevice)
            /\ Go(IF o # "full" THEN "osReset" ELSE IF signature THEN "osHeader" ELSE "strings")
  /\ UNCHANGED <<device, replugs, refused, badCount, configData, numConfigs, pointers, valueVars, selectVars>>

OsReset ==
  /\ step = "osReset"
  /\ \E o \in Outcomes : Exchange(o)
  /\ Go("strings")
  /\ UNCHANGED <<device, replugs, refused, badCount, dataVars, valueVars, flagVars, selectVars>>

\* The OS feature descriptor, its header and then all of it, with its lengths
\* checked each time, and the memory for CompatIds.
GetOsFeature ==
  /\ step \in {"osHeader", "osBody"}
  /\ \E o \in Outcomes, good \in BOOLEAN :
       LET ok == o \in {"full", "short"} /\ good IN
       /\ Exchange(o)
       /\ osStrings' = IF ~ok THEN {}
                       ELSE IF step = "osBody" THEN osStrings \cup {"CompatIds"} ELSE osStrings
       /\ IF ok THEN UNCHANGED flagVars ELSE SetUsbInfo(FALSE, resetDevice)
       /\ Go(IF ok /\ step = "osHeader" THEN "osBody" ELSE "strings")
  /\ UNCHANGED <<device, replugs, refused, badCount, configData, numConfigs, pointers, valueVars, selectVars>>

GetStrings ==
  /\ step = "strings"
  /\ \E o \in Outcomes : Exchange(o)
  /\ Go("getConfig")
  /\ UNCHANGED <<device, replugs, refused, badCount, dataVars, valueVars, flagVars, selectVars>>

--------------------------------------------------------------------------------
(***************************************************************************)
(* Get- and SetCurrentConfigurationLocked.                                  *)
(***************************************************************************)
\* The value read; with the device unplugged, whatever the pad holds.
ReadValues(o) ==
  IF unplugged THEN {currentValue, 0} \cup {Configs[i].value : i \in 1..Len(Configs)}
  ELSE IF o = "full" THEN {devValue} ELSE {currentValue}

\* An answer that is not one byte long is taken for the result of a reset.
GetCurrentConfigurationLocked(o) ==
  /\ WaitsInVain(o) /\ Exchange(o)
  /\ currentValue' \in ReadValues(o)
  /\ \/ /\ Waited(o) /\ resetDevice
        /\ o # "full" \/ unplugged
        /\ SetUsbInfo(fetchOs, FALSE)
     \/ /\ ~Waited(o) \/ ~resetDevice \/ o = "full" \/ unplugged
        /\ UNCHANGED flagVars

\* A device takes the values it has, and 0; the status of the answer is not read.
Accepts(v) == v = 0 \/ \E i \in 1..Len(Configs) : Configs[i].value = v

\* Mutant of SetCurrentConfigurationLocked: the value is not noted.
SetCurrentConfigurationOnly(o, v) ==
  /\ WaitsInVain(o) /\ Exchange(o)
  /\ o \in {"full", "short"} => Accepts(v) \/ unplugged
  /\ UNCHANGED currentValue
  /\ devValue' \in (IF Accepts(v) /\ o \in {"full", "short"} THEN {v} ELSE {devValue})
  /\ refused' = IF Waited(o) THEN devValue' # v ELSE refused

SetCurrentConfigurationLocked(o, v) ==
  /\ WaitsInVain(o) /\ Exchange(o)
  /\ o \in {"full", "short"} => Accepts(v) \/ unplugged
  /\ currentValue' = IF Waited(o) THEN v ELSE currentValue
  /\ devValue' \in (IF unplugged \/ ~Accepts(v) THEN {devValue}
                    ELSE CASE o \in {"full", "short"} -> {v}
                           [] o = "stalled" -> {devValue}
                           [] OTHER -> {devValue, v})
  /\ refused' = IF Waited(o) THEN devValue' # v ELSE refused

GetDefaultConfiguration ==
  /\ step = "getConfig"
  /\ \E o \in Outcomes :
       /\ GetCurrentConfigurationLocked(o)
       /\ LET default == Configs[1].value + offset
              set     == CurrentConfigValue(currentValue', offset) = 0 /\ currentValue' # default
          IN /\ Go(IF ~Waited(o) THEN "failed" ELSE IF set THEN "setConfig" ELSE "ready")
             /\ pointers' = IF Waited(o) /\ ~set THEN SetConfigPointers(currentValue') ELSE pointers
  /\ UNCHANGED <<device, replugs, refused, badCount, configData, numConfigs, osStrings,
                 offset, devValue, selectVars>>

SetDefaultConfiguration ==
  /\ step = "setConfig"
  /\ \E o \in Outcomes :
       /\ SetCurrentConfigurationLocked(o, Configs[1].value + offset)
       /\ Go(IF Waited(o) THEN "ready" ELSE "failed")
       /\ pointers' = IF Waited(o) THEN SetConfigPointers(currentValue') ELSE pointers
  /\ UNCHANGED <<device, replugs, badCount, configData, numConfigs, osStrings, offset,
                 flagVars, selectVars>>

--------------------------------------------------------------------------------
(***************************************************************************)
(* Requests of the client.                                                  *)
(***************************************************************************)
\* With ConfigBusy set the URB is requeued; an unplugged device gets no URB.
CanSelect == step = "ready" /\ select = {} /\ ~configBusy /\ ~unplugged /\ selects < MaxSelects

Begin(s) ==
  /\ select' = {s} /\ configBusy' = TRUE
  /\ UNCHANGED <<late, busyLost, cleared, selects>>

End(busy) ==
  /\ select' = {} /\ configBusy' = busy
  /\ selects' = selects + 1
  /\ UNCHANGED cleared

\* The request is completed.  SELECT_INTERFACE, and PostProcessUrb, clear
\* ConfigBusy before.
Finish == End(FALSE) /\ UNCHANGED <<late, busyLost>>

\* SELECT_CONFIGURATION clears it after the lock was released for the
\* completion; PostProcessSelectConfig clears it before as well.
FinishSelected == End(FALSE) /\ late' = late + 1 /\ UNCHANGED busyLost
FinishFailed   == End(TRUE) /\ late' = late + 1 /\ UNCHANGED busyLost

\* The paths that do not clear it.
FinishBusy == End(TRUE) /\ busyLost' = TRUE /\ UNCHANGED late

\* The thread clears it, whoever has set it by now.  What two selections at
\* once would do to the scratch pad is left out.
ClearConfigBusy ==
  /\ late > 0
  /\ late' = late - 1
  /\ configBusy' = FALSE
  /\ cleared' = (cleared \/ select # {})
  /\ UNCHANGED <<device, replugs, refused, badCount, setupVars, dataVars, valueVars, flagVars,
                 select, busyLost, selects, linkVars>>

\* PostProcessSelectConfig: the URB's status is not what it returns.
PostProcessSelectConfig(v) ==
  /\ currentValue' = v
  /\ pointers' = SetConfigPointers(v)

NoInterfaces == {}
Requested(info) == {[number |-> info.memory[i].number, alt |-> info.memory[i].alt] :
                      i \in {info.ifs[k] : k \in 1..Len(info.ifs)}}
                    \cup {[number |-> 9, alt |-> 0]}

\* Interfaces that are not found get a NULL handle; the others need their pipes.
ListValid(info, list) ==
  \A r \in list :
    LET f == FindInterface(info, r.number, r.alt) IN
    f # 0 => SetInterfaceDescriptorPipes(info, f).ok

\* ProcessSelectConfiguration up to its exchange.  Bad lengths, no configuration
\* descriptor, an unknown value and a list that is not valid complete the URB.
SelectConfiguration(v) ==
  /\ CanSelect
  /\ LET i == ConfigInfoByValue(v) IN
     \E list \in (IF i = 0 THEN {NoInterfaces}
                  ELSE {L \in SUBSET Requested(configData[i]) : Cardinality(L) <= 2}) :
       IF v = 0 /\ offset # 1 THEN Begin([kind |-> "unconfigure"]) /\ UNCHANGED <<currentValue, pointers>>
       ELSE IF pointers = 0 THEN Begin([kind |-> "read"]) /\ UNCHANGED <<currentValue, pointers>>
       ELSE IF i = 0 \/ ~ListValid(configData[i], list)
       THEN FinishFailed /\ UNCHANGED <<currentValue, pointers>>
       ELSE IF v = 0 /\ currentValue = 0 THEN FinishSelected /\ PostProcessSelectConfig(v)
       ELSE /\ Begin([kind |-> "set", value |-> v, interface |-> Cardinality(list) = 1])
            /\ UNCHANGED <<currentValue, pointers>>
  /\ UNCHANGED <<device, replugs, refused, badCount, configData, numConfigs, osStrings,
                 offset, devValue, setupVars, flagVars, linkVars>>

\* There is no configuration: GetCurrentConfigurationLocked sets no pointers, so
\* that the request fails whatever the device says.
ReadBeforeSelect ==
  /\ [kind |-> "read"] \in select
  /\ \E o \in Outcomes : GetCurrentConfigurationLocked(o)
  /\ FinishFailed
  /\ UNCHANGED <<device, replugs, refused, badCount, dataVars, offset, devValue, setupVars>>

SetSelected ==
  /\ \E s \in select, o \in Outcomes :
       /\ s.kind = "set"
       /\ SetCurrentConfigurationLocked(o, s.value)
       /\ IF Waited(o) /\ s.interface
          THEN Begin([kind |-> "interface", value |-> s.value]) /\ UNCHANGED pointers
          ELSE IF Waited(o) THEN FinishSelected /\ pointers' = SetConfigPointers(s.value)
          ELSE FinishFailed /\ UNCHANGED pointers
  /\ UNCHANGED <<device, replugs, badCount, configData, numConfigs, osStrings, offset,
                 setupVars, flagVars>>

\* SET_INTERFACE of a selection with one interface, in SetCurrentConfigurationLocked.
SetSelectedInterface ==
  /\ \E s \in select, o \in Outcomes :
       /\ s.kind = "interface"
       /\ WaitsInVain(o) /\ Exchange(o)
       /\ IF Waited(o) THEN FinishSelected /\ PostProcessSelectConfig(s.value)
          ELSE FinishFailed /\ UNCHANGED <<currentValue, pointers>>
  /\ UNCHANGED <<device, replugs, refused, badCount, configData, numConfigs, osStrings,
                 offset, devValue, setupVars, flagVars>>

\* SetConfiguration(0) is a URB on the ring: PostProcessUrb ends it when it is
\* answered, and nobody when it is refused, requeued or cancelled.
Unconfigured ==
  /\ [kind |-> "unconfigure"] \in select
  /\ \/ /\ Finish /\ PostProcessSelectConfig(0)
        /\ devValue' = 0
     \/ Finish /\ UNCHANGED <<currentValue, pointers, devValue>>
     \/ /\ faults < MaxFaults
        /\ FinishBusy /\ UNCHANGED <<currentValue, pointers>>
        /\ devValue' \in {devValue, 0}
  /\ refused' = (refused \/ busyLost')
  /\ UNCHANGED <<device, replugs, badCount, configData, numConfigs, osStrings, offset,
                 setupVars, flagVars, linkVars>>

\* ProcessSelectInterface: a device with one interface is not asked.
SelectInterface ==
  /\ CanSelect /\ pointers # 0
  /\ \E r \in Requested(configData[pointers]), sent \in BOOLEAN :
       LET info == configData[pointers]
           f    == FindInterface(info, r.number, r.alt)
       IN IF f = 0 \/ ~SetInterfaceDescriptorPipes(info, f).ok \/ Len(info.ifs) = 1 THEN Finish
          ELSE IF sent THEN Begin([kind |-> "alternate"]) ELSE FinishBusy
  /\ UNCHANGED <<device, replugs, refused, badCount, dataVars, valueVars, setupVars, flagVars, linkVars>>

InterfaceSelected ==
  /\ [kind |-> "alternate"] \in select
  /\ \E o \in Outcomes \ {"notSent"} : Exchange(o)
  /\ Finish
  /\ UNCHANGED <<device, replugs, refused, badCount, dataVars, valueVars, setupVars, flagVars>>

\* PostProcessUrb copies the device descriptor the client has read - all of it,
\* also when the answer was shorter.
DeviceDescriptorAnswered ==
  /\ step = "ready" /\ ~unplugged /\ selects < MaxSelects
  /\ selects' = selects + 1
  /\ \/ numConfigs' = Len(Configs) /\ UNCHANGED badCount
     \/ numConfigs' \in 0..(Len(Configs) + 1) /\ badCount' = TRUE
  /\ UNCHANGED <<device, replugs, refused, configData, pointers, osStrings, valueVars, setupVars,
                 flagVars, select, configBusy, late, busyLost, cleared, linkVars>>

\* Somebody sets DeviceUnplugged.
UnplugDevice ==
  /\ ~unplugged /\ faults < MaxFaults
  /\ unplugged' = TRUE /\ faults' = faults + 1
  /\ UNCHANGED <<device, replugs, refused, badCount, answer, setupVars, dataVars, valueVars,
                 flagVars, selectVars>>

\* FreeUsbConfigData; what is left of configData is what it does not free.
ReleaseHardware ==
  /\ step \in {"ready", "failed"} /\ select = {} /\ late = 0
  /\ step' = "released"
  /\ configData' = SubSeq(configData, numConfigs + 1, Len(configData))
  /\ osStrings' = osStrings \ {"OsDescriptorString"}
  /\ UNCHANGED <<device, replugs, refused, badCount, index, tries, numConfigs, pointers, valueVars,
                 flagVars, selectVars, linkVars>>

\* The device is plugged in again: a new FDO context, and the same registry.
Replug ==
  /\ step = "released" /\ replugs < MaxReplugs
  /\ replugs' = replugs + 1
  /\ devValue' = device.active
  /\ step' = "deviceDescriptor" /\ index' = 1 /\ tries' = 0
  /\ configData' = <<>> /\ numConfigs' = 0
  /\ currentValue' = 0 /\ offset' = 0 /\ pointers' = 0
  /\ osStrings' = {}
  /\ fetchOs' = FALSE /\ resetDevice' = FALSE
  /\ select' = {} /\ configBusy' = FALSE /\ late' = 0 /\ cleared' = FALSE
  /\ answer' = "short" /\ unplugged' = FALSE
  /\ refused' = FALSE /\ busyLost' = FALSE /\ badCount' = FALSE
  /\ UNCHANGED <<device, registry, faults, selects>>

ConfigNext ==
  \/ GetDeviceDescriptor \/ Reset \/ GetDeviceSpeed \/ GetConfigHeader \/ GetConfigBody
  \/ GetOsString \/ OsReset \/ GetOsFeature \/ GetStrings
  \/ GetDefaultConfiguration \/ SetDefaultConfiguration
  \/ \E v \in {0, 9} \cup {Configs[i].value : i \in 1..Len(Configs)} : SelectConfiguration(v)
  \/ ReadBeforeSelect \/ SetSelected \/ SetSelectedInterface \/ Unconfigured
  \/ SelectInterface \/ InterfaceSelected
  \/ ClearConfigBusy \/ DeviceDescriptorAnswered \/ UnplugDevice \/ ReleaseHardware \/ Replug

ConfigSpec == ConfigInit /\ [][ConfigNext]_configVars

--------------------------------------------------------------------------------
\* Reference: where each descriptor of a memory starts, and the last one ends.
Starts(memory) ==
  LET at[k \in 1..Len(memory) + 1] == IF k = 1 THEN 0 ELSE at[k - 1] + memory[k - 1].len
  IN at

\* Reference: the descriptors of a memory that lie completely before its end.
Inside(memory, total, k) ==
  Starts(memory)[k] + CommonLength < total /\ Starts(memory)[k + 1] <= total
Whole(info) ==
  {k \in 1..Len(info.memory) : \A j \in 1..k : Inside(info.memory, info.total, j)}

\* A configuration that GetCompleteConfigDescriptor accepts (ParseConfig, two
\* passes) holds exactly the interfaces and endpoints that lie before its end,
\* each endpoint under the last interface before it; and an interface is given
\* its own pipes only, all it claims - or none, and the descriptor behind the
\* last one is read only when an interface claims more endpoints than it has.
WellFormed(info) ==
  LET whole == Whole(info)
      OfType(type) == {k \in whole : info.memory[k].type = type}
      ifs == {info.ifs[k] : k \in 1..Len(info.ifs)}
      Own(f) == {k \in OfType("endpoint") : k > f /\ \A g \in ifs : g < k => g <= f}
  IN
  /\ Cardinality(OfType("config")) <= 1
  /\ ifs = OfType("interface") /\ ifs # {} /\ Len(info.ifs) = Cardinality(ifs)
  /\ {info.pipes[k].endpoint : k \in 1..Len(info.pipes)} = OfType("endpoint")
  /\ Len(info.pipes) = Cardinality(OfType("endpoint"))
  /\ \A f \in ifs :
       LET given == SetInterfaceDescriptorPipes(info, f)
           own   == Own(f)
       IN
       /\ {info.pipes[k].endpoint : k \in given.pipes} \subseteq own
       /\ given.ok <=> info.memory[f].claims <= Cardinality(own)
       /\ given.ok => Cardinality(given.pipes) = info.memory[f].claims
       /\ given.beyond => info.memory[f].claims > Cardinality(own)

ConfigWellFormed ==
  \A i \in 1..Len(configData) : configData[i].loaded => WellFormed(configData[i])

\* Between two selections the driver's idea of the configuration is right: the
\* pointers name a loaded configuration with the value it has noted; that value
\* is the device's, unless the device has refused one (nobody looks at the
\* status of SET_CONFIGURATION) or is unplugged.  ConfigBusy is set during a
\* selection - unless the thread of an earlier one, which clears it after its
\* request was completed, was late; and without one only until such a thread
\* comes, or after a selection that was lost: SetConfiguration refused,
\* requeued or cancelled, or a SELECT_INTERFACE that could not be sent.  The
\* release frees all configurations, unless a short answer of the client's has
\* overwritten bNumConfigurations.
ConfigAgrees ==
  /\ (step = "ready" /\ select = {} /\ ~unplugged) =>
       /\ pointers # 0 => configData[pointers].loaded /\ configData[pointers].value = currentValue
       /\ ~refused => currentValue = devValue
  /\ select # {} => configBusy \/ cleared
  /\ configBusy => select # {} \/ late > 0 \/ busyLost
  /\ step = "ready" => numConfigs = Len(configData) \/ badCount
  /\ step = "released" => badCount \/ \A i \in 1..Len(configData) : ~configData[i].loaded
================================================================================
