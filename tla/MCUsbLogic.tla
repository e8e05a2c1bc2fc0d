------------------------------- MODULE MCUsbLogic -------------------------------
(***************************************************************************)
(* Four modules that share no state, checked in one run: each behaviour     *)
(* takes the steps of one of them, the others stay as they started.         *)
(***************************************************************************)
EXTENDS RootHub, RingTransfers, DeviceConfig, UsbAnswers

CONSTANTS h1, h2, i1    \* two requests of the hub driver, and its interrupt transfer

VARIABLE part           \* the module that takes steps

logicVars == <<hubVars, transferVars, configVars, answersVars, part>>

--------------------------------------------------------------------------------
(***************************************************************************)
(* The root hub: how often each request is sent, and the hub powered up.    *)
(* CLEAR_C_ENABLE does what CLEAR_C_RESET does, SET_PORT_POWER touches the   *)
(* status word as CLEAR_PORT_ENABLE does, and LOCAL only completes.         *)
(***************************************************************************)
MCHubOps == AllHubOps \ {"CLEAR_C_ENABLE", "SET_PORT_POWER", "LOCAL"}

Budgets == {[more |-> 1, less |-> 0, status |-> 2, ups |-> 1],
            [more |-> 1, less |-> 1, status |-> 0, ups |-> 1],
            [more |-> 2, less |-> 0, status |-> 1, ups |-> 1]}

HubBudget(b) ==
  \E busier \in HubRequests :
    HubInitWith([r \in Requests |-> MaxSends - (CASE r = i1 -> b.status [] r = busier -> b.more
                                                  [] OTHER -> b.less)],
                MaxPowerUps - b.ups)

HubAtRest == HubInitWith([r \in Requests |-> MaxSends], MaxPowerUps) /\ ~portConnected

HubSymmetry == Permutations(HubRequests)

\* What the behaviour of the hub depends on: an event nobody waits for, the
\* operation of a request other than a reset, and what is kept of a request
\* whose handler is done are left out.
HubView ==
  <<word, parked, hubPower, removed, portConnected, ResetsUnderWay # {} /\ resetCompleteEvent,
    todo, loaded, taken, holder, completions,
    {r \in ResetsUnderWay : hubOp[r] = "RESET_PORT"}, ResetsUnderWay,
    {r \in stopped : todo[r] # <<>>}, signalled \cap ResetsUnderWay, overlapped \cap ResetsUnderWay,
    noteVars, hubBounds>>

\* The other parts are as they started.
LogicView ==
  <<part, CASE part = "hub" -> HubView
            [] part = "transfers" -> transferVars
            [] part = "config" -> configVars
            [] part = "answers" -> answersVars>>

--------------------------------------------------------------------------------
\* Transfers that need no pages, all entries of a request, and one, two and
\* more than two indirect pages.
MCTransfers ==
  [type : {"iso"}, pages : {1, 3}, buffer : {"memory"}]
    \cup [type : {"bulk"}, pages : {2, 4, 5, 7}, buffer : {"mdl"}]
    \cup [type : {"other"}, pages : {0, 4}, buffer : {"memory"}]
    \cup {[type |-> "bulk", pages |-> 1, buffer |-> "none"]}

--------------------------------------------------------------------------------
(***************************************************************************)
(* Devices: all memories of a configuration descriptor and up to three more *)
(* for ParseConfig, and five devices whose clients select.                  *)
(***************************************************************************)
Config == Descriptor("config", 9)
ShortConfig == Descriptor("config", 8)
Endpoint == Descriptor("endpoint", 7)
ShortEndpoint == Descriptor("endpoint", 6)
Class == Descriptor("other", 3)
Nothing == Descriptor("other", 0)
Kinds == {Config, ShortConfig, Endpoint, ShortEndpoint, Class, Nothing, Interface(9, 0, 0, 1),
          Interface(9, 0, 1, 2), Interface(9, 1, 0, 0), Interface(8, 1, 0, 1)}

Length(m) == FoldLeft(LAMBDA n, d : n + d.len, 0, m)
Configuration(v, m) == [value |-> v, memory |-> m, total |-> Length(m)]
Device(configs, active) == [configs |-> configs, active |-> active]

Small == <<Config, Interface(9, 0, 0, 1), Endpoint>>
Large == <<Config, Interface(9, 0, 0, 1), Endpoint, Class, Interface(9, 0, 1, 2), Endpoint, Endpoint,
           Interface(9, 1, 0, 3), Endpoint>>

SelectedDevices == {Device(<<Configuration(1, Small), Configuration(2, Large)>>, 2),
                    Device(<<Configuration(0, Large)>>, 0),
                    Device(<<Configuration(3, Large)>>, 0),
                    Device(<<Configuration(0, Small), Configuration(1, Small)>>, 1),
                    Device(<<>>, 0)}

Memories == {<<Config>> \o s : s \in UNION {[1..n -> Kinds] : n \in 0..3}}
              \cup {<<x>> \o s : x \in {ShortConfig, Class}, s \in [1..1 -> Kinds]}
ParsedDevices == {Device(<<[value |-> 1, memory |-> m, total |-> Length(m) - k]>>, 1) :
                    m \in Memories, k \in {0, 1}}

MCDevices == SelectedDevices \cup ParsedDevices
MCGarbage == {<<Config, Nothing>>, <<Config, Class>>, Small}

\* Less than Small and Large are long; and more than Small, by an interface.
MCOtherTotals == {20, 36}

\* A device whose descriptors are parsed has no faults and no client; the others
\* have two faults and one selection, or one fault and two selections.
ConfigStart ==
  \/ /\ ConfigInitWith(ParsedDevices, MaxFaults, MaxSelects)
     /\ registry = [fetchOs |-> FALSE, reset |-> FALSE]
  \/ /\ ConfigInitWith(SelectedDevices, 0, 1) \/ ConfigInitWith(SelectedDevices, 1, 0)
     /\ registry.fetchOs = registry.reset    \* SetUsbInfo clears one of the two

ConfigAtRest ==
  /\ ConfigInitWith({Device(<<>>, 0)}, MaxFaults, MaxSelects)
  /\ registry = [fetchOs |-> FALSE, reset |-> FALSE]

--------------------------------------------------------------------------------
\* No packet succeeds in some; a packet of length 0 has one behind it.
Packet(s, at, length) == [status |-> s, offset |-> at, length |-> length]
MCPacketLists ==
  {<<Packet(s, 0, m), Packet(t, 4, n)>> :
     s \in {"OK", "STALLED"}, t \in {"OK", "SHORTPKT"}, m \in {0, 4}, n \in {0, 4}}

AnswersAtRest == AnswersInit /\ vistaOrLater

--------------------------------------------------------------------------------
LogicInit ==
  \/ part = "hub" /\ (\E budget \in Budgets : HubBudget(budget)) /\ TransfersInit /\ ConfigAtRest /\ AnswersAtRest
  \/ part = "transfers" /\ HubAtRest /\ TransfersInit /\ ConfigAtRest /\ AnswersAtRest
  \/ part = "config" /\ HubAtRest /\ TransfersInit /\ ConfigStart /\ AnswersAtRest
  \/ part = "answers" /\ HubAtRest /\ TransfersInit /\ ConfigAtRest /\ AnswersInit

LogicNext ==
  /\ UNCHANGED part
  /\ \/ part = "hub" /\ HubNext /\ UNCHANGED <<transferVars, configVars, answersVars>>
     \/ part = "transfers" /\ TransfersNext /\ UNCHANGED <<hubVars, configVars, answersVars>>
     \/ part = "config" /\ ConfigNext /\ UNCHANGED <<hubVars, transferVars, answersVars>>
     \/ part = "answers" /\ AnswersNext /\ UNCHANGED <<hubVars, transferVars, configVars>>

LogicSpec == LogicInit /\ [][LogicNext]_logicVars
================================================================================
