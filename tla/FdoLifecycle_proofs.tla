-------------------------- MODULE FdoLifecycle_proofs --------------------------
(***************************************************************************)
(* What every behaviour of the FDO keeps: the event channel is closed once, *)
(* resources are given back, requests are lost only by a power down, and a  *)
(* ring is freed while it is mapped only where the handshake was cut short. *)
(*                                                                         *)
(* The steps the PnP thread has still to take are data of the model.  The   *)
(* invariant speaks of them by the step at the head, Doing, and by what an  *)
(* orderly rest of a callback looks like.                                   *)
(***************************************************************************)
EXTENDS FdoLifecycle, SequenceTheorems, TLAPS

\* What ends a callback.
Ends == {"added", "d0", "dx", "failed", "removed", "crashed", "remove"}

Steps ==
  {"deviceAdd", "configure", "initialize", "connect", "awaitInitWait", "publish",
   "awaitConnected", "configured", "getUsbConfigData", "createRootHubPdo", "online",
   "startTimer", "cleanup", "stopTimer", "timerStopped", "checkPort", "closePort", "unplug",
   "removeChildren", "sweep", "deconfigure", "stabilise", "closing", "closed",
   "awaitChange", "unregister", "deallocate", "readState", "gone", "restart"} \cup Ends

\* The rest of a callback: b comes next after a.
Follows(a, b) ==
  \/ a = "configure" /\ b = "initialize"
  \/ a = "initialize" /\ b = "connect"
  \/ a = "connect" /\ b = "awaitInitWait"
  \/ a = "awaitInitWait" /\ b = "publish"
  \/ a = "publish" /\ b = "awaitConnected"
  \/ a = "awaitConnected" /\ b = "configured"
  \/ a = "configured" /\ b \in {"getUsbConfigData", "startTimer"}
  \/ a = "getUsbConfigData" /\ b = "createRootHubPdo"
  \/ a = "createRootHubPdo" /\ b = "added"
  \/ a \in {"startTimer", "online"} /\ b = "d0"
  \/ a = "cleanup" /\ b = "stopTimer"
  \/ a = "stopTimer" /\ b = "timerStopped"
  \/ a = "timerStopped" /\ b \in {"checkPort", "deconfigure"}
  \/ a = "checkPort" /\ b = "closePort"
  \/ a = "closePort" /\ b \in {"unplug", "removeChildren", "stabilise"}
  \/ a \in {"unplug", "removeChildren"} /\ b \in {"sweep", "failed"}
  \/ a = "sweep" /\ b \in {"stopTimer", "d0", "remove", "deallocate"}
  \/ a = "deconfigure" /\ b = "checkPort"
  \/ a = "stabilise" /\ b = "closing"
  \/ a = "closing" /\ b = "closed"
  \/ a = "awaitChange" /\ b \in {"closing", "closed"}
  \/ a = "closed" /\ b = "unregister"
  \/ a = "unregister" /\ b \in {"dx", "remove"}
  \/ a = "deallocate" /\ b = "removed"

BeforeSweep == {"cleanup", "stopTimer", "timerStopped", "checkPort", "closePort", "unplug",
                "removeChildren"}

Placed(q, i) ==
  /\ q[i] = "cleanup" => i + 6 <= Len(q) /\ q[i + 6] = "sweep"
  /\ q[i] = "configure" => i + 6 <= Len(q) /\ q[i + 6] = "configured"
  /\ q[i] = "deconfigure" => /\ i + 6 <= Len(q)
                             /\ q[i + 3] = "stabilise" /\ q[i + 6] = "unregister"
  /\ q[i] = "timerStopped" => /\ i + 3 <= Len(q)
                              /\ q[i + 1] = "deconfigure" \/ q[i + 3] = "unplug"

Behind(q, i, j) ==
  /\ q[i] = "sweep" => q[j] \in BeforeSweep
  /\ q[i] = "deallocate" => q[j] \in BeforeSweep \cup {"sweep"}

Piece(q) ==
  /\ \A i \in 1..(Len(q) - 1) : Follows(q[i], q[i + 1])
  /\ \A i \in 1..Len(q) : Placed(q, i)
  /\ \A i \in 1..Len(q) : \A j \in 1..(i - 1) : Behind(q, i, j)

Orderly(q) ==
  /\ Piece(q)
  /\ q # <<>> => q[Len(q)] \in Ends \cup {"unregister", "deviceAdd"}

Doing == IF todo["pnp"] = <<>> THEN "idle" ELSE Head(todo["pnp"])

Ahead(step) == \E i \in 1..Len(todo["pnp"]) : todo["pnp"][i] = step

\* The sweep comes after FdoUnplugDevice.
UnplugFirst ==
  \A i \in 1..Len(todo["pnp"]) :
    todo["pnp"][i] = "sweep" => \E j \in 1..(i - 1) : todo["pnp"][j] = "unplug"

Removing ==
  /\ todo["pnp"] # <<>>
  /\ todo["pnp"][Len(todo["pnp"])] \in {"remove", "removed", "crashed"}

Crashed == Doing = "crashed" \/ pnp = "crashed"

\* XenDeconfigure, from where the flag is cleared to the answer of the backend.
Parting ==
  LET q == todo["pnp"] IN
    \/ Doing = "checkPort" /\ Len(q) >= 3 /\ q[3] = "stabilise"
    \/ Doing = "closePort" /\ Len(q) >= 2 /\ q[2] = "stabilise"
    \/ Doing \in {"stabilise", "closing", "closed", "awaitChange"}

\* What a thread other than the PnP thread has still to do.
Rests == {<<>>, <<"readState">>, <<"gone">>, <<"restart">>, <<"unplug">>, UnplugSteps,
          <<"closePort", "removeChildren">>, <<"removeChildren">>, <<"crashed">>}

Interfaces == [ring : {"none", "live", "freed"}, granted : BOOLEAN, port : BOOLEAN,
               handler : BOOLEAN]

Ledgers == [page : Int, grant : Int, port : Int, handler : Int]

Contexts == [configured : BOOLEAN, unplugged : BOOLEAN, disconnected : BOOLEAN,
             timer : {"none", "off", "armed", "stopping"}, scratch : BOOLEAN, child : BOOLEAN]

Data ==
  /\ saw \in [Threads -> Nat]
  /\ xen = NULL \/ xen \in Interfaces
  /\ gen \in 0..MaxGen
  /\ ledger \in Ledgers
  /\ fdo \in Contexts
  /\ place \in [Requests -> {"none", "ring", "done", "lost"}]
  /\ store \in [fe : BackendStates, be : BackendStates, online : BOOLEAN, ringRef : 0..gen,
                mapped : 0..gen, restarts : Nat]
  /\ seen \in BackendStates

LifeTypes ==
  /\ pnp \in {"adding", "added", "d0", "stopping", "dx", "failed", "removed", "crashed"}
  /\ todo \in [Threads -> Seq(Steps)]
  /\ Data

Control ==
  /\ Orderly(todo["pnp"])
  /\ todo["timer"] \in Rests /\ todo["waiter"] \in Rests
  /\ todo["waiter"] # <<>> => "gaveUp" \in history
  /\ pnp \in {"removed", "crashed"} => Doing = "idle"

\* The watchdog is not running and not about to.
Quiet == Idle("timer") /\ fdo.timer # "armed"

\* FdoEvtDeviceAdd and the part of FdoEvtDeviceD0Entry that connects.
SettingUp == {"deviceAdd", "configure", "initialize", "connect", "awaitInitWait", "publish",
              "awaitConnected", "configured", "getUsbConfigData", "createRootHubPdo",
              "startTimer"}

AfterTimer == {"checkPort", "closePort", "removeChildren", "unplug", "sweep", "deconfigure",
               "stabilise", "closing", "closed", "awaitChange", "unregister", "deallocate",
               "removed", "dx"}

Watchdog ==
  /\ Doing \in SettingUp \cup AfterTimer => Quiet
  /\ ~fdo.configured => Quiet
  /\ fdo.disconnected => Quiet \/ Doing \in {"stopTimer", "timerStopped"}
  /\ Doing \in SettingUp => ~fdo.disconnected
  /\ Doing \in {"getUsbConfigData", "createRootHubPdo", "startTimer"} => fdo.configured
  /\ fdo.disconnected \/ Doing = "cleanup" => ~store.online \/ Removing \/ Crashed
                                                \/ pnp = "removed"
  /\ store.be = "unknown" => ~store.online
  /\ fdo.timer = "none" => Idle("timer")

\* What a thread is about to close is open.
SawOpen ==
  "gaveUp" \notin history =>
    \A t \in Threads : At(t, "closePort") => xen # NULL /\ saw[t] = gen /\ xen.port

One(b) == IF b THEN 1 ELSE 0

\* What the interface holds and what was had but not given back.
Books ==
  /\ ledger.page <= One(xen # NULL /\ xen.ring # "none")
  /\ ledger.page = One(xen # NULL /\ xen.ring # "none") \/ "freedEarly" \in history
  /\ ledger.grant >= One(xen # NULL /\ xen.granted)
  /\ ledger.grant = One(xen # NULL /\ xen.granted) \/ "freedMapped" \in history
  /\ ledger.port <= One(xen # NULL /\ xen.port)
  /\ ledger.port = One(xen # NULL /\ xen.port) \/ "closedTwice" \in history
  /\ ledger.handler = One(xen # NULL /\ xen.handler)

Accounts ==
  /\ xen # NULL => gen > 0
  /\ Doing \in {"online", "configure"} => fdo.configured \/ gen < MaxGen
  /\ Doing = "deviceAdd" => gen = 0 /\ ~fdo.configured
  /\ Doing = "initialize" => xen = NoXen
  /\ Doing \in {"connect", "awaitInitWait", "publish", "awaitConnected"}
       => xen # NULL /\ ~xen.handler
  /\ Doing \in {"closePort", "stabilise", "closing", "closed", "awaitChange", "unregister"}
       => xen # NULL
  /\ Doing = "removed" \/ pnp = "removed" => xen = NULL /\ ~fdo.scratch
  /\ Books

\* In D0 no request is accepted that the sweep would miss.
Swept ==
  \/ Doing \in {"idle", "cleanup"} /\ ~fdo.disconnected
  \/ Doing # "cleanup" /\ Ahead("sweep")
  \/ Crashed

OnTheRing ==
  /\ pnp = "d0" /\ ~fdo.unplugged => Swept
  /\ fdo.disconnected => fdo.unplugged \/ (Doing # "cleanup" /\ Ahead("sweep")) \/ Crashed
  /\ Ahead("sweep") => fdo.unplugged \/ UnplugFirst
  /\ \A r \in Requests :
       place[r] = "ring" => \/ "stoppedBusy" \in history
                            \/ Crashed
                            \/ pnp = "d0" /\ fdo.configured /\ Swept

\* The frontend counts on the backend.
Bound == \/ fdo.configured \/ Doing \in {"awaitConnected", "configured"} \/ Parting
         \/ Crashed

Handshake ==
  /\ store.be \notin {"connected", "closing"} => store.mapped = 0
  /\ fdo.configured \/ Doing \in {"awaitConnected", "configured"} \/ Parting
       => store.fe # "initialising"
  /\ Doing \in {"initialize", "connect", "awaitInitWait", "publish", "awaitConnected",
                "configured"} => ~fdo.configured /\ gen > 0
  /\ Doing = "awaitConnected" => /\ store.fe = "connected" /\ store.ringRef = gen
                                 /\ store.be = "connected" => store.mapped = gen
  /\ store.fe = "initialising" => store.be # "connected"
  /\ store.be = "connected" => Bound
  /\ store.be \in {"initialising", "initwait"} /\ store.fe = "connected" => Bound
  /\ store.mapped = gen /\ gen > 0 => Bound \/ "refused" \in history
  /\ Doing = "configured" => /\ store.be \notin {"initialising", "initwait"}
                             /\ store.mapped \in {gen, 0}
  /\ Doing \in {"closing", "closed"} /\ seen \in {"closed", "unknown"}
       => store.be \in {"closed", "unknown"}
  /\ Ahead("deallocate") /\ fdo.configured => "removedConnected" \in history

LifeInv ==
  /\ LifeTypes /\ Control /\ Watchdog /\ SawOpen /\ Accounts /\ OnTheRing /\ Handshake
  /\ MappedRingKept /\ PortClosedOnce /\ LostOnlyByPowerDown

--------------------------------------------------------------------------------
(* Orderly rests of callbacks.                                              *)

\* What is left of an orderly rest is orderly.
LEMMA Shorter ==
  ASSUME NEW q \in Seq(Steps), Orderly(q), NEW n \in 0..Len(q)
  PROVE  LET p == SubSeq(q, n + 1, Len(q))
         IN  /\ p \in Seq(Steps) /\ Len(p) = Len(q) - n
             /\ \A i \in 1..Len(p) : p[i] = q[i + n]
             /\ Orderly(p)
<1> DEFINE p == SubSeq(q, n + 1, Len(q))
<1>1. /\ p \in Seq(Steps) /\ Len(p) = Len(q) - n /\ Len(q) \in Nat /\ Len(p) \in Nat
      /\ \A i \in 1..Len(p) : p[i] = q[i + n]
  <2>1. Len(q) \in Nat /\ n \in Nat
    OBVIOUS
  <2>2. \A i \in (n + 1)..Len(q) : q[i] \in Steps
    <3>1. \A i \in 1..Len(q) : q[i] \in Steps
      BY ElementOfSeq
    <3>. QED BY <2>1, <3>1
  <2>. QED BY <2>1, <2>2, SubSeqProperties
<1> HIDE DEF p
<1>2. n \in Nat /\ \A i \in 1..Len(p) : i + n \in 1..Len(q)
  BY <1>1
<1>3. p # <<>> => p[Len(p)] \in Ends \cup {"unregister", "deviceAdd"}
  <2>1. p # <<>> => Len(p) >= 1 /\ q # <<>> /\ Len(p) + n = Len(q)
    BY <1>1
  <2>. QED BY <1>1, <2>1 DEF Orderly
<1>4. \A i \in 1..(Len(p) - 1) : Follows(p[i], p[i + 1])
  <2>1. TAKE i \in 1..(Len(p) - 1)
  <2>2. i + n \in 1..(Len(q) - 1) /\ (i + 1) + n = (i + n) + 1 /\ i \in 1..Len(p)
        /\ i + 1 \in 1..Len(p)
    BY <1>1, <1>2
  <2>. QED BY <1>1, <2>2 DEF Orderly, Piece
<1>5. \A i \in 1..Len(p) : Placed(p, i)
  <2>1. TAKE i \in 1..Len(p)
  <2>2. i + n \in 1..Len(q) /\ Placed(q, i + n)
    BY <1>2 DEF Orderly, Piece
  <2>3. /\ p[i] = q[i + n]
        /\ (i + n) + 6 <= Len(q) => /\ i + 6 <= Len(p)
                                    /\ p[i + 6] = q[(i + n) + 6] /\ p[i + 3] = q[(i + n) + 3]
        /\ (i + n) + 3 <= Len(q) => /\ i + 3 <= Len(p)
                                    /\ p[i + 3] = q[(i + n) + 3] /\ p[i + 1] = q[(i + n) + 1]
    <3>1. p[i] = q[i + n]
      BY <1>1
    <3>2. ASSUME (i + n) + 6 <= Len(q)
          PROVE  /\ i + 6 \in 1..Len(p) /\ i + 3 \in 1..Len(p) /\ i + 6 <= Len(p)
                 /\ (i + 6) + n = (i + n) + 6 /\ (i + 3) + n = (i + n) + 3
      BY <1>1, <1>2, <3>2
    <3>3. ASSUME (i + n) + 3 <= Len(q)
          PROVE  /\ i + 3 \in 1..Len(p) /\ i + 1 \in 1..Len(p) /\ i + 3 <= Len(p)
                 /\ (i + 3) + n = (i + n) + 3 /\ (i + 1) + n = (i + n) + 1
      BY <1>1, <1>2, <3>3
    <3>4. (i + n) + 6 <= Len(q) => /\ i + 6 <= Len(p)
                                  /\ p[i + 6] = q[(i + n) + 6] /\ p[i + 3] = q[(i + n) + 3]
      BY <1>1, <3>2
    <3>5. (i + n) + 3 <= Len(q) => /\ i + 3 <= Len(p)
                                  /\ p[i + 3] = q[(i + n) + 3] /\ p[i + 1] = q[(i + n) + 1]
      BY <1>1, <3>3
    <3>. QED BY <3>1, <3>4, <3>5
  <2>. QED BY <2>2, <2>3 DEF Placed
<1>6. \A i \in 1..Len(p) : \A j \in 1..(i - 1) : Behind(p, i, j)
  <2>1. TAKE i \in 1..Len(p)
  <2>2. TAKE j \in 1..(i - 1)
  <2>3. i + n \in 1..Len(q) /\ j + n \in 1..((i + n) - 1) /\ j \in 1..Len(p)
    BY <1>1, <1>2
  <2>4. p[i] = q[i + n] /\ p[j] = q[j + n]
    BY <1>1, <2>3
  <2>. QED BY <2>3, <2>4 DEF Orderly, Piece, Behind
<1>7. Orderly(p)
  BY <1>3, <1>4, <1>5, <1>6 DEF Orderly, Piece
<1>. QED BY <1>1, <1>7 DEF p

\* One rest after another.
LEMMA Joined ==
  ASSUME NEW p \in Seq(Steps), NEW q \in Seq(Steps), Piece(p), Piece(q), p # <<>>,
         q # <<>> => Follows(p[Len(p)], q[1]),
         \/ \A j \in 1..Len(q) : q[j] # "sweep"
         \/ \A j \in 1..Len(p) : p[j] \in BeforeSweep,
         \/ \A j \in 1..Len(q) : q[j] # "deallocate"
         \/ \A j \in 1..Len(p) : p[j] \in BeforeSweep \cup {"sweep"}
  PROVE  LET z == p \o q
         IN  /\ z \in Seq(Steps) /\ Len(z) = Len(p) + Len(q)
             /\ \A i \in 1..Len(p) : z[i] = p[i]
             /\ \A i \in 1..Len(q) : z[Len(p) + i] = q[i]
             /\ \A i \in 1..Len(z) :
                  \/ i \in 1..Len(p) /\ z[i] = p[i]
                  \/ i - Len(p) \in 1..Len(q) /\ z[i] = q[i - Len(p)]
             /\ Piece(z)
             /\ Orderly(q) /\ q # <<>> => Orderly(z) /\ z[Len(z)] = q[Len(q)]
<1> DEFINE z == p \o q
<1>1. /\ z \in Seq(Steps) /\ Len(z) = Len(p) + Len(q)
      /\ Len(p) \in Nat /\ Len(q) \in Nat /\ Len(p) >= 1
      /\ \A i \in 1..Len(p) : z[i] = p[i]
      /\ \A i \in 1..Len(q) : z[Len(p) + i] = q[i]
  <2>1. Len(p) \in Nat /\ Len(q) \in Nat /\ Len(p) >= 1
    OBVIOUS
  <2>2. z \in Seq(Steps) /\ Len(z) = Len(p) + Len(q)
    OBVIOUS
  <2>3. \A i \in 1..Len(p) : z[i] = p[i]
    OBVIOUS
  <2>4. \A i \in 1..Len(q) : z[Len(p) + i] = q[i]
    OBVIOUS
  <2>. QED BY <2>1, <2>2, <2>3, <2>4
<1> HIDE DEF z
<1>2. \A i \in 1..Len(z) :
        \/ i \in 1..Len(p) /\ z[i] = p[i]
        \/ i > Len(p) /\ i - Len(p) \in 1..Len(q) /\ z[i] = q[i - Len(p)]
  <2>1. TAKE i \in 1..Len(z)
  <2>2. CASE i <= Len(p)
    BY <1>1, <2>2
  <2>3. CASE i > Len(p)
    <3>1. i - Len(p) \in 1..Len(q) /\ i = Len(p) + (i - Len(p))
      BY <1>1, <2>3
    <3>. QED BY <1>1, <2>3, <3>1
  <2>. QED BY <1>1, <2>2, <2>3
<1>3. \A i \in 1..(Len(z) - 1) : Follows(z[i], z[i + 1])
  <2>1. TAKE i \in 1..(Len(z) - 1)
  <2>2. CASE i < Len(p)
    <3>1. i \in 1..(Len(p) - 1) /\ i \in 1..Len(p) /\ i + 1 \in 1..Len(p)
      BY <1>1, <2>2
    <3>. QED BY <1>1, <3>1 DEF Piece
  <2>3. CASE i = Len(p)
    <3>1. 1 \in 1..Len(q) /\ q # <<>> /\ i \in 1..Len(p) /\ z[Len(p) + 1] = q[1]
      BY <1>1, <2>3
    <3>. QED BY <1>1, <2>3, <3>1
  <2>4. CASE i > Len(p)
    <3> DEFINE k == i - Len(p)
    <3>1. /\ k \in 1..(Len(q) - 1) /\ k \in 1..Len(q) /\ k + 1 \in 1..Len(q)
          /\ i = Len(p) + k /\ i + 1 = Len(p) + (k + 1)
      BY <1>1, <2>4
    <3> HIDE DEF k
    <3>. QED BY <1>1, <3>1 DEF Piece
  <2>. QED BY <1>1, <2>2, <2>3, <2>4
<1>4. \A i \in 1..Len(z) : Placed(z, i)
  <2>1. TAKE i \in 1..Len(z)
  <2>2. CASE i \in 1..Len(p) /\ z[i] = p[i]
    <3>1. i + 6 <= Len(p) => i + 6 \in 1..Len(p) /\ i + 3 \in 1..Len(p) /\ i + 6 <= Len(z)
      BY <1>1, <2>2
    <3>2. i + 3 <= Len(p) => i + 3 \in 1..Len(p) /\ i + 1 \in 1..Len(p) /\ i + 3 <= Len(z)
      BY <1>1, <2>2
    <3>3. Placed(p, i)
      BY <2>2 DEF Piece
    <3>. QED BY <1>1, <2>2, <3>1, <3>2, <3>3 DEF Placed
  <2>3. CASE i > Len(p) /\ i - Len(p) \in 1..Len(q) /\ z[i] = q[i - Len(p)]
    <3> DEFINE k == i - Len(p)
    <3>1. k \in 1..Len(q) /\ z[i] = q[k] /\ i = Len(p) + k
      BY <1>1, <2>3
    <3>2. k + 6 <= Len(q) => /\ k + 6 \in 1..Len(q) /\ k + 3 \in 1..Len(q)
                            /\ i + 6 <= Len(z)
                            /\ i + 6 = Len(p) + (k + 6) /\ i + 3 = Len(p) + (k + 3)
      BY <1>1, <3>1
    <3>3. k + 3 <= Len(q) => /\ k + 3 \in 1..Len(q) /\ k + 1 \in 1..Len(q)
                            /\ i + 3 <= Len(z)
                            /\ i + 3 = Len(p) + (k + 3) /\ i + 1 = Len(p) + (k + 1)
      BY <1>1, <3>1
    <3> HIDE DEF k
    <3>4. Placed(q, k)
      BY <3>1 DEF Piece
    <3>. QED BY <1>1, <3>1, <3>2, <3>3, <3>4 DEF Placed
  <2>. QED BY <1>2, <2>2, <2>3
<1>5. \A i \in 1..Len(z) : \A j \in 1..(i - 1) : Behind(z, i, j)
  <2>1. TAKE i \in 1..Len(z)
  <2>2. TAKE j \in 1..(i - 1)
  <2>3. j \in 1..Len(z) /\ j < i
    BY <1>1
  <2>4. CASE i \in 1..Len(p) /\ z[i] = p[i]
    <3>1. j \in 1..Len(p) /\ j \in 1..(i - 1) /\ z[j] = p[j]
      BY <1>1, <2>3, <2>4
    <3>. QED BY <2>4, <3>1 DEF Piece, Behind
  <2>5. CASE i > Len(p) /\ i - Len(p) \in 1..Len(q) /\ z[i] = q[i - Len(p)]
    <3>1. CASE j \in 1..Len(p) /\ z[j] = p[j]
      BY <2>5, <3>1 DEF Behind
    <3>2. CASE j > Len(p) /\ j - Len(p) \in 1..Len(q) /\ z[j] = q[j - Len(p)]
      <4>1. j - Len(p) \in 1..((i - Len(p)) - 1)
        BY <1>1, <2>3, <2>5, <3>2
      <4>. QED BY <2>5, <3>2, <4>1 DEF Piece, Behind
    <3>. QED BY <1>2, <2>3, <3>1, <3>2
  <2>. QED BY <1>2, <2>4, <2>5
<1>6. Piece(z)
  BY <1>3, <1>4, <1>5 DEF Piece
<1>7. ASSUME Orderly(q), q # <<>> PROVE Orderly(z) /\ z[Len(z)] = q[Len(q)]
  <2>1. Len(q) \in 1..Len(q) /\ Len(z) = Len(p) + Len(q)
    BY <1>1, <1>7
  <2>2. z[Len(z)] = q[Len(q)]
    BY <1>1, <2>1
  <2>. QED BY <1>1, <1>6, <1>7, <2>2 DEF Orderly
<1>8. \A i \in 1..Len(z) :
        \/ i \in 1..Len(p) /\ z[i] = p[i]
        \/ i - Len(p) \in 1..Len(q) /\ z[i] = q[i - Len(p)]
  BY <1>2, Zenon
<1>. QED BY <1>1, <1>6, <1>7, <1>8, Zenon DEF z

\* The steps of XenConfigure.
LEMMA ConfigurePiece ==
  /\ ConfigureSteps \in Seq(Steps) /\ Len(ConfigureSteps) = 7
  /\ ConfigureSteps[1] = "configure" /\ ConfigureSteps[2] = "initialize"
  /\ ConfigureSteps[3] = "connect" /\ ConfigureSteps[4] = "awaitInitWait"
  /\ ConfigureSteps[5] = "publish" /\ ConfigureSteps[6] = "awaitConnected"
  /\ ConfigureSteps[7] = "configured"
  /\ Piece(ConfigureSteps)
<1> DEFINE q == ConfigureSteps
<1>1. q \in Seq(Steps) /\ Len(q) = 7
  BY DEF ConfigureSteps, Steps, Ends
<1>2. 1..7 = {1, 2, 3, 4, 5, 6, 7} /\ 1..6 = {1, 2, 3, 4, 5, 6}
  OBVIOUS
<1>3. /\ q[1] = "configure" /\ q[2] = "initialize" /\ q[3] = "connect"
      /\ q[4] = "awaitInitWait" /\ q[5] = "publish" /\ q[6] = "awaitConnected"
      /\ q[7] = "configured"
  BY DEF ConfigureSteps
<1> HIDE DEF q
<1>4. \A i \in 1..(Len(q) - 1) : Follows(q[i], q[i + 1])
  <2>1. Follows(q[1], q[1 + 1])
    BY <1>3 DEF Follows
  <2>2. Follows(q[2], q[2 + 1])
    BY <1>3 DEF Follows
  <2>3. Follows(q[3], q[3 + 1])
    BY <1>3 DEF Follows
  <2>4. Follows(q[4], q[4 + 1])
    BY <1>3 DEF Follows
  <2>5. Follows(q[5], q[5 + 1])
    BY <1>3 DEF Follows
  <2>6. Follows(q[6], q[6 + 1])
    BY <1>3 DEF Follows
  <2>7. Len(q) - 1 = 6
    BY <1>1
  <2>. QED BY <1>2, <2>1, <2>2, <2>3, <2>4, <2>5, <2>6, <2>7
<1>5. \A i \in 1..Len(q) : Placed(q, i)
  BY <1>1, <1>2, <1>3 DEF Placed
<1>6. \A i \in 1..Len(q) : \A j \in 1..(i - 1) : Behind(q, i, j)
  <2>1. \A i \in 1..Len(q) : q[i] \notin {"deallocate", "sweep"}
    BY <1>1, <1>2, <1>3
  <2>. QED BY <2>1 DEF Behind
<1>7. Piece(q)
  BY <1>4, <1>5, <1>6 DEF Piece
<1>. QED BY <1>1, <1>3, <1>7 DEF q

\* The steps of CleanupDisconnectedDevice.
LEMMA CleanupPiece ==
  /\ CleanupSteps \in Seq(Steps) /\ Len(CleanupSteps) = 7
  /\ CleanupSteps[1] = "cleanup" /\ CleanupSteps[2] = "stopTimer"
  /\ CleanupSteps[3] = "timerStopped" /\ CleanupSteps[4] = "checkPort"
  /\ CleanupSteps[5] = "closePort" /\ CleanupSteps[6] = "unplug" /\ CleanupSteps[7] = "sweep"
  /\ Piece(CleanupSteps)
<1> DEFINE q == CleanupSteps
<1>1. q \in Seq(Steps) /\ Len(q) = 7
  BY DEF CleanupSteps, Steps, Ends
<1>2. 1..7 = {1, 2, 3, 4, 5, 6, 7} /\ 1..6 = {1, 2, 3, 4, 5, 6}
  OBVIOUS
<1>3. /\ q[1] = "cleanup" /\ q[2] = "stopTimer" /\ q[3] = "timerStopped" /\ q[4] = "checkPort"
      /\ q[5] = "closePort" /\ q[6] = "unplug" /\ q[7] = "sweep"
  BY DEF CleanupSteps
<1> HIDE DEF q
<1>4. \A i \in 1..(Len(q) - 1) : Follows(q[i], q[i + 1])
  <2>1. Follows(q[1], q[1 + 1])
    BY <1>3 DEF Follows
  <2>2. Follows(q[2], q[2 + 1])
    BY <1>3 DEF Follows
  <2>3. Follows(q[3], q[3 + 1])
    BY <1>3 DEF Follows
  <2>4. Follows(q[4], q[4 + 1])
    BY <1>3 DEF Follows
  <2>5. Follows(q[5], q[5 + 1])
    BY <1>3 DEF Follows
  <2>6. Follows(q[6], q[6 + 1])
    BY <1>3 DEF Follows
  <2>7. Len(q) - 1 = 6
    BY <1>1
  <2>. QED BY <1>2, <2>1, <2>2, <2>3, <2>4, <2>5, <2>6, <2>7
<1>5. \A i \in 1..Len(q) : Placed(q, i)
  BY <1>1, <1>2, <1>3 DEF Placed
<1>6. \A i \in 1..Len(q) : \A j \in 1..(i - 1) : Behind(q, i, j)
  <2>1. \A i \in 1..Len(q) : q[i] # "deallocate" /\ (q[i] = "sweep" => i = 7)
    BY <1>1, <1>2, <1>3
  <2>2. 1..(7 - 1) = {1, 2, 3, 4, 5, 6}
    OBVIOUS
  <2>. QED BY <2>1, <2>2, <1>3 DEF Behind, BeforeSweep
<1>7. Piece(q)
  BY <1>4, <1>5, <1>6 DEF Piece
<1>. QED BY <1>1, <1>3, <1>7 DEF q

\* The steps of FdoEvtDeviceD0Exit.
LEMMA D0ExitPiece ==
  /\ D0ExitSteps \in Seq(Steps) /\ Len(D0ExitSteps) = 9
  /\ D0ExitSteps[1] = "stopTimer" /\ D0ExitSteps[2] = "timerStopped"
  /\ D0ExitSteps[3] = "deconfigure" /\ D0ExitSteps[4] = "checkPort"
  /\ D0ExitSteps[5] = "closePort" /\ D0ExitSteps[6] = "stabilise" /\ D0ExitSteps[7] = "closing"
  /\ D0ExitSteps[8] = "closed" /\ D0ExitSteps[9] = "unregister"
  /\ Piece(D0ExitSteps)
<1> DEFINE q == D0ExitSteps
<1>1. q \in Seq(Steps) /\ Len(q) = 9
  BY DEF D0ExitSteps, Steps, Ends
<1>2. 1..9 = {1, 2, 3, 4, 5, 6, 7, 8, 9} /\ 1..8 = {1, 2, 3, 4, 5, 6, 7, 8}
  OBVIOUS
<1>3. /\ q[1] = "stopTimer" /\ q[2] = "timerStopped" /\ q[3] = "deconfigure"
      /\ q[4] = "checkPort" /\ q[5] = "closePort" /\ q[6] = "stabilise" /\ q[7] = "closing"
      /\ q[8] = "closed" /\ q[9] = "unregister"
  BY DEF D0ExitSteps
<1> HIDE DEF q
<1>4. \A i \in 1..(Len(q) - 1) : Follows(q[i], q[i + 1])
  <2>1. Follows(q[1], q[1 + 1])
    BY <1>3 DEF Follows
  <2>2. Follows(q[2], q[2 + 1])
    BY <1>3 DEF Follows
  <2>3. Follows(q[3], q[3 + 1])
    BY <1>3 DEF Follows
  <2>4. Follows(q[4], q[4 + 1])
    BY <1>3 DEF Follows
  <2>5. Follows(q[5], q[5 + 1])
    BY <1>3 DEF Follows
  <2>6. Follows(q[6], q[6 + 1])
    BY <1>3 DEF Follows
  <2>7. Follows(q[7], q[7 + 1])
    BY <1>3 DEF Follows
  <2>8. Follows(q[8], q[8 + 1])
    BY <1>3 DEF Follows
  <2>9. Len(q) - 1 = 8
    BY <1>1
  <2>. QED BY <1>2, <2>1, <2>2, <2>3, <2>4, <2>5, <2>6, <2>7, <2>8, <2>9
<1>5. \A i \in 1..Len(q) : Placed(q, i)
  BY <1>1, <1>2, <1>3 DEF Placed
<1>6. \A i \in 1..Len(q) : \A j \in 1..(i - 1) : Behind(q, i, j)
  <2>1. \A i \in 1..Len(q) : q[i] \notin {"deallocate", "sweep"}
    BY <1>1, <1>2, <1>3
  <2>. QED BY <2>1 DEF Behind
<1>7. Piece(q)
  BY <1>4, <1>5, <1>6 DEF Piece
<1>. QED BY <1>1, <1>3, <1>7 DEF q

\* What FdoUnplugDevice adds when it is the first.
LEMMA UnplugPiece ==
  /\ UnplugSteps \in Seq(Steps) /\ Len(UnplugSteps) = 3
  /\ UnplugSteps[1] = "checkPort" /\ UnplugSteps[2] = "closePort"
  /\ UnplugSteps[3] = "removeChildren"
  /\ Piece(UnplugSteps)
<1> DEFINE q == UnplugSteps
<1>1. q \in Seq(Steps) /\ Len(q) = 3
  BY DEF UnplugSteps, Steps, Ends
<1>2. 1..3 = {1, 2, 3} /\ 1..2 = {1, 2}
  OBVIOUS
<1>3. /\ q[1] = "checkPort" /\ q[2] = "closePort" /\ q[3] = "removeChildren"
  BY DEF UnplugSteps
<1> HIDE DEF q
<1>4. \A i \in 1..(Len(q) - 1) : Follows(q[i], q[i + 1])
  <2>1. Follows(q[1], q[1 + 1])
    BY <1>3 DEF Follows
  <2>2. Follows(q[2], q[2 + 1])
    BY <1>3 DEF Follows
  <2>3. Len(q) - 1 = 2
    BY <1>1
  <2>. QED BY <1>2, <2>1, <2>2, <2>3
<1>5. \A i \in 1..Len(q) : Placed(q, i)
  BY <1>1, <1>2, <1>3 DEF Placed
<1>6. \A i \in 1..Len(q) : \A j \in 1..(i - 1) : Behind(q, i, j)
  <2>1. \A i \in 1..Len(q) : q[i] \notin {"deallocate", "sweep"}
    BY <1>1, <1>2, <1>3
  <2>. QED BY <2>1 DEF Behind
<1>7. Piece(q)
  BY <1>4, <1>5, <1>6 DEF Piece
<1>. QED BY <1>1, <1>3, <1>7 DEF q

Lacks(q, step) == \A i \in 1..Len(q) : q[i] # step

Ready(q, first, last) ==
  /\ q \in Seq(Steps) /\ Orderly(q) /\ q # <<>> /\ Len(q) >= 1
  /\ q[1] = first /\ q[Len(q)] = last

\* A rest that sweeps, after FdoUnplugDevice.
Sweeps(q) ==
  /\ \E i \in 1..Len(q) : q[i] = "sweep"
  /\ \A i \in 1..Len(q) : q[i] = "sweep" => \E j \in 1..(i - 1) : q[j] = "unplug"

\* A rest of one step.
LEMMA OneStep ==
  ASSUME NEW a \in Ends
  PROVE  Ready(<<a>>, a, a) /\ Len(<<a>>) = 1 /\ Lacks(<<a>>, "sweep") /\ Lacks(<<a>>, "deallocate")
<1> DEFINE q == <<a>>
<1>1. q \in Seq(Steps) /\ Len(q) = 1 /\ q[1] = a
  BY DEF Steps
<1>2. 1..1 = {1} /\ 1..(1 - 1) = {}
  OBVIOUS
<1> HIDE DEF q
<1>3. a # "sweep" /\ a # "deallocate"
      /\ a \notin {"cleanup", "configure", "deconfigure", "timerStopped"}
  BY DEF Ends
<1>4. Lacks(q, "sweep") /\ Lacks(q, "deallocate")
  BY <1>1, <1>2, <1>3 DEF Lacks
<1>5. Piece(q)
  BY <1>1, <1>2, <1>3 DEF Piece, Placed, Behind
<1>6. Ready(q, a, a)
  BY <1>1, <1>5 DEF Ready, Orderly
<1>. QED BY <1>1, <1>4, <1>6 DEF q

\* A rest of two steps.
LEMMA TwoSteps ==
  ASSUME NEW a \in Steps, NEW b \in Ends, Follows(a, b),
         a \notin {"cleanup", "configure", "deconfigure", "timerStopped", "sweep", "deallocate"}
  PROVE  /\ Ready(<<a, b>>, a, b) /\ Lacks(<<a, b>>, "sweep") /\ Lacks(<<a, b>>, "deallocate")
         /\ Len(<<a, b>>) = 2 /\ Tail(<<a, b>>) = <<b>>
<1> DEFINE q == <<a, b>>
<1>1. q \in Seq(Steps) /\ Len(q) = 2 /\ q[1] = a /\ q[2] = b /\ Tail(q) = <<b>> /\ q # <<>>
  BY DEF Steps
<1>2. 1..2 = {1, 2} /\ 1..(2 - 1) = {1}
  OBVIOUS
<1> HIDE DEF q
<1>3. b # "sweep" /\ b # "deallocate"
      /\ b \notin {"cleanup", "configure", "deconfigure", "timerStopped"}
  BY DEF Ends
<1>4. Lacks(q, "sweep") /\ Lacks(q, "deallocate")
  BY <1>1, <1>2, <1>3 DEF Lacks
<1>5. Piece(q)
  BY <1>1, <1>2, <1>3 DEF Piece, Placed, Behind
<1>6. q # <<>> /\ q[Len(q)] = b /\ Len(q) >= 1
  BY <1>1
<1>7. Ready(q, a, b)
  BY <1>1, <1>5, <1>6 DEF Ready, Orderly
<1>. QED BY <1>1, <1>4, <1>7 DEF q

\* A piece without a sweep, and an end.
LEMMA EndJoined ==
  ASSUME NEW p \in Seq(Steps), Piece(p), Len(p) >= 1, p # <<>>, NEW q, NEW a, NEW b, Ready(q, a, b),
         Follows(p[Len(p)], a), Lacks(q, "sweep"), Lacks(q, "deallocate")
  PROVE  LET z == p \o q
         IN  /\ Ready(z, p[1], b)
             /\ Lacks(p, "sweep") => Lacks(z, "sweep")
             /\ Lacks(p, "deallocate") => Lacks(z, "deallocate")
             /\ Len(z) = Len(p) + Len(q)
             /\ \A i \in 1..Len(p) : z[i] = p[i]
             /\ \A i \in 1..Len(q) : z[Len(p) + i] = q[i]
<1> DEFINE z == p \o q
<1>1. /\ z \in Seq(Steps) /\ Len(z) = Len(p) + Len(q)
      /\ \A i \in 1..Len(p) : z[i] = p[i]
      /\ \A i \in 1..Len(q) : z[Len(p) + i] = q[i]
      /\ \A i \in 1..Len(z) :
           \/ i \in 1..Len(p) /\ z[i] = p[i]
           \/ i - Len(p) \in 1..Len(q) /\ z[i] = q[i - Len(p)]
      /\ Orderly(z) /\ z[Len(z)] = q[Len(q)]
  BY Joined DEF Ready, Orderly, Lacks
<1>2. Len(z) >= 1 /\ 1 \in 1..Len(p) /\ z # <<>>
  <2>1. Len(p) \in Nat /\ Len(q) \in Nat
    BY DEF Ready
  <2>. QED BY <1>1, <2>1
<1> HIDE DEF z
<1>3. Ready(z, p[1], b)
  BY <1>1, <1>2 DEF Ready
<1>4. Lacks(p, "sweep") => Lacks(z, "sweep")
  BY <1>1 DEF Lacks
<1>5. Lacks(p, "deallocate") => Lacks(z, "deallocate")
  BY <1>1 DEF Lacks
<1>. QED BY <1>1, <1>3, <1>4, <1>5 DEF z

\* Any end of a callback may stand alone.
LEMMA Ones ==
  /\ 1..7 = {1, 2, 3, 4, 5, 6, 7} /\ 1..9 = {1, 2, 3, 4, 5, 6, 7, 8, 9} /\ 1..3 = {1, 2, 3}
OBVIOUS

\* The callbacks that begin with CleanupDisconnectedDevice.
LEMMA CleanupJoined ==
  ASSUME NEW q, NEW a \in {"stopTimer", "d0", "remove"}, NEW b, Ready(q, a, b),
         Lacks(q, "sweep"), Lacks(q, "deallocate")
  PROVE  LET z == CleanupSteps \o q
         IN  Ready(z, "cleanup", b) /\ Sweeps(z) /\ Lacks(z, "deallocate")
<1> DEFINE z == CleanupSteps \o q
           p == CleanupSteps
<1>1. p \in Seq(Steps) /\ Len(p) = 7 /\ p # <<>> /\ Piece(p)
      /\ p[1] = "cleanup" /\ p[6] = "unplug" /\ p[7] = "sweep"
      /\ p[2] # "sweep" /\ p[3] # "sweep" /\ p[4] # "sweep" /\ p[5] # "sweep"
  BY CleanupPiece
<1>2. Lacks(p, "deallocate")
  BY CleanupPiece, Ones DEF Lacks
<1> HIDE DEF p
<1>3. /\ Ready(z, p[1], b) /\ Lacks(z, "deallocate") /\ Len(z) = 7 + Len(q)
      /\ \A i \in 1..7 : z[i] = p[i]
      /\ \A i \in 1..Len(q) : z[7 + i] = q[i]
  <2>1. Follows(p[Len(p)], a)
    BY <1>1 DEF Follows
  <2>2. z = p \o q
    BY DEF p
  <2> HIDE DEF z
  <2>3. Len(p) >= 1
    BY <1>1
  <2>4. /\ Ready(z, p[1], b) /\ Lacks(z, "deallocate") /\ Len(z) = Len(p) + Len(q)
        /\ \A i \in 1..Len(p) : z[i] = p[i]
        /\ \A i \in 1..Len(q) : z[Len(p) + i] = q[i]
    BY <1>1, <1>2, <2>1, <2>2, <2>3, EndJoined, Zenon
  <2>. QED BY <1>1, <2>4
<1> HIDE DEF z
<1>4. Sweeps(z)
  <2>1. Len(q) \in Nat
    BY DEF Ready
  <2>2. ASSUME NEW i \in 1..Len(z), z[i] = "sweep" PROVE i = 7
    <3>1. CASE i \in 1..7
      BY <1>1, <1>3, <2>2, <3>1, Ones
    <3>2. CASE i > 7
      <4>1. i - 7 \in 1..Len(q) /\ i = 7 + (i - 7)
        BY <1>3, <2>1, <3>2
      <4>2. z[7 + (i - 7)] = q[i - 7]
        BY <1>3, <4>1
      <4>3. q[i - 7] # "sweep"
        BY <4>1 DEF Lacks
      <4>. QED BY <2>2, <4>1, <4>2, <4>3
    <3>. QED BY <1>3, <3>1, <3>2
  <2>3. 7 \in 1..Len(z) /\ 6 \in 1..(7 - 1) /\ z[7] = "sweep" /\ z[6] = "unplug"
    BY <1>1, <1>3, <2>1
  <2>. QED BY <2>2, <2>3 DEF Sweeps
<1>. QED BY <1>1, <1>3, <1>4 DEF z

\* The callbacks that the framework and a failure begin.
LEMMA Programs ==
  /\ Ready(LateSetupSteps, "configure", "added")
  /\ Lacks(LateSetupSteps, "sweep") /\ Lacks(LateSetupSteps, "deallocate")
  /\ Ready(ConfigureSteps \o <<"startTimer">> \o <<"d0">>, "configure", "d0")
  /\ Lacks(ConfigureSteps \o <<"startTimer">> \o <<"d0">>, "sweep")
  /\ Lacks(ConfigureSteps \o <<"startTimer">> \o <<"d0">>, "deallocate")
  /\ Ready(D0ExitSteps, "stopTimer", "unregister")
  /\ Lacks(D0ExitSteps, "sweep") /\ Lacks(D0ExitSteps, "deallocate")
  /\ Ready(D0ExitSteps \o <<"dx">>, "stopTimer", "dx")
  /\ Lacks(D0ExitSteps \o <<"dx">>, "sweep") /\ Lacks(D0ExitSteps \o <<"dx">>, "deallocate")
<1>1. /\ Piece(ConfigureSteps) /\ ConfigureSteps \in Seq(Steps) /\ Len(ConfigureSteps) = 7
      /\ Len(ConfigureSteps) >= 1 /\ ConfigureSteps # <<>>
      /\ ConfigureSteps[1] = "configure" /\ ConfigureSteps[Len(ConfigureSteps)] = "configured"
  BY ConfigurePiece
<1>2. Lacks(ConfigureSteps, "sweep") /\ Lacks(ConfigureSteps, "deallocate")
  BY ConfigurePiece, Ones DEF Lacks
<1>3. ASSUME NEW a \in {"getUsbConfigData", "startTimer"}, NEW b, NEW z, Ready(z, a, b),
             Lacks(z, "sweep"), Lacks(z, "deallocate")
      PROVE  /\ Ready(ConfigureSteps \o z, "configure", b)
             /\ Lacks(ConfigureSteps \o z, "sweep") /\ Lacks(ConfigureSteps \o z, "deallocate")
  <2>1. Follows(ConfigureSteps[Len(ConfigureSteps)], a)
    BY <1>1 DEF Follows
  <2>. QED BY <1>1, <1>2, <1>3, <2>1, EndJoined, Zenon
<1>4. /\ Ready(LateSetupSteps, "configure", "added")
      /\ Lacks(LateSetupSteps, "sweep") /\ Lacks(LateSetupSteps, "deallocate")
  <2> DEFINE z == <<"getUsbConfigData", "createRootHubPdo", "added">>
  <2>1. z \in Seq(Steps) /\ Len(z) = 3 /\ z # <<>> /\ z[1] = "getUsbConfigData"
        /\ z[2] = "createRootHubPdo" /\ z[3] = "added"
    BY DEF Steps, Ends
  <2>2. 1..(3 - 1) = {1, 2}
    OBVIOUS
  <2> HIDE DEF z
  <2>3. Lacks(z, "sweep") /\ Lacks(z, "deallocate")
    BY <2>1, Ones DEF Lacks
  <2>4. \A i \in 1..(Len(z) - 1) : Follows(z[i], z[i + 1])
    BY <2>1, <2>2 DEF Follows
  <2>5. Piece(z)
    BY <2>1, <2>3, <2>4, Ones DEF Piece, Placed, Behind, Lacks
  <2>6. Ready(z, "getUsbConfigData", "added")
    BY <2>1, <2>5 DEF Ready, Orderly, Ends
  <2>. QED BY <1>3, <2>3, <2>6 DEF z, LateSetupSteps
<1>5. /\ Ready(ConfigureSteps \o <<"startTimer">> \o <<"d0">>, "configure", "d0")
      /\ Lacks(ConfigureSteps \o <<"startTimer">> \o <<"d0">>, "sweep")
      /\ Lacks(ConfigureSteps \o <<"startTimer">> \o <<"d0">>, "deallocate")
  <2>1. /\ Ready(<<"startTimer", "d0">>, "startTimer", "d0")
        /\ Lacks(<<"startTimer", "d0">>, "sweep") /\ Lacks(<<"startTimer", "d0">>, "deallocate")
    <3>1. Follows("startTimer", "d0") /\ "startTimer" \in Steps /\ "d0" \in Ends
      BY DEF Follows, Steps, Ends
    <3>. QED BY <3>1, TwoSteps
  <2>2. ConfigureSteps \o <<"startTimer">> \o <<"d0">> = ConfigureSteps \o <<"startTimer", "d0">>
    <3> DEFINE c == ConfigureSteps
               a == <<"startTimer">>
               b == <<"d0">>
               x == (c \o a) \o b
               y == c \o <<"startTimer", "d0">>
    <3>1. c \in Seq(Steps) /\ a \in Seq(Steps) /\ b \in Seq(Steps)
          /\ <<"startTimer", "d0">> \in Seq(Steps) /\ Len(c) = 7
      BY <1>1 DEF Steps, Ends
    <3>2. x = c \o (a \o b)
      BY <3>1, ConcatAssociative
    <3>3. a \o b = <<"startTimer", "d0">>
      <4> DEFINE w == a \o b
                 v == <<"startTimer", "d0">>
      <4>1. w \in Seq(Steps) /\ Len(w) = 2 /\ w[1] = "startTimer" /\ w[2] = "d0"
        BY <3>1
      <4>2. v \in Seq(Steps) /\ Len(v) = 2 /\ v[1] = "startTimer" /\ v[2] = "d0"
            /\ 1..2 = {1, 2}
        BY <3>1
      <4> HIDE DEF w, v
      <4>3. \A i \in 1..Len(w) : w[i] = v[i]
        BY <4>1, <4>2
      <4>4. w = v
        BY <4>1, <4>2, <4>3, SeqEqual
      <4>. QED BY <4>4 DEF w, v
    <3>. QED BY <3>2, <3>3
  <2>. QED BY <1>3, <2>1, <2>2
<1>6. /\ Piece(D0ExitSteps) /\ D0ExitSteps \in Seq(Steps) /\ Len(D0ExitSteps) = 9
      /\ Len(D0ExitSteps) >= 1 /\ D0ExitSteps # <<>>
      /\ D0ExitSteps[1] = "stopTimer" /\ D0ExitSteps[Len(D0ExitSteps)] = "unregister"
  <2>1. D0ExitSteps # <<>>
    BY DEF D0ExitSteps
  <2>. QED BY D0ExitPiece, <2>1
<1>7. Lacks(D0ExitSteps, "sweep") /\ Lacks(D0ExitSteps, "deallocate")
  BY D0ExitPiece, Ones DEF Lacks
<1>8. Ready(D0ExitSteps, "stopTimer", "unregister")
  BY <1>6 DEF Ready, Orderly
<1>9. /\ Ready(D0ExitSteps \o <<"dx">>, "stopTimer", "dx")
      /\ Lacks(D0ExitSteps \o <<"dx">>, "sweep") /\ Lacks(D0ExitSteps \o <<"dx">>, "deallocate")
  <2>1. Follows(D0ExitSteps[Len(D0ExitSteps)], "dx") /\ "dx" \in Ends
    BY <1>6 DEF Follows, Ends
  <2>2. Ready(<<"dx">>, "dx", "dx") /\ Lacks(<<"dx">>, "sweep") /\ Lacks(<<"dx">>, "deallocate")
    BY <2>1, OneStep
  <2>. QED BY <1>6, <1>7, <2>1, <2>2, EndJoined, Zenon
<1>. QED BY <1>4, <1>5, <1>7, <1>8, <1>9

\* The callbacks in which the device is removed.
LEMMA Removals ==
  /\ LET z == CleanupSteps \o D0ExitSteps \o <<"remove">>
     IN  Ready(z, "cleanup", "remove") /\ Sweeps(z) /\ Lacks(z, "deallocate")
  /\ LET z == CleanupSteps \o <<>> \o <<"remove">>
     IN  Ready(z, "cleanup", "remove") /\ Sweeps(z) /\ Lacks(z, "deallocate")
  /\ LET z == CleanupSteps \o <<"deallocate", "removed">>
     IN  Ready(z, "cleanup", "removed") /\ Sweeps(z)
<1>1. /\ CleanupSteps \in Seq(Steps) /\ D0ExitSteps \in Seq(Steps)
      /\ <<"remove">> \in Seq(Steps) /\ <<>> \in Seq(Steps)
  BY CleanupPiece, D0ExitPiece DEF Steps, Ends
<1>2. /\ Ready(<<"remove">>, "remove", "remove")
      /\ Lacks(<<"remove">>, "sweep") /\ Lacks(<<"remove">>, "deallocate")
  BY OneStep DEF Ends
<1>3. LET z == CleanupSteps \o D0ExitSteps \o <<"remove">>
      IN  Ready(z, "cleanup", "remove") /\ Sweeps(z) /\ Lacks(z, "deallocate")
  <2> DEFINE q == D0ExitSteps \o <<"remove">>
  <2>1. /\ Piece(D0ExitSteps) /\ D0ExitSteps # <<>> /\ Len(D0ExitSteps) >= 1
        /\ D0ExitSteps[1] = "stopTimer"
        /\ Follows(D0ExitSteps[Len(D0ExitSteps)], "remove")
    BY D0ExitPiece, Programs DEF Ready, Follows
  <2>2. Lacks(D0ExitSteps, "sweep") /\ Lacks(D0ExitSteps, "deallocate")
    BY Programs
  <2>3. Ready(q, "stopTimer", "remove") /\ Lacks(q, "sweep") /\ Lacks(q, "deallocate")
    BY <1>1, <1>2, <2>1, <2>2, EndJoined, Zenon
  <2>4. CleanupSteps \o D0ExitSteps \o <<"remove">> = CleanupSteps \o q
    BY <1>1, ConcatAssociative
  <2> HIDE DEF q
  <2>. QED BY <2>3, <2>4, CleanupJoined
<1>4. LET z == CleanupSteps \o <<>> \o <<"remove">>
      IN  Ready(z, "cleanup", "remove") /\ Sweeps(z) /\ Lacks(z, "deallocate")
  <2>1. CleanupSteps \o <<>> = CleanupSteps
    BY <1>1, ConcatEmptySeq
  <2>. QED BY <1>2, <2>1, CleanupJoined
<1>5. LET z == CleanupSteps \o <<"deallocate", "removed">>
      IN  Ready(z, "cleanup", "removed") /\ Sweeps(z)
  <2> DEFINE q == <<"deallocate", "removed">>
             p == CleanupSteps
             z == p \o q
  <2>1. q \in Seq(Steps) /\ Len(q) = 2 /\ q[1] = "deallocate" /\ q[2] = "removed" /\ q # <<>>
    BY DEF Steps, Ends
  <2>2. 1..2 = {1, 2} /\ 1..(2 - 1) = {1}
    OBVIOUS
  <2>3. /\ p \in Seq(Steps) /\ Len(p) = 7 /\ Piece(p) /\ p[1] = "cleanup" /\ p[2] = "stopTimer"
        /\ p[3] = "timerStopped" /\ p[4] = "checkPort" /\ p[5] = "closePort"
        /\ p[6] = "unplug" /\ p[7] = "sweep"
    BY CleanupPiece
  <2>4. p # <<>>
    BY DEF CleanupSteps
  <2> HIDE DEF p, q
  <2>5. Orderly(q) /\ Piece(q)
    <3>1. \A j \in 1..1 : j = 1
      OBVIOUS
    <3>2. Piece(q)
      BY <2>1, <2>2, <3>1 DEF Piece, Placed, Behind, Follows
    <3>. QED BY <2>1, <3>2 DEF Orderly, Ends
  <2>6. \A j \in 1..Len(p) : p[j] \in BeforeSweep \cup {"sweep"}
    BY <2>3, Ones DEF BeforeSweep
  <2>7. \A j \in 1..Len(q) : q[j] # "sweep"
    BY <2>1, <2>2
  <2>8. q # <<>> => Follows(p[Len(p)], q[1])
    BY <2>1, <2>3 DEF Follows
  <2>9. /\ z \in Seq(Steps) /\ Len(z) = Len(p) + Len(q)
        /\ \A i \in 1..Len(p) : z[i] = p[i]
        /\ \A i \in 1..Len(q) : z[Len(p) + i] = q[i]
        /\ Orderly(z) /\ z[Len(z)] = q[Len(q)]
    BY <2>1, <2>3, <2>4, <2>5, <2>6, <2>7, <2>8, Joined, Zenon
  <2> HIDE DEF z
  <2>10. /\ Len(z) = 9 /\ z[9] = "removed" /\ z[8] = "deallocate" /\ z # <<>>
         /\ z[1] = "cleanup"
         /\ \A i \in 1..7 : z[i] = p[i]
    <3>1. Len(z) = 9 /\ 1 \in 1..Len(q) /\ 2 \in 1..Len(q) /\ Len(p) + 1 = 8 /\ Len(p) + 2 = 9
      BY <2>1, <2>3, <2>9
    <3>2. z # <<>>
      BY <2>9, <3>1
    <3>3. \A i \in 1..7 : z[i] = p[i]
      BY <2>3, <2>9
    <3>4. z[1] = "cleanup"
      BY <2>3, <3>3, Ones
    <3>. QED BY <2>1, <2>3, <2>9, <3>1, <3>2, <3>3, <3>4
  <2>11. Ready(z, "cleanup", "removed")
    <3>1. z[Len(z)] = "removed" /\ Len(z) >= 1
      BY <2>10
    <3>. QED BY <2>9, <2>10, <3>1, Zenon DEF Ready
  <2>12. \A i \in 1..Len(z) : z[i] = "sweep" => i = 7
    BY <2>3, <2>10, Ones
  <2>13. 6 \in 1..(7 - 1) /\ 7 \in 1..Len(z) /\ z[6] = "unplug" /\ z[7] = "sweep"
    BY <2>3, <2>10
  <2>14. Sweeps(z)
    BY <2>12, <2>13 DEF Sweeps
  <2>. QED BY <2>11, <2>14 DEF z, p, q
<1>. QED BY <1>3, <1>4, <1>5

--------------------------------------------------------------------------------
(* The moves of the PnP thread.                                             *)

\* Only the PnP thread moves.
PnpMoved ==
  /\ todo' \in [Threads -> Seq(Steps)] /\ Orderly(todo'["pnp"])
  /\ \A t \in Threads : t # "pnp" => todo'[t] = todo[t]

\* It goes on in its callback, leaving out nothing but some of its steps.
Onward ==
  /\ PnpMoved
  /\ Removing => Removing' \/ Doing \in Ends
  /\ Ahead("sweep")' => Ahead("sweep")
  /\ Ahead("deallocate")' => Ahead("deallocate")
  /\ Doing \notin {"cleanup", "sweep"} /\ Ahead("sweep") => Ahead("sweep")'
  /\ Doing \notin {"cleanup", "unplug"} /\ UnplugFirst => UnplugFirst'
  /\ Parting' => Parting \/ Doing = "deconfigure"
  /\ Parting => Parting' \/ Doing = "closed"

\* It begins another one.
Begun(first, last) ==
  /\ PnpMoved
  /\ Doing' = first
  /\ last \in {"remove", "removed", "crashed"} => Removing'
  /\ ~Parting'

SweepsNext  == Ahead("sweep")' /\ UnplugFirst' /\ ~Ahead("deallocate")'
NothingNext == ~Ahead("sweep")' /\ ~Ahead("deallocate")'

\* What a callback that begins with first says of Doing and Ahead.
LEMMA Begins ==
  ASSUME LifeTypes, NEW z, NEW a, NEW b, Ready(z, a, b), Goto("pnp", z),
         a \notin {"checkPort", "closePort", "stabilise", "closing", "closed", "awaitChange"}
  PROVE  /\ Begun(a, b)
         /\ Sweeps(z) => Ahead("sweep")' /\ UnplugFirst'
         /\ Lacks(z, "sweep") => ~Ahead("sweep")'
         /\ Lacks(z, "deallocate") => ~Ahead("deallocate")'
<1>1. /\ todo' \in [Threads -> Seq(Steps)] /\ todo'["pnp"] = z
      /\ \A t \in Threads : t # "pnp" => todo'[t] = todo[t]
  <2>1. todo \in [Threads -> Seq(Steps)] /\ "pnp" \in Threads /\ z \in Seq(Steps)
    BY DEF LifeTypes, Threads, Ready
  <2>2. todo' = [todo EXCEPT !["pnp"] = z]
    BY DEF Goto
  <2>. QED BY <2>1, <2>2
<1>2. Begun(a, b)
  <2>1. z # <<>> /\ Head(z) = a
    BY DEF Ready
  <2>2. Doing' = a
    BY <1>1, <2>1 DEF Doing
  <2>3. b \in {"remove", "removed", "crashed"} => Removing'
    BY <1>1, <2>1 DEF Removing, Ready
  <2>4. PnpMoved
    BY <1>1 DEF PnpMoved, Ready
  <2>5. ~Parting'
    BY <2>2 DEF Parting
  <2>. QED BY <2>2, <2>3, <2>4, <2>5 DEF Begun
<1>3. Sweeps(z) => Ahead("sweep")' /\ UnplugFirst'
  BY <1>1, Zenon DEF Sweeps, Ahead, UnplugFirst
<1>4. /\ Lacks(z, "sweep") => ~Ahead("sweep")'
      /\ Lacks(z, "deallocate") => ~Ahead("deallocate")'
  BY <1>1, Zenon DEF Lacks, Ahead
<1>. QED BY <1>2, <1>3, <1>4

\* The first step of an orderly rest, and those behind it.
LEMMA Orders ==
  ASSUME LifeTypes, Control, todo["pnp"] # <<>>
  PROVE  LET q == todo["pnp"]
         IN  /\ q \in Seq(Steps) /\ Orderly(q) /\ Len(q) \in Nat /\ Len(q) >= 1
             /\ Doing = q[1] /\ Doing \in Steps
             /\ Tail(q) = SubSeq(q, 2, Len(q))
             /\ \A i \in 1..Len(q) : q[i] \in Ends => i = Len(q)
             /\ \A i \in 1..Len(q) :
                  q[i] \notin Ends \cup {"unregister", "deviceAdd"}
                    => i + 1 \in 1..Len(q) /\ Follows(q[i], q[i + 1])
<1> DEFINE q == todo["pnp"]
<1>1. q \in Seq(Steps) /\ Orderly(q) /\ q # <<>>
  <2>1. q \in Seq(Steps)
    BY DEF LifeTypes, Threads
  <2>2. Orderly(q)
    BY Zenon DEF Control
  <2>. QED BY <2>1, <2>2
<1>2. Doing = Head(q)
  BY DEF Doing
<1> HIDE DEF q
<1>3. Len(q) \in Nat /\ Len(q) >= 1 /\ Head(q) = q[1] /\ q[1] \in Steps
      /\ Tail(q) = SubSeq(q, 2, Len(q))
  <2>1. Len(q) \in Nat /\ Len(q) >= 1 /\ Head(q) = q[1] /\ q[1] \in Steps
    BY <1>1
  <2>2. Tail(q) = SubSeq(q, 2, Len(q))
    BY <1>1 DEF Tail
  <2>. QED BY <2>1, <2>2
<1>4. ASSUME NEW i \in 1..Len(q), q[i] \in Ends PROVE i = Len(q)
  <2>1. SUFFICES ASSUME i # Len(q) PROVE FALSE
    OBVIOUS
  <2>2. i \in 1..(Len(q) - 1)
    BY <1>3, <2>1
  <2>3. Follows(q[i], q[i + 1])
    BY <1>1, <2>2 DEF Orderly, Piece
  <2>. QED BY <1>4, <2>3 DEF Follows, Ends
<1>5. ASSUME NEW i \in 1..Len(q), q[i] \notin Ends \cup {"unregister", "deviceAdd"}
      PROVE  i + 1 \in 1..Len(q) /\ Follows(q[i], q[i + 1])
  <2>1. i # Len(q)
    BY <1>1, <1>5 DEF Orderly
  <2>2. i \in 1..(Len(q) - 1) /\ i + 1 \in 1..Len(q)
    BY <1>3, <2>1
  <2>. QED BY <1>1, <2>2 DEF Orderly, Piece
<1>. QED BY <1>1, <1>2, <1>3, <1>4, <1>5 DEF q

\* It skips the first n steps.
LEMMA Skips ==
  ASSUME LifeTypes, Control, todo["pnp"] # <<>>, NEW n \in 1..Len(todo["pnp"]), Skip("pnp", n)
  PROVE  LET q == todo["pnp"]
         IN  /\ PnpMoved
             /\ n = Len(q) => Doing' = "idle"
             /\ n < Len(q) => Doing' = q[n + 1] /\ Follows(q[n], Doing')
             /\ n < Len(q) /\ Removing => Removing'
             /\ (Ahead("sweep")' => Ahead("sweep"))
             /\ (Ahead("deallocate")' => Ahead("deallocate"))
             /\ (\A i \in 1..n : q[i] # "sweep") /\ Ahead("sweep") => Ahead("sweep")'
             /\ (\A i \in 1..n : q[i] # "unplug") /\ UnplugFirst => UnplugFirst'
             /\ (\E i \in 1..n : q[i] \notin BeforeSweep) => ~Ahead("sweep")'
             /\ Len(todo'["pnp"]) = Len(q) - n
             /\ \A i \in 1..Len(todo'["pnp"]) : todo'["pnp"][i] = q[i + n]
<1> DEFINE q == todo["pnp"]
           p == SubSeq(q, n + 1, Len(q))
<1>1. q \in Seq(Steps) /\ Orderly(q) /\ Len(q) \in Nat
  BY Orders
<1>2. /\ p \in Seq(Steps) /\ Len(p) = Len(q) - n /\ Orderly(p) /\ Len(p) \in Nat
      /\ \A i \in 1..Len(p) : p[i] = q[i + n]
  <2>1. n \in 0..Len(q)
    BY <1>1
  <2>2. /\ p \in Seq(Steps) /\ Len(p) = Len(q) - n /\ Orderly(p)
        /\ \A i \in 1..Len(p) : p[i] = q[i + n]
    BY <1>1, <2>1, Shorter, Zenon
  <2>. QED BY <2>2
<1>3. /\ todo' \in [Threads -> Seq(Steps)] /\ todo'["pnp"] = p
      /\ \A t \in Threads : t # "pnp" => todo'[t] = todo[t]
  <2>1. todo \in [Threads -> Seq(Steps)] /\ "pnp" \in Threads
    BY DEF LifeTypes, Threads
  <2>2. todo' = [todo EXCEPT !["pnp"] = p]
    BY DEF Skip, Goto
  <2> HIDE DEF p
  <2>. QED BY <1>2, <2>1, <2>2
<1>4. Doing' = IF p = <<>> THEN "idle" ELSE Head(p)
  BY <1>3 DEF Doing
<1>5. n \in Nat /\ n >= 1 /\ n <= Len(q)
  BY <1>1
<1>6. /\ Removing <=> q # <<>> /\ q[Len(q)] \in {"remove", "removed", "crashed"}
      /\ Removing' <=> p # <<>> /\ p[Len(p)] \in {"remove", "removed", "crashed"}
  BY <1>3 DEF Removing
<1>7. /\ Ahead("sweep") <=> \E i \in 1..Len(q) : q[i] = "sweep"
      /\ Ahead("sweep")' <=> \E i \in 1..Len(p) : p[i] = "sweep"
      /\ Ahead("deallocate") <=> \E i \in 1..Len(q) : q[i] = "deallocate"
      /\ Ahead("deallocate")' <=> \E i \in 1..Len(p) : p[i] = "deallocate"
  BY <1>3 DEF Ahead
<1>8. /\ UnplugFirst <=>
           \A i \in 1..Len(q) : q[i] = "sweep" => \E j \in 1..(i - 1) : q[j] = "unplug"
      /\ UnplugFirst' <=>
           \A i \in 1..Len(p) : p[i] = "sweep" => \E j \in 1..(i - 1) : p[j] = "unplug"
  BY <1>3, Zenon DEF UnplugFirst
<1>9. q # <<>>
  OBVIOUS
<1> HIDE DEF q, p
<1>10. \A i \in 1..Len(p) : i + n \in 1..Len(q) /\ i + n > n
  BY <1>2, <1>5
<1>11. PnpMoved
  BY <1>2, <1>3 DEF PnpMoved
<1>12. n = Len(q) => Doing' = "idle"
  <2>1. n = Len(q) => Len(p) = 0
    BY <1>2, <1>5
  <2>2. Len(p) = 0 => p = <<>>
    BY <1>2
  <2>. QED BY <1>4, <2>1, <2>2
<1>13. ASSUME n < Len(q)
       PROVE  /\ Doing' = q[n + 1] /\ Follows(q[n], Doing')
              /\ Removing => Removing'
  <2>1. 1 \in 1..Len(p) /\ Len(p) \in 1..Len(p) /\ p # <<>> /\ Len(p) + n = Len(q) /\ 1 + n = n + 1
    BY <1>2, <1>5, <1>13
  <2>2. Head(p) = p[1] /\ p[1] = q[n + 1] /\ p[Len(p)] = q[Len(q)]
    BY <1>2, <2>1
  <2>3. n \in 1..(Len(q) - 1)
    BY <1>1, <1>5, <1>13
  <2>4. Follows(q[n], q[n + 1])
    BY <1>1, <2>3 DEF Orderly, Piece
  <2>5. Removing => Removing'
    BY <1>6, <2>1, <2>2
  <2>. QED BY <1>4, <2>1, <2>2, <2>4, <2>5
<1>14. /\ Ahead("sweep")' => Ahead("sweep")
       /\ Ahead("deallocate")' => Ahead("deallocate")
  <2>1. ASSUME NEW x, \E i \in 1..Len(p) : p[i] = x PROVE \E i \in 1..Len(q) : q[i] = x
    BY <1>2, <1>10, <2>1
  <2>. QED BY <1>7, <2>1
<1>15. ASSUME \A i \in 1..n : q[i] # "sweep", Ahead("sweep") PROVE Ahead("sweep")'
  <2>1. PICK i \in 1..Len(q) : q[i] = "sweep"
    BY <1>7, <1>15
  <2>2. i - n \in 1..Len(p) /\ (i - n) + n = i
    BY <1>1, <1>2, <1>5, <1>15, <2>1
  <2>3. p[i - n] = "sweep"
    BY <1>2, <2>1, <2>2
  <2>. QED BY <1>7, <2>2, <2>3
<1>16. ASSUME \A i \in 1..n : q[i] # "unplug", UnplugFirst PROVE UnplugFirst'
  <2>1. SUFFICES ASSUME NEW i \in 1..Len(p), p[i] = "sweep"
                 PROVE  \E j \in 1..(i - 1) : p[j] = "unplug"
    BY <1>8, Zenon
  <2>2. PICK j \in 1..((i + n) - 1) : q[j] = "unplug"
    BY <1>2, <1>8, <1>10, <1>16, <2>1
  <2>3. j - n \in 1..(i - 1) /\ j - n \in 1..Len(p) /\ (j - n) + n = j
    BY <1>1, <1>2, <1>5, <1>16, <2>2
  <2>. QED BY <1>2, <2>2, <2>3
<1>17. ASSUME NEW i \in 1..n, q[i] \notin BeforeSweep PROVE ~Ahead("sweep")'
  <2>1. SUFFICES ASSUME NEW k \in 1..Len(p), p[k] = "sweep" PROVE FALSE
    BY <1>7
  <2>2. k + n \in 1..Len(q) /\ i \in 1..((k + n) - 1) /\ q[k + n] = "sweep"
    BY <1>2, <1>5, <1>10, <2>1
  <2>. QED BY <1>1, <1>17, <2>2 DEF Orderly, Piece, Behind
<1>. QED BY <1>2, <1>3, <1>11, <1>12, <1>13, <1>14, <1>15, <1>16, <1>17 DEF q, p

\* It takes its next step.
LEMMA Continues ==
  ASSUME LifeTypes, Control, todo["pnp"] # <<>>, Continue("pnp")
  PROVE  /\ Onward
         /\ Doing \notin Ends \cup {"unregister", "deviceAdd"} => Follows(Doing, Doing')
         /\ Doing = "unregister" => Doing' \in {"idle", "dx", "remove"}
         /\ Doing \in Ends => Doing' = "idle"
         /\ Doing # "sweep" /\ Ahead("sweep") => Ahead("sweep")'
         /\ Doing \notin BeforeSweep => ~Ahead("sweep")'
<1> DEFINE q == todo["pnp"]
           p == todo'["pnp"]
<1>1. /\ q \in Seq(Steps) /\ Orderly(q) /\ Len(q) \in Nat /\ Len(q) >= 1
      /\ Doing = q[1] /\ Doing \in Steps
      /\ \A i \in 1..Len(q) : q[i] \in Ends => i = Len(q)
      /\ \A i \in 1..Len(q) :
           q[i] \notin Ends \cup {"unregister", "deviceAdd"}
             => i + 1 \in 1..Len(q) /\ Follows(q[i], q[i + 1])
  BY Orders, Zenon
<1>2. 1 \in 1..Len(q) /\ 1..1 = {1}
  BY <1>1
<1>3. /\ PnpMoved
      /\ 1 = Len(q) => Doing' = "idle"
      /\ 1 < Len(q) => Doing' = q[1 + 1] /\ Follows(q[1], Doing')
      /\ 1 < Len(q) /\ Removing => Removing'
      /\ (Ahead("sweep")' => Ahead("sweep"))
      /\ (Ahead("deallocate")' => Ahead("deallocate"))
      /\ (\A i \in 1..1 : q[i] # "sweep") /\ Ahead("sweep") => Ahead("sweep")'
      /\ (\A i \in 1..1 : q[i] # "unplug") /\ UnplugFirst => UnplugFirst'
      /\ (\E i \in 1..1 : q[i] \notin BeforeSweep) => ~Ahead("sweep")'
      /\ Len(p) = Len(q) - 1
      /\ \A i \in 1..Len(p) : p[i] = q[i + 1]
  <2>1. Skip("pnp", 1)
    BY DEF Continue
  <2>. QED BY <1>2, <2>1, Skips, Zenon
<1>4. /\ Parting <=>
           \/ Doing = "checkPort" /\ Len(q) >= 3 /\ q[3] = "stabilise"
           \/ Doing = "closePort" /\ Len(q) >= 2 /\ q[2] = "stabilise"
           \/ Doing \in {"stabilise", "closing", "closed", "awaitChange"}
      /\ Parting' <=>
           \/ Doing' = "checkPort" /\ Len(p) >= 3 /\ p[3] = "stabilise"
           \/ Doing' = "closePort" /\ Len(p) >= 2 /\ p[2] = "stabilise"
           \/ Doing' \in {"stabilise", "closing", "closed", "awaitChange"}
  BY DEF Parting
<1>5. Removing => q[Len(q)] \in Ends
  BY DEF Removing, Ends
<1>6. Piece(q)
  BY <1>1 DEF Orderly
<1> HIDE DEF q, p
<1>7. Doing \notin Ends \cup {"unregister", "deviceAdd"} => 1 < Len(q) /\ Follows(Doing, Doing')
  BY <1>1, <1>2, <1>3
<1>8. Doing \in Ends => Len(q) = 1
  BY <1>1, <1>2
<1>9. Doing = "unregister" => Doing' \in {"idle", "dx", "remove"}
  BY <1>1, <1>3 DEF Follows
<1>10. Removing => Removing' \/ Doing \in Ends
  BY <1>1, <1>3, <1>5
<1>11. Doing # "sweep" /\ Ahead("sweep") => Ahead("sweep")'
  BY <1>1, <1>2, <1>3
<1>12. Doing # "unplug" /\ UnplugFirst => UnplugFirst'
  BY <1>1, <1>2, <1>3
<1>13. Doing \notin BeforeSweep => ~Ahead("sweep")'
  BY <1>1, <1>2, <1>3
<1>14. Parting => Parting' \/ Doing = "closed"
  <2>1. Len(q) >= 3 => p[2] = q[3] /\ Len(p) >= 2
    BY <1>1, <1>3
  <2>2. Len(q) >= 2 => Doing' = q[2]
    BY <1>1, <1>3
  <2>3. Doing = "checkPort" => Doing' = "closePort"
    BY <1>7 DEF Follows, Ends
  <2>4. Doing \in {"stabilise", "closing", "awaitChange"} => Doing' \in {"closing", "closed"}
    BY <1>7 DEF Follows, Ends
  <2>. QED BY <1>4, <2>1, <2>2, <2>3, <2>4
<1>15. Parting' => Parting \/ Doing = "deconfigure"
  <2>1. CASE Doing \in Ends \cup {"unregister", "deviceAdd"}
    <3>1. Doing' \in {"idle", "dx", "remove"}
      BY <1>1, <1>3, <1>8, <1>9, <2>1 DEF Follows
    <3>. QED BY <1>4, <3>1
  <2>2. CASE Doing = "timerStopped"
    <3>1. Len(q) >= 4 /\ (q[2] = "deconfigure" \/ q[4] = "unplug")
      <4>1. Placed(q, 1) /\ q[1] = "timerStopped"
        BY <1>1, <1>2, <1>6, <2>2 DEF Piece
      <4>. QED BY <1>1, <4>1 DEF Placed
    <3>2. Doing' = q[2] /\ p[3] = q[4] /\ Doing' \in {"checkPort", "deconfigure"}
      BY <1>1, <1>3, <1>7, <2>2, <3>1 DEF Follows, Ends
    <3>. QED BY <1>4, <3>1, <3>2
  <2>3. CASE Doing \in {"checkPort", "closePort"}
    <3>1. Len(p) >= 2 => p[2] = q[3] /\ Len(q) >= 3
      BY <1>1, <1>3
    <3>2. Doing' = q[2] /\ Len(q) >= 2
      BY <1>1, <1>3, <1>7, <2>3 DEF Ends
    <3>3. Doing = "checkPort" => Doing' = "closePort"
      BY <1>7, <2>3 DEF Follows, Ends
    <3>4. Doing = "closePort" => Doing' \in {"unplug", "removeChildren", "stabilise"}
      BY <1>7, <2>3 DEF Follows, Ends
    <3>. QED BY <1>4, <2>3, <3>1, <3>2, <3>3, <3>4
  <2>4. CASE Doing \notin Ends \cup {"unregister", "deviceAdd", "timerStopped", "checkPort",
                                      "closePort"}
    BY <1>4, <1>7, <2>4 DEF Follows
  <2>. QED BY <2>1, <2>2, <2>3, <2>4
<1>. QED BY <1>3, <1>7, <1>8, <1>9, <1>10, <1>11, <1>12, <1>13, <1>14, <1>15 DEF Onward, q

\* What it begins with: a failure, a crash, or one of the framework's callbacks.
LEMMA NewCallbacks ==
  ASSUME LifeTypes
  PROVE  /\ \A e \in Ends : Goto("pnp", <<e>>) => Begun(e, e) /\ NothingNext
         /\ Fails => Begun("failed", "failed") /\ NothingNext
         /\ Goto("pnp", <<"unplug", "failed">>) => Begun("unplug", "failed") /\ NothingNext
         /\ Goto("pnp", LateSetupSteps) => Begun("configure", "added") /\ NothingNext
         /\ Goto("pnp", D0ExitSteps) => Begun("stopTimer", "unregister") /\ NothingNext
<1>1. ASSUME NEW e \in Ends, Goto("pnp", <<e>>) PROVE Begun(e, e) /\ NothingNext
  <2>1. Ready(<<e>>, e, e) /\ Lacks(<<e>>, "sweep") /\ Lacks(<<e>>, "deallocate")
    BY OneStep
  <2>2. e \notin {"checkPort", "closePort", "stabilise", "closing", "closed", "awaitChange"}
    BY DEF Ends
  <2>. QED BY <1>1, <2>1, <2>2, Begins, Zenon DEF NothingNext
<1>2. Fails => Begun("failed", "failed") /\ NothingNext
  BY <1>1 DEF Fails, Ends
<1>3. Goto("pnp", <<"unplug", "failed">>) => Begun("unplug", "failed") /\ NothingNext
  <2> DEFINE z == <<"unplug", "failed">>
  <2>1. Follows("unplug", "failed") /\ "unplug" \in Steps /\ "failed" \in Ends
    BY DEF Follows, Steps, Ends
  <2>2. Ready(z, "unplug", "failed") /\ Lacks(z, "sweep") /\ Lacks(z, "deallocate")
    BY <2>1, TwoSteps
  <2> HIDE DEF z
  <2>. QED BY <2>2, Begins DEF NothingNext, z
<1>4. Goto("pnp", LateSetupSteps) => Begun("configure", "added") /\ NothingNext
  BY Programs, Begins DEF NothingNext
<1>5. Goto("pnp", D0ExitSteps) => Begun("stopTimer", "unregister") /\ NothingNext
  BY Programs, Begins DEF NothingNext
<1>. QED BY <1>1, <1>2, <1>3, <1>4, <1>5

\* D0 entry and D0 exit begin.
LEMMA PowerMoves ==
  ASSUME LifeTypes
  PROVE  /\ PowerUp => Begun("online", "d0") /\ NothingNext
         /\ PowerDown => Begun("stopTimer", "dx") /\ NothingNext
         /\ SurpriseRemoval => Begun("cleanup", "remove") /\ SweepsNext
         /\ Remove => Begun("cleanup", "removed") /\ Ahead("sweep")' /\ UnplugFirst'
<1>1. ASSUME PowerUp PROVE Begun("online", "d0") /\ NothingNext
  <2> DEFINE z == <<"online", "d0">>
  <2>1. Follows("online", "d0") /\ "online" \in Steps /\ "d0" \in Ends
    BY DEF Follows, Steps, Ends
  <2>2. Ready(z, "online", "d0") /\ Lacks(z, "sweep") /\ Lacks(z, "deallocate")
    BY <2>1, TwoSteps
  <2>3. Goto("pnp", z)
    BY <1>1, Zenon DEF PowerUp
  <2> HIDE DEF z
  <2>. QED BY <2>2, <2>3, Begins DEF NothingNext
<1>2. ASSUME PowerDown PROVE Begun("stopTimer", "dx") /\ NothingNext
  <2>1. Goto("pnp", D0ExitSteps \o <<"dx">>)
    BY <1>2, Zenon DEF PowerDown
  <2>. QED BY <2>1, Programs, Begins DEF NothingNext
<1>3. ASSUME SurpriseRemoval PROVE Begun("cleanup", "remove") /\ SweepsNext
  <2>1. \/ Goto("pnp", CleanupSteps \o D0ExitSteps \o <<"remove">>)
        \/ Goto("pnp", CleanupSteps \o <<>> \o <<"remove">>)
    BY <1>3, Zenon DEF SurpriseRemoval
  <2>. QED BY <2>1, Removals, Begins DEF SweepsNext
<1>4. ASSUME Remove PROVE Begun("cleanup", "removed") /\ Ahead("sweep")' /\ UnplugFirst'
  <2>1. Goto("pnp", CleanupSteps \o <<"deallocate", "removed">>)
    BY <1>4, Zenon DEF Remove
  <2>. QED BY <2>1, Removals, Begins
<1>. QED BY <1>1, <1>2, <1>3, <1>4

\* A skip over n steps none of which is the sweep or comes before it.
LEMMA SkipsOver ==
  ASSUME LifeTypes, Control, todo["pnp"] # <<>>, NEW n \in Nat, n >= 1, n < Len(todo["pnp"]),
         Skip("pnp", n),
         \/ Doing = "cleanup"
         \/ Doing \notin BeforeSweep \cup {"sweep"}
         \/ \A i \in 1..n : todo["pnp"][i] \notin {"sweep", "unplug"},
         Parting' => Parting \/ Doing = "deconfigure", Parting => Parting'
  PROVE  /\ Onward
         /\ Doing' = todo["pnp"][n + 1] /\ Follows(todo["pnp"][n], Doing')
         /\ (\E i \in 1..n : todo["pnp"][i] \notin BeforeSweep) => ~Ahead("sweep")'
<1> DEFINE q == todo["pnp"]
<1>1. /\ PnpMoved
      /\ Doing' = q[n + 1] /\ Follows(q[n], Doing')
      /\ Removing => Removing'
      /\ (Ahead("sweep")' => Ahead("sweep"))
      /\ (Ahead("deallocate")' => Ahead("deallocate"))
      /\ (\A i \in 1..n : q[i] # "sweep") /\ Ahead("sweep") => Ahead("sweep")'
      /\ (\A i \in 1..n : q[i] # "unplug") /\ UnplugFirst => UnplugFirst'
      /\ (\E i \in 1..n : q[i] \notin BeforeSweep) => ~Ahead("sweep")'
  <2>1. n \in 1..Len(q) /\ n # Len(q)
    BY Orders
  <2>. QED BY <2>1, Skips, Zenon
<1>2. /\ q[1] = Doing /\ Orderly(q) /\ Len(q) \in Nat
      /\ Ahead("sweep") <=> \E i \in 1..Len(q) : q[i] = "sweep"
  BY Orders DEF Ahead
<1>3. ~Ahead("sweep")' => UnplugFirst'
  BY DEF Ahead, UnplugFirst
<1> HIDE DEF q
<1>4. CASE Doing = "cleanup"
  BY <1>1, <1>4 DEF Onward, q
<1>5. CASE Doing \notin BeforeSweep \cup {"sweep"}
  <2>1. ~Ahead("sweep")
    <3>1. SUFFICES ASSUME NEW k \in 1..Len(q), q[k] = "sweep" PROVE FALSE
      BY <1>2
    <3>2. k # 1
      BY <1>2, <1>5, <3>1
    <3>3. 1 \in 1..(k - 1)
      BY <1>2, <3>2
    <3>. QED BY <1>2, <1>5, <3>1, <3>3 DEF Orderly, Piece, Behind
  <2>. QED BY <1>1, <1>3, <2>1 DEF Onward, q
<1>6. CASE \A i \in 1..n : q[i] \notin {"sweep", "unplug"}
  <2>1. /\ Ahead("sweep") => Ahead("sweep")'
        /\ UnplugFirst => UnplugFirst'
    BY <1>1, <1>6
  <2>. QED BY <1>1, <2>1 DEF Onward, q
<1>. QED BY <1>4, <1>5, <1>6 DEF q

\* XenConfigure on a device that is connected already.
LEMMA ConfigureMoves ==
  ASSUME LifeTypes, Control, Configure
  PROVE  /\ Doing = "configure" /\ todo["pnp"] # <<>>
         /\ \/ fdo.configured /\ Onward /\ Doing' \in {"getUsbConfigData", "startTimer"}
            \/ ~fdo.configured /\ Onward /\ Doing' = "initialize"
            \/ ~fdo.configured /\ Begun("failed", "failed") /\ NothingNext
<1> DEFINE q == todo["pnp"]
<1>1. q # <<>> /\ Doing = "configure"
  BY Zenon DEF Configure, At, Doing
<1>2. /\ q \in Seq(Steps) /\ Orderly(q) /\ Len(q) \in Nat /\ Len(q) >= 1 /\ q[1] = "configure"
      /\ \A i \in 1..Len(q) :
           q[i] \notin Ends \cup {"unregister", "deviceAdd"}
             => i + 1 \in 1..Len(q) /\ Follows(q[i], q[i + 1])
  BY <1>1, Orders
<1>3. Len(ConfigureSteps) = 7
  BY ConfigurePiece
<1>4. CASE fdo.configured
  <2>1. Skip("pnp", 7)
    BY <1>3, <1>4, Zenon DEF Configure
  <2>2. Placed(q, 1)
    BY <1>2 DEF Orderly, Piece
  <2>3. 7 <= Len(q) /\ q[7] = "configured"
    BY <1>2, <2>2 DEF Placed
  <2>4. 7 < Len(q) /\ Follows(q[7], q[7 + 1])
    BY <1>2, <2>3 DEF Ends
  <2>5. Doing' = q[8]
    BY <1>1, <2>1, <2>4, Skips
  <2>6. Doing' \in {"getUsbConfigData", "startTimer"} /\ ~Parting /\ ~Parting'
    BY <1>1, <2>3, <2>4, <2>5 DEF Follows, Parting
  <2>7. Doing \notin BeforeSweep \cup {"sweep"}
    BY <1>1 DEF BeforeSweep
  <2>8. Onward
    BY <1>1, <2>1, <2>4, <2>6, <2>7, SkipsOver
  <2>. QED BY <1>1, <1>4, <2>6, <2>8
<1>5. CASE ~fdo.configured
  <2>1. Continue("pnp") \/ Fails
    BY <1>5, Zenon DEF Configure
  <2>2. CASE Continue("pnp")
    <3>1. Onward /\ Follows(Doing, Doing')
      BY <1>1, <2>2, Continues DEF Ends
    <3>. QED BY <1>1, <1>5, <3>1 DEF Follows
  <2>3. CASE Fails
    BY <1>1, <1>5, <2>3, NewCallbacks
  <2>. QED BY <2>1, <2>2, <2>3
<1>. QED BY <1>4, <1>5

\* CleanupDisconnectedDevice runs once.
LEMMA CleanupMoves ==
  ASSUME LifeTypes, Control, Cleanup
  PROVE  /\ Doing = "cleanup" /\ todo["pnp"] # <<>> /\ Onward
         /\ ~fdo.disconnected => /\ Doing' = "stopTimer"
                                 /\ Ahead("sweep") => Ahead("sweep")'
                                 /\ UnplugFirst => UnplugFirst'
         /\ fdo.disconnected => /\ Doing' \in {"stopTimer", "d0", "remove", "deallocate"}
                                /\ ~Ahead("sweep")'
<1> DEFINE q == todo["pnp"]
<1>1. q # <<>> /\ Doing = "cleanup"
  BY Zenon DEF Cleanup, At, Doing
<1>2. /\ q \in Seq(Steps) /\ Orderly(q) /\ Len(q) \in Nat /\ Len(q) >= 1 /\ q[1] = "cleanup"
      /\ \A i \in 1..Len(q) :
           q[i] \notin Ends \cup {"unregister", "deviceAdd"}
             => i + 1 \in 1..Len(q) /\ Follows(q[i], q[i + 1])
  BY <1>1, Orders
<1>3. Len(CleanupSteps) = 7
  BY CleanupPiece
<1>4. CASE fdo.disconnected
  <2>1. Skip("pnp", 7)
    BY <1>3, <1>4, Zenon DEF Cleanup
  <2>2. Placed(q, 1)
    BY <1>2 DEF Orderly, Piece
  <2>3. 7 <= Len(q) /\ q[7] = "sweep"
    BY <1>2, <2>2 DEF Placed
  <2>4. 7 < Len(q) /\ Follows(q[7], q[7 + 1])
    BY <1>2, <2>3 DEF Ends
  <2>5. Doing' = q[8]
    BY <1>1, <2>1, <2>4, Skips
  <2>6. Doing' \in {"stopTimer", "d0", "remove", "deallocate"} /\ ~Parting /\ ~Parting'
    BY <1>1, <2>3, <2>4, <2>5 DEF Follows, Parting
  <2>7. q[7] \notin BeforeSweep /\ 7 \in 1..7
    BY <2>3 DEF BeforeSweep
  <2>8. Onward /\ ~Ahead("sweep")'
    BY <1>1, <2>1, <2>4, <2>6, <2>7, SkipsOver
  <2>. QED BY <1>1, <1>4, <2>6, <2>8
<1>5. CASE ~fdo.disconnected
  <2>1. Continue("pnp")
    BY <1>5, Zenon DEF Cleanup
  <2>2. Onward /\ Follows(Doing, Doing') /\ (Ahead("sweep") => Ahead("sweep")')
    BY <1>1, <2>1, Continues DEF Ends
  <2>3. UnplugFirst => UnplugFirst'
    <3>1. 1 \in 1..Len(q) /\ \A i \in 1..1 : q[i] # "unplug"
      BY <1>2
    <3>. QED BY <1>1, <2>1, <3>1, Skips DEF Continue
  <2>. QED BY <1>1, <1>5, <2>2, <2>3 DEF Follows
<1>. QED BY <1>4, <1>5

\* XenLowerDisconnectEvtChnDPC goes on to the close, or past it.
LEMMA CheckPortMoves ==
  ASSUME LifeTypes, Control, CheckPort("pnp")
  PROVE  /\ Doing = "checkPort" /\ todo["pnp"] # <<>>
         /\ \/ xen = NULL /\ Begun("crashed", "crashed") /\ NothingNext
            \/ xen # NULL /\ xen.port /\ Onward /\ Doing' = "closePort"
            \/ /\ xen # NULL /\ ~xen.port /\ Onward
               /\ Doing' \in {"unplug", "removeChildren", "stabilise"}
<1> DEFINE q == todo["pnp"]
<1>1. q # <<>> /\ Doing = "checkPort"
  BY Zenon DEF CheckPort, At, Doing
<1>2. /\ q \in Seq(Steps) /\ Orderly(q) /\ Len(q) \in Nat /\ Len(q) >= 1 /\ q[1] = "checkPort"
      /\ \A i \in 1..Len(q) :
           q[i] \notin Ends \cup {"unregister", "deviceAdd"}
             => i + 1 \in 1..Len(q) /\ Follows(q[i], q[i + 1])
  BY <1>1, Orders
<1>3. CASE xen = NULL
  <2>1. Goto("pnp", <<"crashed">>)
    BY <1>3, Zenon DEF CheckPort
  <2>. QED BY <1>1, <1>3, <2>1, NewCallbacks DEF Ends
<1>4. CASE xen # NULL /\ xen.port
  <2>1. Continue("pnp")
    BY <1>4, Zenon DEF CheckPort, Continue
  <2>2. Onward /\ Follows(Doing, Doing')
    BY <1>1, <2>1, Continues DEF Ends
  <2>. QED BY <1>1, <1>4, <2>2 DEF Follows
<1>5. CASE xen # NULL /\ ~xen.port
  <2>1. Skip("pnp", 2)
    BY <1>5, Zenon DEF CheckPort
  <2>2. q[2] = "closePort" /\ 2 < Len(q) /\ Follows(q[2], q[2 + 1])
    <3>1. 1 + 1 \in 1..Len(q) /\ Follows(q[1], q[1 + 1])
      BY <1>2 DEF Ends
    <3>2. q[2] = "closePort" /\ 2 \in 1..Len(q)
      BY <1>2, <3>1 DEF Follows
    <3>3. 2 + 1 \in 1..Len(q) /\ Follows(q[2], q[2 + 1])
      BY <1>2, <3>2 DEF Ends
    <3>. QED BY <1>2, <3>2, <3>3
  <2>3. Doing' = q[3]
    BY <1>1, <1>2, <2>1, <2>2, Skips
  <2>4. Doing' \in {"unplug", "removeChildren", "stabilise"}
    BY <2>2, <2>3 DEF Follows
  <2>5. Parting <=> Doing' = "stabilise"
    BY <1>1, <1>2, <2>2, <2>3 DEF Parting
  <2>6. Parting' <=> Doing' = "stabilise"
    BY <2>4 DEF Parting
  <2>7. \A i \in 1..2 : q[i] \notin {"sweep", "unplug"}
    BY <1>2, <2>2
  <2>8. Onward
    BY <1>1, <2>1, <2>2, <2>5, <2>6, <2>7, SkipsOver
  <2>. QED BY <1>1, <1>5, <2>4, <2>8
<1>. QED BY <1>3, <1>4, <1>5

\* Steps put in front of the rest of the callback.
LEMMA Inserts ==
  ASSUME LifeTypes, Control, todo["pnp"] # <<>>, NEW p \in Seq(Steps), Piece(p), p # <<>>,
         Len(p) >= 1, NEW n \in {0, 1}, n < Len(todo["pnp"]),
         LET r == SubSeq(todo["pnp"], n + 1, Len(todo["pnp"]))
         IN  Goto("pnp", p \o r) /\ Follows(p[Len(p)], r[1]),
         \/ \A j \in 1..Len(p) : p[j] \in BeforeSweep
         \/ n = 0 /\ Doing \notin BeforeSweep \cup {"sweep", "deallocate"},
         \A j \in 1..Len(p) : p[j] \notin {"sweep", "unplug", "deallocate"},
         n = 1 => Doing = "unplug",
         Parting' <=> Parting
  PROVE  Onward /\ Doing' = p[1]
<1> DEFINE q == todo["pnp"]
           r == SubSeq(q, n + 1, Len(q))
           z == p \o r
<1>1. q \in Seq(Steps) /\ Orderly(q) /\ Len(q) \in Nat /\ Len(q) >= 1 /\ q[1] = Doing
  BY Orders
<1>2. /\ r \in Seq(Steps) /\ Len(r) = Len(q) - n /\ Orderly(r)
      /\ \A i \in 1..Len(r) : r[i] = q[i + n]
  <2>1. n \in 0..Len(q)
    BY <1>1
  <2>. QED BY <1>1, <2>1, Shorter, Zenon
<1>3. r # <<>> /\ Len(r) \in Nat /\ Len(r) >= 1 /\ Piece(r)
  <2>1. Len(r) >= 1
    BY <1>1, <1>2
  <2> HIDE DEF r
  <2>2. r # <<>> /\ Len(r) \in Nat
    BY <1>2, <2>1
  <2>. QED BY <1>2, <2>1, <2>2 DEF Orderly
<1>4. /\ Ahead("sweep") <=> \E i \in 1..Len(q) : q[i] = "sweep"
      /\ Ahead("deallocate") <=> \E i \in 1..Len(q) : q[i] = "deallocate"
      /\ UnplugFirst <=> \A i \in 1..Len(q) :
                           q[i] = "sweep" => \E j \in 1..(i - 1) : q[j] = "unplug"
      /\ Removing <=> q # <<>> /\ q[Len(q)] \in {"remove", "removed", "crashed"}
  BY DEF Ahead, UnplugFirst, Removing
<1>5. Goto("pnp", z) /\ Follows(p[Len(p)], r[1])
  OBVIOUS
<1> HIDE DEF q, r
<1>6. ~(\A j \in 1..Len(p) : p[j] \in BeforeSweep) =>
        \A k \in 1..Len(q) : q[k] \notin {"sweep", "deallocate"}
  <2>1. SUFFICES ASSUME n = 0, Doing \notin BeforeSweep \cup {"sweep", "deallocate"},
                        NEW k \in 1..Len(q), q[k] \in {"sweep", "deallocate"}
                 PROVE  FALSE
    OBVIOUS
  <2>2. 1 \in 1..(k - 1)
    BY <1>1, <2>1
  <2>. QED BY <1>1, <2>1, <2>2 DEF Orderly, Piece, Behind
<1>7. \A i \in 1..Len(r) : i + n \in 1..Len(q)
  BY <1>1, <1>2
<1>8. /\ z \in Seq(Steps) /\ Len(z) = Len(p) + Len(r)
      /\ \A i \in 1..Len(p) : z[i] = p[i]
      /\ \A i \in 1..Len(r) : z[Len(p) + i] = r[i]
      /\ \A i \in 1..Len(z) :
           \/ i \in 1..Len(p) /\ z[i] = p[i]
           \/ i - Len(p) \in 1..Len(r) /\ z[i] = r[i - Len(p)]
      /\ Orderly(z) /\ z[Len(z)] = r[Len(r)]
  <2>1. \/ \A j \in 1..Len(r) : r[j] # "sweep"
        \/ \A j \in 1..Len(p) : p[j] \in BeforeSweep
    BY <1>2, <1>6, <1>7
  <2>2. \/ \A j \in 1..Len(r) : r[j] # "deallocate"
        \/ \A j \in 1..Len(p) : p[j] \in BeforeSweep \cup {"sweep"}
    BY <1>2, <1>6, <1>7
  <2>. QED BY <1>2, <1>3, <1>5, <2>1, <2>2, Joined, Zenon
<1> HIDE DEF z
<1>9. Len(p) \in Nat /\ Len(z) >= 1 /\ z # <<>> /\ 1 \in 1..Len(p)
  <2>1. Len(p) \in Nat /\ Len(z) >= 1
    BY <1>3, <1>8
  <2>. QED BY <1>8, <2>1
<1>10. /\ todo' \in [Threads -> Seq(Steps)] /\ todo'["pnp"] = z
       /\ \A t \in Threads : t # "pnp" => todo'[t] = todo[t]
  <2>1. todo \in [Threads -> Seq(Steps)] /\ "pnp" \in Threads
    BY DEF LifeTypes, Threads
  <2>2. todo' = [todo EXCEPT !["pnp"] = z]
    BY <1>5 DEF Goto
  <2>. QED BY <1>8, <2>1, <2>2
<1>11. PnpMoved
  BY <1>8, <1>10 DEF PnpMoved
<1>12. Doing' = p[1]
  BY <1>8, <1>9, <1>10 DEF Doing
<1>13. /\ Ahead("sweep")' <=> \E i \in 1..Len(z) : z[i] = "sweep"
       /\ Ahead("deallocate")' <=> \E i \in 1..Len(z) : z[i] = "deallocate"
       /\ UnplugFirst' <=> \A i \in 1..Len(z) :
                           z[i] = "sweep" => \E j \in 1..(i - 1) : z[j] = "unplug"
       /\ Removing' <=> z # <<>> /\ z[Len(z)] \in {"remove", "removed", "crashed"}
  BY <1>10 DEF Ahead, UnplugFirst, Removing
<1>14. Removing => Removing'
  <2>1. Len(r) \in 1..Len(r) /\ Len(r) + n = Len(q)
    BY <1>1, <1>2, <1>3
  <2>. QED BY <1>2, <1>4, <1>8, <1>9, <1>13, <2>1
<1>15. /\ Ahead("sweep")' => Ahead("sweep")
       /\ Ahead("deallocate")' => Ahead("deallocate")
  <2>1. ASSUME NEW x \in {"sweep", "deallocate"}, NEW i \in 1..Len(z), z[i] = x
        PROVE  \E k \in 1..Len(q) : q[k] = x
    <3>1. i - Len(p) \in 1..Len(r) /\ z[i] = r[i - Len(p)]
      BY <1>8, <2>1
    <3>. QED BY <1>2, <1>7, <2>1, <3>1
  <2>. QED BY <1>4, <1>13, <2>1
<1>16. ASSUME Ahead("sweep"), Doing # "sweep" PROVE Ahead("sweep")'
  <2>1. PICK k \in 1..Len(q) : q[k] = "sweep"
    BY <1>4, <1>16
  <2>2. k - n \in 1..Len(r) /\ (k - n) + n = k
    BY <1>1, <1>2, <1>16, <2>1
  <2>3. z[Len(p) + (k - n)] = "sweep" /\ Len(p) + (k - n) \in 1..Len(z)
    <3>1. z[Len(p) + (k - n)] = r[k - n]
      BY <1>8, <2>2
    <3>2. r[k - n] = q[(k - n) + n]
      BY <1>2, <2>2
    <3>3. Len(p) + (k - n) \in 1..Len(z)
      BY <1>8, <1>9, <2>2
    <3>. QED BY <2>1, <2>2, <3>1, <3>2, <3>3
  <2>. QED BY <1>13, <2>3
<1>17. ASSUME UnplugFirst, n = 0 PROVE UnplugFirst'
  <2>1. SUFFICES ASSUME NEW i \in 1..Len(z), z[i] = "sweep"
                 PROVE  \E j \in 1..(i - 1) : z[j] = "unplug"
    BY <1>13
  <2>2. i - Len(p) \in 1..Len(r) /\ z[i] = r[i - Len(p)]
    BY <1>8, <2>1
  <2>3. PICK j \in 1..((i - Len(p)) - 1) : q[j] = "unplug"
    <3>1. r[i - Len(p)] = q[(i - Len(p)) + n] /\ (i - Len(p)) + n \in 1..Len(q)
      BY <1>2, <1>7, <2>2
    <3>2. (i - Len(p)) + n = i - Len(p)
      BY <1>8, <1>9, <1>17, <2>2
    <3>. QED BY <1>4, <1>17, <2>1, <2>2, <3>1, <3>2
  <2>4. j \in 1..Len(r) /\ r[j] = q[j] /\ Len(p) + j \in 1..(i - 1)
    BY <1>2, <1>9, <1>17, <2>2, <2>3
  <2>. QED BY <1>8, <2>3, <2>4
<1>. QED BY <1>11, <1>12, <1>14, <1>15, <1>16, <1>17 DEF Onward

\* FdoUnplugDevice puts its steps before the rest, or nothing.
LEMMA UnplugMoves ==
  ASSUME LifeTypes, Control, Unplug("pnp")
  PROVE  /\ Doing = "unplug" /\ todo["pnp"] # <<>> /\ Onward
         /\ IF fdo.unplugged \/ fdo.disconnected THEN Doing' \in {"sweep", "failed"}
                                                ELSE Doing' = "checkPort"
<1> DEFINE q == todo["pnp"]
           r == SubSeq(q, 2, Len(q))
<1>1. q # <<>> /\ Doing = "unplug"
  BY Zenon DEF Unplug, At, Doing
<1>2. /\ q \in Seq(Steps) /\ Orderly(q) /\ Len(q) \in Nat /\ Len(q) >= 1 /\ q[1] = "unplug"
      /\ Tail(q) = r
      /\ \A i \in 1..Len(q) :
           q[i] \notin Ends \cup {"unregister", "deviceAdd"}
             => i + 1 \in 1..Len(q) /\ Follows(q[i], q[i + 1])
  BY <1>1, Orders
<1>3. 1 < Len(q) /\ Follows(q[1], q[2])
  <2>1. 1 + 1 \in 1..Len(q) /\ Follows(q[1], q[1 + 1])
    BY <1>2 DEF Ends
  <2>. QED BY <1>2, <2>1
<1>4. /\ r \in Seq(Steps) /\ Len(r) = Len(q) - 1
      /\ \A i \in 1..Len(r) : r[i] = q[i + 1]
  <2>1. 1 \in 0..Len(q)
    BY <1>2
  <2>2. LET x == SubSeq(q, 1 + 1, Len(q))
        IN  /\ x \in Seq(Steps) /\ Len(x) = Len(q) - 1
            /\ \A i \in 1..Len(x) : x[i] = q[i + 1]
    BY <1>2, <2>1, Shorter, Zenon
  <2>. QED BY <2>2
<1>5. r[1] = q[2] /\ r[1] \in {"sweep", "failed"}
  BY <1>2, <1>3, <1>4 DEF Follows
<1>6. CASE fdo.unplugged \/ fdo.disconnected
  <2>1. Goto("pnp", <<>> \o Tail(q))
    BY <1>6, Zenon DEF Unplug
  <2>2. <<>> \o Tail(q) = r
    BY <1>2, <1>4, ConcatEmptySeq
  <2>3. Continue("pnp")
    <3>1. 1 + 1 = 2
      OBVIOUS
    <3>. QED BY <2>1, <2>2, <3>1, Zenon DEF Continue, Skip
  <2>4. Onward /\ Follows(Doing, Doing')
    BY <1>1, <2>3, Continues DEF Ends
  <2>. QED BY <1>1, <1>6, <2>4 DEF Follows
<1>7. CASE ~(fdo.unplugged \/ fdo.disconnected)
  <2> DEFINE p == UnplugSteps
  <2>1. Goto("pnp", p \o r)
    BY <1>2, <1>7, Zenon DEF Unplug
  <2>2. /\ p \in Seq(Steps) /\ Len(p) = 3 /\ p[1] = "checkPort" /\ p[2] = "closePort"
        /\ p[3] = "removeChildren" /\ Piece(p)
    BY UnplugPiece
  <2>3. p # <<>>
    BY DEF UnplugSteps
  <2> HIDE DEF p
  <2>4. Follows(p[Len(p)], r[1])
    BY <1>5, <2>2 DEF Follows
  <2>5. \A j \in 1..Len(p) : /\ p[j] \in BeforeSweep
                             /\ p[j] \notin {"sweep", "unplug", "deallocate"}
    BY <2>2, Ones DEF BeforeSweep
  <2>6. ~Parting /\ ~Parting'
    <3> DEFINE z == p \o r
    <3>1. Len(z) >= 3 /\ z[1] = "checkPort" /\ z[3] = "removeChildren" /\ z \in Seq(Steps)
      <4> HIDE DEF r
      <4>1. r \in Seq(Steps) /\ p \in Seq(Steps)
        BY <1>4, <2>2
      <4>2. z \in Seq(Steps) /\ Len(z) = Len(p) + Len(r)
        BY <4>1
      <4>3. \A i \in 1..Len(p) : z[i] = p[i]
        BY <4>1
      <4>. QED BY <1>2, <1>4, <2>2, <4>2, <4>3, Ones
    <3>2. todo'["pnp"] = z
      <4>1. todo \in [Threads -> Seq(Steps)] /\ "pnp" \in Threads
        BY DEF LifeTypes, Threads
      <4>. QED BY <2>1, <4>1 DEF Goto
    <3> HIDE DEF z
    <3>3. Doing' = "checkPort"
      BY <3>1, <3>2 DEF Doing
    <3>. QED BY <1>1, <3>1, <3>2, <3>3 DEF Parting
  <2>7. Onward /\ Doing' = p[1]
    <3>1. /\ 1 < Len(todo["pnp"]) /\ 1 \in {0, 1} /\ SubSeq(q, 1 + 1, Len(q)) = r
          /\ Len(p) >= 1 /\ 1 = 1 /\ 1 # 0
      BY <1>3, <2>2
    <3>2. LET x == SubSeq(todo["pnp"], 1 + 1, Len(todo["pnp"]))
          IN  Goto("pnp", p \o x) /\ Follows(p[Len(p)], x[1])
      BY <2>1, <2>4, <3>1, Zenon
    <3>. QED BY <1>1, <2>2, <2>3, <2>5, <2>6, <3>1, <3>2, Inserts, Zenon
  <2>. QED BY <1>1, <1>7, <2>2, <2>7
<1>. QED BY <1>6, <1>7

\* XenDeconfigure of a device that is not connected.
LEMMA DeconfigureMoves ==
  ASSUME LifeTypes, Control, Deconfigure
  PROVE  /\ Doing = "deconfigure" /\ todo["pnp"] # <<>> /\ Onward
         /\ fdo.configured  => Doing' = "checkPort" /\ Parting'
         /\ ~fdo.configured => Doing' \in {"idle", "dx", "remove"}
<1> DEFINE q == todo["pnp"]
<1>1. q # <<>> /\ Doing = "deconfigure"
  BY Zenon DEF Deconfigure, At, Doing
<1>2. /\ q \in Seq(Steps) /\ Orderly(q) /\ Len(q) \in Nat /\ Len(q) >= 1 /\ q[1] = "deconfigure"
      /\ \A i \in 1..Len(q) :
           q[i] \notin Ends \cup {"unregister", "deviceAdd"}
             => i + 1 \in 1..Len(q) /\ Follows(q[i], q[i + 1])
  BY <1>1, Orders
<1>3. 7 <= Len(q) /\ q[7] = "unregister" /\ q[4] = "stabilise"
  <2>1. Placed(q, 1)
    BY <1>2 DEF Orderly, Piece
  <2>. QED BY <1>2, <2>1 DEF Placed
<1>4. CASE fdo.configured
  <2>1. Continue("pnp")
    BY <1>4, Zenon DEF Deconfigure
  <2>2. Onward /\ Follows(Doing, Doing')
    BY <1>1, <2>1, Continues DEF Ends
  <2>3. Len(todo'["pnp"]) >= 3 /\ todo'["pnp"][3] = "stabilise"
    <3>1. 1 \in 1..Len(q) /\ Skip("pnp", 1)
      BY <1>2, <2>1 DEF Continue
    <3>2. /\ Len(todo'["pnp"]) = Len(q) - 1
          /\ \A i \in 1..Len(todo'["pnp"]) : todo'["pnp"][i] = q[i + 1]
      BY <1>1, <3>1, Skips
    <3>. QED BY <1>2, <1>3, <3>2
  <2>4. Doing' = "checkPort" /\ Parting'
    BY <1>1, <2>2, <2>3 DEF Follows, Parting
  <2>. QED BY <1>1, <1>4, <2>2, <2>4
<1>5. CASE ~fdo.configured
  <2>1. Skip("pnp", 7)
    <3>1. Len(D0ExitSteps) - 2 = 7
      BY D0ExitPiece
    <3>. QED BY <1>5, <3>1, Zenon DEF Deconfigure
  <2>2. ~Parting /\ Doing \notin BeforeSweep \cup {"sweep"}
    BY <1>1 DEF Parting, BeforeSweep
  <2>3. CASE 7 < Len(q)
    <3>1. Doing' = q[8] /\ Follows(q[7], Doing')
      BY <1>1, <2>1, <2>3, Skips
    <3>2. Doing' \in {"dx", "remove"} /\ ~Parting'
      BY <1>3, <3>1 DEF Follows, Parting
    <3>3. Onward
      BY <1>1, <2>1, <2>2, <2>3, <3>2, SkipsOver
    <3>. QED BY <1>1, <1>5, <3>2, <3>3
  <2>4. CASE Len(q) = 7
    <3>1. 7 \in 1..Len(q) /\ 7 = Len(q) /\ q[1] \notin BeforeSweep /\ 1 \in 1..7
      BY <1>2, <2>4 DEF BeforeSweep
    <3>2. /\ PnpMoved /\ Doing' = "idle"
          /\ Ahead("deallocate")' => Ahead("deallocate")
          /\ ~Ahead("sweep")'
      BY <1>1, <2>1, <3>1, Skips
    <3>3. ~Removing
      BY <1>3, <2>4 DEF Removing
    <3>4. ~Ahead("sweep")
      <4>1. SUFFICES ASSUME NEW k \in 1..Len(q), q[k] = "sweep" PROVE FALSE
        BY DEF Ahead
      <4>2. k # 1
        BY <1>2, <4>1
      <4>3. 1 \in 1..(k - 1)
        BY <1>2, <4>2
      <4>. QED BY <1>2, <3>1, <4>1, <4>3 DEF Orderly, Piece, Behind
    <3>5. UnplugFirst'
      BY <3>2 DEF UnplugFirst, Ahead
    <3>6. ~Parting'
      BY <3>2 DEF Parting
    <3>. QED BY <1>1, <1>5, <2>2, <3>2, <3>3, <3>4, <3>5, <3>6 DEF Onward
  <2>5. 7 < Len(q) \/ Len(q) = 7
    <3>1. \A n \in Nat : 7 <= n => 7 < n \/ n = 7
      OBVIOUS
    <3>. QED BY <1>2, <1>3, <3>1, Zenon
  <2>. QED BY <2>3, <2>4, <2>5, Zenon
<1>. QED BY <1>4, <1>5

\* A callback has returned.
LEMMA ReturnedMoves ==
  ASSUME LifeTypes, Control, Returned
  PROVE  /\ Doing \in Ends \ {"remove"} /\ pnp' = Doing /\ todo["pnp"] # <<>>
         /\ \/ Onward /\ Doing' = "idle"
            \/ /\ Doing = "failed" /\ Begun("stopTimer", "unregister") /\ NothingNext
<1>1. PICK s \in {"added", "d0", "dx", "removed", "failed", "crashed"} : At("pnp", s) /\ pnp' = s
  BY Zenon DEF Returned
<1>2. todo["pnp"] # <<>> /\ Doing = s
  BY <1>1, Zenon DEF At, Doing
<1>3. s \in Ends \ {"remove"}
  BY <1>1 DEF Ends
<1>4. CASE s = "failed" /\ pnp # "adding"
  <2>1. Goto("pnp", D0ExitSteps)
    BY <1>1, <1>4, Zenon DEF Returned
  <2>2. Begun("stopTimer", "unregister") /\ NothingNext
    BY <2>1, NewCallbacks, Zenon
  <2>. QED BY <1>1, <1>2, <1>3, <1>4, <2>2
<1>5. CASE ~(s = "failed" /\ pnp # "adding")
  <2>1. Continue("pnp")
    BY <1>1, <1>5, Zenon DEF Returned
  <2>2. Onward /\ Doing' = "idle"
    BY <1>2, <1>3, <2>1, Continues
  <2>. QED BY <1>1, <1>2, <1>3, <2>2
<1>. QED BY <1>4, <1>5, Zenon

\* FdoEvtDeviceD0EntryPostInterruptsEnabled.
LEMMA OnlineMoves ==
  ASSUME LifeTypes, Control, Online
  PROVE  /\ Doing = "online" /\ todo["pnp"] # <<>> /\ ~Removing
         /\ \/ ~XenCheckOnline /\ Begun("cleanup", "d0") /\ SweepsNext
            \/ XenCheckOnline /\ fdo.configured /\ Onward /\ Doing' = "d0"
            \/ /\ XenCheckOnline /\ ~fdo.configured
               /\ Begun("configure", "d0") /\ NothingNext
<1> DEFINE q == todo["pnp"]
<1>1. q # <<>> /\ Doing = "online"
  BY Zenon DEF Online, At, Doing
<1>2. /\ q \in Seq(Steps) /\ Orderly(q) /\ Len(q) \in Nat /\ Len(q) >= 1 /\ q[1] = "online"
      /\ Tail(q) = SubSeq(q, 2, Len(q))
      /\ \A i \in 1..Len(q) : q[i] \in Ends => i = Len(q)
      /\ \A i \in 1..Len(q) :
           q[i] \notin Ends \cup {"unregister", "deviceAdd"}
             => i + 1 \in 1..Len(q) /\ Follows(q[i], q[i + 1])
  BY <1>1, Orders, Zenon
<1>3. Len(q) = 2 /\ q[2] = "d0"
  <2>1. 1 + 1 \in 1..Len(q) /\ Follows(q[1], q[1 + 1])
    BY <1>2 DEF Ends
  <2>2. q[2] = "d0" /\ 2 \in 1..Len(q)
    BY <1>2, <2>1 DEF Follows
  <2>. QED BY <1>2, <2>2 DEF Ends
<1>4. Tail(q) = <<"d0">>
  <2> DEFINE x == SubSeq(q, 1 + 1, Len(q))
             y == <<"d0">>
  <2>1. 1 \in 0..Len(q)
    BY <1>2
  <2>2. /\ x \in Seq(Steps) /\ Len(x) = Len(q) - 1
        /\ \A i \in 1..Len(x) : x[i] = q[i + 1]
    BY <1>2, <2>1, Shorter, Zenon
  <2>3. y \in Seq(Steps) /\ Len(y) = 1 /\ y[1] = "d0" /\ 1..1 = {1}
    BY DEF Steps, Ends
  <2>4. Tail(q) = x
    BY <1>2
  <2> HIDE DEF x, y
  <2>5. Len(x) = 1 /\ x[1] = "d0"
    BY <1>3, <2>2
  <2>6. \A i \in 1..Len(x) : x[i] = y[i]
    BY <2>3, <2>5
  <2>7. x = y
    BY <2>2, <2>3, <2>5, <2>6, SeqEqual
  <2>. QED BY <2>4, <2>7 DEF y
<1>5. ~Removing
  BY <1>3 DEF Removing
<1>6. Goto("pnp", IF ~XenCheckOnline THEN CleanupSteps \o <<"d0">>
                  ELSE IF fdo.configured THEN <<"d0">>
                  ELSE ConfigureSteps \o <<"startTimer">> \o <<"d0">>)
  BY <1>4, Zenon DEF Online
<1>7. Ready(<<"d0">>, "d0", "d0") /\ Lacks(<<"d0">>, "sweep") /\ Lacks(<<"d0">>, "deallocate")
  BY OneStep DEF Ends
<1>8. CASE ~XenCheckOnline
  <2> DEFINE z == CleanupSteps \o <<"d0">>
  <2>1. Goto("pnp", z)
    BY <1>6, <1>8, Zenon
  <2>2. Ready(z, "cleanup", "d0") /\ Sweeps(z) /\ Lacks(z, "deallocate")
    BY <1>7, CleanupJoined
  <2> HIDE DEF z
  <2>3. Begun("cleanup", "d0") /\ SweepsNext
    BY <2>1, <2>2, Begins DEF SweepsNext
  <2>. QED BY <1>1, <1>5, <1>8, <2>3
<1>9. CASE XenCheckOnline /\ fdo.configured
  <2>1. Goto("pnp", Tail(q))
    BY <1>4, <1>6, <1>9, Zenon
  <2>2. Continue("pnp")
    <3>1. 1 + 1 = 2
      OBVIOUS
    <3>. QED BY <1>2, <2>1, <3>1, Zenon DEF Continue, Skip
  <2>3. Onward /\ Follows(Doing, Doing')
    BY <1>1, <2>2, Continues DEF Ends
  <2>. QED BY <1>1, <1>5, <1>9, <2>3 DEF Follows
<1>10. CASE XenCheckOnline /\ ~fdo.configured
  <2> DEFINE z == ConfigureSteps \o <<"startTimer">> \o <<"d0">>
  <2>1. Goto("pnp", z)
    BY <1>6, <1>10, Zenon
  <2>2. Ready(z, "configure", "d0") /\ Lacks(z, "sweep") /\ Lacks(z, "deallocate")
    BY Programs
  <2> HIDE DEF z
  <2>3. Begun("configure", "d0") /\ NothingNext
    BY <2>1, <2>2, Begins DEF NothingNext
  <2>. QED BY <1>1, <1>5, <1>10, <2>3
<1>. QED BY <1>8, <1>9, <1>10, Zenon

\* A thread asks the backend for a state.
LEMMA AskForMoves ==
  ASSUME LifeTypes, Control, NEW step \in {"closing", "closed"}, NEW enough, AskFor(step, enough)
  PROVE  /\ Doing = step /\ todo["pnp"] # <<>> /\ Onward
         /\ seen \in enough => Doing' = (IF step = "closing" THEN "closed" ELSE "unregister")
         /\ seen \notin enough => Doing' = "awaitChange"
<1> DEFINE q == todo["pnp"]
<1>1. q # <<>> /\ Doing = step
  BY Zenon DEF AskFor, At, Doing
<1>2. q \in Seq(Steps) /\ Orderly(q) /\ Len(q) \in Nat /\ Len(q) >= 1 /\ q[1] = step
  BY <1>1, Orders
<1>3. CASE seen \in enough
  <2>1. Continue("pnp")
    BY <1>3, Zenon DEF AskFor
  <2>2. Onward /\ Follows(Doing, Doing')
    BY <1>1, <2>1, Continues DEF Ends
  <2>. QED BY <1>1, <1>3, <2>2 DEF Follows
<1>4. CASE seen \notin enough
  <2> DEFINE p == <<"awaitChange">>
             z == p \o q
  <2>1. Goto("pnp", z)
    BY <1>4, Zenon DEF AskFor
  <2>2. p \in Seq(Steps) /\ Len(p) = 1 /\ p[1] = "awaitChange" /\ p # <<>>
    BY DEF Steps
  <2> HIDE DEF p
  <2>3. 1..1 = {1} /\ 1..(1 - 1) = {}
    OBVIOUS
  <2>4. Piece(p)
    BY <2>2, <2>3 DEF Piece, Placed, Behind
  <2>5. SubSeq(q, 1, Len(q)) = q
    BY <1>2
  <2>6. Follows(p[Len(p)], q[1])
    BY <1>2, <2>2 DEF Follows
  <2>7. Parting' /\ Parting
    <3>1. z \in Seq(Steps) /\ z[1] = "awaitChange" /\ Len(z) >= 1
      <4> HIDE DEF q
      <4>. p \in Seq(Steps) /\ q \in Seq(Steps)
        BY <1>2, <2>2
      <4>1. z \in Seq(Steps) /\ Len(z) = Len(p) + Len(q)
        OBVIOUS
      <4>2. \A i \in 1..Len(p) : z[i] = p[i]
        OBVIOUS
      <4>. QED BY <1>2, <2>2, <2>3, <4>1, <4>2
    <3>2. todo'["pnp"] = z
      <4>1. todo \in [Threads -> Seq(Steps)] /\ "pnp" \in Threads
        BY DEF LifeTypes, Threads
      <4>. QED BY <2>1, <4>1 DEF Goto
    <3> HIDE DEF z
    <3>3. Doing' = "awaitChange"
      BY <3>1, <3>2 DEF Doing
    <3>. QED BY <1>1, <3>3 DEF Parting
  <2>8. \A j \in 1..Len(p) : p[j] \notin {"sweep", "unplug", "deallocate"}
    BY <2>2, <2>3
  <2>9. Doing \notin BeforeSweep \cup {"sweep", "deallocate"}
    BY <1>1 DEF BeforeSweep
  <2>10. /\ 0 < Len(todo["pnp"]) /\ 0 \in {0, 1} /\ SubSeq(q, 0 + 1, Len(q)) = q
         /\ Len(p) >= 1 /\ 0 = 0 /\ 0 # 1
    BY <1>2, <2>2, <2>5
  <2>11. LET x == SubSeq(todo["pnp"], 0 + 1, Len(todo["pnp"]))
         IN  Goto("pnp", p \o x) /\ Follows(p[Len(p)], x[1])
    BY <2>1, <2>6, <2>10, Zenon
  <2>12. Onward /\ Doing' = p[1]
    BY <1>1, <2>2, <2>4, <2>7, <2>8, <2>9, <2>10, <2>11, Inserts, Zenon
  <2>. QED BY <1>1, <1>4, <2>2, <2>12
<1>. QED BY <1>3, <1>4, Zenon

\* The step after the one at the head, by Follows.
LEMMA NextStep ==
  ASSUME LifeTypes, Control, NEW a \in Steps \ (Ends \cup {"unregister", "deviceAdd"}),
         At("pnp", a), Continue("pnp")
  PROVE  Doing = a /\ todo["pnp"] # <<>> /\ Onward /\ Follows(a, Doing')
<1>1. Doing = a /\ todo["pnp"] # <<>>
  BY Zenon DEF At, Doing
<1>. QED BY <1>1, Continues

Failed == Begun("failed", "failed") /\ NothingNext

\* The steps that come next.
LEMMA NextSteps ==
  ASSUME LifeTypes, Control, Continue("pnp")
  PROVE  /\ At("pnp", "configure") => Onward /\ Doing' = "initialize"
         /\ At("pnp", "initialize") => Onward /\ Doing' = "connect"
         /\ At("pnp", "connect") => Onward /\ Doing' = "awaitInitWait"
         /\ At("pnp", "awaitInitWait") => Onward /\ Doing' = "publish"
         /\ At("pnp", "publish") => Onward /\ Doing' = "awaitConnected"
         /\ At("pnp", "awaitConnected") => Onward /\ Doing' = "configured"
         /\ At("pnp", "configured") => Onward /\ Doing' \in {"getUsbConfigData", "startTimer"}
         /\ At("pnp", "getUsbConfigData") => Onward /\ Doing' = "createRootHubPdo"
         /\ At("pnp", "createRootHubPdo") => Onward /\ Doing' = "added"
         /\ At("pnp", "startTimer") => Onward /\ Doing' = "d0"
         /\ At("pnp", "stopTimer") => Onward /\ Doing' = "timerStopped"
         /\ At("pnp", "timerStopped") => Onward /\ Doing' \in {"checkPort", "deconfigure"}
         /\ At("pnp", "closePort") => Onward /\ Doing' \in {"unplug", "removeChildren", "stabilise"}
         /\ At("pnp", "removeChildren") => Onward /\ Doing' \in {"sweep", "failed"}
         /\ At("pnp", "sweep") => Onward /\ Doing' \in {"stopTimer", "d0", "remove", "deallocate"}
         /\ At("pnp", "deallocate") => Onward /\ Doing' = "removed"
         /\ At("pnp", "stabilise") => Onward /\ Doing' = "closing"
         /\ At("pnp", "awaitChange") => Onward /\ Doing' \in {"closing", "closed"}
         /\ At("pnp", "sweep") => ~Ahead("sweep")'
         /\ At("pnp", "unregister") => Onward /\ Doing' \in {"idle", "dx", "remove"}
<1>0. ASSUME At("pnp", "configure") PROVE Onward /\ Doing' = "initialize"
  <2>1. "configure" \in Steps \ (Ends \cup {"unregister", "deviceAdd"})
    BY DEF Steps, Ends
  <2>. QED BY <1>0, <2>1, NextStep DEF Follows
<1>1. ASSUME At("pnp", "initialize") PROVE Onward /\ Doing' = "connect"
  <2>1. "initialize" \in Steps \ (Ends \cup {"unregister", "deviceAdd"})
    BY DEF Steps, Ends
  <2>. QED BY <1>1, <2>1, NextStep DEF Follows
<1>2. ASSUME At("pnp", "connect") PROVE Onward /\ Doing' = "awaitInitWait"
  <2>1. "connect" \in Steps \ (Ends \cup {"unregister", "deviceAdd"})
    BY DEF Steps, Ends
  <2>. QED BY <1>2, <2>1, NextStep DEF Follows
<1>3. ASSUME At("pnp", "awaitInitWait") PROVE Onward /\ Doing' = "publish"
  <2>1. "awaitInitWait" \in Steps \ (Ends \cup {"unregister", "deviceAdd"})
    BY DEF Steps, Ends
  <2>. QED BY <1>3, <2>1, NextStep DEF Follows
<1>4. ASSUME At("pnp", "publish") PROVE Onward /\ Doing' = "awaitConnected"
  <2>1. "publish" \in Steps \ (Ends \cup {"unregister", "deviceAdd"})
    BY DEF Steps, Ends
  <2>. QED BY <1>4, <2>1, NextStep DEF Follows
<1>5. ASSUME At("pnp", "awaitConnected") PROVE Onward /\ Doing' = "configured"
  <2>1. "awaitConnected" \in Steps \ (Ends \cup {"unregister", "deviceAdd"})
    BY DEF Steps, Ends
  <2>. QED BY <1>5, <2>1, NextStep DEF Follows
<1>6. ASSUME At("pnp", "configured") PROVE Onward /\ Doing' \in {"getUsbConfigData", "startTimer"}
  <2>1. "configured" \in Steps \ (Ends \cup {"unregister", "deviceAdd"})
    BY DEF Steps, Ends
  <2>. QED BY <1>6, <2>1, NextStep DEF Follows
<1>7. ASSUME At("pnp", "getUsbConfigData") PROVE Onward /\ Doing' = "createRootHubPdo"
  <2>1. "getUsbConfigData" \in Steps \ (Ends \cup {"unregister", "deviceAdd"})
    BY DEF Steps, Ends
  <2>. QED BY <1>7, <2>1, NextStep DEF Follows
<1>8. ASSUME At("pnp", "createRootHubPdo") PROVE Onward /\ Doing' = "added"
  <2>1. "createRootHubPdo" \in Steps \ (Ends \cup {"unregister", "deviceAdd"})
    BY DEF Steps, Ends
  <2>. QED BY <1>8, <2>1, NextStep DEF Follows
<1>9. ASSUME At("pnp", "startTimer") PROVE Onward /\ Doing' = "d0"
  <2>1. "startTimer" \in Steps \ (Ends \cup {"unregister", "deviceAdd"})
    BY DEF Steps, Ends
  <2>. QED BY <1>9, <2>1, NextStep DEF Follows
<1>10. ASSUME At("pnp", "stopTimer") PROVE Onward /\ Doing' = "timerStopped"
  <2>1. "stopTimer" \in Steps \ (Ends \cup {"unregister", "deviceAdd"})
    BY DEF Steps, Ends
  <2>. QED BY <1>10, <2>1, NextStep DEF Follows
<1>11. ASSUME At("pnp", "timerStopped") PROVE Onward /\ Doing' \in {"checkPort", "deconfigure"}
  <2>1. "timerStopped" \in Steps \ (Ends \cup {"unregister", "deviceAdd"})
    BY DEF Steps, Ends
  <2>. QED BY <1>11, <2>1, NextStep DEF Follows
<1>12. ASSUME At("pnp", "closePort")
       PROVE  Onward /\ Doing' \in {"unplug", "removeChildren", "stabilise"}
  <2>1. "closePort" \in Steps \ (Ends \cup {"unregister", "deviceAdd"})
    BY DEF Steps, Ends
  <2>. QED BY <1>12, <2>1, NextStep DEF Follows
<1>13. ASSUME At("pnp", "removeChildren") PROVE Onward /\ Doing' \in {"sweep", "failed"}
  <2>1. "removeChildren" \in Steps \ (Ends \cup {"unregister", "deviceAdd"})
    BY DEF Steps, Ends
  <2>. QED BY <1>13, <2>1, NextStep DEF Follows
<1>14. ASSUME At("pnp", "sweep")
       PROVE  Onward /\ Doing' \in {"stopTimer", "d0", "remove", "deallocate"}
  <2>1. "sweep" \in Steps \ (Ends \cup {"unregister", "deviceAdd"})
    BY DEF Steps, Ends
  <2>. QED BY <1>14, <2>1, NextStep DEF Follows
<1>15. ASSUME At("pnp", "deallocate") PROVE Onward /\ Doing' = "removed"
  <2>1. "deallocate" \in Steps \ (Ends \cup {"unregister", "deviceAdd"})
    BY DEF Steps, Ends
  <2>. QED BY <1>15, <2>1, NextStep DEF Follows
<1>16. ASSUME At("pnp", "stabilise") PROVE Onward /\ Doing' = "closing"
  <2>1. "stabilise" \in Steps \ (Ends \cup {"unregister", "deviceAdd"})
    BY DEF Steps, Ends
  <2>. QED BY <1>16, <2>1, NextStep DEF Follows
<1>17. ASSUME At("pnp", "awaitChange") PROVE Onward /\ Doing' \in {"closing", "closed"}
  <2>1. "awaitChange" \in Steps \ (Ends \cup {"unregister", "deviceAdd"})
    BY DEF Steps, Ends
  <2>. QED BY <1>17, <2>1, NextStep DEF Follows
<1>18. ASSUME At("pnp", "sweep") PROVE ~Ahead("sweep")'
  <2>1. Doing = "sweep" /\ todo["pnp"] # <<>>
    BY <1>18, Zenon DEF At, Doing
  <2>. QED BY <2>1, Continues DEF BeforeSweep
<1>19. ASSUME At("pnp", "unregister") PROVE Onward /\ Doing' \in {"idle", "dx", "remove"}
  <2>1. Doing = "unregister" /\ todo["pnp"] # <<>>
    BY <1>19, Zenon DEF At, Doing
  <2>. QED BY <2>1, Continues
<1>. QED BY <1>0, <1>1, <1>2, <1>3, <1>4, <1>5, <1>6, <1>7, <1>8, <1>9, <1>10, <1>11, <1>12,
            <1>13, <1>14, <1>15, <1>16, <1>17, <1>18, <1>19, Zenon

\* The steps of FdoUnplugDevice in the other threads.
LEMMA UnplugRests ==
  /\ \A a : SubSeq(<<a>>, 2, Len(<<a>>)) = <<>>
  /\ LET q == <<"closePort", "removeChildren">>
     IN  SubSeq(q, 2, Len(q)) = <<"removeChildren">>
  /\ SubSeq(UnplugSteps, 2, Len(UnplugSteps)) = <<"closePort", "removeChildren">>
  /\ SubSeq(UnplugSteps, 3, Len(UnplugSteps)) = <<"removeChildren">>
<1>1. ASSUME NEW a PROVE SubSeq(<<a>>, 2, Len(<<a>>)) = <<>>
  OBVIOUS
<1>2. LET q == <<"closePort", "removeChildren">>
      IN  SubSeq(q, 2, Len(q)) = <<"removeChildren">>
  <2> DEFINE q == <<"closePort", "removeChildren">>
  <2>1. Tail(q) = <<"removeChildren">> /\ q \in Seq(Steps) /\ q # <<>>
    BY DEF Steps
  <2> HIDE DEF q
  <2>2. Tail(q) = SubSeq(q, 2, Len(q))
    BY <2>1 DEF Tail
  <2>. QED BY <2>1, <2>2 DEF q
<1>3. SubSeq(UnplugSteps, 2, Len(UnplugSteps)) = <<"closePort", "removeChildren">>
  <2> DEFINE q == UnplugSteps
  <2>1. Tail(q) = <<"closePort", "removeChildren">> /\ q \in Seq(Steps) /\ q # <<>>
    BY DEF Steps, UnplugSteps
  <2> HIDE DEF q
  <2>2. Tail(q) = SubSeq(q, 2, Len(q))
    BY <2>1 DEF Tail
  <2>. QED BY <2>1, <2>2 DEF q
<1>4. SubSeq(UnplugSteps, 3, Len(UnplugSteps)) = <<"removeChildren">>
  <2> DEFINE q == UnplugSteps
             x == SubSeq(q, 3, Len(q))
             y == <<"removeChildren">>
  <2>1. q \in Seq(Steps) /\ Len(q) = 3 /\ q[3] = "removeChildren" /\ q[3] \in Steps
    BY UnplugPiece DEF Steps
  <2> HIDE DEF q
  <2>2. x \in Seq(Steps) /\ Len(x) = 1 /\ x[1] = "removeChildren"
    <3>1. \A i \in 3..Len(q) : q[i] \in Steps
      BY <2>1
    <3>2. /\ x \in Seq(Steps)
          /\ Len(x) = (IF 3 <= Len(q) THEN Len(q) - 3 + 1 ELSE 0)
          /\ \A i \in 1..(Len(q) - 3 + 1) : x[i] = q[3 + i - 1]
      BY <2>1, <3>1, SubSeqProperties
    <3> HIDE DEF x
    <3>3. 1 \in 1..(Len(q) - 3 + 1) /\ 3 + 1 - 1 = 3
      BY <2>1
    <3>. QED BY <2>1, <3>2, <3>3
  <2>3. y \in Seq(Steps) /\ Len(y) = 1 /\ y[1] = "removeChildren" /\ 1..1 = {1}
    BY DEF Steps
  <2> HIDE DEF x, y
  <2>4. \A i \in 1..Len(x) : x[i] = y[i]
    BY <2>2, <2>3
  <2>5. x = y
    BY <2>2, <2>3, <2>4, SeqEqual
  <2>. QED BY <2>5 DEF x, y, q
<1>. QED BY <1>1, <1>2, <1>3, <1>4

\* The PnP thread does not move.
Steady ==
  /\ todo' \in [Threads -> Seq(Steps)]
  /\ todo'["pnp"] = todo["pnp"]
  /\ todo'["timer"] \in Rests /\ todo'["waiter"] \in Rests

\* What the head of a rest beside the PnP thread says of it.
LEMMA Heads ==
  /\ Rests \subseteq Seq(Steps)
  /\ \A x \in Rests :
       x # <<>> =>
         /\ Head(x) \in {"readState", "gone", "restart", "unplug", "checkPort", "closePort",
                         "removeChildren", "crashed"}
         /\ Head(x) \in {"readState", "gone", "restart", "unplug"} => x = <<Head(x)>>
         /\ Head(x) = "checkPort" => x = UnplugSteps
         /\ Head(x) = "closePort" => x = <<"closePort", "removeChildren">>
         /\ Head(x) = "removeChildren" => x = <<"removeChildren">>
<1>1. UnplugSteps \in Seq(Steps) /\ UnplugSteps # <<>> /\ Head(UnplugSteps) = "checkPort"
  BY UnplugPiece DEF UnplugSteps
<1>2. /\ <<"closePort", "removeChildren">> \in Seq(Steps)
      /\ Head(<<"closePort", "removeChildren">>) = "closePort"
  BY DEF Steps
<1>3. ASSUME NEW a \in {"readState", "gone", "restart", "unplug", "removeChildren", "crashed"}
      PROVE  <<a>> \in Seq(Steps) /\ Head(<<a>>) = a
  BY DEF Steps, Ends
<1>4. Rests \subseteq Seq(Steps)
  BY <1>1, <1>2, <1>3 DEF Rests
<1>5. ASSUME NEW x \in Rests, x # <<>>
      PROVE  /\ Head(x) \in {"readState", "gone", "restart", "unplug", "checkPort", "closePort",
                             "removeChildren", "crashed"}
             /\ Head(x) \in {"readState", "gone", "restart", "unplug"} => x = <<Head(x)>>
             /\ Head(x) = "checkPort" => x = UnplugSteps
             /\ Head(x) = "closePort" => x = <<"closePort", "removeChildren">>
             /\ Head(x) = "removeChildren" => x = <<"removeChildren">>
  <2>1. CASE x = UnplugSteps
    BY <1>1, <2>1
  <2>2. CASE x = <<"closePort", "removeChildren">>
    BY <1>2, <2>2
  <2>3. ASSUME NEW a \in {"readState", "gone", "restart", "unplug", "removeChildren", "crashed"},
               x = <<a>>
        PROVE  /\ Head(x) = a /\ x = <<Head(x)>>
               /\ a \notin {"checkPort", "closePort"}
    BY <1>3, <2>3
  <2>4. \/ x = UnplugSteps
        \/ x = <<"closePort", "removeChildren">>
        \/ \E a \in {"readState", "gone", "restart", "unplug", "removeChildren", "crashed"} :
             x = <<a>>
    BY <1>5 DEF Rests
  <2>. QED BY <2>1, <2>2, <2>3, <2>4
<1>. QED BY <1>4, <1>5

\* A move of another thread leaves the PnP thread where it is.
LEMMA Besides ==
  ASSUME LifeTypes, Control, NEW t \in {"timer", "waiter"}, NEW x \in Rests, Goto(t, x)
  PROVE  /\ Steady /\ todo'[t] = x
         /\ \A u \in Threads : u # t => todo'[u] = todo[u]
<1>1. todo \in [Threads -> Seq(Steps)] /\ t \in Threads /\ x \in Seq(Steps)
      /\ Threads = {"pnp", "timer", "waiter"}
  BY Heads DEF LifeTypes, Threads
<1>2. todo' = [todo EXCEPT ![t] = x]
  BY DEF Goto
<1>3. /\ todo' \in [Threads -> Seq(Steps)] /\ todo'[t] = x
      /\ \A u \in Threads : u # t => todo'[u] = todo[u]
  BY <1>1, <1>2
<1>4. todo["timer"] \in Rests /\ todo["waiter"] \in Rests
  BY Zenon DEF Control
<1>. QED BY <1>1, <1>3, <1>4 DEF Steady

\* The watchdog, and a thread that waited for a scratch answer.
LEMMA BesideMoves ==
  ASSUME LifeTypes, Control, NEW t \in {"timer", "waiter"}
  PROVE  /\ CheckPort(t) =>
              /\ todo[t] = UnplugSteps
              /\ \/ xen = NULL /\ Goto(t, <<"crashed">>) /\ UNCHANGED saw
                 \/ /\ xen # NULL /\ xen.port /\ Goto(t, <<"closePort", "removeChildren">>)
                    /\ saw' = [saw EXCEPT ![t] = gen]
                 \/ /\ xen # NULL /\ ~xen.port /\ Goto(t, <<"removeChildren">>)
                    /\ saw' = [saw EXCEPT ![t] = 0]
         /\ ClosePort(t) => /\ todo[t] = <<"closePort", "removeChildren">>
                            /\ Goto(t, <<"removeChildren">>)
         /\ Unplug(t) => /\ todo[t] = <<"unplug">>
                         /\ Goto(t, <<>>) \/ Goto(t, UnplugSteps)
         /\ RemoveAllChildDevices(t) => todo[t] = <<"removeChildren">> /\ Goto(t, <<>>)
         /\ TimerDecides => Goto("timer", <<>>) \/ Goto("timer", UnplugSteps)
         /\ TimerReadsState => /\ At("timer", "readState")
                               /\ \E x \in {<<"crashed">>, <<"gone">>, <<"restart">>} :
                                    Goto("timer", x)
<1>1. ASSUME NEW u \in {"timer", "waiter"}, NEW a, At(u, a)
      PROVE  /\ a \in {"readState", "gone", "restart", "unplug"} => todo[u] = <<a>>
             /\ a = "checkPort" => todo[u] = UnplugSteps
             /\ a = "closePort" => todo[u] = <<"closePort", "removeChildren">>
             /\ a = "removeChildren" => todo[u] = <<"removeChildren">>
  <2>1. todo["timer"] \in Rests /\ todo["waiter"] \in Rests
    BY Zenon DEF Control
  <2>2. todo[u] \in Rests /\ todo[u] # <<>> /\ Head(todo[u]) = a
    BY <1>1, <2>1, Zenon DEF At
  <2>. QED BY <2>2, Heads, Zenon
<1>2. ASSUME CheckPort(t)
      PROVE  /\ todo[t] = UnplugSteps
             /\ \/ xen = NULL /\ Goto(t, <<"crashed">>) /\ UNCHANGED saw
                \/ /\ xen # NULL /\ xen.port /\ Goto(t, <<"closePort", "removeChildren">>)
                   /\ saw' = [saw EXCEPT ![t] = gen]
                \/ /\ xen # NULL /\ ~xen.port /\ Goto(t, <<"removeChildren">>)
                   /\ saw' = [saw EXCEPT ![t] = 0]
  <2>1. todo[t] = UnplugSteps
    BY <1>1, <1>2, Zenon DEF CheckPort
  <2>2. CASE xen = NULL
    BY <1>2, <2>1, <2>2, Zenon DEF CheckPort
  <2>3. CASE xen # NULL /\ xen.port
    <3>1. saw' = [saw EXCEPT ![t] = gen] /\ Skip(t, 1)
      BY <1>2, <2>3, Zenon DEF CheckPort
    <3>2. Goto(t, <<"closePort", "removeChildren">>)
      <4>1. 1 + 1 = 2
        OBVIOUS
      <4>. QED BY <2>1, <3>1, <4>1, UnplugRests, Zenon DEF Skip
    <3>. QED BY <2>1, <2>3, <3>1, <3>2
  <2>4. CASE xen # NULL /\ ~xen.port
    <3>1. saw' = [saw EXCEPT ![t] = 0] /\ Skip(t, 2)
      BY <1>2, <2>4, Zenon DEF CheckPort
    <3>2. Goto(t, <<"removeChildren">>)
      <4>1. 2 + 1 = 3
        OBVIOUS
      <4>. QED BY <2>1, <3>1, <4>1, UnplugRests, Zenon DEF Skip
    <3>. QED BY <2>1, <2>4, <3>1, <3>2
  <2>. QED BY <2>2, <2>3, <2>4, Zenon
<1>3. ASSUME ClosePort(t)
      PROVE  todo[t] = <<"closePort", "removeChildren">> /\ Goto(t, <<"removeChildren">>)
  <2>1. todo[t] = <<"closePort", "removeChildren">> /\ Skip(t, 1)
    BY <1>1, <1>3, Zenon DEF ClosePort, Continue
  <2>2. 1 + 1 = 2
    OBVIOUS
  <2>. QED BY <2>1, <2>2, UnplugRests, Zenon DEF Skip
<1>4. ASSUME RemoveAllChildDevices(t)
      PROVE  todo[t] = <<"removeChildren">> /\ Goto(t, <<>>)
  <2>1. todo[t] = <<"removeChildren">> /\ Skip(t, 1)
    BY <1>1, <1>4, Zenon DEF RemoveAllChildDevices, Continue
  <2>2. 1 + 1 = 2
    OBVIOUS
  <2>. QED BY <2>1, <2>2, UnplugRests, Zenon DEF Skip
<1>5. ASSUME Unplug(t)
      PROVE  todo[t] = <<"unplug">> /\ (Goto(t, <<>>) \/ Goto(t, UnplugSteps))
  <2>1. todo[t] = <<"unplug">>
    BY <1>1, <1>5, Zenon DEF Unplug
  <2>2. Goto(t, <<>> \o Tail(todo[t])) \/ Goto(t, UnplugSteps \o Tail(todo[t]))
    BY <1>5, Zenon DEF Unplug
  <2>3. Tail(todo[t]) = <<>>
    BY <2>1
  <2>4. <<>> \o <<>> = <<>> /\ UnplugSteps \o <<>> = UnplugSteps
    <3>1. <<>> \in Seq(Steps)
      OBVIOUS
    <3>. QED BY <3>1, UnplugPiece, ConcatEmptySeq
  <2>. QED BY <2>1, <2>2, <2>3, <2>4, Zenon
<1>6. ASSUME TimerDecides PROVE Goto("timer", <<>>) \/ Goto("timer", UnplugSteps)
  <2>1. CASE At("timer", "restart") /\ Continue("timer")
    <3>1. todo["timer"] = <<"restart">>
      BY <1>1, <2>1, Zenon
    <3>2. 1 + 1 = 2
      OBVIOUS
    <3>. QED BY <2>1, <3>1, <3>2, UnplugRests, Zenon DEF Continue, Skip
  <2>2. CASE ~(At("timer", "restart") /\ Continue("timer"))
    BY <1>6, <2>2, Zenon DEF TimerDecides
  <2>. QED BY <2>1, <2>2, Zenon
<1>7. ASSUME TimerReadsState
      PROVE  /\ At("timer", "readState")
             /\ \E x \in {<<"crashed">>, <<"gone">>, <<"restart">>} : Goto("timer", x)
  BY <1>7, Zenon DEF TimerReadsState
<1>. QED BY <1>2, <1>3, <1>4, <1>5, <1>6, <1>7, Zenon

\* What the step at the head says of the rest.
LEMMA Positions ==
  ASSUME LifeTypes, Control
  PROVE  /\ Doing \in Steps \cup {"idle"}
         /\ Idle("pnp") <=> Doing = "idle"
         /\ Doing = "idle" => ~Ahead("sweep") /\ ~Ahead("deallocate") /\ ~Removing
         /\ Doing \notin BeforeSweep \cup {"sweep"} => ~Ahead("sweep")
         /\ Doing \notin BeforeSweep \cup {"sweep", "deallocate"} => ~Ahead("deallocate")
         /\ Doing = "sweep" => Ahead("sweep") /\ ~UnplugFirst
         /\ Doing = "deallocate" => Ahead("deallocate")
         /\ Doing = "cleanup" => Ahead("sweep")
         /\ Doing \in Ends /\ Removing => Doing \in {"remove", "removed", "crashed"}
         /\ Parting => Doing \in {"checkPort", "closePort", "stabilise", "closing", "closed",
                                  "awaitChange"}
         /\ pnp \in {"removed", "crashed"} => Doing = "idle"
<1> DEFINE q == todo["pnp"]
<1>1. pnp \in {"removed", "crashed"} => Doing = "idle"
  BY Zenon DEF Control
<1>2. Parting => Doing \in {"checkPort", "closePort", "stabilise", "closing", "closed",
                            "awaitChange"}
  BY DEF Parting
<1>3. /\ Ahead("sweep") <=> \E i \in 1..Len(q) : q[i] = "sweep"
      /\ Ahead("deallocate") <=> \E i \in 1..Len(q) : q[i] = "deallocate"
      /\ UnplugFirst <=> \A i \in 1..Len(q) :
                           q[i] = "sweep" => \E j \in 1..(i - 1) : q[j] = "unplug"
      /\ Removing <=> q # <<>> /\ q[Len(q)] \in {"remove", "removed", "crashed"}
  BY DEF Ahead, UnplugFirst, Removing
<1>4. CASE q = <<>>
  <2>1. Doing = "idle" /\ Idle("pnp")
    BY <1>4, Zenon DEF Doing, Idle
  <2>2. 1..Len(q) = {}
    BY <1>4
  <2>3. ~Ahead("sweep") /\ ~Ahead("deallocate") /\ ~Removing
    BY <1>3, <1>4, <2>2
  <2>. QED BY <1>1, <1>2, <2>1, <2>3 DEF Ends
<1>5. CASE q # <<>>
  <2>1. /\ q \in Seq(Steps) /\ Orderly(q) /\ Len(q) \in Nat /\ Len(q) >= 1
        /\ Doing = q[1] /\ Doing \in Steps
        /\ \A i \in 1..Len(q) : q[i] \in Ends => i = Len(q)
    BY <1>5, Orders, Zenon
  <2>2. Doing # "idle" /\ ~Idle("pnp")
    <3>1. "idle" \notin Steps
      BY DEF Steps, Ends
    <3>. QED BY <1>5, <2>1, <3>1 DEF Idle
  <2> HIDE DEF q
  <2>3. 1 \in 1..Len(q) /\ \A i \in 1..Len(q) : i # 1 => 1 \in 1..(i - 1)
    BY <2>1
  <2>4. \A i \in 1..Len(q) : i # 1 => Behind(q, i, 1)
    BY <2>1, <2>3 DEF Orderly, Piece
  <2>5. Doing \notin BeforeSweep \cup {"sweep"} => ~Ahead("sweep")
    BY <1>3, <2>1, <2>3, <2>4 DEF Behind
  <2>6. Doing \notin BeforeSweep \cup {"sweep", "deallocate"} => ~Ahead("deallocate")
    BY <1>3, <2>1, <2>3, <2>4 DEF Behind
  <2>7. Doing = "sweep" => Ahead("sweep") /\ ~UnplugFirst
    <3>1. 1..(1 - 1) = {}
      OBVIOUS
    <3>. QED BY <1>3, <2>1, <2>3, <3>1
  <2>8. Doing = "deallocate" => Ahead("deallocate")
    BY <1>3, <2>1, <2>3
  <2>9. Doing = "cleanup" => Ahead("sweep")
    <3>1. Placed(q, 1)
      BY <2>1, <2>3 DEF Orderly, Piece
    <3>2. Doing = "cleanup" => 1 + 6 <= Len(q) /\ q[1 + 6] = "sweep"
      BY <2>1, <3>1, Zenon DEF Placed
    <3>3. 1 + 6 <= Len(q) => 1 + 6 \in 1..Len(q)
      BY <2>1
    <3>. QED BY <1>3, <3>2, <3>3
  <2>10. Doing \in Ends /\ Removing => Doing \in {"remove", "removed", "crashed"}
    BY <1>3, <2>1, <2>3
  <2>. QED BY <1>1, <1>2, <2>1, <2>2, <2>5, <2>6, <2>7, <2>8, <2>9, <2>10
<1>. QED BY <1>4, <1>5

\* What is said of the PnP thread depends on its steps only.
LEMMA Unmoved ==
  ASSUME todo'["pnp"] = todo["pnp"]
  PROVE  /\ Doing' = Doing
         /\ Ahead("sweep")' <=> Ahead("sweep")
         /\ Ahead("deallocate")' <=> Ahead("deallocate")
         /\ UnplugFirst' <=> UnplugFirst
         /\ Removing' <=> Removing
         /\ Parting' <=> Parting
<1>1. Doing' = Doing
  BY DEF Doing
<1>2. /\ Ahead("sweep")' <=> Ahead("sweep")
      /\ Ahead("deallocate")' <=> Ahead("deallocate")
  BY DEF Ahead
<1>3. UnplugFirst' <=> UnplugFirst
  BY DEF UnplugFirst
<1>4. Removing' <=> Removing
  BY DEF Removing
<1>5. Parting' <=> Parting
  BY <1>1 DEF Parting
<1>. QED BY <1>1, <1>2, <1>3, <1>4, <1>5

\* What the PnP thread does, and what the others do.
ByPnp == PnpStep \/ PowerUp \/ PowerDown \/ SurpriseRemoval \/ Remove \/ ThreadStep("pnp")

Aside ==
  \/ \E t \in {"timer", "waiter"} : ThreadStep(t)
  \/ TimerFires \/ TimerStep \/ WaitForScratchCompletion
  \/ \E r \in Requests : Submit(r) \/ Answer(r)
  \/ BackendFollows \/ BackendRestarts \/ Detach \/ BackendGoes

\* Every step is one of the PnP thread or one beside it.
LEMMA Actors == LifeNext => ByPnp \/ Aside
BY Zenon DEF LifeNext, ByPnp, Aside, Threads

\* An event is not forgotten.
LEMMA HistoryGrows == LifeNext => history \subseteq history'
<1> DEFINE Grows == \/ history' = history
                    \/ \E e : Record(e)
                    \/ \E e : \E b : RecordIf(e, b)
<1>1. UNCHANGED history => Grows
  OBVIOUS
<1>2. /\ \A e : Record(e) => Grows
      /\ \A e : \A b : RecordIf(e, b) => Grows
  BY Zenon
<1> HIDE DEF Grows
<1>3. DeallocateXenInterface => Grows
  BY <1>1, <1>2, Zenon DEF DeallocateXenInterface
<1>4. DeviceAdd \/ Configure \/ Initialize \/ Connect \/ AwaitInitWait => Grows
  BY <1>1, <1>2, <1>3, Zenon DEF DeviceAdd, Configure, Initialize, Connect, AwaitInitWait
<1>5. Publish \/ AwaitConnected \/ Configured \/ GetUsbConfigData \/ CreateRootHubPdo => Grows
  BY <1>1, <1>2, Zenon DEF Publish, AwaitConnected, Configured, GetUsbConfigData, CreateRootHubPdo
<1>6. Returned \/ Online \/ StartTimer \/ Cleanup \/ StopTimer \/ Sweep \/ Deallocate => Grows
  BY <1>1, <1>3, Zenon DEF Returned, Online, StartTimer, Cleanup, StopTimer, Sweep, Deallocate
<1>7. Deconfigure \/ DisonnectBackend \/ Unregister => Grows
  BY <1>1, Zenon DEF Deconfigure, DisonnectBackend, Await, AskFor, Unregister
<1>8. PowerUp \/ PowerDown \/ SurpriseRemoval \/ Remove => Grows
  BY <1>1, <1>2, Zenon DEF PowerUp, PowerDown, SurpriseRemoval, Remove
<1>9. \A t : ThreadStep(t) => Grows
  BY <1>1, <1>2, Zenon DEF ThreadStep, CheckPort, ClosePort, Unplug, RemoveAllChildDevices
<1>10. TimerFires \/ TimerStep \/ WaitForScratchCompletion => Grows
  BY <1>1, <1>2, Zenon DEF TimerFires, TimerStep, TimerReadsState, TimerDecides,
                           WaitForScratchCompletion
<1>11. \A r : Submit(r) \/ Answer(r) => Grows
  BY <1>1, Zenon DEF Submit, Answer
<1>12. BackendFollows \/ BackendRestarts \/ Detach \/ BackendGoes => Grows
  BY <1>1, Zenon DEF BackendFollows, BackendRestarts, Detach, BackendGoes
<1>13. LifeNext => Grows
  BY <1>4, <1>5, <1>6, <1>7, <1>8, <1>9, <1>10, <1>11, <1>12, Zenon DEF LifeNext, PnpStep
<1>. QED BY <1>13 DEF Grows, Record, RecordIf

\* What the actions do, and where they take the PnP thread.
LEMMA DeviceAddDoes ==
  ASSUME LifeTypes, Control, DeviceAdd
  PROVE  /\ Doing = "deviceAdd"
         /\ UNCHANGED <<pnp, xenVars, place, store, seen, history>>
         /\ \/ /\ fdo' = [fdo EXCEPT !.scratch = TRUE, !.timer = "off"]
               /\ Begun("configure", "added") /\ NothingNext
            \/ /\ \E s \in BOOLEAN, t \in {"none", "off"} :
                    /\ t = "off" => s
                    /\ fdo' = [fdo EXCEPT !.scratch = s, !.timer = t]
               /\ Failed
<1>1. \A a : At("pnp", a) => Doing = a
  BY Zenon DEF At, Doing
<1>2. Fails => Failed
  BY NewCallbacks, Zenon DEF Failed
<1>3. Goto("pnp", LateSetupSteps) => Begun("configure", "added") /\ NothingNext
  BY NewCallbacks, Zenon
<1>. QED BY <1>1, <1>2, <1>3, NextSteps, Zenon DEF DeviceAdd

\* XenDeviceInitialize.
LEMMA InitializeDoes ==
  ASSUME LifeTypes, Control, Initialize
  PROVE  /\ Doing = "initialize"
         /\ UNCHANGED <<pnp, saw, gen, fdo, place, store, seen>>
         /\ \/ /\ xen' = [xen EXCEPT !.ring = "live", !.granted = TRUE, !.port = TRUE]
               /\ ledger' = [ledger EXCEPT !.page = @ + 1, !.grant = @ + 1, !.port = @ + 1]
               /\ UNCHANGED history /\ Onward /\ Doing' = "connect"
            \/ UNCHANGED <<xen, ledger, history>> /\ Failed
            \/ /\ xen' = [xen EXCEPT !.ring = "freed", !.granted = TRUE]
               /\ ledger' = [ledger EXCEPT !.grant = @ + 1]
               /\ history' = history \cup {"freedEarly"} /\ Failed
<1>1. \A a : At("pnp", a) => Doing = a
  BY Zenon DEF At, Doing
<1>2. Fails => Failed
  BY NewCallbacks, Zenon DEF Failed
<1>. QED BY <1>1, <1>2, NextSteps, Zenon DEF Initialize, Record

\* XenLowerConnectBackend, up to the first state it takes.
LEMMA ConnectDoes ==
  ASSUME LifeTypes, Control, Connect
  PROVE  /\ Doing = "connect"
         /\ UNCHANGED <<pnp, saw, gen, fdo, place, history>>
         /\ \/ /\ store' = [store EXCEPT !.fe = "initialising"] /\ seen' = "unknown"
               /\ UNCHANGED <<xen, ledger>> /\ Onward /\ Doing' = "awaitInitWait"
            \/ RegisterSuspendHandler /\ UNCHANGED <<store, seen>> /\ Failed
            \/ UNCHANGED <<xen, ledger, store, seen>> /\ Failed
<1>1. \A a : At("pnp", a) => Doing = a
  BY Zenon DEF At, Doing
<1>2. Fails => Failed
  BY NewCallbacks, Zenon DEF Failed
<1>. QED BY <1>1, <1>2, NextSteps, Zenon DEF Connect

\* The wait for a backend that is ready.
LEMMA AwaitInitWaitDoes ==
  ASSUME LifeTypes, Control, AwaitInitWait
  PROVE  /\ Doing = "awaitInitWait"
         /\ UNCHANGED <<pnp, saw, gen, fdo, place, store, history>>
         /\ seen' = store.be
         /\ \/ seen' = "initwait" /\ UNCHANGED <<xen, ledger>> /\ Onward /\ Doing' = "publish"
            \/ RegisterSuspendHandler /\ Failed
            \/ UNCHANGED <<todo, xen, ledger>>
<1>1. \A a : At("pnp", a) => Doing = a
  BY Zenon DEF At, Doing
<1>2. Fails => Failed
  BY NewCallbacks, Zenon DEF Failed
<1>. QED BY <1>1, <1>2, NextSteps, Zenon DEF AwaitInitWait

\* The transaction.
LEMMA PublishDoes ==
  ASSUME LifeTypes, Control, Publish
  PROVE  /\ Doing = "publish"
         /\ UNCHANGED <<pnp, saw, gen, fdo, place, history>>
         /\ \/ /\ store' = [store EXCEPT !.ringRef = gen, !.fe = "connected"] /\ seen' = "unknown"
               /\ UNCHANGED <<xen, ledger>> /\ Onward /\ Doing' = "awaitConnected"
            \/ RegisterSuspendHandler /\ UNCHANGED <<store, seen>> /\ Failed
<1>1. \A a : At("pnp", a) => Doing = a
  BY Zenon DEF At, Doing
<1>2. Fails => Failed
  BY NewCallbacks, Zenon DEF Failed
<1>. QED BY <1>1, <1>2, NextSteps, Zenon DEF Publish

\* The wait for the connection.
LEMMA AwaitConnectedDoes ==
  ASSUME LifeTypes, Control, AwaitConnected
  PROVE  /\ Doing = "awaitConnected"
         /\ UNCHANGED <<pnp, saw, gen, fdo, place, store>>
         /\ seen' = store.be
         /\ \/ /\ seen' = "connected" /\ RegisterSuspendHandler /\ UNCHANGED history
               /\ Onward /\ Doing' = "configured"
            \/ /\ seen' \in BackendRefused /\ RegisterSuspendHandler
               /\ history' = history \cup {"refused"} /\ Failed
            \/ UNCHANGED <<todo, xen, ledger, history>>
<1>1. \A a : At("pnp", a) => Doing = a
  BY Zenon DEF At, Doing
<1>2. Fails => Failed
  BY NewCallbacks, Zenon DEF Failed
<1>. QED BY <1>1, <1>2, NextSteps, Zenon DEF AwaitConnected, Record

\* The end of XenConfigure.
LEMMA ConfiguredDoes ==
  ASSUME LifeTypes, Control, Configured
  PROVE  /\ Doing = "configured"
         /\ UNCHANGED <<pnp, xenVars, place, store, seen, history>>
         /\ fdo' = [fdo EXCEPT !.configured = TRUE]
         /\ Onward /\ Doing' \in {"getUsbConfigData", "startTimer"}
<1>1. \A a : At("pnp", a) => Doing = a
  BY Zenon DEF At, Doing
<1>. QED BY <1>1, NextSteps, Zenon DEF Configured

\* LateSetup reads the descriptors.
LEMMA GetUsbConfigDataDoes ==
  ASSUME LifeTypes, Control, GetUsbConfigData
  PROVE  /\ Doing = "getUsbConfigData"
         /\ UNCHANGED <<pnp, xenVars, fdo, place, store, seen, history>>
         /\ \/ Onward /\ Doing' = "createRootHubPdo"
            \/ Failed
            \/ Begun("unplug", "failed") /\ NothingNext
            \/ Begun("added", "added") /\ NothingNext
<1>1. \A a : At("pnp", a) => Doing = a
  BY Zenon DEF At, Doing
<1>2. Fails => Failed
  BY NewCallbacks, Zenon DEF Failed
<1>3. /\ Goto("pnp", <<"unplug", "failed">>) => Begun("unplug", "failed") /\ NothingNext
      /\ Goto("pnp", <<"added">>) => Begun("added", "added") /\ NothingNext
  BY NewCallbacks, Zenon DEF Ends
<1>. QED BY <1>1, <1>2, <1>3, NextSteps, Zenon DEF GetUsbConfigData, Fails

\* LateSetup makes the child.
LEMMA CreateRootHubPdoDoes ==
  ASSUME LifeTypes, Control, CreateRootHubPdo
  PROVE  /\ Doing = "createRootHubPdo"
         /\ UNCHANGED <<pnp, xenVars, place, store, seen, history>>
         /\ \/ fdo' = [fdo EXCEPT !.child = TRUE, !.timer = "armed"] /\ Onward /\ Doing' = "added"
            \/ UNCHANGED fdo /\ Failed
<1>1. \A a : At("pnp", a) => Doing = a
  BY Zenon DEF At, Doing
<1>2. Fails => Failed
  BY NewCallbacks, Zenon DEF Failed
<1>. QED BY <1>1, <1>2, NextSteps, Zenon DEF CreateRootHubPdo

\* The end of D0 entry.
LEMMA StartTimerDoes ==
  ASSUME LifeTypes, Control, StartTimer
  PROVE  /\ Doing = "startTimer"
         /\ UNCHANGED <<pnp, xenVars, place, store, seen, history>>
         /\ fdo' = [fdo EXCEPT !.timer = "armed"]
         /\ Onward /\ Doing' = "d0"
<1>1. \A a : At("pnp", a) => Doing = a
  BY Zenon DEF At, Doing
<1>. QED BY <1>1, NextSteps, Zenon DEF StartTimer

\* WdfTimerStop, begun and ended.
LEMMA StopTimerDoes ==
  ASSUME LifeTypes, Control, StopTimer
  PROVE  /\ UNCHANGED <<pnp, xenVars, place, store, seen, history>>
         /\ \/ /\ Doing = "stopTimer" /\ fdo.timer = "none" /\ UNCHANGED fdo
               /\ Begun("crashed", "crashed") /\ NothingNext
            \/ /\ Doing = "stopTimer" /\ fdo.timer # "none"
               /\ fdo' = [fdo EXCEPT !.timer = "stopping"]
               /\ Onward /\ Doing' = "timerStopped"
            \/ /\ Doing = "timerStopped" /\ Idle("timer") /\ fdo' = [fdo EXCEPT !.timer = "off"]
               /\ Onward /\ Doing' \in {"checkPort", "deconfigure"}
<1>1. \A a : At("pnp", a) => Doing = a
  BY Zenon DEF At, Doing
<1>2. \/ /\ At("pnp", "stopTimer") /\ fdo.timer = "none"
         /\ Goto("pnp", <<"crashed">>) /\ UNCHANGED fdo
      \/ /\ At("pnp", "stopTimer") /\ fdo.timer # "none"
         /\ fdo' = [fdo EXCEPT !.timer = "stopping"] /\ Continue("pnp")
      \/ /\ At("pnp", "timerStopped") /\ Idle("timer")
         /\ fdo' = [fdo EXCEPT !.timer = "off"] /\ Continue("pnp")
  BY Zenon DEF StopTimer
<1>3. Goto("pnp", <<"crashed">>) => Begun("crashed", "crashed") /\ NothingNext
  BY NewCallbacks, Zenon DEF Ends
<1>4. UNCHANGED <<pnp, xenVars, place, store, seen, history>>
  BY Zenon DEF StopTimer
<1>. QED BY <1>1, <1>2, <1>3, <1>4, NextSteps, Zenon

\* The port is closed.
LEMMA ClosePortDoes ==
  ASSUME LifeTypes, Control, ClosePort("pnp")
  PROVE  /\ Doing = "closePort"
         /\ UNCHANGED <<pnp, saw, gen, fdo, place, store, seen>>
         /\ ledger' = [ledger EXCEPT !.port = @ - 1]
         /\ LET open == xen # NULL /\ saw["pnp"] = gen /\ xen.port IN
              /\ xen' = IF open THEN [xen EXCEPT !.port = FALSE] ELSE xen
              /\ RecordIf("closedTwice", ~open)
         /\ Onward /\ Doing' \in {"unplug", "removeChildren", "stabilise"}
<1>1. \A a : At("pnp", a) => Doing = a
  BY Zenon DEF At, Doing
<1>. QED BY <1>1, NextSteps, Zenon DEF ClosePort

\* The end of FdoUnplugDevice.
LEMMA RemoveChildrenDoes ==
  ASSUME LifeTypes, Control, RemoveAllChildDevices("pnp")
  PROVE  /\ Doing = "removeChildren"
         /\ UNCHANGED <<pnp, xenVars, place, store, seen, history>>
         /\ fdo' = [fdo EXCEPT !.child = FALSE]
         /\ Onward /\ Doing' \in {"sweep", "failed"}
<1>1. \A a : At("pnp", a) => Doing = a
  BY Zenon DEF At, Doing
<1>. QED BY <1>1, NextSteps, Zenon DEF RemoveAllChildDevices

\* The end of CleanupDisconnectedDevice.
LEMMA SweepDoes ==
  ASSUME LifeTypes, Control, Sweep
  PROVE  /\ Doing = "sweep"
         /\ UNCHANGED <<pnp, xenVars, fdo, store, seen, history>>
         /\ place' = [r \in Requests |->
                        IF fdo.configured /\ place[r] = "ring" THEN "done" ELSE place[r]]
         /\ Onward /\ ~Ahead("sweep")' /\ Doing' \in {"stopTimer", "d0", "remove", "deallocate"}
<1>1. \A a : At("pnp", a) => Doing = a
  BY Zenon DEF At, Doing
<1>. QED BY <1>1, NextSteps, Zenon DEF Sweep

\* The end of FdoEvtDeviceContextCleanup.
LEMMA DeallocateDoes ==
  ASSUME LifeTypes, Control, Deallocate
  PROVE  /\ Doing = "deallocate"
         /\ UNCHANGED <<pnp, saw, gen, store, seen>>
         /\ fdo' = [fdo EXCEPT !.scratch = FALSE] /\ xen' = NULL
         /\ DeallocateXenInterface
         /\ Onward /\ Doing' = "removed"
<1>1. \A a : At("pnp", a) => Doing = a
  BY Zenon DEF At, Doing
<1>. QED BY <1>1, NextSteps, Zenon DEF Deallocate

\* The end of XenLowerDisonnectBackend.
LEMMA UnregisterDoes ==
  ASSUME LifeTypes, Control, Unregister
  PROVE  /\ Doing = "unregister"
         /\ UNCHANGED <<pnp, saw, gen, fdo, place, store, seen, history>>
         /\ IF xen.handler
            THEN /\ xen' = [xen EXCEPT !.handler = FALSE]
                 /\ ledger' = [ledger EXCEPT !.handler = @ - 1]
            ELSE UNCHANGED <<xen, ledger>>
         /\ Onward /\ Doing' \in {"idle", "dx", "remove"}
<1>1. \A a : At("pnp", a) => Doing = a
  BY Zenon DEF At, Doing
<1>. QED BY <1>1, NextSteps, Zenon DEF Unregister

\* XenConfigure begins, or has nothing to do.
LEMMA ConfigureDoes ==
  ASSUME LifeTypes, Control, Configure
  PROVE  /\ Doing = "configure"
         /\ UNCHANGED <<pnp, saw, fdo, store, seen>>
         /\ \/ /\ fdo.configured /\ UNCHANGED <<xen, gen, ledger, place, history>>
               /\ Onward /\ Doing' \in {"getUsbConfigData", "startTimer"}
            \/ /\ ~fdo.configured /\ DeallocateXenInterface /\ gen' = gen + 1 /\ xen' = NoXen
               /\ Onward /\ Doing' = "initialize"
            \/ /\ ~fdo.configured /\ DeallocateXenInterface /\ gen' = gen /\ xen' = NULL
               /\ Failed
<1>1. /\ Doing = "configure"
      /\ fdo.configured => Onward /\ Doing' \in {"getUsbConfigData", "startTimer"}
  BY ConfigureMoves, Zenon
<1>2. Fails => Failed
  BY NewCallbacks, Zenon DEF Failed
<1>3. /\ At("pnp", "configure") /\ UNCHANGED <<pnp, saw, fdo, store, seen>>
      /\ \/ fdo.configured /\ UNCHANGED <<xen, gen, ledger, place, history>>
         \/ /\ ~fdo.configured /\ DeallocateXenInterface /\ gen' = gen + 1 /\ xen' = NoXen
            /\ Continue("pnp")
         \/ ~fdo.configured /\ DeallocateXenInterface /\ gen' = gen /\ xen' = NULL /\ Fails
  BY Zenon DEF Configure
<1>. QED BY <1>1, <1>2, <1>3, NextSteps, Zenon

\* A wait of XenLowerDisonnectBackend, or the next state it takes.
LEMMA DisonnectDoes ==
  ASSUME LifeTypes, Control, DisonnectBackend
  PROVE  /\ UNCHANGED <<pnp, xenVars, fdo, place, history>>
         /\ \/ /\ Doing \in {"stabilise", "awaitChange"}
               /\ seen' = store.be /\ UNCHANGED <<todo, store>>
            \/ /\ Doing = "stabilise" /\ seen' = store.be /\ UNCHANGED store
               /\ Onward /\ Doing' = "closing"
            \/ /\ Doing = "awaitChange" /\ seen' = store.be /\ UNCHANGED store
               /\ Onward /\ Doing' \in {"closing", "closed"}
            \/ /\ Doing \in {"closing", "closed"} /\ UNCHANGED seen
               /\ store' = [store EXCEPT !.fe = Doing]
               /\ Onward /\ Doing' = "awaitChange"
            \/ /\ Doing = "closing" /\ UNCHANGED <<seen, store>>
               /\ Onward /\ Doing' = "closed"
            \/ /\ Doing = "closed" /\ seen \in {"closed", "unknown"} /\ UNCHANGED <<seen, store>>
               /\ Onward /\ Doing' = "unregister"
<1>1. UNCHANGED <<pnp, xenVars, fdo, place, history>>
  BY Zenon DEF DisonnectBackend, Await, AskFor
<1>2. \A a : At("pnp", a) => Doing = a
  BY Zenon DEF At, Doing
<1>3. CASE Await("stabilise", store.be # "initialising")
  BY <1>1, <1>2, <1>3, NextSteps, Zenon DEF Await
<1>4. CASE Await("awaitChange", TRUE)
  BY <1>1, <1>2, <1>4, NextSteps, Zenon DEF Await
<1>5. CASE AskFor("closing", {"closing", "closed", "unknown"})
  <2>1. /\ Doing = "closing" /\ Onward
        /\ seen \in {"closing", "closed", "unknown"} => Doing' = "closed"
        /\ seen \notin {"closing", "closed", "unknown"} => Doing' = "awaitChange"
    BY <1>5, AskForMoves
  <2>2. /\ seen' = seen
        /\ seen \in {"closing", "closed", "unknown"} => store' = store
        /\ seen \notin {"closing", "closed", "unknown"}
             => store' = [store EXCEPT !.fe = "closing"]
    BY <1>5, Zenon DEF AskFor
  <2>. QED BY <1>1, <2>1, <2>2, Zenon
<1>6. CASE AskFor("closed", {"closed", "unknown"})
  <2>1. /\ Doing = "closed" /\ Onward
        /\ seen \in {"closed", "unknown"} => Doing' = "unregister"
        /\ seen \notin {"closed", "unknown"} => Doing' = "awaitChange"
    BY <1>6, AskForMoves
  <2>2. /\ seen' = seen
        /\ seen \in {"closed", "unknown"} => store' = store
        /\ seen \notin {"closed", "unknown"} => store' = [store EXCEPT !.fe = "closed"]
    BY <1>6, Zenon DEF AskFor
  <2>. QED BY <1>1, <2>1, <2>2, Zenon
<1>. QED BY <1>3, <1>4, <1>5, <1>6, Zenon DEF DisonnectBackend

\* CleanupDisconnectedDevice begins, or has been here before.
LEMMA CleanupDoes ==
  ASSUME LifeTypes, Control, Cleanup
  PROVE  /\ Doing = "cleanup" /\ Onward
         /\ UNCHANGED <<pnp, xenVars, place, store, seen, history>>
         /\ fdo' = [fdo EXCEPT !.disconnected = TRUE]
         /\ ~fdo.disconnected => /\ Doing' = "stopTimer"
                                 /\ Ahead("sweep") => Ahead("sweep")'
                                 /\ UnplugFirst => UnplugFirst'
         /\ fdo.disconnected => /\ Doing' \in {"stopTimer", "d0", "remove", "deallocate"}
                                /\ ~Ahead("sweep")'
BY CleanupMoves, Zenon DEF Cleanup

\* The PnP thread looks at the port.
LEMMA CheckPortDoes ==
  ASSUME LifeTypes, Control, CheckPort("pnp")
  PROVE  /\ Doing = "checkPort"
         /\ UNCHANGED <<pnp, xen, gen, ledger, fdo, place, store, seen, history>>
         /\ \/ xen = NULL /\ UNCHANGED saw /\ Begun("crashed", "crashed") /\ NothingNext
            \/ /\ xen # NULL /\ xen.port /\ saw' = [saw EXCEPT !["pnp"] = gen]
               /\ Onward /\ Doing' = "closePort"
            \/ /\ xen # NULL /\ ~xen.port /\ saw' = [saw EXCEPT !["pnp"] = 0]
               /\ Onward /\ Doing' \in {"unplug", "removeChildren", "stabilise"}
<1>1. /\ UNCHANGED <<pnp, xen, gen, ledger, fdo, place, store, seen, history>>
      /\ xen = NULL => UNCHANGED saw
      /\ xen # NULL /\ xen.port => saw' = [saw EXCEPT !["pnp"] = gen]
      /\ xen # NULL /\ ~xen.port => saw' = [saw EXCEPT !["pnp"] = 0]
  BY Zenon DEF CheckPort
<1>. QED BY <1>1, CheckPortMoves, Zenon

\* The PnP thread in FdoUnplugDevice.
LEMMA UnplugDoes ==
  ASSUME LifeTypes, Control, Unplug("pnp")
  PROVE  /\ Doing = "unplug" /\ Onward
         /\ UNCHANGED <<pnp, xenVars, place, store, seen, history>>
         /\ fdo' = [fdo EXCEPT !.unplugged = TRUE]
         /\ Doing' \in {"sweep", "failed", "checkPort"}
<1>1. /\ UNCHANGED <<pnp, xenVars, place, store, seen, history>>
      /\ fdo' = [fdo EXCEPT !.unplugged = TRUE]
  BY Zenon DEF Unplug
<1>2. Doing = "unplug" /\ Onward /\ Doing' \in {"sweep", "failed", "checkPort"}
  BY UnplugMoves
<1>. QED BY <1>1, <1>2

\* XenDeconfigure begins, or has nothing to do.
LEMMA DeconfigureDoes ==
  ASSUME LifeTypes, Control, Deconfigure
  PROVE  /\ Doing = "deconfigure" /\ Onward
         /\ UNCHANGED <<pnp, xenVars, place, store, history>>
         /\ fdo' = [fdo EXCEPT !.configured = FALSE]
         /\ seen' = "unknown"
         /\ fdo.configured  => Doing' = "checkPort" /\ Parting'
         /\ ~fdo.configured => Doing' \in {"idle", "dx", "remove"}
BY DeconfigureMoves, Zenon DEF Deconfigure

\* A callback has returned.
LEMMA ReturnedDoes ==
  ASSUME LifeTypes, Control, Returned
  PROVE  /\ Doing \in Ends \ {"remove"} /\ pnp' = Doing
         /\ UNCHANGED <<xenVars, fdo, place, store, seen, history>>
         /\ \/ Onward /\ Doing' = "idle"
            \/ Doing = "failed" /\ Begun("stopTimer", "unregister") /\ NothingNext
BY ReturnedMoves, Zenon DEF Returned

\* D0 entry decides what it has to do.
LEMMA OnlineDoes ==
  ASSUME LifeTypes, Control, Online
  PROVE  /\ Doing = "online" /\ ~Removing
         /\ UNCHANGED <<pnp, xenVars, fdo, place, store, seen, history>>
         /\ \/ ~XenCheckOnline /\ Begun("cleanup", "d0") /\ SweepsNext
            \/ XenCheckOnline /\ fdo.configured /\ Onward /\ Doing' = "d0"
            \/ /\ XenCheckOnline /\ ~fdo.configured
               /\ Begun("configure", "d0") /\ NothingNext
BY OnlineMoves, Zenon DEF Online

\* What the framework does between callbacks.
LEMMA FrameworkDoes ==
  ASSUME LifeTypes, Control, PowerUp \/ PowerDown \/ SurpriseRemoval \/ Remove
  PROVE  /\ Doing \in {"idle", "remove"}
         /\ pnp \notin {"removed", "crashed"}
         /\ UNCHANGED <<xenVars, fdo, place, store, seen>>
         /\ \/ /\ pnp \in {"added", "dx"} /\ (fdo.configured \/ gen < MaxGen) /\ Doing = "idle"
               /\ UNCHANGED <<pnp, history>>
               /\ Begun("online", "d0") /\ NothingNext
            \/ /\ pnp = "d0" /\ pnp' = "stopping" /\ Doing = "idle"
               /\ RecordIf("stoppedBusy", \E r \in Requests : place[r] = "ring")
               /\ Begun("stopTimer", "dx") /\ NothingNext
            \/ /\ pnp \in {"d0", "dx"} /\ Doing = "idle"
               /\ UNCHANGED <<pnp, history>>
               /\ Begun("cleanup", "remove") /\ SweepsNext
            \/ /\ UNCHANGED pnp
               /\ RecordIf("removedConnected", fdo.configured)
               /\ Begun("cleanup", "removed") /\ Ahead("sweep")' /\ UnplugFirst'
<1>1. /\ Idle("pnp") => Doing = "idle"
      /\ At("pnp", "remove") => Doing = "remove"
      /\ pnp \in {"removed", "crashed"} => Doing = "idle"
      /\ \A x \in {"d0", "dx", "added", "failed"} : x \notin {"removed", "crashed"}
  <2>1. /\ Idle("pnp") => Doing = "idle"
        /\ At("pnp", "remove") => Doing = "remove"
        /\ pnp \in {"removed", "crashed"} => Doing = "idle"
    BY Positions, Zenon DEF At, Doing, Idle
  <2>. QED BY <2>1
<1>2. CASE PowerUp
  <2>1. /\ pnp \in {"added", "dx"} /\ Idle("pnp") /\ (fdo.configured \/ gen < MaxGen)
        /\ UNCHANGED <<pnp, xenVars, fdo, place, store, seen, history>>
    BY <1>2, Zenon DEF PowerUp
  <2>2. Begun("online", "d0") /\ NothingNext
    BY <1>2, PowerMoves, Zenon
  <2>. QED BY <1>1, <2>1, <2>2, Zenon
<1>3. CASE PowerDown
  <2>1. /\ pnp = "d0" /\ pnp' = "stopping" /\ Idle("pnp")
        /\ RecordIf("stoppedBusy", \E r \in Requests : place[r] = "ring")
        /\ UNCHANGED <<xenVars, fdo, place, store, seen>>
    BY <1>3, Zenon DEF PowerDown
  <2>2. Begun("stopTimer", "dx") /\ NothingNext
    BY <1>3, PowerMoves, Zenon
  <2>3. pnp \notin {"removed", "crashed"}
    BY <1>1, <2>1, Zenon
  <2>. QED BY <1>1, <2>1, <2>2, <2>3, Zenon
<1>4. CASE SurpriseRemoval
  <2>1. /\ pnp \in {"d0", "dx"} /\ Idle("pnp")
        /\ UNCHANGED <<pnp, xenVars, fdo, place, store, seen, history>>
    BY <1>4, Zenon DEF SurpriseRemoval
  <2>2. Begun("cleanup", "remove") /\ SweepsNext
    BY <1>4, PowerMoves, Zenon
  <2>. QED BY <1>1, <2>1, <2>2, Zenon
<1>5. CASE Remove
  <2>1. /\ At("pnp", "remove") \/ (pnp \in {"added", "dx", "failed"} /\ Idle("pnp"))
        /\ RecordIf("removedConnected", fdo.configured)
        /\ UNCHANGED <<pnp, xenVars, fdo, place, store, seen>>
    BY <1>5, Zenon DEF Remove
  <2>2. Begun("cleanup", "removed") /\ Ahead("sweep")' /\ UnplugFirst'
    BY <1>5, PowerMoves, Zenon
  <2>3. Doing \in {"idle", "remove"} /\ pnp \notin {"removed", "crashed"}
    <3>1. CASE At("pnp", "remove")
      <4>1. Doing = "remove" /\ "remove" # "idle"
        BY <1>1, <3>1, Zenon
      <4>. QED BY <1>1, <4>1
    <3>2. CASE pnp \in {"added", "dx", "failed"} /\ Idle("pnp")
      BY <1>1, <3>2
    <3>. QED BY <2>1, <3>1, <3>2, Zenon
  <2>. QED BY <2>1, <2>2, <2>3, Zenon
<1>. QED BY <1>2, <1>3, <1>4, <1>5, Zenon

\* Where a step of the PnP thread takes the callbacks.
LEMMA PnpTakes ==
  ASSUME LifeTypes, Control, ByPnp
  PROVE  /\ PnpMoved \/ UNCHANGED todo
         /\ pnp' \in {"removed", "crashed"} => Doing' = "idle"
         /\ pnp' \in {"adding", "added", "d0", "stopping", "dx", "failed", "removed", "crashed"}
<1> USE DEF Onward, Begun, Failed
<1>1. /\ Doing = "idle" => ~(PnpStep \/ ThreadStep("pnp"))
      /\ pnp \in {"removed", "crashed"} => Doing = "idle"
      /\ Idle("pnp") <=> Doing = "idle"
      /\ pnp \in {"adding", "added", "d0", "stopping", "dx", "failed", "removed", "crashed"}
  <2>1. /\ pnp \in {"removed", "crashed"} => Doing = "idle"
        /\ Idle("pnp") <=> Doing = "idle"
    BY Positions, Zenon
  <2>2. Doing = "idle" => \A a : ~At("pnp", a)
    BY <2>1, Zenon DEF Idle, At
  <2>3. PnpStep => \E a : At("pnp", a)
    BY Zenon DEF PnpStep, DeviceAdd, Configure, Initialize, Connect, AwaitInitWait, Publish,
       AwaitConnected, Configured, GetUsbConfigData, CreateRootHubPdo, Returned, Online,
       StartTimer, Cleanup, StopTimer, Sweep, Deallocate, Deconfigure, DisonnectBackend, Await,
       AskFor, Unregister
  <2>4. ThreadStep("pnp") => \E a : At("pnp", a)
    BY Zenon DEF ThreadStep, CheckPort, ClosePort, Unplug, RemoveAllChildDevices
  <2>. QED BY <2>1, <2>2, <2>3, <2>4 DEF LifeTypes
<1>2. CASE Returned
  <2>1. Doing \in Ends \ {"remove"} /\ pnp' = Doing
        /\ \/ Onward /\ Doing' = "idle"
           \/ Doing = "failed" /\ Begun("stopTimer", "unregister") /\ NothingNext
    BY <1>2, ReturnedMoves, Zenon
  <2>2. PnpMoved
    BY <2>1
  <2>. QED BY <2>1, <2>2 DEF Ends
<1>3. CASE PowerDown
  <2>1. Begun("stopTimer", "dx") /\ pnp' = "stopping"
    BY <1>3, PowerMoves, Zenon DEF PowerDown
  <2>. QED BY <2>1
<1>4. CASE PowerUp \/ SurpriseRemoval \/ Remove
  <2>1. PnpMoved
    BY <1>4, PowerMoves, Zenon
  <2>2. pnp' = pnp
    BY <1>4, Zenon DEF PowerUp, SurpriseRemoval, Remove
  <2>3. pnp \notin {"removed", "crashed"}
    <3>1. Remove => At("pnp", "remove") \/ pnp \in {"added", "dx", "failed"}
      BY Zenon DEF Remove
    <3>2. At("pnp", "remove") => ~Idle("pnp")
      BY Zenon DEF At, Idle
    <3>3. PowerUp \/ SurpriseRemoval => pnp \in {"added", "d0", "dx"}
      BY DEF PowerUp, SurpriseRemoval
    <3>. QED BY <1>1, <1>4, <3>1, <3>2, <3>3
  <2>. QED BY <1>1, <2>1, <2>2, <2>3
<1>5. CASE (PnpStep /\ ~Returned) \/ ThreadStep("pnp")
  <2>1. pnp' = pnp
    BY <1>5, Zenon DEF PnpStep, DeviceAdd, Configure, Initialize, Connect, AwaitInitWait, Publish,
       AwaitConnected, Configured, GetUsbConfigData, CreateRootHubPdo, Online,
       StartTimer, Cleanup, StopTimer, Sweep, Deallocate, Deconfigure, DisonnectBackend, Await,
       AskFor, Unregister, ThreadStep, CheckPort, ClosePort, Unplug, RemoveAllChildDevices
  <2>2. PnpMoved \/ UNCHANGED todo
    <3>1. ASSUME DeviceAdd \/ Initialize \/ Connect \/ AwaitInitWait \/ Publish \/ AwaitConnected
          PROVE  PnpMoved \/ UNCHANGED todo
      BY <3>1, DeviceAddDoes, InitializeDoes, ConnectDoes, AwaitInitWaitDoes, PublishDoes,
         AwaitConnectedDoes, Zenon
    <3>2. ASSUME Configured \/ GetUsbConfigData \/ CreateRootHubPdo \/ StartTimer PROVE PnpMoved
      BY <3>2, ConfiguredDoes, GetUsbConfigDataDoes, CreateRootHubPdoDoes, StartTimerDoes, Zenon
    <3>3. ASSUME Configure PROVE PnpMoved
      BY <3>3, ConfigureMoves, Zenon
    <3>4. ASSUME Online PROVE PnpMoved
      BY <3>4, OnlineMoves, Zenon
    <3>5. ASSUME Cleanup PROVE PnpMoved
      BY <3>5, CleanupMoves, Zenon
    <3>6. ASSUME StopTimer \/ Sweep \/ Deallocate \/ DisonnectBackend \/ Unregister
          PROVE  PnpMoved \/ UNCHANGED todo
      BY <3>6, StopTimerDoes, SweepDoes, DeallocateDoes, DisonnectDoes, UnregisterDoes, Zenon
    <3>7. ASSUME Deconfigure PROVE PnpMoved
      BY <3>7, DeconfigureMoves, Zenon
    <3>8. ASSUME ThreadStep("pnp") PROVE PnpMoved
      BY <3>8, CheckPortMoves, UnplugMoves, ClosePortDoes, RemoveChildrenDoes, Zenon DEF ThreadStep
    <3>. QED BY <1>5, <3>1, <3>2, <3>3, <3>4, <3>5, <3>6, <3>7, <3>8, Zenon DEF PnpStep
  <2>. QED BY <1>1, <1>5, <2>1, <2>2
<1>. QED BY <1>2, <1>3, <1>4, <1>5, Zenon DEF ByPnp

\* What the other threads and the backend leave alone.
LEMMA AsideTakes ==
  ASSUME LifeTypes, Control, Aside
  PROVE  /\ Steady /\ UNCHANGED <<pnp, gen>>
         /\ todo'["waiter"] # <<>> => "gaveUp" \in history'
<1>1. \A t \in {"timer", "waiter"} :
        ThreadStep(t) \/ TimerFires \/ TimerStep => UNCHANGED <<pnp, gen>>
  BY Zenon DEF ThreadStep, CheckPort, ClosePort, Unplug, RemoveAllChildDevices,
     TimerFires, TimerStep, TimerReadsState, TimerDecides, xenVars
<1>2. history \subseteq history'
  BY HistoryGrows, Zenon DEF Aside, LifeNext, Threads
<1>3. todo["waiter"] # <<>> => "gaveUp" \in history
  BY Zenon DEF Control
<1>4. {<<>>, <<"readState">>, <<"gone">>, <<"restart">>, <<"unplug">>, <<"crashed">>, UnplugSteps,
       <<"closePort", "removeChildren">>, <<"removeChildren">>} \subseteq Rests
  BY DEF Rests
<1>5. ASSUME NEW t \in {"timer", "waiter"}, ThreadStep(t)
      PROVE  Steady /\ (todo'["waiter"] # <<>> => "gaveUp" \in history')
  <2>1. PICK x \in Rests : Goto(t, x)
    <3>1. ASSUME CheckPort(t) PROVE \E x \in Rests : Goto(t, x)
      BY <1>4, <3>1, BesideMoves
    <3>2. ASSUME ClosePort(t) PROVE \E x \in Rests : Goto(t, x)
      BY <1>4, <3>2, BesideMoves
    <3>3. ASSUME Unplug(t) PROVE \E x \in Rests : Goto(t, x)
      BY <1>4, <3>3, BesideMoves
    <3>4. ASSUME RemoveAllChildDevices(t) PROVE \E x \in Rests : Goto(t, x)
      BY <1>4, <3>4, BesideMoves
    <3>. QED BY <1>5, <3>1, <3>2, <3>3, <3>4, Zenon DEF ThreadStep
  <2>2. todo[t] # <<>>
    BY <1>5, Zenon DEF ThreadStep, CheckPort, ClosePort, Unplug, RemoveAllChildDevices, At
  <2>3. Steady /\ \A u \in Threads : u # t => todo'[u] = todo[u]
    BY <2>1, Besides, Zenon
  <2>4. todo'["waiter"] # <<>> => todo["waiter"] # <<>>
    BY <2>2, <2>3, Zenon DEF Threads
  <2>. QED BY <1>2, <1>3, <2>3, <2>4, Zenon
<1>6. ASSUME TimerFires \/ TimerStep
      PROVE  Steady /\ (todo'["waiter"] # <<>> => "gaveUp" \in history')
  <2>1. PICK x \in Rests : Goto("timer", x)
    <3>1. ASSUME TimerFires PROVE Goto("timer", <<"readState">>)
      BY <3>1, Zenon DEF TimerFires
    <3>2. ASSUME TimerReadsState PROVE \E x \in Rests : Goto("timer", x)
      BY <1>4, <3>2, BesideMoves
    <3>3. ASSUME TimerDecides PROVE \E x \in Rests : Goto("timer", x)
      BY <1>4, <3>3, BesideMoves
    <3>. QED BY <1>4, <1>6, <3>1, <3>2, <3>3, Zenon DEF TimerStep
  <2>2. Steady /\ \A u \in Threads : u # "timer" => todo'[u] = todo[u]
    BY <2>1, Besides, Zenon
  <2>3. todo'["waiter"] = todo["waiter"]
    <3>1. "waiter" # "timer" /\ "waiter" \in Threads
      BY DEF Threads
    <3>. QED BY <2>2, <3>1, Zenon
  <2>. QED BY <1>2, <1>3, <2>2, <2>3, Zenon
<1>7. ASSUME WaitForScratchCompletion
      PROVE  Steady /\ UNCHANGED <<pnp, gen>> /\ "gaveUp" \in history'
  <2>1. Goto("waiter", <<"unplug">>) /\ Record("gaveUp") /\ UNCHANGED <<pnp, gen>>
    BY <1>7, Zenon DEF WaitForScratchCompletion, xenVars
  <2>2. <<"unplug">> \in Rests
    BY <1>4
  <2>3. Steady
    BY <2>1, <2>2, Besides, Zenon
  <2>. QED BY <2>1, <2>3, Zenon DEF Record
<1>8. ASSUME \/ \E r \in Requests : Submit(r) \/ Answer(r)
             \/ BackendFollows \/ BackendRestarts \/ Detach \/ BackendGoes
      PROVE  /\ Steady /\ UNCHANGED <<pnp, gen>>
             /\ todo'["waiter"] # <<>> => "gaveUp" \in history'
  <2>1. UNCHANGED <<todo, pnp, gen>>
    BY <1>8, Zenon DEF Submit, Answer, BackendFollows, BackendRestarts, Detach, BackendGoes,
       xenVars
  <2>2. todo \in [Threads -> Seq(Steps)] /\ todo["timer"] \in Rests /\ todo["waiter"] \in Rests
    BY Zenon DEF LifeTypes, Control
  <2>. QED BY <1>2, <1>3, <2>1, <2>2, Zenon DEF Steady
<1>. QED BY <1>1, <1>5, <1>6, <1>7, <1>8, Zenon DEF Aside

\* Rests stay orderly.
LEMMA ControlKept ==
  ASSUME LifeTypes, Control, LifeNext
  PROVE  todo' \in [Threads -> Seq(Steps)] /\ Control'
<1>1. todo \in [Threads -> Seq(Steps)] /\ Orderly(todo["pnp"]) /\ todo["timer"] \in Rests
      /\ todo["waiter"] \in Rests /\ (todo["waiter"] # <<>> => "gaveUp" \in history)
      /\ (pnp \in {"removed", "crashed"} => Doing = "idle")
  BY Zenon DEF LifeTypes, Control
<1>2. history \subseteq history'
  BY HistoryGrows
<1>3. CASE ByPnp
  <2>1. PnpMoved \/ UNCHANGED todo
    BY <1>3, PnpTakes, Zenon
  <2>2. pnp' \in {"removed", "crashed"} => Doing' = "idle"
    BY <1>3, PnpTakes, Zenon
  <2>3. /\ todo' \in [Threads -> Seq(Steps)] /\ Orderly(todo'["pnp"])
        /\ todo'["timer"] = todo["timer"] /\ todo'["waiter"] = todo["waiter"]
    <3>1. CASE PnpMoved
      BY <3>1, Zenon DEF PnpMoved, Threads
    <3>2. CASE UNCHANGED todo
      BY <1>1, <3>2, Zenon
    <3>. QED BY <2>1, <3>1, <3>2
  <2>. QED BY <1>1, <1>2, <2>2, <2>3, Zenon DEF Control
<1>4. CASE Aside
  <2>1. /\ Steady /\ UNCHANGED <<pnp, gen>>
        /\ todo'["waiter"] # <<>> => "gaveUp" \in history'
    BY <1>4, AsideTakes, Zenon
  <2>2. Doing' = Doing
    BY <2>1, Unmoved, Zenon DEF Steady
  <2>. QED BY <1>1, <2>1, <2>2, Zenon DEF Steady, Control
<1>. QED BY <1>3, <1>4, Actors

--------------------------------------------------------------------------------
(* What the steps do to the ledger and to the interface, field by field.    *)

\* XenDeviceInitialize in the ledger.
LEMMA RingHad ==
  ASSUME NEW l \in Ledgers, NEW m, m = [l EXCEPT !.page = @ + 1, !.grant = @ + 1, !.port = @ + 1]
  PROVE  /\ m \in Ledgers
         /\ m.page = l.page + 1
         /\ m.grant = l.grant + 1
         /\ m.port = l.port + 1
         /\ m.handler = l.handler
<1>1. m = [[[l EXCEPT !.page = @ + 1] EXCEPT !.grant = @ + 1] EXCEPT !.port = @ + 1]
  OBVIOUS
<1>2. \A k \in Ledgers : /\ [k EXCEPT !.page = @ + 1] \in Ledgers
                         /\ [k EXCEPT !.grant = @ + 1] \in Ledgers
                         /\ [k EXCEPT !.port = @ + 1] \in Ledgers
  BY DEF Ledgers
<1>3. m \in Ledgers
  BY <1>1, <1>2, Zenon
<1>4. m.page = l.page + 1
  BY DEF Ledgers
<1>5. m.grant = l.grant + 1
  BY DEF Ledgers
<1>6. m.port = l.port + 1
  BY DEF Ledgers
<1>7. m.handler = l.handler
  BY DEF Ledgers
<1>. QED BY <1>3, <1>4, <1>5, <1>6, <1>7, Zenon

\* XenDeviceInitialize, when it fails after the page was had.
LEMMA GrantHad ==
  ASSUME NEW l \in Ledgers, NEW m, m = [l EXCEPT !.grant = @ + 1]
  PROVE  /\ m \in Ledgers
         /\ m.page = l.page
         /\ m.grant = l.grant + 1
         /\ m.port = l.port
         /\ m.handler = l.handler
<1>1. m \in Ledgers
  BY DEF Ledgers
<1>2. m.page = l.page
  BY DEF Ledgers
<1>3. m.grant = l.grant + 1
  BY DEF Ledgers
<1>4. m.port = l.port
  BY DEF Ledgers
<1>5. m.handler = l.handler
  BY DEF Ledgers
<1>. QED BY <1>1, <1>2, <1>3, <1>4, <1>5, Zenon

\* A port is closed.
LEMMA PortGiven ==
  ASSUME NEW l \in Ledgers, NEW m, m = [l EXCEPT !.port = @ - 1]
  PROVE  /\ m \in Ledgers
         /\ m.page = l.page
         /\ m.grant = l.grant
         /\ m.port = l.port - 1
         /\ m.handler = l.handler
<1>1. m \in Ledgers
  BY DEF Ledgers
<1>2. m.page = l.page
  BY DEF Ledgers
<1>3. m.grant = l.grant
  BY DEF Ledgers
<1>4. m.port = l.port - 1
  BY DEF Ledgers
<1>5. m.handler = l.handler
  BY DEF Ledgers
<1>. QED BY <1>1, <1>2, <1>3, <1>4, <1>5, Zenon

\* A suspend handler is registered.
LEMMA HandlerHad ==
  ASSUME NEW l \in Ledgers, NEW m, m = [l EXCEPT !.handler = @ + 1]
  PROVE  /\ m \in Ledgers
         /\ m.page = l.page
         /\ m.grant = l.grant
         /\ m.port = l.port
         /\ m.handler = l.handler + 1
<1>1. m \in Ledgers
  BY DEF Ledgers
<1>2. m.page = l.page
  BY DEF Ledgers
<1>3. m.grant = l.grant
  BY DEF Ledgers
<1>4. m.port = l.port
  BY DEF Ledgers
<1>5. m.handler = l.handler + 1
  BY DEF Ledgers
<1>. QED BY <1>1, <1>2, <1>3, <1>4, <1>5, Zenon

\* A suspend handler is given back.
LEMMA HandlerGiven ==
  ASSUME NEW l \in Ledgers, NEW m, m = [l EXCEPT !.handler = @ - 1]
  PROVE  /\ m \in Ledgers
         /\ m.page = l.page
         /\ m.grant = l.grant
         /\ m.port = l.port
         /\ m.handler = l.handler - 1
<1>1. m \in Ledgers
  BY DEF Ledgers
<1>2. m.page = l.page
  BY DEF Ledgers
<1>3. m.grant = l.grant
  BY DEF Ledgers
<1>4. m.port = l.port
  BY DEF Ledgers
<1>5. m.handler = l.handler - 1
  BY DEF Ledgers
<1>. QED BY <1>1, <1>2, <1>3, <1>4, <1>5, Zenon

\* XenDeviceInitialize in the interface.
LEMMA RingMade ==
  ASSUME NEW l \in Interfaces, NEW m,
         m = [l EXCEPT !.ring = "live", !.granted = TRUE, !.port = TRUE]
  PROVE  /\ m \in Interfaces
         /\ m.ring = "live"
         /\ m.granted = TRUE
         /\ m.port = TRUE
         /\ m.handler = l.handler
<1>1. m \in Interfaces
  BY DEF Interfaces
<1>2. m.ring = "live"
  BY DEF Interfaces
<1>3. m.granted = TRUE
  BY DEF Interfaces
<1>4. m.port = TRUE
  BY DEF Interfaces
<1>5. m.handler = l.handler
  BY DEF Interfaces
<1>. QED BY <1>1, <1>2, <1>3, <1>4, <1>5, Zenon

\* XenDeviceInitialize in the interface, when it fails after the page was had.
LEMMA RingBroken ==
  ASSUME NEW l \in Interfaces, NEW m, m = [l EXCEPT !.ring = "freed", !.granted = TRUE]
  PROVE  /\ m \in Interfaces
         /\ m.ring = "freed"
         /\ m.granted = TRUE
         /\ m.port = l.port
         /\ m.handler = l.handler
<1>1. m \in Interfaces
  BY DEF Interfaces
<1>2. m.ring = "freed"
  BY DEF Interfaces
<1>3. m.granted = TRUE
  BY DEF Interfaces
<1>4. m.port = l.port
  BY DEF Interfaces
<1>5. m.handler = l.handler
  BY DEF Interfaces
<1>. QED BY <1>1, <1>2, <1>3, <1>4, <1>5, Zenon

\* The port in the interface is closed.
LEMMA PortShut ==
  ASSUME NEW l \in Interfaces, NEW m, m = [l EXCEPT !.port = FALSE]
  PROVE  /\ m \in Interfaces
         /\ m.ring = l.ring
         /\ m.granted = l.granted
         /\ m.port = FALSE
         /\ m.handler = l.handler
<1>1. m \in Interfaces
  BY DEF Interfaces
<1>2. m.ring = l.ring
  BY DEF Interfaces
<1>3. m.granted = l.granted
  BY DEF Interfaces
<1>4. m.port = FALSE
  BY DEF Interfaces
<1>5. m.handler = l.handler
  BY DEF Interfaces
<1>. QED BY <1>1, <1>2, <1>3, <1>4, <1>5, Zenon

\* The handler in the interface is registered.
LEMMA HandlerSet ==
  ASSUME NEW l \in Interfaces, NEW m, m = [l EXCEPT !.handler = TRUE]
  PROVE  /\ m \in Interfaces
         /\ m.ring = l.ring
         /\ m.granted = l.granted
         /\ m.port = l.port
         /\ m.handler = TRUE
<1>1. m \in Interfaces
  BY DEF Interfaces
<1>2. m.ring = l.ring
  BY DEF Interfaces
<1>3. m.granted = l.granted
  BY DEF Interfaces
<1>4. m.port = l.port
  BY DEF Interfaces
<1>5. m.handler = TRUE
  BY DEF Interfaces
<1>. QED BY <1>1, <1>2, <1>3, <1>4, <1>5, Zenon

\* The handler in the interface is given back.
LEMMA HandlerCleared ==
  ASSUME NEW l \in Interfaces, NEW m, m = [l EXCEPT !.handler = FALSE]
  PROVE  /\ m \in Interfaces
         /\ m.ring = l.ring
         /\ m.granted = l.granted
         /\ m.port = l.port
         /\ m.handler = FALSE
<1>1. m \in Interfaces
  BY DEF Interfaces
<1>2. m.ring = l.ring
  BY DEF Interfaces
<1>3. m.granted = l.granted
  BY DEF Interfaces
<1>4. m.port = l.port
  BY DEF Interfaces
<1>5. m.handler = FALSE
  BY DEF Interfaces
<1>. QED BY <1>1, <1>2, <1>3, <1>4, <1>5, Zenon

\* RegisterSuspendHandler.
LEMMA HandlerMoves ==
  ASSUME xen \in Interfaces, ledger \in Ledgers, RegisterSuspendHandler
  PROVE  /\ xen' \in Interfaces /\ ledger' \in Ledgers
         /\ xen'.ring = xen.ring /\ xen'.granted = xen.granted /\ xen'.port = xen.port
         /\ xen'.handler
         /\ ledger'.page = ledger.page /\ ledger'.grant = ledger.grant
         /\ ledger'.port = ledger.port /\ ledger'.handler = ledger.handler + 1
<1>1. /\ xen' = [xen EXCEPT !.handler = TRUE]
      /\ ledger' = [ledger EXCEPT !.handler = @ + 1]
  BY Zenon DEF RegisterSuspendHandler
<1>. QED BY <1>1, HandlerHad, HandlerSet, Zenon

--------------------------------------------------------------------------------
(* Types.                                                                   *)

\* What an interface gives back leaves numbers in the ledger.
LEMMA DeallocateTypes ==
  ASSUME Data, DeallocateXenInterface
  PROVE  ledger' \in Ledgers /\ place' \in [Requests -> {"none", "ring", "done", "lost"}]
<1>1. CASE xen = NULL
  <2>1. ledger' = ledger /\ place' = place
    BY <1>1, Zenon DEF DeallocateXenInterface
  <2>. QED BY <2>1 DEF Data
<1>2. CASE xen # NULL
  <2>1. /\ ledger' = Released
        /\ place' = [r \in Requests |-> IF place[r] = "ring" THEN "lost" ELSE place[r]]
    BY <1>2, Zenon DEF DeallocateXenInterface
  <2>2. ledger.page \in Int /\ ledger.grant \in Int /\ ledger.port \in Int
        /\ ledger.handler \in Int
    BY DEF Data, Ledgers
  <2>3. ledger' \in Ledgers
    BY <2>1, <2>2 DEF Released, Ledgers
  <2>. QED BY <2>1, <2>3 DEF Data
<1>. QED BY <1>1, <1>2

\* The data after a step of the PnP thread.
LEMMA PnpTypes ==
  ASSUME LifeInv, ByPnp
  PROVE  Data'
<1>1. LifeTypes /\ Control /\ Data
  BY Zenon DEF LifeInv, LifeTypes
<1>2. /\ Doing = "configure" /\ ~fdo.configured => gen < MaxGen
      /\ Doing = "initialize" => xen = NoXen
      /\ Doing \in {"connect", "awaitInitWait", "publish", "awaitConnected"} => xen # NULL
      /\ Doing = "unregister" => xen # NULL
  <2>1. Accounts
    BY Zenon DEF LifeInv
  <2>2. /\ Doing \in {"online", "configure"} => fdo.configured \/ gen < MaxGen
        /\ Doing = "initialize" => xen = NoXen
        /\ Doing \in {"connect", "awaitInitWait", "publish", "awaitConnected"} => xen # NULL
        /\ Doing = "unregister" => xen # NULL
    BY <2>1, Zenon DEF Accounts
  <2>. QED BY <2>2
<1>3. MaxGen \in Nat /\ gen \in Nat /\ NoXen \in Interfaces
  BY <1>1, LifeAssumption DEF Data, NoXen, Interfaces
<1>4. ASSUME DeviceAdd PROVE Data'
  <2>1. saw' = saw /\ xen' = xen /\ gen' = gen /\ ledger' = ledger /\ place' = place
        /\ store' = store /\ seen' = seen
    BY <1>1, <1>4, DeviceAddDoes, Zenon DEF xenVars
  <2>2. \E s \in BOOLEAN, t \in {"none", "off"} : fdo' = [fdo EXCEPT !.scratch = s, !.timer = t]
    <3>1. TRUE \in BOOLEAN /\ "off" \in {"none", "off"}
      OBVIOUS
    <3>. QED BY <1>1, <1>4, <3>1, DeviceAddDoes, Zenon
  <2>3. fdo \in Contexts
    BY <1>1, Zenon DEF Data
  <2>4. fdo' \in Contexts
    BY <2>2, <2>3 DEF Contexts
  <2>. QED BY <1>1, <2>1, <2>4 DEF Data
<1>5. ASSUME Configure PROVE Data'
  <2>1. /\ Doing = "configure" /\ UNCHANGED <<pnp, saw, fdo, store, seen>>
        /\ \/ UNCHANGED <<xen, gen, ledger, place, history>>
           \/ ~fdo.configured /\ DeallocateXenInterface /\ gen' = gen + 1 /\ xen' = NoXen
           \/ DeallocateXenInterface /\ gen' = gen /\ xen' = NULL
    BY <1>1, <1>5, ConfigureDoes, Zenon
  <2>2. DeallocateXenInterface
          => ledger' \in Ledgers /\ place' \in [Requests -> {"none", "ring", "done", "lost"}]
    BY <1>1, DeallocateTypes
  <2>3. /\ gen' = gen \/ (gen' = gen + 1 /\ gen < MaxGen)
        /\ xen' = xen \/ xen' \in {NoXen, NULL}
        /\ ledger' \in Ledgers /\ place' \in [Requests -> {"none", "ring", "done", "lost"}]
        /\ saw' = saw /\ fdo' = fdo /\ store' = store /\ seen' = seen
    <3>1. ledger \in Ledgers /\ place \in [Requests -> {"none", "ring", "done", "lost"}]
      BY <1>1 DEF Data
    <3>2. ledger' = ledger /\ place' = place
            => ledger' \in Ledgers /\ place' \in [Requests -> {"none", "ring", "done", "lost"}]
      BY <3>1
    <3>3. xen' = NoXen \/ xen' = NULL => xen' \in {NoXen, NULL}
      OBVIOUS
    <3>. QED BY <1>2, <2>1, <2>2, <3>2, <3>3, Zenon
  <2>4. gen' \in 0..MaxGen /\ gen <= gen' /\ 0..gen \subseteq 0..gen'
    BY <1>1, <1>3, <2>3 DEF Data
  <2>. QED BY <1>1, <1>3, <2>3, <2>4 DEF Data
<1>6. ASSUME Initialize PROVE Data'
  <2>1. xen \in Interfaces /\ ledger \in Ledgers
    <3>1. xen = NoXen /\ ledger \in Ledgers
      BY <1>1, <1>2, <1>6, InitializeDoes, Zenon DEF Data
    <3>. QED BY <1>3, <3>1
  <2>2. /\ UNCHANGED <<pnp, saw, gen, fdo, place, store, seen>>
        /\ xen' \in Interfaces /\ ledger' \in Ledgers
    BY <1>1, <1>6, <2>1, InitializeDoes, RingMade, RingBroken, RingHad, GrantHad, Zenon
  <2>. QED BY <1>1, <2>2 DEF Data
<1>7. ASSUME Connect PROVE Data'
  <2>1. /\ xen \in Interfaces /\ UNCHANGED <<pnp, saw, gen, fdo, place, history>>
        /\ \/ /\ store' = [store EXCEPT !.fe = "initialising"] /\ seen' = "unknown"
              /\ UNCHANGED <<xen, ledger>>
           \/ xen' \in Interfaces /\ ledger' \in Ledgers /\ UNCHANGED <<store, seen>>
           \/ UNCHANGED <<xen, ledger, store, seen>>
    <3>1. xen \in Interfaces /\ ledger \in Ledgers
      BY <1>1, <1>2, <1>7, ConnectDoes DEF Data
    <3>. QED BY <1>1, <1>7, <3>1, ConnectDoes, HandlerMoves, Zenon
  <2>. QED BY <1>1, <2>1 DEF Data, BackendStates
<1>8. ASSUME AwaitInitWait PROVE Data'
  <2>1. /\ xen \in Interfaces /\ UNCHANGED <<pnp, saw, gen, fdo, place, store, history>>
        /\ seen' = store.be
        /\ \/ UNCHANGED <<xen, ledger>>
           \/ xen' \in Interfaces /\ ledger' \in Ledgers
    <3>1. xen \in Interfaces /\ ledger \in Ledgers
      BY <1>1, <1>2, <1>8, AwaitInitWaitDoes DEF Data
    <3>. QED BY <1>1, <1>8, <3>1, AwaitInitWaitDoes, HandlerMoves, Zenon
  <2>. QED BY <1>1, <2>1 DEF Data
<1>9. ASSUME Publish PROVE Data'
  <2>1. /\ xen \in Interfaces /\ UNCHANGED <<pnp, saw, gen, fdo, place, history>>
        /\ \/ /\ store' = [store EXCEPT !.ringRef = gen, !.fe = "connected"]
              /\ seen' = "unknown" /\ UNCHANGED <<xen, ledger>>
           \/ xen' \in Interfaces /\ ledger' \in Ledgers /\ UNCHANGED <<store, seen>>
    <3>1. xen \in Interfaces /\ ledger \in Ledgers
      BY <1>1, <1>2, <1>9, PublishDoes DEF Data
    <3>. QED BY <1>1, <1>9, <3>1, PublishDoes, HandlerMoves, Zenon
  <2>2. ledger' \in Ledgers /\ xen' \in Interfaces
    BY <1>1, <2>1 DEF Data
  <2>3. store' \in [fe : BackendStates, be : BackendStates, online : BOOLEAN, ringRef : 0..gen,
                    mapped : 0..gen, restarts : Nat]
    <3>1. store \in [fe : BackendStates, be : BackendStates, online : BOOLEAN, ringRef : 0..gen,
                      mapped : 0..gen, restarts : Nat] /\ gen \in 0..gen
      BY <1>1, <1>3 DEF Data
    <3>2. [store EXCEPT !.ringRef = gen, !.fe = "connected"]
             \in [fe : BackendStates, be : BackendStates, online : BOOLEAN, ringRef : 0..gen,
                  mapped : 0..gen, restarts : Nat]
      BY <3>1 DEF BackendStates
    <3>. QED BY <2>1, <3>1, <3>2, Zenon
  <2>4. seen' \in BackendStates
    BY <1>1, <2>1 DEF Data, BackendStates
  <2>. QED BY <1>1, <2>1, <2>2, <2>3, <2>4 DEF Data
<1>10. ASSUME AwaitConnected PROVE Data'
  <2>1. /\ xen \in Interfaces /\ UNCHANGED <<pnp, saw, gen, fdo, place, store>>
        /\ seen' = store.be
        /\ \/ UNCHANGED <<xen, ledger>>
           \/ xen' \in Interfaces /\ ledger' \in Ledgers
    <3>1. xen \in Interfaces /\ ledger \in Ledgers
      BY <1>1, <1>2, <1>10, AwaitConnectedDoes DEF Data
    <3>. QED BY <1>1, <1>10, <3>1, AwaitConnectedDoes, HandlerMoves, Zenon
  <2>. QED BY <1>1, <2>1 DEF Data
<1>11. ASSUME Configured PROVE Data'
  BY <1>1, <1>11, ConfiguredDoes DEF xenVars, Data, Contexts
<1>12. ASSUME GetUsbConfigData PROVE Data'
  BY <1>1, <1>12, GetUsbConfigDataDoes DEF xenVars, Data
<1>13. ASSUME CreateRootHubPdo PROVE Data'
  BY <1>1, <1>13, CreateRootHubPdoDoes DEF xenVars, Data, Contexts
<1>14. ASSUME Returned PROVE Data'
  BY <1>1, <1>14, ReturnedDoes DEF xenVars, Data
<1>15. ASSUME Online PROVE Data'
  BY <1>1, <1>15, OnlineDoes DEF xenVars, Data
<1>16. ASSUME StartTimer PROVE Data'
  BY <1>1, <1>16, StartTimerDoes DEF xenVars, Data, Contexts
<1>17. ASSUME Cleanup PROVE Data'
  BY <1>1, <1>17, CleanupDoes DEF xenVars, Data, Contexts
<1>18. ASSUME StopTimer PROVE Data'
  BY <1>1, <1>18, StopTimerDoes DEF xenVars, Data, Contexts
<1>19. ASSUME Sweep PROVE Data'
  BY <1>1, <1>19, SweepDoes DEF xenVars, Data
<1>20. ASSUME Deallocate PROVE Data'
  <2>1. /\ UNCHANGED <<pnp, saw, gen, store, seen>>
        /\ fdo' = [fdo EXCEPT !.scratch = FALSE] /\ xen' = NULL
        /\ ledger' \in Ledgers /\ place' \in [Requests -> {"none", "ring", "done", "lost"}]
    BY <1>1, <1>20, DeallocateDoes, DeallocateTypes, Zenon
  <2>. QED BY <1>1, <2>1 DEF Data, Contexts
<1>21. ASSUME Deconfigure PROVE Data'
  BY <1>1, <1>21, DeconfigureDoes DEF xenVars, Data, Contexts, BackendStates
<1>22. ASSUME DisonnectBackend PROVE Data'
  BY <1>1, <1>22, DisonnectDoes DEF xenVars, Data, BackendStates
<1>23. ASSUME Unregister PROVE Data'
  <2>1. xen \in Interfaces /\ ledger \in Ledgers
    BY <1>1, <1>2, <1>23, UnregisterDoes, Zenon DEF Data
  <2>2. UNCHANGED <<pnp, saw, gen, fdo, place, store, seen>>
        /\ xen' \in Interfaces /\ ledger' \in Ledgers
    BY <1>1, <1>23, <2>1, UnregisterDoes, HandlerCleared, HandlerGiven, Zenon
  <2>. QED BY <1>1, <2>2 DEF Data
<1>24. ASSUME CheckPort("pnp") PROVE Data'
  BY <1>1, <1>3, <1>24, CheckPortDoes DEF Data, Threads
<1>25. ASSUME ClosePort("pnp") PROVE Data'
  <2>1. /\ UNCHANGED <<pnp, saw, gen, fdo, place, store, seen>>
        /\ ledger' = [ledger EXCEPT !.port = @ - 1]
        /\ xen' = xen \/ (xen # NULL /\ xen' = [xen EXCEPT !.port = FALSE])
    BY <1>1, <1>25, ClosePortDoes, Zenon
  <2>2. ledger \in Ledgers /\ (xen = NULL \/ xen \in Interfaces)
    BY <1>1, Zenon DEF Data
  <2>3. ledger' \in Ledgers
    BY <2>1, <2>2, PortGiven, Zenon
  <2>4. xen' = NULL \/ xen' \in Interfaces
    BY <2>1, <2>2, PortShut, Zenon
  <2>. QED BY <1>1, <2>1, <2>3, <2>4 DEF Data
<1>26. ASSUME Unplug("pnp") PROVE Data'
  BY <1>1, <1>26, UnplugDoes DEF xenVars, Data, Contexts
<1>27. ASSUME RemoveAllChildDevices("pnp") PROVE Data'
  BY <1>1, <1>27, RemoveChildrenDoes DEF xenVars, Data, Contexts
<1>28. ASSUME PowerUp \/ PowerDown \/ SurpriseRemoval \/ Remove PROVE Data'
  <2>1. UNCHANGED <<xenVars, fdo, place, store, seen>>
    BY <1>1, <1>28, FrameworkDoes, Zenon
  <2>. QED BY <1>1, <2>1 DEF xenVars, Data
<1>29. PnpStep => Data'
  BY <1>4, <1>5, <1>6, <1>7, <1>8, <1>9, <1>10, <1>11, <1>12, <1>13, <1>14, <1>15, <1>16,
     <1>17, <1>18, <1>19, <1>20, <1>21, <1>22, <1>23, Zenon DEF PnpStep
<1>. QED BY <1>24, <1>25, <1>26, <1>27, <1>28, <1>29, Zenon DEF ByPnp, ThreadStep

\* The data after a step beside it.
LEMMA AsideTypes ==
  ASSUME LifeInv, Aside
  PROVE  Data'
<1>1. LifeTypes /\ Control /\ Data /\ SawOpen
  BY Zenon DEF LifeInv, LifeTypes
<1>2. /\ gen' = gen /\ gen \in Nat /\ MaxGen \in Nat
      /\ saw \in [Threads -> Nat] /\ ledger \in Ledgers /\ (xen = NULL \/ xen \in Interfaces)
      /\ fdo \in Contexts /\ place \in [Requests -> {"none", "ring", "done", "lost"}]
      /\ store \in [fe : BackendStates, be : BackendStates, online : BOOLEAN, ringRef : 0..gen,
                    mapped : 0..gen, restarts : Nat]
      /\ seen \in BackendStates
  <2>1. gen' = gen
    BY <1>1, AsideTakes, Zenon
  <2>. QED BY <1>1, <2>1, LifeAssumption DEF Data
<1>3. ASSUME NEW t \in {"timer", "waiter"}, CheckPort(t) PROVE Data'
  <2>1. /\ UNCHANGED <<xen, gen, ledger, fdo, place, store, seen>>
        /\ saw' = saw \/ saw' = [saw EXCEPT ![t] = gen] \/ saw' = [saw EXCEPT ![t] = 0]
    BY <1>1, <1>3, BesideMoves, Zenon DEF CheckPort
  <2>2. saw' \in [Threads -> Nat]
    BY <1>2, <2>1
  <2>. QED BY <1>1, <2>1, <2>2 DEF Data
<1>4. ASSUME NEW t \in {"timer", "waiter"}, ClosePort(t) PROVE Data'
  <2>1. /\ UNCHANGED <<saw, gen, fdo, place, store, seen>>
        /\ ledger' = [ledger EXCEPT !.port = @ - 1]
        /\ xen' = xen \/ (xen # NULL /\ xen' = [xen EXCEPT !.port = FALSE])
    BY <1>4, Zenon DEF ClosePort
  <2>2. ledger' \in Ledgers
    BY <1>2, <2>1, PortGiven, Zenon
  <2>3. xen' = NULL \/ xen' \in Interfaces
    BY <1>2, <2>1, PortShut, Zenon
  <2>. QED BY <1>1, <2>1, <2>2, <2>3 DEF Data
<1>5. ASSUME NEW t \in {"timer", "waiter"}, Unplug(t) \/ RemoveAllChildDevices(t) PROVE Data'
  <2>1. /\ UNCHANGED <<saw, xen, gen, ledger, place, store, seen>>
        /\ fdo' = [fdo EXCEPT !.unplugged = TRUE] \/ fdo' = [fdo EXCEPT !.child = FALSE]
    BY <1>5, Zenon DEF Unplug, RemoveAllChildDevices, xenVars
  <2>2. fdo' \in Contexts
    BY <1>2, <2>1 DEF Contexts
  <2>. QED BY <1>1, <2>1, <2>2 DEF Data
<1>6. ASSUME TimerFires \/ TimerReadsState \/ TimerDecides \/ WaitForScratchCompletion PROVE Data'
  <2>1. /\ UNCHANGED <<saw, xen, gen, ledger, place, store, seen>>
        /\ \/ fdo' = fdo
           \/ fdo' = [fdo EXCEPT !.unplugged = TRUE]
           \/ fdo' = [fdo EXCEPT !.timer = "off"]
           \/ fdo' = [fdo EXCEPT !.timer = IF fdo.unplugged \/ @ = "stopping" THEN @
                                            ELSE "armed"]
    BY <1>6, Zenon DEF TimerFires, TimerReadsState, TimerDecides, WaitForScratchCompletion, xenVars
  <2>2. fdo' \in Contexts
    BY <1>2, <2>1 DEF Contexts
  <2>. QED BY <1>1, <2>1, <2>2 DEF Data
<1>7. ASSUME NEW r \in Requests, Submit(r) \/ Answer(r) PROVE Data'
  <2>1. /\ UNCHANGED <<saw, xen, gen, ledger, fdo, store, seen>>
        /\ place' = [place EXCEPT ![r] = "ring"] \/ place' = [place EXCEPT ![r] = "done"]
    BY <1>7, Zenon DEF Submit, Answer, xenVars
  <2>2. place' \in [Requests -> {"none", "ring", "done", "lost"}]
    BY <1>2, <2>1
  <2>. QED BY <1>1, <2>1, <2>2 DEF Data
<1>8. ASSUME BackendFollows \/ BackendRestarts \/ Detach \/ BackendGoes PROVE Data'
  <2>1. UNCHANGED <<saw, xen, gen, ledger, fdo, place, seen>>
    BY <1>8, Zenon DEF BackendFollows, BackendRestarts, Detach, BackendGoes, xenVars
  <2> DEFINE Stores == [fe : BackendStates, be : BackendStates, online : BOOLEAN, ringRef : 0..gen,
                        mapped : 0..gen, restarts : Nat]
  <2>2. \A b \in BackendStates : [store EXCEPT !.be = b] \in Stores
    BY <1>2
  <2>3. \A b \in BackendStates : \A m \in 0..gen : [store EXCEPT !.be = b, !.mapped = m] \in Stores
    BY <1>2
  <2>4. \A b \in BackendStates : \A k \in Nat : [store EXCEPT !.be = b, !.restarts = k] \in Stores
    BY <1>2
  <2>5. \A b \in BackendStates : [store EXCEPT !.online = FALSE, !.be = b] \in Stores
    BY <1>2
  <2>6. /\ store.ringRef \in 0..gen /\ 0 \in 0..gen /\ store.restarts + 1 \in Nat
        /\ "initwait" \in BackendStates /\ "connected" \in BackendStates
        /\ "closing" \in BackendStates /\ "closed" \in BackendStates
        /\ "unknown" \in BackendStates
    BY <1>2 DEF BackendStates
  <2> HIDE DEF Stores
  <2>7. BackendFollows => store' \in Stores
    BY <2>2, <2>3, <2>6, Zenon DEF BackendFollows
  <2>8. BackendRestarts => store' \in Stores
    BY <2>4, <2>6, Zenon DEF BackendRestarts
  <2>9. Detach => store' \in Stores
    BY <2>5, <2>6, Zenon DEF Detach
  <2>10. BackendGoes => store' \in Stores
    <3>1. BackendGoes => \/ store' = [store EXCEPT !.be = "closed", !.mapped = 0]
                         \/ store' = [store EXCEPT !.be = "unknown", !.mapped = 0]
      BY DEF BackendGoes
    <3>. QED BY <2>3, <2>6, <3>1, Zenon
  <2>11. store' \in Stores
    BY <1>8, <2>7, <2>8, <2>9, <2>10
  <2>. QED BY <1>1, <1>2, <2>1, <2>11 DEF Data, Stores
<1>9. ASSUME NEW t \in {"timer", "waiter"}, ThreadStep(t) PROVE Data'
  BY <1>3, <1>4, <1>5, <1>9, Zenon DEF ThreadStep
<1>. QED BY <1>6, <1>7, <1>8, <1>9, Zenon DEF Aside, TimerStep

\* Every variable keeps its range.
LEMMA TypesKept ==
  ASSUME LifeInv, LifeNext
  PROVE  LifeTypes'
<1>1. LifeTypes /\ Control
  BY Zenon DEF LifeInv
<1>2. todo' \in [Threads -> Seq(Steps)]
  BY <1>1, ControlKept, Zenon
<1>3. Data'
  BY Actors, PnpTypes, AsideTypes, Zenon
<1>4. pnp' \in {"adding", "added", "d0", "stopping", "dx", "failed", "removed", "crashed"}
  <2>1. CASE ByPnp
    BY <1>1, <2>1, PnpTakes, Zenon
  <2>2. CASE Aside
    BY <1>1, <2>2, AsideTakes, Zenon DEF LifeTypes
  <2>. QED BY <2>1, <2>2, Actors
<1>. QED BY <1>2, <1>3, <1>4, Zenon DEF LifeTypes

--------------------------------------------------------------------------------
(* What is left alone.                                                      *)

\* The PnP thread moves no other thread, and of xenstore it writes its own part.
LEMMA PnpLeaves ==
  ASSUME LifeTypes, Control, ByPnp
  PROVE  /\ todo'["timer"] = todo["timer"] /\ todo'["waiter"] = todo["waiter"]
         /\ store'.be = store.be /\ store'.online = store.online /\ store'.mapped = store.mapped
<1>1. todo'["timer"] = todo["timer"] /\ todo'["waiter"] = todo["waiter"]
  <2>1. PnpMoved \/ UNCHANGED todo
    BY PnpTakes, Zenon
  <2>2. "timer" \in Threads /\ "waiter" \in Threads /\ "timer" # "pnp" /\ "waiter" # "pnp"
    BY DEF Threads
  <2>. QED BY <2>1, <2>2, Zenon DEF PnpMoved
<1>2. \/ store' = store
      \/ \E s : store' = [store EXCEPT !.fe = s]
      \/ store' = [store EXCEPT !.ringRef = gen, !.fe = "connected"]
  <2>1. PnpStep => \/ store' = store
                   \/ \E s : store' = [store EXCEPT !.fe = s]
                   \/ store' = [store EXCEPT !.ringRef = gen, !.fe = "connected"]
    BY Zenon DEF PnpStep, DeviceAdd, Configure, Initialize, Connect, AwaitInitWait, Publish,
       AwaitConnected, Configured, GetUsbConfigData, CreateRootHubPdo, Returned, Online,
       StartTimer, Cleanup, StopTimer, Sweep, Deallocate, Deconfigure, DisonnectBackend, Await,
       AskFor, Unregister
  <2>2. PowerUp \/ PowerDown \/ SurpriseRemoval \/ Remove \/ ThreadStep("pnp") => store' = store
    BY Zenon DEF PowerUp, PowerDown, SurpriseRemoval, Remove, ThreadStep, CheckPort, ClosePort,
       Unplug, RemoveAllChildDevices
  <2>. QED BY <2>1, <2>2, Zenon DEF ByPnp
<1>3. store \in [fe : BackendStates, be : BackendStates, online : BOOLEAN, ringRef : 0..gen,
                 mapped : 0..gen, restarts : Nat]
  BY Zenon DEF LifeTypes, Data
<1>4. CASE store' = store
  BY <1>1, <1>4
<1>5. ASSUME NEW s, store' = [store EXCEPT !.fe = s]
      PROVE  store'.be = store.be /\ store'.online = store.online /\ store'.mapped = store.mapped
  BY <1>3, <1>5
<1>6. ASSUME store' = [store EXCEPT !.ringRef = gen, !.fe = "connected"]
      PROVE  store'.be = store.be /\ store'.online = store.online /\ store'.mapped = store.mapped
  BY <1>3, <1>6
<1>. QED BY <1>1, <1>2, <1>4, <1>5, <1>6, Zenon

--------------------------------------------------------------------------------
(* The watchdog.                                                            *)

\* The PnP thread stops the watchdog before it touches what both use.
LEMMA WatchdogByPnp ==
  ASSUME LifeInv, ByPnp
  PROVE  Watchdog'
<1>1. LifeTypes /\ Control /\ Watchdog
  BY Zenon DEF LifeInv
<1>2. /\ fdo.configured \in BOOLEAN /\ fdo.disconnected \in BOOLEAN /\ store.online \in BOOLEAN
      /\ fdo \in Contexts
  BY <1>1 DEF LifeTypes, Data, Contexts
<1>3. /\ Doing = "deviceAdd" => ~fdo.configured
      /\ Doing \in Ends /\ Removing => Doing \in {"remove", "removed", "crashed"}
      /\ pnp \in {"removed", "crashed"} => Doing = "idle"
      /\ Doing = "idle" => ~Removing
      /\ Doing \in Steps \cup {"idle"}
  <2>1. Accounts
    BY Zenon DEF LifeInv
  <2>. QED BY <1>1, <2>1, Positions, Zenon DEF Accounts
<1>4. /\ todo'["timer"] = todo["timer"]
      /\ store'.be = store.be /\ store'.online = store.online
  BY <1>1, PnpLeaves, Zenon
<1>5. UNCHANGED todo => Doing' = Doing /\ (Removing' <=> Removing)
  BY Unmoved, Zenon
<1> DEFINE Same == /\ fdo'.timer = fdo.timer /\ fdo'.configured = fdo.configured
                   /\ fdo'.disconnected = fdo.disconnected /\ pnp' = pnp
<1> DEFINE SetsUp == /\ Doing \in SettingUp
                     /\ Doing' \in SettingUp \cup {"failed", "unplug", "added"}
                     /\ Doing' \in {"getUsbConfigData", "createRootHubPdo", "startTimer"}
                          => fdo.configured
<1> DEFINE TakesDown == /\ Doing \in AfterTimer \ {"removed", "dx"}
                        /\ Doing' \in AfterTimer \cup {"stopTimer", "d0", "remove", "failed",
                                                       "crashed", "idle"}
                        /\ Removing => Removing' \/ Doing' = "crashed"
<1>6. ASSUME Same, SetsUp PROVE Watchdog'
  BY <1>1, <1>2, <1>3, <1>4, <1>6 DEF Watchdog, Quiet, Idle, SettingUp, AfterTimer, Crashed
<1>7. ASSUME Same, TakesDown PROVE Watchdog'
  BY <1>1, <1>2, <1>3, <1>4, <1>7 DEF Watchdog, Quiet, Idle, SettingUp, AfterTimer, Crashed
<1>8. /\ fdo' = fdo /\ pnp' = pnp => Same
      /\ fdo' = [fdo EXCEPT !.scratch = FALSE] /\ pnp' = pnp => Same
      /\ fdo' = [fdo EXCEPT !.child = FALSE] /\ pnp' = pnp => Same
      /\ fdo' = [fdo EXCEPT !.unplugged = TRUE] /\ pnp' = pnp => Same
  BY <1>2 DEF Contexts
<1> HIDE DEF Same
<1>9. ASSUME Configure PROVE Watchdog'
  <2>1. /\ Doing = "configure" /\ fdo' = fdo /\ pnp' = pnp
        /\ \/ fdo.configured /\ Doing' \in {"getUsbConfigData", "startTimer"}
           \/ Doing' = "initialize" \/ Doing' = "failed"
    BY <1>1, <1>3, <1>5, <1>9, ConfigureDoes, Zenon DEF Onward, Begun, Failed
  <2>2. SetsUp
    BY <1>1, <2>1 DEF SettingUp, AfterTimer, Ends, Watchdog
  <2>. QED BY <1>6, <1>8, <2>1, <2>2, Zenon
<1>10. ASSUME Initialize PROVE Watchdog'
  <2>1. /\ Doing = "initialize" /\ fdo' = fdo /\ pnp' = pnp
        /\ Doing' = "connect" \/ Doing' = "failed"
    BY <1>1, <1>3, <1>5, <1>10, InitializeDoes, Zenon DEF Onward, Begun, Failed
  <2>2. SetsUp
    BY <1>1, <2>1 DEF SettingUp, AfterTimer, Ends, Watchdog
  <2>. QED BY <1>6, <1>8, <2>1, <2>2, Zenon
<1>11. ASSUME Connect PROVE Watchdog'
  <2>1. /\ Doing = "connect" /\ fdo' = fdo /\ pnp' = pnp
        /\ Doing' = "awaitInitWait" \/ Doing' = "failed"
    BY <1>1, <1>3, <1>5, <1>11, ConnectDoes, Zenon DEF Onward, Begun, Failed
  <2>2. SetsUp
    BY <1>1, <2>1 DEF SettingUp, AfterTimer, Ends, Watchdog
  <2>. QED BY <1>6, <1>8, <2>1, <2>2, Zenon
<1>12. ASSUME AwaitInitWait PROVE Watchdog'
  <2>1. /\ Doing = "awaitInitWait" /\ fdo' = fdo /\ pnp' = pnp
        /\ Doing' = "awaitInitWait" \/ Doing' = "publish" \/ Doing' = "failed"
    BY <1>1, <1>3, <1>5, <1>12, AwaitInitWaitDoes, Zenon DEF Onward, Begun, Failed
  <2>2. SetsUp
    BY <1>1, <2>1 DEF SettingUp, AfterTimer, Ends, Watchdog
  <2>. QED BY <1>6, <1>8, <2>1, <2>2, Zenon
<1>13. ASSUME Publish PROVE Watchdog'
  <2>1. /\ Doing = "publish" /\ fdo' = fdo /\ pnp' = pnp
        /\ Doing' = "awaitConnected" \/ Doing' = "failed"
    BY <1>1, <1>3, <1>5, <1>13, PublishDoes, Zenon DEF Onward, Begun, Failed
  <2>2. SetsUp
    BY <1>1, <2>1 DEF SettingUp, AfterTimer, Ends, Watchdog
  <2>. QED BY <1>6, <1>8, <2>1, <2>2, Zenon
<1>14. ASSUME AwaitConnected PROVE Watchdog'
  <2>1. /\ Doing = "awaitConnected" /\ fdo' = fdo /\ pnp' = pnp
        /\ Doing' = "awaitConnected" \/ Doing' = "configured" \/ Doing' = "failed"
    BY <1>1, <1>3, <1>5, <1>14, AwaitConnectedDoes, Zenon DEF Onward, Begun, Failed
  <2>2. SetsUp
    BY <1>1, <2>1 DEF SettingUp, AfterTimer, Ends, Watchdog
  <2>. QED BY <1>6, <1>8, <2>1, <2>2, Zenon
<1>15. ASSUME GetUsbConfigData PROVE Watchdog'
  <2>1. /\ Doing = "getUsbConfigData" /\ fdo' = fdo /\ pnp' = pnp
        /\ Doing' = "createRootHubPdo" \/ Doing' = "failed" \/ Doing' = "unplug" \/ Doing' = "added"
    BY <1>1, <1>3, <1>5, <1>15, GetUsbConfigDataDoes, Zenon DEF Onward, Begun, Failed
  <2>2. SetsUp
    BY <1>1, <2>1 DEF SettingUp, AfterTimer, Ends, Watchdog
  <2>. QED BY <1>6, <1>8, <2>1, <2>2, Zenon
<1>16. ASSUME Sweep PROVE Watchdog'
  <2>1. /\ Doing = "sweep" /\ fdo' = fdo /\ pnp' = pnp
        /\ Doing' \in {"stopTimer", "d0", "remove", "deallocate"}
        /\ Removing => Removing' \/ Doing \in Ends
    BY <1>1, <1>3, <1>5, <1>16, SweepDoes, Zenon DEF Onward, Begun, Failed
  <2>2. TakesDown
    BY <1>1, <2>1 DEF SettingUp, AfterTimer, Ends, Watchdog
  <2>. QED BY <1>7, <1>8, <2>1, <2>2, Zenon
<1>17. ASSUME Unregister PROVE Watchdog'
  <2>1. /\ Doing = "unregister" /\ fdo' = fdo /\ pnp' = pnp
        /\ Doing' \in {"idle", "dx", "remove"}
        /\ Removing => Removing' \/ Doing \in Ends
    BY <1>1, <1>3, <1>5, <1>17, UnregisterDoes, Zenon DEF Onward, Begun, Failed
  <2>2. TakesDown
    BY <1>1, <2>1 DEF SettingUp, AfterTimer, Ends, Watchdog
  <2>. QED BY <1>7, <1>8, <2>1, <2>2, Zenon
<1>18. ASSUME ClosePort("pnp") PROVE Watchdog'
  <2>1. /\ Doing = "closePort" /\ fdo' = fdo /\ pnp' = pnp
        /\ Doing' \in {"unplug", "removeChildren", "stabilise"}
        /\ Removing => Removing' \/ Doing \in Ends
    BY <1>1, <1>3, <1>5, <1>18, ClosePortDoes, Zenon DEF Onward, Begun, Failed
  <2>2. TakesDown
    BY <1>1, <2>1 DEF SettingUp, AfterTimer, Ends, Watchdog
  <2>. QED BY <1>7, <1>8, <2>1, <2>2, Zenon
<1>19. ASSUME RemoveAllChildDevices("pnp") PROVE Watchdog'
  <2>1. /\ Doing = "removeChildren" /\ fdo' = [fdo EXCEPT !.child = FALSE] /\ pnp' = pnp
        /\ Doing' \in {"sweep", "failed"}
        /\ Removing => Removing' \/ Doing \in Ends
    BY <1>1, <1>3, <1>5, <1>19, RemoveChildrenDoes, Zenon DEF Onward, Begun, Failed
  <2>2. TakesDown
    BY <1>1, <2>1 DEF SettingUp, AfterTimer, Ends, Watchdog
  <2>. QED BY <1>7, <1>8, <2>1, <2>2, Zenon
<1>20. ASSUME Unplug("pnp") PROVE Watchdog'
  <2>1. /\ Doing = "unplug" /\ fdo' = [fdo EXCEPT !.unplugged = TRUE] /\ pnp' = pnp
        /\ Doing' \in {"sweep", "failed", "checkPort"}
        /\ Removing => Removing' \/ Doing \in Ends
    BY <1>1, <1>3, <1>5, <1>20, UnplugDoes, Zenon DEF Onward, Begun, Failed
  <2>2. TakesDown
    BY <1>1, <2>1 DEF SettingUp, AfterTimer, Ends, Watchdog
  <2>. QED BY <1>7, <1>8, <2>1, <2>2, Zenon
<1>21. ASSUME Deallocate PROVE Watchdog'
  <2>1. /\ Doing = "deallocate" /\ fdo' = [fdo EXCEPT !.scratch = FALSE] /\ pnp' = pnp
        /\ Doing' = "removed"
        /\ Removing => Removing' \/ Doing \in Ends
    BY <1>1, <1>3, <1>5, <1>21, DeallocateDoes, Zenon DEF Onward, Begun, Failed
  <2>2. TakesDown
    BY <1>1, <2>1 DEF SettingUp, AfterTimer, Ends, Watchdog
  <2>. QED BY <1>7, <1>8, <2>1, <2>2, Zenon
<1>22. ASSUME DisonnectBackend PROVE Watchdog'
  <2>1. /\ fdo' = fdo /\ pnp' = pnp
        /\ Doing \in {"stabilise", "awaitChange", "closing", "closed"}
        /\ \/ Doing' = Doing \/ Doing' \in {"closing", "closed"} \/ Doing' = "closing"
           \/ Doing' = "closed" \/ Doing' = "awaitChange" \/ Doing' = "unregister"
        /\ Removing => Removing' \/ Doing \in Ends
    BY <1>1, <1>3, <1>5, <1>22, DisonnectDoes, Zenon DEF Onward, Begun, Failed
  <2>2. TakesDown
    BY <1>1, <2>1 DEF SettingUp, AfterTimer, Ends, Watchdog
  <2>. QED BY <1>7, <1>8, <2>1, <2>2, Zenon
<1>23. ASSUME CheckPort("pnp") PROVE Watchdog'
  <2>1. /\ Doing = "checkPort" /\ fdo' = fdo /\ pnp' = pnp
        /\ \/ Doing' \in {"unplug", "removeChildren", "stabilise"} \/ Doing' = "closePort"
           \/ Doing' = "crashed"
        /\ Removing => Removing' \/ Doing \in Ends \/ Doing' = "crashed"
    BY <1>1, <1>3, <1>5, <1>23, CheckPortDoes, Zenon DEF Onward, Begun, Failed
  <2>2. TakesDown
    BY <1>1, <2>1 DEF SettingUp, AfterTimer, Ends, Watchdog
  <2>. QED BY <1>7, <1>8, <2>1, <2>2, Zenon
<1>24. ASSUME DeviceAdd PROVE Watchdog'
  <2>1. /\ Doing = "deviceAdd" /\ pnp' = pnp
        /\ Doing' = "configure" \/ Doing' = "failed"
        /\ \/ fdo' = [fdo EXCEPT !.scratch = TRUE, !.timer = "off"]
           \/ \E s \in BOOLEAN, t \in {"none", "off"} :
                fdo' = [fdo EXCEPT !.scratch = s, !.timer = t]
    BY <1>1, <1>3, <1>5, <1>24, DeviceAddDoes, Zenon DEF Onward, Begun, Failed
  <2>2. \E s \in BOOLEAN, t \in {"none", "off"} : fdo' = [fdo EXCEPT !.scratch = s, !.timer = t]
    <3>1. TRUE \in BOOLEAN /\ "off" \in {"none", "off"}
      OBVIOUS
    <3>. QED BY <2>1, <3>1, Zenon
  <2>3. /\ fdo'.timer \in {"none", "off"} /\ fdo'.configured = fdo.configured
        /\ fdo'.disconnected = fdo.disconnected
    BY <1>2, <2>2 DEF Contexts
  <2>4. Doing = "deviceAdd" /\ pnp' = pnp /\ Doing' \in {"configure", "failed"}
    BY <2>1, Zenon
  <2>. QED BY <1>1, <1>2, <1>3, <1>4, <2>3, <2>4 DEF Watchdog, Quiet, Idle, SettingUp, AfterTimer,
            Crashed
<1>25. ASSUME Configured PROVE Watchdog'
  <2>1. /\ Doing = "configured" /\ pnp' = pnp /\ fdo' = [fdo EXCEPT !.configured = TRUE]
        /\ Doing' \in {"getUsbConfigData", "startTimer"}
    BY <1>1, <1>3, <1>5, <1>25, ConfiguredDoes, Zenon DEF Onward, Begun, Failed
  <2>. QED BY <1>1, <1>2, <1>3, <1>4, <2>1 DEF Watchdog, Quiet, Idle, SettingUp, AfterTimer,
            Crashed, Contexts, Ends
<1>26. ASSUME CreateRootHubPdo PROVE Watchdog'
  <2>1. /\ Doing = "createRootHubPdo" /\ pnp' = pnp
        /\ \/ fdo' = [fdo EXCEPT !.child = TRUE, !.timer = "armed"] /\ Doing' = "added"
           \/ fdo' = fdo /\ Doing' = "failed"
    BY <1>1, <1>3, <1>5, <1>26, CreateRootHubPdoDoes, Zenon DEF Onward, Begun, Failed
  <2>. QED BY <1>1, <1>2, <1>3, <1>4, <2>1 DEF Watchdog, Quiet, Idle, SettingUp, AfterTimer,
            Crashed, Contexts, Ends
<1>27. ASSUME StartTimer PROVE Watchdog'
  <2>1. /\ Doing = "startTimer" /\ pnp' = pnp /\ fdo' = [fdo EXCEPT !.timer = "armed"]
        /\ Doing' = "d0"
    BY <1>1, <1>3, <1>5, <1>27, StartTimerDoes, Zenon DEF Onward, Begun, Failed
  <2>. QED BY <1>1, <1>2, <1>3, <1>4, <2>1 DEF Watchdog, Quiet, Idle, SettingUp, AfterTimer,
            Crashed, Contexts, Ends
<1>28. ASSUME StopTimer PROVE Watchdog'
  <2>1. /\ pnp' = pnp
        /\ \/ Doing = "stopTimer" /\ fdo.timer = "none" /\ fdo' = fdo /\ Doing' = "crashed"
           \/ /\ Doing = "stopTimer" /\ fdo.timer # "none"
              /\ fdo' = [fdo EXCEPT !.timer = "stopping"]
              /\ Doing' = "timerStopped" /\ (Removing => Removing' \/ Doing \in Ends)
           \/ /\ Doing = "timerStopped" /\ Idle("timer") /\ fdo' = [fdo EXCEPT !.timer = "off"]
              /\ Doing' \in {"checkPort", "deconfigure"}
              /\ Removing => Removing' \/ Doing \in Ends
    BY <1>1, <1>3, <1>5, <1>28, StopTimerDoes, Zenon DEF Onward, Begun, Failed
  <2>. QED BY <1>1, <1>2, <1>3, <1>4, <2>1 DEF Watchdog, Quiet, Idle, SettingUp, AfterTimer,
            Crashed, Contexts, Ends
<1>29. ASSUME Deconfigure PROVE Watchdog'
  <2>1. /\ Doing = "deconfigure" /\ pnp' = pnp /\ fdo' = [fdo EXCEPT !.configured = FALSE]
        /\ Doing' \in {"idle", "dx", "remove"} \/ Doing' = "checkPort"
        /\ Removing => Removing' \/ Doing \in Ends
    BY <1>1, <1>3, <1>5, <1>29, DeconfigureDoes, Zenon DEF Onward, Begun, Failed
  <2>. QED BY <1>1, <1>2, <1>3, <1>4, <2>1 DEF Watchdog, Quiet, Idle, SettingUp, AfterTimer,
            Crashed, Contexts, Ends
<1>30. ASSUME Cleanup PROVE Watchdog'
  <2>1. /\ Doing = "cleanup" /\ pnp' = pnp /\ fdo' = [fdo EXCEPT !.disconnected = TRUE]
        /\ ~fdo.disconnected => Doing' = "stopTimer"
        /\ fdo.disconnected => Doing' \in {"stopTimer", "d0", "remove", "deallocate"}
        /\ Removing => Removing' \/ Doing \in Ends
    BY <1>1, <1>3, <1>5, <1>30, CleanupDoes, Zenon DEF Onward, Begun, Failed
  <2>. QED BY <1>1, <1>2, <1>3, <1>4, <2>1 DEF Watchdog, Quiet, Idle, SettingUp, AfterTimer,
            Crashed, Contexts, Ends
<1>31. ASSUME Returned PROVE Watchdog'
  <2>1. /\ Doing \in Ends \ {"remove"} /\ pnp' = Doing /\ fdo' = fdo
        /\ Doing' = "idle" \/ Doing' = "stopTimer"
    BY <1>1, <1>3, <1>5, <1>31, ReturnedDoes, Zenon DEF Onward, Begun, Failed
  <2>. QED BY <1>1, <1>2, <1>3, <1>4, <2>1 DEF Watchdog, Quiet, Idle, SettingUp, AfterTimer,
            Crashed, Contexts, Ends
<1>32. ASSUME Online PROVE Watchdog'
  <2>1. /\ Doing = "online" /\ ~Removing /\ pnp' = pnp /\ fdo' = fdo
        /\ \/ ~XenCheckOnline /\ Doing' = "cleanup"
           \/ XenCheckOnline /\ fdo.configured /\ Doing' = "d0"
           \/ XenCheckOnline /\ ~fdo.configured /\ Doing' = "configure"
    BY <1>1, <1>3, <1>5, <1>32, OnlineDoes, Zenon DEF Onward, Begun, Failed
  <2>. QED BY <1>1, <1>2, <1>3, <1>4, <2>1 DEF Watchdog, Quiet, Idle, SettingUp, AfterTimer,
            Crashed, Contexts, Ends, XenCheckOnline
<1>33. ASSUME PowerUp \/ PowerDown \/ SurpriseRemoval \/ Remove PROVE Watchdog'
  <2>1. /\ Doing \in {"idle", "remove"} /\ pnp \notin {"removed", "crashed"} /\ fdo' = fdo
        /\ \/ pnp' = pnp /\ Doing' = "online" /\ Doing = "idle"
           \/ pnp' = "stopping" /\ Doing' = "stopTimer" /\ Doing = "idle"
           \/ pnp' = pnp /\ Doing' = "cleanup" /\ Removing'
    BY <1>1, <1>3, <1>5, <1>33, FrameworkDoes, Zenon DEF Onward, Begun, Failed
  <2>. QED BY <1>1, <1>2, <1>3, <1>4, <2>1 DEF Watchdog, Quiet, Idle, SettingUp, AfterTimer,
            Crashed, Contexts, Ends
<1>. QED BY <1>9, <1>10, <1>11, <1>12, <1>13, <1>14, <1>15, <1>16, <1>17, <1>18, <1>19, <1>20,
            <1>21, <1>22, <1>23, <1>24, <1>25, <1>26, <1>27, <1>28, <1>29, <1>30, <1>31, <1>32,
            <1>33, Zenon
         DEF ByPnp, PnpStep, ThreadStep

\* The watchdog does not start again while it is being stopped.
LEMMA WatchdogAside ==
  ASSUME LifeInv, Aside
  PROVE  Watchdog'
<1>1. LifeTypes /\ Control /\ Watchdog
  BY Zenon DEF LifeInv
<1>2. /\ fdo \in Contexts
      /\ store \in [fe : BackendStates, be : BackendStates, online : BOOLEAN, ringRef : 0..gen,
                    mapped : 0..gen, restarts : Nat]
  BY <1>1, Zenon DEF LifeTypes, Data
<1>3. pnp' = pnp /\ Doing' = Doing /\ (Removing' <=> Removing)
  BY <1>1, AsideTakes, Unmoved, Zenon DEF Steady
<1> DEFINE TimerLike ==
             /\ fdo'.configured = fdo.configured /\ fdo'.disconnected = fdo.disconnected
             /\ \/ todo["timer"] # <<>> \/ fdo.timer = "armed"
                \/ todo'["timer"] = todo["timer"] /\ fdo'.timer = fdo.timer
             /\ fdo'.timer = "none" => /\ fdo.timer = "none"
                                       /\ todo["timer"] = <<>> => todo'["timer"] = <<>>
<1> DEFINE StoreLike == /\ store'.online => store.online
                        /\ store'.be = "unknown" => ~store'.online
<1>4. ASSUME TimerLike, StoreLike PROVE Watchdog'
  BY <1>1, <1>3, <1>4 DEF Watchdog, Quiet, Idle, Crashed
<1>5. store' = store => StoreLike
  BY <1>1 DEF Watchdog
<1>6. ASSUME NEW t \in {"timer", "waiter"}, ThreadStep(t) PROVE Watchdog'
  <2>1. /\ \/ fdo' = fdo \/ fdo' = [fdo EXCEPT !.unplugged = TRUE]
           \/ fdo' = [fdo EXCEPT !.child = FALSE]
        /\ store' = store /\ todo[t] # <<>>
    BY <1>6, Zenon DEF ThreadStep, CheckPort, ClosePort, Unplug, RemoveAllChildDevices, At
  <2>2. t = "timer" \/ todo'["timer"] = todo["timer"]
    <3>1. \E x : Goto(t, x)
      BY <1>6, Zenon DEF ThreadStep, CheckPort, ClosePort, Unplug, RemoveAllChildDevices, Continue,
         Skip
    <3>2. todo \in [Threads -> Seq(Steps)]
      BY <1>1, Zenon DEF LifeTypes
    <3>3. PICK x : todo' = [todo EXCEPT ![t] = x]
      BY <3>1, Zenon DEF Goto
    <3>. QED BY <3>2, <3>3 DEF Threads
  <2>3. /\ fdo'.configured = fdo.configured /\ fdo'.disconnected = fdo.disconnected
        /\ fdo'.timer = fdo.timer
    BY <1>2, <2>1 DEF Contexts
  <2>4. fdo.timer = "none" => todo["timer"] = <<>>
    BY <1>1 DEF Watchdog, Idle
  <2>5. TimerLike
    BY <2>1, <2>2, <2>3, <2>4
  <2>. QED BY <1>4, <1>5, <2>1, <2>5, Zenon
<1>7. ASSUME TimerFires \/ TimerReadsState \/ TimerDecides PROVE Watchdog'
  <2>1. /\ store' = store
        /\ \/ /\ fdo.timer = "armed" /\ fdo' = [fdo EXCEPT !.timer = "off"]
           \/ /\ todo["timer"] # <<>>
              /\ \/ fdo' = fdo \/ fdo' = [fdo EXCEPT !.unplugged = TRUE]
                 \/ fdo' = [fdo EXCEPT !.timer = IF fdo.unplugged \/ @ = "stopping" THEN @
                                            ELSE "armed"]
    BY <1>7, Zenon DEF TimerFires, TimerReadsState, TimerDecides, At
  <2>2. fdo.timer = "none" => todo["timer"] = <<>>
    BY <1>1 DEF Watchdog, Idle
  <2>3. TimerLike
    BY <1>2, <2>1, <2>2 DEF Contexts
  <2>. QED BY <1>4, <1>5, <2>1, <2>3, Zenon
<1>8. ASSUME WaitForScratchCompletion PROVE Watchdog'
  <2>1. fdo' = fdo /\ store' = store
    BY <1>8, Zenon DEF WaitForScratchCompletion
  <2>2. todo'["timer"] = todo["timer"]
    <3>1. todo' = [todo EXCEPT !["waiter"] = <<"unplug">>]
      BY <1>8, Zenon DEF WaitForScratchCompletion, Goto
    <3>2. todo \in [Threads -> Seq(Steps)]
      BY <1>1, Zenon DEF LifeTypes
    <3>. QED BY <3>1, <3>2 DEF Threads
  <2>3. TimerLike
    BY <1>1, <2>1, <2>2 DEF Watchdog, Idle
  <2>. QED BY <1>4, <1>5, <2>1, <2>3, Zenon
<1>9. ASSUME \/ \E r \in Requests : Submit(r) \/ Answer(r)
             \/ BackendFollows \/ BackendRestarts \/ Detach \/ BackendGoes
      PROVE  Watchdog'
  <2>1. fdo' = fdo /\ todo' = todo
    BY <1>9, Zenon DEF Submit, Answer, BackendFollows, BackendRestarts, Detach, BackendGoes
  <2>2. TimerLike
    BY <1>1, <2>1 DEF Watchdog, Idle
  <2>3. StoreLike
    <3>1. (\E r \in Requests : Submit(r) \/ Answer(r)) => store' = store
      BY Zenon DEF Submit, Answer
    <3>2. BackendFollows => StoreLike
      BY <1>2 DEF BackendFollows
    <3>3. BackendRestarts => StoreLike
      BY <1>2 DEF BackendRestarts
    <3>4. Detach => StoreLike
      BY <1>2 DEF Detach
    <3>5. BackendGoes => StoreLike
      BY <1>2 DEF BackendGoes
    <3>. QED BY <1>5, <1>9, <3>1, <3>2, <3>3, <3>4, <3>5, Zenon
  <2>. QED BY <1>4, <2>2, <2>3, Zenon
<1>. QED BY <1>6, <1>7, <1>8, <1>9, Zenon DEF Aside, TimerStep

--------------------------------------------------------------------------------
(* The event channel.                                                       *)

\* Which steps record that a port was closed twice, or a mapped ring freed.
LEMMA Events ==
  ASSUME LifeNext
  PROVE  /\ "closedTwice" \in history'
              => "closedTwice" \in history \/ \E t \in Threads : ClosePort(t)
         /\ "freedMapped" \in history'
              => "freedMapped" \in history \/ Configure \/ Deallocate
<1> DEFINE Others == {"freedEarly", "refused", "stoppedBusy",
                      "removedConnected", "gaveUp"}
<1> DEFINE Plain == \E e \in Others : history' \subseteq history \cup {e}
<1>1. UNCHANGED history => Plain
  OBVIOUS
<1>2. /\ \A e \in Others : Record(e) => Plain
      /\ \A e \in Others : \A b : RecordIf(e, b) => Plain
  <2>1. \A e : \A b : {x \in {e} : b} \subseteq {e}
    OBVIOUS
  <2>2. \A e \in Others : Record(e) => Plain
    BY DEF Record
  <2>3. ASSUME NEW e \in Others, NEW b, RecordIf(e, b) PROVE Plain
    <3>1. history' = history \cup {x \in {e} : b}
      BY <2>3, Zenon DEF RecordIf
    <3>2. history' \subseteq history \cup {e}
      BY <2>1, <3>1
    <3>. QED BY <3>2
  <2>. QED BY <2>2, <2>3, Zenon
<1>3. /\ "freedEarly" \in Others /\ "refused" \in Others
      /\ "stoppedBusy" \in Others /\ "removedConnected" \in Others
      /\ "gaveUp" \in Others
  OBVIOUS
<1>4. Plain => /\ "closedTwice" \in history' => "closedTwice" \in history
               /\ "freedMapped" \in history' => "freedMapped" \in history
  OBVIOUS
<1> HIDE DEF Plain, Others
<1>5. DeviceAdd \/ Initialize \/ Connect \/ AwaitInitWait => Plain
  BY <1>1, <1>2, <1>3, Zenon DEF DeviceAdd, Initialize, Connect, AwaitInitWait
<1>6. Publish \/ AwaitConnected \/ Configured \/ GetUsbConfigData \/ CreateRootHubPdo => Plain
  BY <1>1, <1>2, <1>3, Zenon DEF Publish, AwaitConnected, Configured, GetUsbConfigData,
     CreateRootHubPdo
<1>7. Returned \/ Online \/ StartTimer \/ Cleanup \/ StopTimer \/ Sweep => Plain
  BY <1>1, Zenon DEF Returned, Online, StartTimer, Cleanup, StopTimer, Sweep
<1>8. Deconfigure \/ DisonnectBackend \/ Unregister => Plain
  BY <1>1, Zenon DEF Deconfigure, DisonnectBackend, Await, AskFor, Unregister
<1>9. PowerUp \/ PowerDown \/ SurpriseRemoval \/ Remove => Plain
  BY <1>1, <1>2, <1>3, Zenon DEF PowerUp, PowerDown, SurpriseRemoval, Remove
<1>10. \A t : CheckPort(t) \/ Unplug(t) \/ RemoveAllChildDevices(t) => Plain
  BY <1>1, Zenon DEF CheckPort, Unplug, RemoveAllChildDevices
<1>11. TimerFires \/ TimerStep \/ WaitForScratchCompletion => Plain
  BY <1>1, <1>2, <1>3, Zenon DEF TimerFires, TimerStep, TimerReadsState, TimerDecides,
     WaitForScratchCompletion
<1>12. \A r : Submit(r) \/ Answer(r) => Plain
  BY <1>1, Zenon DEF Submit, Answer
<1>13. BackendFollows \/ BackendRestarts \/ Detach \/ BackendGoes => Plain
  BY <1>1, Zenon DEF BackendFollows, BackendRestarts, Detach, BackendGoes
<1>14. \A t : ClosePort(t) => history' \subseteq history \cup {"closedTwice"}
  <2>1. ASSUME NEW t, ClosePort(t) PROVE history' \subseteq history \cup {"closedTwice"}
    <3>1. \E b : history' = history \cup {x \in {"closedTwice"} : b}
      BY <2>1, Zenon DEF ClosePort, RecordIf
    <3>. QED BY <3>1
  <2>. QED BY <2>1
<1>15. \A t : ClosePort(t) => ("freedMapped" \in history' => "freedMapped" \in history)
  BY <1>14
<1>16. DeallocateXenInterface => ("closedTwice" \in history' => "closedTwice" \in history)
  <2>1. DeallocateXenInterface => \/ history' = history
                                  \/ \E b : history' = history \cup {x \in {"freedMapped"} : b}
    BY Zenon DEF DeallocateXenInterface, RecordIf
  <2>. QED BY <2>1
<1>17. Configure \/ Deallocate => ("closedTwice" \in history' => "closedTwice" \in history)
  <2>1. Configure \/ Deallocate => DeallocateXenInterface \/ history' = history
    BY Zenon DEF Configure, Deallocate
  <2>. QED BY <1>16, <2>1, Zenon
<1>. QED BY <1>4, <1>5, <1>6, <1>7, <1>8, <1>9, <1>10, <1>11, <1>12, <1>13, <1>15, <1>17, Zenon
         DEF LifeNext, PnpStep, ThreadStep

\* The PnP thread touches the interface only while the watchdog is quiet, and it comes
\* to XenDisconnectDPC only with a port it has just seen.
LEMMA PnpTouches ==
  ASSUME LifeInv, ByPnp
  PROVE  /\ Doing \notin SettingUp \cup AfterTimer => UNCHANGED xenVars
         /\ saw'["timer"] = saw["timer"]
         /\ Doing' = "closePort"
              => xen # NULL /\ xen.port /\ saw'["pnp"] = gen /\ xen' = xen /\ gen' = gen
<1>1. LifeTypes /\ Control
  BY Zenon DEF LifeInv
<1>2. saw \in [Threads -> Nat] /\ "pnp" \in Threads /\ "timer" \in Threads
  BY <1>1 DEF LifeTypes, Data, Threads
<1> DEFINE Here == Doing \in SettingUp \cup AfterTimer
<1> DEFINE Alone == UNCHANGED xenVars \/ (Here /\ saw' = saw)
<1>3. Alone => /\ Doing \notin SettingUp \cup AfterTimer => UNCHANGED xenVars
               /\ saw'["timer"] = saw["timer"]
  BY Zenon DEF xenVars
<1>4. /\ Doing \in {"configure", "initialize", "connect", "awaitInitWait", "publish",
                    "awaitConnected", "unregister", "closePort", "deallocate", "checkPort"} => Here
  BY DEF SettingUp, AfterTimer
<1> HIDE DEF Here
<1>5. UNCHANGED todo => Doing' = Doing
  BY Unmoved, Zenon
<1>6. ASSUME DeviceAdd \/ Configured \/ GetUsbConfigData \/ CreateRootHubPdo \/ StartTimer
      PROVE  UNCHANGED xenVars /\ Doing' # "closePort"
  <2>1. UNCHANGED xenVars
    BY <1>6, Zenon DEF DeviceAdd, Configured, GetUsbConfigData, CreateRootHubPdo, StartTimer
  <2>2. \/ Doing' = "configure" \/ Doing' = "failed" \/ Doing' = "createRootHubPdo"
        \/ Doing' = "unplug" \/ Doing' = "added" \/ Doing' \in {"getUsbConfigData", "startTimer"}
        \/ Doing' = "d0"
    BY <1>1, <1>6, DeviceAddDoes, ConfiguredDoes, GetUsbConfigDataDoes, CreateRootHubPdoDoes,
       StartTimerDoes, Zenon DEF Failed, Begun
  <2>. QED BY <2>1, <2>2
<1>7. ASSUME Configure PROVE Alone /\ Doing' # "closePort"
  <2>1. /\ Doing = "configure" /\ saw' = saw
        /\ \/ Doing' \in {"getUsbConfigData", "startTimer"} \/ Doing' = "initialize"
           \/ Doing' = "failed"
    BY <1>1, <1>7, ConfigureDoes, Zenon DEF Failed, Begun
  <2>. QED BY <1>4, <2>1
<1>8. ASSUME Initialize \/ Connect \/ AwaitInitWait \/ Publish \/ AwaitConnected
      PROVE  Alone /\ Doing' # "closePort"
  <2>1. /\ \/ Doing = "initialize" \/ Doing = "connect" \/ Doing = "awaitInitWait"
           \/ Doing = "publish" \/ Doing = "awaitConnected"
        /\ saw' = saw
        /\ \/ Doing' = "connect" \/ Doing' = "awaitInitWait" \/ Doing' = "publish"
           \/ Doing' = "awaitConnected" \/ Doing' = "configured" \/ Doing' = "failed"
    BY <1>1, <1>5, <1>8, InitializeDoes, ConnectDoes, AwaitInitWaitDoes, PublishDoes,
       AwaitConnectedDoes, Zenon DEF Failed, Begun
  <2>. QED BY <1>4, <2>1
<1>9. ASSUME Returned \/ Online \/ Cleanup \/ StopTimer \/ Sweep \/ Deconfigure
      PROVE  UNCHANGED xenVars /\ Doing' # "closePort"
  <2>1. UNCHANGED xenVars
    BY <1>9, Zenon DEF Returned, Online, Cleanup, StopTimer, Sweep, Deconfigure
  <2>2. ASSUME Returned \/ Online PROVE Doing' # "closePort"
    <3>1. \/ Doing' = "idle" \/ Doing' = "stopTimer" \/ Doing' = "cleanup" \/ Doing' = "d0"
          \/ Doing' = "configure"
      BY <1>1, <2>2, ReturnedDoes, OnlineDoes, Zenon DEF Begun
    <3>. QED BY <3>1
  <2>3. ASSUME Cleanup \/ StopTimer \/ Sweep \/ Deconfigure PROVE Doing' # "closePort"
    <3>1. \/ Doing' = "stopTimer" \/ Doing' \in {"stopTimer", "d0", "remove", "deallocate"}
          \/ Doing' = "crashed" \/ Doing' = "timerStopped"
          \/ Doing' \in {"checkPort", "deconfigure"}
          \/ Doing' = "checkPort" \/ Doing' \in {"idle", "dx", "remove"}
      BY <1>1, <2>3, CleanupDoes, StopTimerDoes, SweepDoes, DeconfigureDoes, Zenon DEF Begun
    <3>. QED BY <3>1
  <2>. QED BY <1>9, <2>1, <2>2, <2>3, Zenon
<1>10. ASSUME Deallocate PROVE Alone /\ Doing' # "closePort"
  <2>1. Doing = "deallocate" /\ saw' = saw /\ Doing' = "removed"
    BY <1>1, <1>10, DeallocateDoes, Zenon
  <2>. QED BY <1>4, <2>1
<1>11. ASSUME DisonnectBackend PROVE UNCHANGED xenVars /\ Doing' # "closePort"
  <2>1. /\ UNCHANGED xenVars
        /\ \/ Doing \in {"stabilise", "awaitChange"} /\ Doing' = Doing
           \/ Doing' = "closing" \/ Doing' = "closed" \/ Doing' \in {"closing", "closed"}
           \/ Doing' = "awaitChange" \/ Doing' = "unregister"
    BY <1>1, <1>5, <1>11, DisonnectDoes, Zenon
  <2>. QED BY <2>1
<1>12. ASSUME Unregister PROVE Alone /\ Doing' # "closePort"
  <2>1. Doing = "unregister" /\ saw' = saw /\ Doing' \in {"idle", "dx", "remove"}
    BY <1>1, <1>12, UnregisterDoes, Zenon
  <2>. QED BY <1>4, <2>1
<1>13. ASSUME CheckPort("pnp")
       PROVE  /\ Here /\ saw'["timer"] = saw["timer"]
              /\ Doing' = "closePort"
                   => xen # NULL /\ xen.port /\ saw'["pnp"] = gen /\ xen' = xen /\ gen' = gen
  <2>1. /\ Doing = "checkPort" /\ xen' = xen /\ gen' = gen
        /\ \/ saw' = saw /\ Doing' = "crashed"
           \/ xen # NULL /\ xen.port /\ saw' = [saw EXCEPT !["pnp"] = gen]
           \/ /\ saw' = [saw EXCEPT !["pnp"] = 0]
              /\ Doing' \in {"unplug", "removeChildren", "stabilise"}
    BY <1>1, <1>13, CheckPortDoes, Zenon DEF Begun
  <2>. QED BY <1>2, <1>4, <2>1
<1>14. ASSUME ClosePort("pnp") PROVE Alone /\ Doing' # "closePort"
  <2>1. /\ Doing = "closePort" /\ saw' = saw
        /\ Doing' \in {"unplug", "removeChildren", "stabilise"}
    BY <1>1, <1>14, ClosePortDoes, Zenon
  <2>. QED BY <1>4, <2>1
<1>15. ASSUME Unplug("pnp") \/ RemoveAllChildDevices("pnp")
       PROVE  UNCHANGED xenVars /\ Doing' # "closePort"
  <2>1. /\ UNCHANGED xenVars
        /\ Doing' \in {"sweep", "failed", "checkPort"} \/ Doing' \in {"sweep", "failed"}
    BY <1>1, <1>15, UnplugDoes, RemoveChildrenDoes, Zenon
  <2>. QED BY <2>1
<1>16. ASSUME PowerUp \/ PowerDown \/ SurpriseRemoval \/ Remove
       PROVE  UNCHANGED xenVars /\ Doing' # "closePort"
  <2>1. /\ UNCHANGED xenVars
        /\ Doing' = "online" \/ Doing' = "stopTimer" \/ Doing' = "cleanup"
    BY <1>1, <1>16, FrameworkDoes, Zenon DEF Begun
  <2>. QED BY <2>1
<1>17. UNCHANGED xenVars => Alone
  BY Zenon
<1> HIDE DEF Alone
<1>18. CASE PnpStep
  BY <1>3, <1>6, <1>7, <1>8, <1>9, <1>10, <1>11, <1>12, <1>17, <1>18, Zenon DEF PnpStep
<1>19. CASE ThreadStep("pnp")
  BY <1>3, <1>13, <1>14, <1>15, <1>17, <1>19, Zenon DEF ThreadStep, Here
<1>. QED BY <1>3, <1>16, <1>17, <1>18, <1>19, Zenon DEF ByPnp

\* The port is open when it is closed, until a thread gives up a scratch request.
LEMMA SawOpenKept ==
  ASSUME LifeInv, LifeNext
  PROVE  SawOpen'
<1>1. LifeTypes /\ Control /\ Watchdog /\ SawOpen /\ history \subseteq history'
  BY HistoryGrows, Zenon DEF LifeInv
<1>2. SUFFICES ASSUME "gaveUp" \notin history', NEW t \in Threads, At(t, "closePort")'
               PROVE  (xen # NULL /\ saw[t] = gen /\ xen.port)'
  BY Zenon DEF SawOpen
<1>3. /\ "gaveUp" \notin history /\ t \in {"pnp", "timer", "waiter"}
      /\ todo'[t] # <<>> /\ Head(todo'[t]) = "closePort"
  BY <1>1, <1>2 DEF At, Threads
<1>4. /\ todo["waiter"] = <<>> /\ todo'["waiter"] = <<>>
  BY <1>1, <1>2, <1>3, ControlKept, Zenon DEF Control
<1>5. /\ todo["timer"] # <<>> => Doing \notin SettingUp \cup AfterTimer
      /\ fdo.timer = "armed" => Doing \notin SettingUp \cup AfterTimer
  BY <1>1 DEF Watchdog, Quiet, Idle
<1>6. ASSUME NEW u \in Threads, todo[u] # <<>>, Head(todo[u]) = "closePort"
      PROVE  xen # NULL /\ saw[u] = gen /\ xen.port
  BY <1>1, <1>3, <1>6, Zenon DEF SawOpen, At
<1>7. /\ t = "pnp" => Doing' = "closePort"
      /\ Doing = "closePort" => todo["pnp"] # <<>> /\ Head(todo["pnp"]) = "closePort"
  <2>1. t = "pnp" => Doing' = "closePort"
    BY <1>3, Zenon DEF Doing
  <2>2. Doing = "closePort" => todo["pnp"] # <<>> /\ Head(todo["pnp"]) = "closePort"
    BY DEF Doing
  <2>. QED BY <2>1, <2>2
<1>8. CASE ByPnp
  <2>1. /\ Doing \notin SettingUp \cup AfterTimer => UNCHANGED xenVars
        /\ saw'["timer"] = saw["timer"] /\ todo'["timer"] = todo["timer"]
        /\ Doing' = "closePort"
              => xen # NULL /\ xen.port /\ saw'["pnp"] = gen /\ xen' = xen /\ gen' = gen
    BY <1>1, <1>8, PnpTouches, PnpLeaves, Zenon
  <2>2. CASE t = "timer"
    <3>1. xen # NULL /\ saw["timer"] = gen /\ xen.port /\ Doing \notin SettingUp \cup AfterTimer
      BY <1>3, <1>5, <1>6, <2>1, <2>2, Zenon
    <3>2. xen' = xen /\ gen' = gen /\ saw' = saw
      BY <2>1, <3>1, Zenon DEF xenVars
    <3>. QED BY <2>2, <3>1, <3>2
  <2>3. CASE t = "pnp"
    BY <1>7, <2>1, <2>3
  <2>. QED BY <1>3, <1>4, <2>2, <2>3
<1>9. CASE Aside
  <2>1. Steady /\ gen' = gen /\ Doing' = Doing
    BY <1>1, <1>9, AsideTakes, Unmoved, Zenon DEF Steady
  <2>2. ASSUME UNCHANGED <<saw, xen>>, t = "pnp" \/ todo'["timer"] = todo["timer"]
        PROVE  (xen # NULL /\ saw[t] = gen /\ xen.port)'
    <3>1. todo[t] # <<>> /\ Head(todo[t]) = "closePort"
      BY <1>3, <1>4, <1>7, <2>1, <2>2
    <3>. QED BY <1>6, <2>1, <2>2, <3>1, Zenon
  <2>3. Doing = "closePort" => todo["timer"] = <<>> /\ fdo.timer # "armed"
    BY <1>5 DEF AfterTimer
  <2>4. ASSUME NEW u \in {"timer", "waiter"}, ThreadStep(u)
        PROVE  (xen # NULL /\ saw[t] = gen /\ xen.port)'
    <3>1. u = "timer" /\ todo["timer"] # <<>>
      <4>1. todo[u] # <<>>
        BY <2>4, Zenon DEF ThreadStep, CheckPort, ClosePort, Unplug, RemoveAllChildDevices, At
      <4>. QED BY <1>4, <4>1
    <3>2. t = "timer"
      BY <1>3, <1>4, <1>7, <2>1, <2>3, <3>1
    <3>3. /\ Head(<<"crashed">>) # "closePort" /\ Head(<<"removeChildren">>) # "closePort"
          /\ Head(UnplugSteps) # "closePort"
      BY DEF UnplugSteps
    <3>4. todo \in [Threads -> Seq(Steps)] /\ "timer" \in Threads /\ saw \in [Threads -> Nat]
      BY <1>1 DEF LifeTypes, Data, Threads
    <3>5. \A x : Goto("timer", x) => todo'["timer"] = x
      BY <3>4 DEF Goto
    <3>6. CheckPort("timer")
      BY <1>1, <1>3, <2>4, <3>1, <3>2, <3>3, <3>5, BesideMoves, Zenon DEF ThreadStep
    <3>7. xen # NULL /\ xen.port /\ saw' = [saw EXCEPT !["timer"] = gen] /\ xen' = xen
      BY <1>1, <1>3, <3>2, <3>3, <3>5, <3>6, BesideMoves, Zenon DEF CheckPort
    <3>. QED BY <2>1, <3>2, <3>4, <3>7
  <2>5. ASSUME TimerFires \/ TimerReadsState \/ TimerDecides
        PROVE  (xen # NULL /\ saw[t] = gen /\ xen.port)'
    <3>1. UNCHANGED <<saw, xen>> /\ (todo["timer"] # <<>> \/ fdo.timer = "armed")
      BY <2>5, Zenon DEF TimerFires, TimerReadsState, TimerDecides, xenVars, At
    <3>2. t = "timer"
      BY <1>3, <1>4, <1>7, <2>1, <2>3, <3>1
    <3>3. /\ Head(<<"crashed">>) # "closePort" /\ Head(<<"gone">>) # "closePort"
          /\ Head(<<"restart">>) # "closePort" /\ Head(<<"readState">>) # "closePort"
          /\ Head(UnplugSteps) # "closePort"
      BY DEF UnplugSteps
    <3>4. todo \in [Threads -> Seq(Steps)] /\ "timer" \in Threads
      BY <1>1 DEF LifeTypes, Threads
    <3>5. \A x : Goto("timer", x) => todo'["timer"] = x
      BY <3>4 DEF Goto
    <3>6. \E x \in {<<>>, UnplugSteps, <<"crashed">>, <<"gone">>, <<"restart">>, <<"readState">>} :
            Goto("timer", x)
      <4>1. TimerFires => Goto("timer", <<"readState">>)
        BY Zenon DEF TimerFires
      <4>2. /\ TimerDecides => Goto("timer", <<>>) \/ Goto("timer", UnplugSteps)
            /\ TimerReadsState => \E x \in {<<"crashed">>, <<"gone">>, <<"restart">>} :
                                    Goto("timer", x)
        BY <1>1, BesideMoves, Zenon
      <4>. QED BY <2>5, <4>1, <4>2, Zenon
    <3>7. todo'["timer"] \in {<<>>, UnplugSteps, <<"crashed">>, <<"gone">>, <<"restart">>,
                              <<"readState">>}
      BY <3>5, <3>6, Zenon
    <3>. QED BY <1>3, <3>2, <3>3, <3>7, Zenon
  <2>6. ASSUME WaitForScratchCompletion PROVE FALSE
    BY <1>2, <2>6 DEF WaitForScratchCompletion, Record
  <2>7. ASSUME \/ \E r \in Requests : Submit(r) \/ Answer(r)
               \/ BackendFollows \/ BackendRestarts \/ Detach \/ BackendGoes
        PROVE  (xen # NULL /\ saw[t] = gen /\ xen.port)'
    <3>1. UNCHANGED <<todo, saw, xen>>
      BY <2>7, Zenon DEF Submit, Answer, BackendFollows, BackendRestarts, Detach, BackendGoes,
         xenVars
    <3>. QED BY <2>2, <3>1, Zenon
  <2>. QED BY <1>9, <2>4, <2>5, <2>6, <2>7, Zenon DEF Aside, TimerStep
<1>. QED BY <1>8, <1>9, Actors

\* So nobody closes it twice.
LEMMA PortClosedOnceKept ==
  ASSUME LifeInv, LifeNext
  PROVE  PortClosedOnce'
<1>1. /\ LifeTypes /\ Control /\ SawOpen /\ history \subseteq history'
      /\ "closedTwice" \in history => "gaveUp" \in history
  BY HistoryGrows, Zenon DEF LifeInv, PortClosedOnce
<1>2. ASSUME NEW t \in Threads, ClosePort(t), "gaveUp" \notin history
      PROVE  history' = history
  <2>1. xen # NULL /\ saw[t] = gen /\ xen.port
    BY <1>1, <1>2, Zenon DEF SawOpen, ClosePort
  <2>2. RecordIf("closedTwice", FALSE)
    BY <1>2, <2>1 DEF ClosePort, RecordIf
  <2>. QED BY <2>2 DEF RecordIf
<1>. QED BY <1>1, <1>2, Events, Zenon DEF PortClosedOnce

--------------------------------------------------------------------------------
(* What was had and what was given back.                                    *)

\* DeallocateXenInterface gives everything back.
LEMMA DeallocateBalances ==
  ASSUME Data, Books, DeallocateXenInterface, xen' = NULL \/ xen' = NoXen,
         history \subseteq history'
  PROVE  Books'
<1>1. /\ ledger.page \in Int /\ ledger.grant \in Int /\ ledger.port \in Int
      /\ ledger.handler \in Int /\ (xen = NULL \/ xen \in Interfaces)
  BY DEF Data, Ledgers
<1>2. /\ One(xen' # NULL /\ xen'.ring # "none") = 0 /\ One(xen' # NULL /\ xen'.granted) = 0
      /\ One(xen' # NULL /\ xen'.port) = 0 /\ One(xen' # NULL /\ xen'.handler) = 0
  <2>1. NoXen.ring = "none" /\ ~NoXen.granted /\ ~NoXen.port /\ ~NoXen.handler
    BY DEF NoXen
  <2>. QED BY <2>1 DEF One
<1>3. CASE xen = NULL
  <2>1. ledger' = ledger
    BY <1>3, Zenon DEF DeallocateXenInterface
  <2>2. /\ One(xen # NULL /\ xen.ring # "none") = 0 /\ One(xen # NULL /\ xen.granted) = 0
        /\ One(xen # NULL /\ xen.port) = 0 /\ One(xen # NULL /\ xen.handler) = 0
    BY <1>3 DEF One
  <2>. QED BY <1>1, <1>2, <2>1, <2>2 DEF Books
<1>4. CASE xen # NULL
  <2>1. /\ ledger' = Released
        /\ history' = history \cup {x \in {"freedMapped"} : store.mapped = gen}
    BY <1>4, Zenon DEF DeallocateXenInterface, RecordIf
  <2>2. store.mapped = gen => "freedMapped" \in history'
    BY <2>1
  <2>3. /\ ledger'.page = ledger.page - (IF xen.ring = "none" THEN 0 ELSE 1)
        /\ ledger'.grant = ledger.grant - (IF xen.granted /\ store.mapped # gen THEN 1 ELSE 0)
        /\ ledger'.port = ledger.port - (IF xen.port THEN 1 ELSE 0)
        /\ ledger'.handler = ledger.handler - (IF xen.handler THEN 1 ELSE 0)
    BY <2>1 DEF Released
  <2> DEFINE page == One(xen # NULL /\ xen.ring # "none")
             grant == One(xen # NULL /\ xen.granted)
             port == One(xen # NULL /\ xen.port)
             handler == One(xen # NULL /\ xen.handler)
  <2>4. /\ page = (IF xen.ring = "none" THEN 0 ELSE 1) /\ grant = (IF xen.granted THEN 1 ELSE 0)
        /\ port = (IF xen.port THEN 1 ELSE 0) /\ handler = (IF xen.handler THEN 1 ELSE 0)
    BY <1>4 DEF One
  <2>5. /\ ledger.page <= page /\ ledger.port <= port
        /\ ledger.page = page \/ "freedEarly" \in history
        /\ ledger.grant >= grant
        /\ ledger.grant = grant \/ "freedMapped" \in history
        /\ ledger.port = port \/ "closedTwice" \in history
        /\ ledger.handler = handler
    BY DEF Books
  <2> HIDE DEF page, grant, port, handler
  <2>6. /\ ledger'.page <= 0 /\ ledger'.port <= 0
        /\ ledger'.page = 0 \/ "freedEarly" \in history'
        /\ ledger'.grant >= 0
        /\ ledger'.grant = 0 \/ "freedMapped" \in history'
        /\ ledger'.port = 0 \/ "closedTwice" \in history'
        /\ ledger'.handler = 0
    <3>0. ledger'.page <= 0 /\ ledger'.port <= 0
      BY <1>1, <2>3, <2>4, <2>5
    <3>1. ledger'.page = 0 \/ "freedEarly" \in history'
      BY <1>1, <2>3, <2>4, <2>5
    <3>2. ASSUME xen.granted /\ store.mapped # gen
          PROVE  ledger'.grant >= 0 /\ (ledger'.grant = 0 \/ "freedMapped" \in history')
      <4>1. ledger'.grant = ledger.grant - 1 /\ grant = 1
        BY <2>3, <2>4, <3>2
      <4>. QED BY <1>1, <2>5, <4>1
    <3>3. ASSUME ~(xen.granted /\ store.mapped # gen)
          PROVE  ledger'.grant >= 0 /\ (ledger'.grant = 0 \/ "freedMapped" \in history')
      <4>1. ledger'.grant = ledger.grant /\ (grant = 0 \/ (grant = 1 /\ "freedMapped" \in history'))
        BY <1>1, <2>2, <2>3, <2>4, <3>3
      <4>. QED BY <1>1, <2>5, <4>1
    <3>4. ledger'.grant >= 0 /\ (ledger'.grant = 0 \/ "freedMapped" \in history')
      BY <3>2, <3>3
    <3>5. ledger'.port = 0 \/ "closedTwice" \in history'
      BY <1>1, <2>3, <2>4, <2>5
    <3>6. ledger'.handler = 0
      BY <1>1, <2>3, <2>4, <2>5
    <3>. QED BY <3>0, <3>1, <3>4, <3>5, <3>6
  <2>. QED BY <1>2, <2>6 DEF Books
<1>. QED BY <1>3, <1>4

\* XenDisconnectDPC, in any thread.
LEMMA CloseBalances ==
  ASSUME Data, Books, NEW t \in Threads, ClosePort(t), history \subseteq history'
  PROVE  /\ Books' /\ (xen' # NULL <=> xen # NULL)
         /\ xen' = xen \/ (xen # NULL /\ xen.port /\ xen'.handler = xen.handler)
<1>1. /\ ledger \in Ledgers /\ (xen = NULL \/ xen \in Interfaces)
      /\ ledger.page \in Int /\ ledger.grant \in Int /\ ledger.port \in Int
      /\ ledger.handler \in Int
  BY DEF Data, Ledgers
<1>2. /\ ledger' = [ledger EXCEPT !.port = @ - 1]
      /\ \/ /\ xen # NULL /\ xen.port /\ xen' = [xen EXCEPT !.port = FALSE]
         \/ xen' = xen /\ "closedTwice" \in history'
  <2>1. /\ ledger' = [ledger EXCEPT !.port = @ - 1]
        /\ LET open == xen # NULL /\ saw[t] = gen /\ xen.port IN
             /\ xen' = IF open THEN [xen EXCEPT !.port = FALSE] ELSE xen
             /\ history' = history \cup {x \in {"closedTwice"} : ~open}
    BY Zenon DEF ClosePort, RecordIf
  <2>. QED BY <2>1
<1>3. /\ ledger'.page = ledger.page /\ ledger'.grant = ledger.grant
      /\ ledger'.port = ledger.port - 1 /\ ledger'.handler = ledger.handler
  BY <1>1, <1>2, PortGiven, Zenon
<1>4. CASE xen' = xen /\ "closedTwice" \in history'
  BY <1>1, <1>3, <1>4 DEF Books, One
<1>5. CASE xen # NULL /\ xen.port /\ xen' = [xen EXCEPT !.port = FALSE]
  <2>1. /\ xen' \in Interfaces /\ xen'.ring = xen.ring /\ xen'.granted = xen.granted
        /\ xen'.port = FALSE /\ xen'.handler = xen.handler
    BY <1>1, <1>5, PortShut, Zenon
  <2>2. xen' # NULL
    BY <2>1, LifeAssumption DEF Interfaces
  <2>. QED BY <1>1, <1>3, <1>5, <2>1, <2>2 DEF Books, One
<1>. QED BY <1>2, <1>4, <1>5

\* The ledger after a step of the PnP thread.
LEMMA AccountsByPnp ==
  ASSUME LifeInv, ByPnp, LifeNext
  PROVE  Accounts'
<1>1. LifeTypes /\ Control /\ Accounts /\ Data /\ Books /\ history \subseteq history'
  BY HistoryGrows, Zenon DEF LifeInv, LifeTypes, Accounts
<1>2. /\ xen # NULL => gen > 0
      /\ Doing \in {"online", "configure"} => fdo.configured \/ gen < MaxGen
      /\ Doing = "deviceAdd" => gen = 0 /\ ~fdo.configured
      /\ Doing = "initialize" => xen = NoXen
      /\ Doing \in {"connect", "awaitInitWait", "publish", "awaitConnected"}
           => xen # NULL /\ ~xen.handler
      /\ Doing \in {"closePort", "stabilise", "closing", "closed", "awaitChange", "unregister"}
           => xen # NULL
      /\ Doing = "removed" \/ pnp = "removed" => xen = NULL /\ ~fdo.scratch
  BY <1>1, Zenon DEF Accounts
<1>3. /\ gen \in Nat /\ MaxGen \in Nat /\ MaxGen >= 1 /\ fdo \in Contexts
      /\ xen = NULL \/ xen \in Interfaces
      /\ ledger \in Ledgers
  BY <1>1, LifeAssumption DEF Data
<1>4. pnp = "removed" => Doing = "idle"
  BY <1>1, Positions, Zenon
<1>5. UNCHANGED todo => Doing' = Doing
  BY Unmoved, Zenon
<1>6. UNCHANGED <<xen, ledger>> => Books'
  BY <1>1 DEF Books, One
<1> DEFINE Waits == {"connect", "awaitInitWait", "publish", "awaitConnected"}
<1> DEFINE Parts == {"closePort", "stabilise", "closing", "closed", "awaitChange", "unregister"}
<1> DEFINE Rare == {"online", "configure", "deviceAdd", "initialize", "removed"}
<1>7. ASSUME UNCHANGED <<xen, gen, ledger, pnp>>, Doing # "idle", Doing' \notin Rare,
             Doing' \in Waits => Doing \in Waits,
             Doing' \in Parts => xen # NULL
      PROVE  Accounts'
  <2>1. Books'
    BY <1>6, <1>7, Zenon
  <2>. QED BY <1>2, <1>4, <1>7, <2>1 DEF Accounts
<1>8. ASSUME RegisterSuspendHandler, gen' = gen, pnp' = pnp, Doing \in Waits,
             Doing' \in {"configured", "failed"}
      PROVE  Accounts'
  <2>1. xen \in Interfaces /\ ~xen.handler /\ xen # NULL
    BY <1>2, <1>3, <1>8
  <2>2. /\ xen' \in Interfaces /\ ledger' \in Ledgers
        /\ xen'.ring = xen.ring /\ xen'.granted = xen.granted /\ xen'.port = xen.port
        /\ xen'.handler
        /\ ledger'.page = ledger.page /\ ledger'.grant = ledger.grant
        /\ ledger'.port = ledger.port /\ ledger'.handler = ledger.handler + 1
    BY <1>3, <1>8, <2>1, HandlerMoves, Zenon
  <2>3. xen' # NULL
    BY <2>2, LifeAssumption DEF Interfaces
  <2>4. Books'
    BY <1>1, <2>1, <2>2, <2>3 DEF Books, One
  <2>. QED BY <1>2, <1>4, <1>8, <2>4 DEF Accounts
<1>9. ASSUME DeviceAdd PROVE Accounts'
  <2>1. /\ Doing = "deviceAdd" /\ UNCHANGED <<pnp, xen, gen, ledger>>
        /\ Doing' = "configure" \/ Doing' = "failed"
    BY <1>1, <1>9, DeviceAddDoes, Zenon DEF Failed, Begun, xenVars
  <2>2. Books'
    BY <1>6, <2>1, Zenon
  <2>. QED BY <1>2, <1>3, <1>4, <2>1, <2>2 DEF Accounts
<1>10. ASSUME Configure PROVE Accounts'
  <2>1. /\ Doing = "configure" /\ pnp' = pnp
        /\ \/ UNCHANGED <<xen, gen, ledger>> /\ Doing' \in {"getUsbConfigData", "startTimer"}
           \/ DeallocateXenInterface /\ gen' = gen + 1 /\ xen' = NoXen /\ Doing' = "initialize"
           \/ DeallocateXenInterface /\ gen' = gen /\ xen' = NULL /\ Doing' = "failed"
    BY <1>1, <1>10, ConfigureDoes, Zenon DEF Failed, Begun
  <2>2. CASE UNCHANGED <<xen, gen, ledger>> /\ Doing' \in {"getUsbConfigData", "startTimer"}
    BY <1>7, <2>1, <2>2
  <2>3. CASE DeallocateXenInterface /\ gen' = gen + 1 /\ xen' = NoXen /\ Doing' = "initialize"
    <3>1. Books'
      BY <1>1, <2>3, DeallocateBalances, Zenon
    <3>. QED BY <1>2, <1>3, <1>4, <2>1, <2>3, <3>1 DEF Accounts
  <2>4. CASE DeallocateXenInterface /\ gen' = gen /\ xen' = NULL /\ Doing' = "failed"
    <3>1. Books'
      BY <1>1, <2>4, DeallocateBalances, Zenon
    <3>. QED BY <1>2, <1>3, <1>4, <2>1, <2>4, <3>1 DEF Accounts
  <2>. QED BY <2>1, <2>2, <2>3, <2>4, Zenon
<1>11. ASSUME Initialize PROVE Accounts'
  <2>1. /\ Doing = "initialize" /\ pnp' = pnp /\ gen' = gen
        /\ \/ /\ xen' = [xen EXCEPT !.ring = "live", !.granted = TRUE, !.port = TRUE]
              /\ ledger' = [ledger EXCEPT !.page = @ + 1, !.grant = @ + 1, !.port = @ + 1]
              /\ Doing' = "connect"
           \/ UNCHANGED <<xen, ledger>> /\ Doing' = "failed"
           \/ /\ xen' = [xen EXCEPT !.ring = "freed", !.granted = TRUE]
              /\ ledger' = [ledger EXCEPT !.grant = @ + 1]
              /\ history' = history \cup {"freedEarly"} /\ Doing' = "failed"
    BY <1>1, <1>11, InitializeDoes, Zenon DEF Failed, Begun
  <2>2. /\ xen.ring = "none" /\ ~xen.granted /\ ~xen.port /\ ~xen.handler /\ xen \in Interfaces
        /\ xen # NULL
    <3>1. xen = NoXen
      BY <1>2, <2>1
    <3>2. xen.ring = "none" /\ ~xen.granted /\ ~xen.port /\ ~xen.handler /\ xen \in Interfaces
      BY <3>1 DEF NoXen, Interfaces
    <3>. QED BY <3>2, LifeAssumption DEF Interfaces
  <2>3. /\ ledger.page \in Int /\ ledger.grant \in Int /\ ledger.port \in Int
        /\ ledger.handler \in Int
    BY <1>3 DEF Ledgers
  <2>4. /\ ledger.page <= 0 /\ ledger.port <= 0
        /\ ledger.page = 0 \/ "freedEarly" \in history
        /\ ledger.grant >= 0
        /\ ledger.grant = 0 \/ "freedMapped" \in history
        /\ ledger.port = 0 \/ "closedTwice" \in history
        /\ ledger.handler = 0
    BY <1>1, <2>2 DEF Books, One
  <2>5. CASE /\ xen' = [xen EXCEPT !.ring = "live", !.granted = TRUE, !.port = TRUE]
             /\ ledger' = [ledger EXCEPT !.page = @ + 1, !.grant = @ + 1, !.port = @ + 1]
             /\ Doing' = "connect"
    <3>1. /\ xen' \in Interfaces /\ xen'.ring = "live" /\ xen'.granted = TRUE /\ xen'.port = TRUE
          /\ xen'.handler = xen.handler
          /\ ledger'.page = ledger.page + 1 /\ ledger'.grant = ledger.grant + 1
          /\ ledger'.port = ledger.port + 1 /\ ledger'.handler = ledger.handler
      <4>1. /\ xen' \in Interfaces /\ xen'.ring = "live" /\ xen'.granted = TRUE /\ xen'.port = TRUE
            /\ xen'.handler = xen.handler
        BY <2>2, <2>5, RingMade, Zenon
      <4>2. /\ ledger'.page = ledger.page + 1 /\ ledger'.grant = ledger.grant + 1
            /\ ledger'.port = ledger.port + 1 /\ ledger'.handler = ledger.handler
        BY <1>3, <2>5, RingHad, Zenon
      <4>. QED BY <4>1, <4>2
    <3>2. xen' # NULL
      BY <3>1, LifeAssumption DEF Interfaces
    <3>3. /\ One(xen' # NULL /\ xen'.ring # "none") = 1 /\ One(xen' # NULL /\ xen'.granted) = 1
          /\ One(xen' # NULL /\ xen'.port) = 1 /\ One(xen' # NULL /\ xen'.handler) = 0
      BY <2>2, <3>1, <3>2 DEF One
    <3>4. Books'
      BY <1>1, <2>3, <2>4, <3>1, <3>3 DEF Books
    <3>. QED BY <1>2, <1>4, <2>1, <2>2, <2>5, <3>1, <3>2, <3>4 DEF Accounts
  <2>6. CASE UNCHANGED <<xen, ledger>> /\ Doing' = "failed"
    BY <1>7, <2>1, <2>6
  <2>7. CASE /\ xen' = [xen EXCEPT !.ring = "freed", !.granted = TRUE]
             /\ ledger' = [ledger EXCEPT !.grant = @ + 1]
             /\ history' = history \cup {"freedEarly"} /\ Doing' = "failed"
    <3>1. /\ xen' \in Interfaces /\ xen'.ring = "freed" /\ xen'.granted = TRUE
          /\ xen'.port = xen.port /\ xen'.handler = xen.handler
          /\ ledger'.page = ledger.page /\ ledger'.grant = ledger.grant + 1
          /\ ledger'.port = ledger.port /\ ledger'.handler = ledger.handler
      BY <1>3, <2>2, <2>7, RingBroken, GrantHad, Zenon
    <3>2. xen' # NULL
      BY <3>1, LifeAssumption DEF Interfaces
    <3>3. /\ One(xen' # NULL /\ xen'.ring # "none") = 1 /\ One(xen' # NULL /\ xen'.granted) = 1
          /\ One(xen' # NULL /\ xen'.port) = 0 /\ One(xen' # NULL /\ xen'.handler) = 0
      BY <2>2, <3>1, <3>2 DEF One
    <3>4. "freedEarly" \in history'
      BY <2>7
    <3>5. Books'
      BY <1>1, <2>3, <2>4, <3>1, <3>3, <3>4 DEF Books
    <3>. QED BY <1>2, <1>4, <2>1, <2>2, <2>7, <3>5 DEF Accounts
  <2>. QED BY <2>1, <2>5, <2>6, <2>7, Zenon
<1>12. ASSUME Connect PROVE Accounts'
  <2>1. /\ Doing = "connect" /\ pnp' = pnp /\ gen' = gen
        /\ \/ UNCHANGED <<xen, ledger>> /\ Doing' = "awaitInitWait"
           \/ RegisterSuspendHandler /\ Doing' = "failed"
           \/ UNCHANGED <<xen, ledger>> /\ Doing' = "failed"
    BY <1>1, <1>5, <1>12, ConnectDoes, Zenon DEF Failed, Begun, xenVars
  <2>2. CASE RegisterSuspendHandler /\ Doing' \in {"configured", "failed"}
    BY <1>8, <2>1, <2>2
  <2>3. CASE UNCHANGED <<xen, ledger>> /\ Doing' \in Waits \cup {"failed"}
    BY <1>7, <2>1, <2>3
  <2>. QED BY <2>1, <2>2, <2>3
<1>13. ASSUME AwaitInitWait PROVE Accounts'
  <2>1. /\ Doing = "awaitInitWait" /\ pnp' = pnp /\ gen' = gen
        /\ \/ UNCHANGED <<xen, ledger>> /\ Doing' = "publish"
           \/ RegisterSuspendHandler /\ Doing' = "failed"
           \/ UNCHANGED <<xen, ledger>> /\ Doing' = Doing
    BY <1>1, <1>5, <1>13, AwaitInitWaitDoes, Zenon DEF Failed, Begun, xenVars
  <2>2. CASE RegisterSuspendHandler /\ Doing' \in {"configured", "failed"}
    BY <1>8, <2>1, <2>2
  <2>3. CASE UNCHANGED <<xen, ledger>> /\ Doing' \in Waits \cup {"failed"}
    BY <1>7, <2>1, <2>3
  <2>. QED BY <2>1, <2>2, <2>3
<1>14. ASSUME Publish PROVE Accounts'
  <2>1. /\ Doing = "publish" /\ pnp' = pnp /\ gen' = gen
        /\ \/ UNCHANGED <<xen, ledger>> /\ Doing' = "awaitConnected"
           \/ RegisterSuspendHandler /\ Doing' = "failed"
    BY <1>1, <1>5, <1>14, PublishDoes, Zenon DEF Failed, Begun, xenVars
  <2>2. CASE RegisterSuspendHandler /\ Doing' \in {"configured", "failed"}
    BY <1>8, <2>1, <2>2
  <2>3. CASE UNCHANGED <<xen, ledger>> /\ Doing' \in Waits \cup {"failed"}
    BY <1>7, <2>1, <2>3
  <2>. QED BY <2>1, <2>2, <2>3
<1>15. ASSUME AwaitConnected PROVE Accounts'
  <2>1. /\ Doing = "awaitConnected" /\ pnp' = pnp /\ gen' = gen
        /\ \/ RegisterSuspendHandler /\ Doing' = "configured"
           \/ RegisterSuspendHandler /\ Doing' = "failed"
           \/ UNCHANGED <<xen, ledger>> /\ Doing' = Doing
    BY <1>1, <1>5, <1>15, AwaitConnectedDoes, Zenon DEF Failed, Begun, xenVars
  <2>2. CASE RegisterSuspendHandler /\ Doing' \in {"configured", "failed"}
    BY <1>8, <2>1, <2>2
  <2>3. CASE UNCHANGED <<xen, ledger>> /\ Doing' \in Waits \cup {"failed"}
    BY <1>7, <2>1, <2>3
  <2>. QED BY <2>1, <2>2, <2>3
<1>16. ASSUME Configured PROVE Accounts'
  <2>1. /\ Doing = "configured" /\ UNCHANGED <<xen, gen, ledger, pnp>>
        /\ Doing' \in {"getUsbConfigData", "startTimer"}
    BY <1>1, <1>5, <1>16, ConfiguredDoes, Zenon DEF Failed, Begun, xenVars
  <2>. QED BY <1>2, <1>7, <2>1
<1>17. ASSUME GetUsbConfigData PROVE Accounts'
  <2>1. /\ Doing = "getUsbConfigData" /\ UNCHANGED <<xen, gen, ledger, pnp>>
        /\ Doing' = "createRootHubPdo" \/ Doing' = "failed" \/ Doing' = "unplug" \/ Doing' = "added"
    BY <1>1, <1>5, <1>17, GetUsbConfigDataDoes, Zenon DEF Failed, Begun, xenVars
  <2>. QED BY <1>2, <1>7, <2>1
<1>18. ASSUME CreateRootHubPdo PROVE Accounts'
  <2>1. /\ Doing = "createRootHubPdo" /\ UNCHANGED <<xen, gen, ledger, pnp>>
        /\ Doing' = "added" \/ Doing' = "failed"
    BY <1>1, <1>5, <1>18, CreateRootHubPdoDoes, Zenon DEF Failed, Begun, xenVars
  <2>. QED BY <1>2, <1>7, <2>1
<1>19. ASSUME StartTimer PROVE Accounts'
  <2>1. /\ Doing = "startTimer" /\ UNCHANGED <<xen, gen, ledger, pnp>>
        /\ Doing' = "d0"
    BY <1>1, <1>5, <1>19, StartTimerDoes, Zenon DEF Failed, Begun, xenVars
  <2>. QED BY <1>2, <1>7, <2>1
<1>20. ASSUME StopTimer PROVE Accounts'
  <2>1. /\ Doing \in {"stopTimer", "timerStopped"} /\ UNCHANGED <<xen, gen, ledger, pnp>>
        /\ \/ Doing' = "crashed" \/ Doing' = "timerStopped"
           \/ Doing' \in {"checkPort", "deconfigure"}
    BY <1>1, <1>5, <1>20, StopTimerDoes, Zenon DEF Failed, Begun, xenVars
  <2>. QED BY <1>2, <1>7, <2>1
<1>21. ASSUME Cleanup PROVE Accounts'
  <2>1. /\ Doing = "cleanup" /\ UNCHANGED <<xen, gen, ledger, pnp>>
        /\ Doing' = "stopTimer" \/ Doing' \in {"stopTimer", "d0", "remove", "deallocate"}
    BY <1>1, <1>5, <1>21, CleanupDoes, Zenon DEF Failed, Begun, xenVars
  <2>. QED BY <1>2, <1>7, <2>1
<1>22. ASSUME Sweep PROVE Accounts'
  <2>1. /\ Doing = "sweep" /\ UNCHANGED <<xen, gen, ledger, pnp>>
        /\ Doing' \in {"stopTimer", "d0", "remove", "deallocate"}
    BY <1>1, <1>5, <1>22, SweepDoes, Zenon DEF Failed, Begun, xenVars
  <2>. QED BY <1>2, <1>7, <2>1
<1>23. ASSUME Deconfigure PROVE Accounts'
  <2>1. /\ Doing = "deconfigure" /\ UNCHANGED <<xen, gen, ledger, pnp>>
        /\ Doing' = "checkPort" \/ Doing' \in {"idle", "dx", "remove"}
    BY <1>1, <1>5, <1>23, DeconfigureDoes, Zenon DEF Failed, Begun, xenVars
  <2>. QED BY <1>2, <1>7, <2>1
<1>24. ASSUME DisonnectBackend PROVE Accounts'
  <2>1. /\ Doing \in {"stabilise", "awaitChange", "closing", "closed"}
        /\ UNCHANGED <<xen, gen, ledger, pnp>>
        /\ \/ Doing' = Doing \/ Doing' = "closing" \/ Doing' = "closed" \/ Doing' = "awaitChange"
           \/ Doing' \in {"closing", "closed"} \/ Doing' = "unregister"
    BY <1>1, <1>5, <1>24, DisonnectDoes, Zenon DEF Failed, Begun, xenVars
  <2>. QED BY <1>2, <1>7, <2>1
<1>25. ASSUME CheckPort("pnp") PROVE Accounts'
  <2>1. /\ Doing = "checkPort" /\ UNCHANGED <<xen, gen, ledger, pnp>>
        /\ \/ Doing' = "crashed" \/ (xen # NULL /\ Doing' = "closePort")
           \/ (xen # NULL /\ Doing' \in {"unplug", "removeChildren", "stabilise"})
    BY <1>1, <1>5, <1>25, CheckPortDoes, Zenon DEF Failed, Begun, xenVars
  <2>. QED BY <1>2, <1>7, <2>1
<1>26. ASSUME Unplug("pnp") PROVE Accounts'
  <2>1. /\ Doing = "unplug" /\ UNCHANGED <<xen, gen, ledger, pnp>>
        /\ Doing' \in {"sweep", "failed", "checkPort"}
    BY <1>1, <1>5, <1>26, UnplugDoes, Zenon DEF Failed, Begun, xenVars
  <2>. QED BY <1>2, <1>7, <2>1
<1>27. ASSUME RemoveAllChildDevices("pnp") PROVE Accounts'
  <2>1. /\ Doing = "removeChildren" /\ UNCHANGED <<xen, gen, ledger, pnp>>
        /\ Doing' \in {"sweep", "failed"}
    BY <1>1, <1>5, <1>27, RemoveChildrenDoes, Zenon DEF Failed, Begun, xenVars
  <2>. QED BY <1>2, <1>7, <2>1
<1>28. ASSUME Unregister PROVE Accounts'
  <2>1. /\ Doing = "unregister" /\ pnp' = pnp /\ gen' = gen
        /\ IF xen.handler
           THEN /\ xen' = [xen EXCEPT !.handler = FALSE]
                /\ ledger' = [ledger EXCEPT !.handler = @ - 1]
           ELSE UNCHANGED <<xen, ledger>>
        /\ Doing' \in {"idle", "dx", "remove"}
    BY <1>1, <1>28, UnregisterDoes, Zenon
  <2>2. xen # NULL /\ xen \in Interfaces
    BY <1>2, <1>3, <2>1
  <2>3. CASE xen.handler
    <3>1. /\ xen' \in Interfaces /\ xen'.ring = xen.ring /\ xen'.granted = xen.granted
          /\ xen'.port = xen.port /\ xen'.handler = FALSE
          /\ ledger'.page = ledger.page /\ ledger'.grant = ledger.grant
          /\ ledger'.port = ledger.port /\ ledger'.handler = ledger.handler - 1
      BY <1>3, <2>1, <2>2, <2>3, HandlerCleared, HandlerGiven, Zenon
    <3>2. xen' # NULL
      BY <3>1, LifeAssumption DEF Interfaces
    <3>3. Books'
      BY <1>1, <2>2, <2>3, <3>1, <3>2 DEF Books, One
    <3>. QED BY <1>2, <1>4, <2>1, <2>2, <3>3 DEF Accounts
  <2>4. CASE ~xen.handler
    BY <1>7, <2>1, <2>4
  <2>. QED BY <2>3, <2>4
<1>29. ASSUME Deallocate PROVE Accounts'
  <2>1. /\ Doing = "deallocate" /\ UNCHANGED <<pnp, gen>> /\ xen' = NULL
        /\ fdo' = [fdo EXCEPT !.scratch = FALSE] /\ DeallocateXenInterface /\ Doing' = "removed"
    BY <1>1, <1>29, DeallocateDoes, Zenon
  <2>2. Books'
    BY <1>1, <2>1, DeallocateBalances, Zenon
  <2>3. ~fdo'.scratch
    BY <1>3, <2>1 DEF Contexts
  <2>. QED BY <1>2, <1>4, <2>1, <2>2, <2>3 DEF Accounts
<1>30. ASSUME ClosePort("pnp") PROVE Accounts'
  <2>1. /\ Doing = "closePort" /\ UNCHANGED <<pnp, gen>>
        /\ Doing' \in {"unplug", "removeChildren", "stabilise"}
    BY <1>1, <1>30, ClosePortDoes, Zenon
  <2>2. Books' /\ (xen' # NULL <=> xen # NULL)
    <3>1. "pnp" \in Threads
      BY DEF Threads
    <3>. QED BY <1>1, <1>30, <3>1, CloseBalances, Zenon
  <2>. QED BY <1>2, <1>4, <2>1, <2>2 DEF Accounts
<1>31. ASSUME Returned PROVE Accounts'
  <2>1. /\ Doing \in Ends \ {"remove"} /\ pnp' = Doing /\ UNCHANGED <<xen, gen, ledger, fdo>>
        /\ Doing' = "idle" \/ Doing' = "stopTimer"
    BY <1>1, <1>31, ReturnedDoes, Zenon DEF Begun, xenVars
  <2>2. Books'
    BY <1>6, <2>1, Zenon
  <2>. QED BY <1>2, <2>1, <2>2 DEF Accounts
<1>32. ASSUME Online PROVE Accounts'
  <2>1. /\ Doing = "online" /\ UNCHANGED <<pnp, xen, gen, ledger, fdo>>
        /\ Doing' = "cleanup" \/ Doing' = "d0" \/ Doing' = "configure"
    BY <1>1, <1>32, OnlineDoes, Zenon DEF Begun, xenVars
  <2>2. Books'
    BY <1>6, <2>1, Zenon
  <2>. QED BY <1>2, <1>4, <2>1, <2>2 DEF Accounts
<1>33. ASSUME PowerUp \/ PowerDown \/ SurpriseRemoval \/ Remove PROVE Accounts'
  <2>1. /\ UNCHANGED <<xen, gen, ledger, fdo>> /\ pnp \notin {"removed", "crashed"}
        /\ \/ pnp' = pnp /\ Doing' = "online" /\ (fdo.configured \/ gen < MaxGen)
           \/ pnp' = "stopping" /\ Doing' = "stopTimer"
           \/ pnp' = pnp /\ Doing' = "cleanup"
    BY <1>1, <1>33, FrameworkDoes, Zenon DEF Begun, xenVars
  <2>2. Books'
    BY <1>6, <2>1, Zenon
  <2>. QED BY <1>2, <2>1, <2>2 DEF Accounts
<1>34. PnpStep => Accounts'
  BY <1>9, <1>10, <1>11, <1>12, <1>13, <1>14, <1>15, <1>16, <1>17, <1>18, <1>19, <1>20, <1>21,
     <1>22, <1>23, <1>24, <1>28, <1>29, <1>31, <1>32, Zenon DEF PnpStep
<1>. QED BY <1>25, <1>26, <1>27, <1>30, <1>33, <1>34, Zenon DEF ByPnp, ThreadStep

\* What the other threads leave of the context.
LEMMA AsideContext ==
  ASSUME Data, Aside
  PROVE  /\ fdo'.configured = fdo.configured /\ fdo'.scratch = fdo.scratch
         /\ fdo'.disconnected = fdo.disconnected
         /\ fdo.unplugged => fdo'.unplugged
<1>1. \/ fdo' = fdo
      \/ fdo' = [fdo EXCEPT !.unplugged = TRUE] \/ fdo' = [fdo EXCEPT !.child = FALSE]
      \/ fdo' = [fdo EXCEPT !.timer = "off"]
      \/ fdo' = [fdo EXCEPT !.timer = IF fdo.unplugged \/ @ = "stopping" THEN @
                                            ELSE "armed"]
  <2>1. \A t \in {"timer", "waiter"} :
          ThreadStep(t) => \/ fdo' = fdo \/ fdo' = [fdo EXCEPT !.unplugged = TRUE]
                           \/ fdo' = [fdo EXCEPT !.child = FALSE]
    BY Zenon DEF ThreadStep, CheckPort, ClosePort, Unplug, RemoveAllChildDevices
  <2>2. TimerFires \/ TimerStep \/ WaitForScratchCompletion =>
          \/ fdo' = fdo \/ fdo' = [fdo EXCEPT !.unplugged = TRUE]
          \/ fdo' = [fdo EXCEPT !.timer = "off"]
          \/ fdo' = [fdo EXCEPT !.timer = IF fdo.unplugged \/ @ = "stopping" THEN @
                                            ELSE "armed"]
    BY Zenon DEF TimerFires, TimerStep, TimerReadsState, TimerDecides, WaitForScratchCompletion
  <2>3. (\E r \in Requests : Submit(r) \/ Answer(r)) \/ BackendFollows \/ BackendRestarts
        \/ Detach \/ BackendGoes => fdo' = fdo
    BY Zenon DEF Submit, Answer, BackendFollows, BackendRestarts, Detach, BackendGoes
  <2>. QED BY <2>1, <2>2, <2>3, Zenon DEF Aside
<1>2. fdo \in Contexts
  BY Zenon DEF Data
<1>. QED BY <1>1, <1>2 DEF Contexts

\* The ledger after a step beside it: only the port can be closed.
LEMMA AccountsAside ==
  ASSUME LifeInv, Aside, LifeNext
  PROVE  Accounts'
<1>1. LifeTypes /\ Control /\ Accounts /\ Data /\ Books /\ history \subseteq history'
  BY HistoryGrows, Zenon DEF LifeInv, LifeTypes, Accounts
<1>2. /\ xen # NULL => gen > 0
      /\ Doing \in {"online", "configure"} => fdo.configured \/ gen < MaxGen
      /\ Doing = "deviceAdd" => gen = 0 /\ ~fdo.configured
      /\ Doing = "initialize" => xen = NoXen
      /\ Doing \in {"connect", "awaitInitWait", "publish", "awaitConnected"}
           => xen # NULL /\ ~xen.handler
      /\ Doing \in {"closePort", "stabilise", "closing", "closed", "awaitChange", "unregister"}
           => xen # NULL
      /\ Doing = "removed" \/ pnp = "removed" => xen = NULL /\ ~fdo.scratch
  BY <1>1, Zenon DEF Accounts
<1>3. pnp' = pnp /\ gen' = gen /\ Doing' = Doing
  BY <1>1, AsideTakes, Unmoved, Zenon DEF Steady
<1>4. fdo'.configured = fdo.configured /\ fdo'.scratch = fdo.scratch
  BY <1>1, AsideContext, Zenon
<1>5. /\ Books' /\ (xen' # NULL <=> xen # NULL)
      /\ xen' = xen \/ (xen # NULL /\ xen.port /\ xen'.handler = xen.handler)
  <2>1. CASE \E t \in {"timer", "waiter"} : ClosePort(t)
    <3>1. {"timer", "waiter"} \subseteq Threads
      BY DEF Threads
    <3>. QED BY <1>1, <2>1, <3>1, CloseBalances
  <2>2. CASE ~\E t \in {"timer", "waiter"} : ClosePort(t)
    <3>1. UNCHANGED <<xen, ledger>>
      BY <2>2, Zenon DEF Aside, ThreadStep, CheckPort, Unplug, RemoveAllChildDevices, TimerFires,
         TimerStep, TimerReadsState, TimerDecides, WaitForScratchCompletion, Submit, Answer,
         BackendFollows, BackendRestarts, Detach, BackendGoes, xenVars
    <3>. QED BY <1>1, <3>1 DEF Books, One
  <2>. QED BY <2>1, <2>2
<1>6. xen = NoXen => ~xen.port
  BY DEF NoXen
<1>. QED BY <1>2, <1>3, <1>4, <1>5, <1>6 DEF Accounts

--------------------------------------------------------------------------------
(* Requests on the ring.                                                    *)

\* The PnP thread sweeps what is on the ring before the interface goes.
LEMMA OnTheRingByPnp ==
  ASSUME LifeInv, ByPnp, LifeNext
  PROVE  OnTheRing' /\ LostOnlyByPowerDown'
<1> DEFINE Sweeping == Ahead("sweep")
<1> DEFINE Stopped == "stoppedBusy" \in history
<1>1. LifeTypes /\ Control /\ Data /\ OnTheRing /\ (Stopped => Stopped')
  BY HistoryGrows, Zenon DEF LifeInv, LifeTypes
<1>2. /\ pnp = "d0" /\ ~fdo.unplugged => Swept
      /\ fdo.disconnected => fdo.unplugged \/ (Doing # "cleanup" /\ Sweeping) \/ Crashed
      /\ Sweeping => fdo.unplugged \/ UnplugFirst
      /\ \A r \in Requests :
           place[r] = "ring" => Stopped \/ Crashed \/ (pnp = "d0" /\ fdo.configured /\ Swept)
      /\ Swept <=> \/ Doing \in {"idle", "cleanup"} /\ ~fdo.disconnected
                   \/ Doing # "cleanup" /\ Sweeping
                   \/ Crashed
      /\ Crashed <=> Doing = "crashed" \/ pnp = "crashed"
      /\ \A r \in Requests : place[r] = "lost" => Stopped
  BY <1>1, Zenon DEF OnTheRing, Swept, Crashed, LifeInv, LostOnlyByPowerDown
<1>3. /\ pnp \in {"removed", "crashed"} => Doing = "idle"
      /\ Doing \notin BeforeSweep \cup {"sweep"} => ~Sweeping
      /\ Doing = "sweep" => Sweeping /\ ~UnplugFirst
      /\ Doing = "cleanup" => Sweeping
  BY <1>1, Positions, Zenon
<1>4. UNCHANGED todo => Doing' = Doing /\ (Sweeping' <=> Sweeping) /\ (UnplugFirst' <=> UnplugFirst)
  BY Unmoved, Zenon
<1>5. fdo \in Contexts /\ place \in [Requests -> {"none", "ring", "done", "lost"}]
  BY <1>1, Zenon DEF Data
<1> HIDE DEF Sweeping, Stopped
<1> DEFINE AcceptsSwept == pnp' = "d0" /\ ~fdo'.unplugged => Swept'
           CleanedUp == fdo'.disconnected
                          => fdo'.unplugged \/ (Doing' # "cleanup" /\ Sweeping') \/ Crashed'
           SweptLast == Sweeping' => fdo'.unplugged \/ UnplugFirst'
           Awaited == \A r \in Requests :
                        place'[r] = "ring" => \/ Stopped' \/ Crashed'
                                             \/ (pnp' = "d0" /\ fdo'.configured /\ Swept')
           Accounted == \A r \in Requests : place'[r] = "lost" => Stopped'
<1>6. ASSUME AcceptsSwept, CleanedUp, SweptLast, Awaited, Accounted
      PROVE  OnTheRing' /\ LostOnlyByPowerDown'
  BY <1>6, Zenon DEF OnTheRing, LostOnlyByPowerDown, Sweeping, Stopped
<1>7. Swept' <=> \/ Doing' \in {"idle", "cleanup"} /\ ~fdo'.disconnected
                 \/ Doing' # "cleanup" /\ Sweeping'
                 \/ Crashed'
  BY Zenon DEF Swept, Sweeping
<1>8. Crashed' <=> Doing' = "crashed" \/ pnp' = "crashed"
  BY Zenon DEF Crashed
<1> DEFINE Places == \A r \in Requests : /\ place'[r] = "ring" => place[r] = "ring"
                                         /\ place'[r] = "lost" => place[r] \in {"lost", "ring"}
<1>9. ASSUME Doing \notin BeforeSweep \cup {"sweep", "idle", "crashed"}, pnp' = pnp, Places,
             fdo.unplugged => fdo'.unplugged, fdo'.disconnected = fdo.disconnected,
             Sweeping' => UnplugFirst'
      PROVE  OnTheRing' /\ LostOnlyByPowerDown'
  <2>1. ~Swept /\ ~Crashed
    BY <1>2, <1>3, <1>9 DEF BeforeSweep
  <2>2. \A r \in Requests : place[r] = "ring" => Stopped
    BY <1>2, <2>1
  <2>. QED
    <3>20. AcceptsSwept
      BY <1>1, <1>2, <1>9, <2>1, <2>2
    <3>21. CleanedUp
      BY <1>1, <1>2, <1>9, <2>1, <2>2
    <3>22. SweptLast
      BY <1>1, <1>2, <1>9, <2>1, <2>2
    <3>23. Awaited
      BY <1>1, <1>2, <1>9, <2>1, <2>2
    <3>24. Accounted
      BY <1>1, <1>2, <1>9, <2>1, <2>2
    <3>. QED BY <1>6, <3>20, <3>21, <3>22, <3>23, <3>24
<1>10. ASSUME Doing \in BeforeSweep \ {"cleanup"}, pnp' = pnp, place' = place,
              fdo.unplugged => fdo'.unplugged, fdo'.disconnected = fdo.disconnected,
              fdo'.configured = fdo.configured,
              Doing' # "cleanup", Sweeping' <=> Sweeping,
              UnplugFirst => UnplugFirst' \/ fdo'.unplugged
       PROVE  OnTheRing' /\ LostOnlyByPowerDown'
  <2>1. ~Crashed /\ (Swept => Sweeping) /\ (Sweeping' => Swept')
    BY <1>2, <1>3, <1>7, <1>10 DEF BeforeSweep
  <2>. QED
    <3>20. AcceptsSwept
      BY <1>1, <1>2, <1>10, <2>1
    <3>21. CleanedUp
      BY <1>1, <1>2, <1>10, <2>1
    <3>22. SweptLast
      BY <1>1, <1>2, <1>10, <2>1
    <3>23. Awaited
      BY <1>1, <1>2, <1>10, <2>1
    <3>24. Accounted
      BY <1>1, <1>2, <1>10, <2>1
    <3>. QED BY <1>6, <3>20, <3>21, <3>22, <3>23, <3>24
<1>11. ASSUME Doing' = "crashed", ~Sweeping', place' = place
       PROVE  OnTheRing' /\ LostOnlyByPowerDown'
  <2>1. AcceptsSwept /\ CleanedUp /\ SweptLast /\ Awaited
    BY <1>7, <1>8, <1>11
  <2>2. Accounted
    BY <1>1, <1>2, <1>11
  <2>. QED BY <1>6, <2>1, <2>2
<1>12. /\ fdo' = fdo => /\ fdo'.unplugged = fdo.unplugged /\ fdo'.disconnected = fdo.disconnected
                        /\ fdo'.configured = fdo.configured
       /\ place' = place => Places
       /\ DeallocateXenInterface => Places
  <2>1. DeallocateXenInterface =>
          \/ place' = place
          \/ place' = [r \in Requests |-> IF place[r] = "ring" THEN "lost" ELSE place[r]]
    BY Zenon DEF DeallocateXenInterface
  <2>. QED BY <2>1
<1>13. ASSUME DeviceAdd
       PROVE  OnTheRing' /\ LostOnlyByPowerDown'
  <2>1. /\ Doing = "deviceAdd" /\ pnp' = pnp /\ place' = place
        /\ Sweeping' => Sweeping
    BY <1>1, <1>3, <1>4, <1>13, DeviceAddDoes, Zenon
       DEF Onward, Begun, Failed, NothingNext, SweepsNext, Sweeping
  <2>2. Doing \notin BeforeSweep \cup {"sweep", "idle", "crashed"}
    BY <2>1 DEF BeforeSweep
  <2>3. \E s \in BOOLEAN, t \in {"none", "off"} : fdo' = [fdo EXCEPT !.scratch = s, !.timer = t]
    <3>1. TRUE \in BOOLEAN /\ "off" \in {"none", "off"}
      OBVIOUS
    <3>. QED BY <1>1, <1>13, <3>1, DeviceAddDoes, Zenon
  <2>4. fdo'.unplugged = fdo.unplugged /\ fdo'.disconnected = fdo.disconnected
    BY <1>5, <2>3 DEF Contexts
  <2>5. Places
    BY <1>12, <2>1, Zenon
  <2>. QED BY <1>3, <1>9, <2>1, <2>2, <2>4, <2>5
<1>14. ASSUME Configure
       PROVE  OnTheRing' /\ LostOnlyByPowerDown'
  <2>1. /\ Doing = "configure" /\ pnp' = pnp /\ fdo' = fdo
        /\ place' = place \/ DeallocateXenInterface
        /\ Sweeping' => Sweeping
    BY <1>1, <1>3, <1>4, <1>14, ConfigureDoes, Zenon
       DEF Onward, Begun, Failed, NothingNext, SweepsNext, Sweeping
  <2>2. Doing \notin BeforeSweep \cup {"sweep", "idle", "crashed"}
    BY <2>1 DEF BeforeSweep
  <2>3. fdo'.unplugged = fdo.unplugged /\ fdo'.disconnected = fdo.disconnected
    BY <1>5, <2>1 DEF Contexts
  <2>4. Places
    BY <1>12, <2>1, Zenon
  <2>. QED BY <1>3, <1>9, <2>1, <2>2, <2>3, <2>4
<1>15. ASSUME Initialize
       PROVE  OnTheRing' /\ LostOnlyByPowerDown'
  <2>1. /\ Doing = "initialize" /\ pnp' = pnp /\ fdo' = fdo
        /\ place' = place
        /\ Sweeping' => Sweeping
    BY <1>1, <1>3, <1>4, <1>15, InitializeDoes, Zenon
       DEF Onward, Begun, Failed, NothingNext, SweepsNext, Sweeping
  <2>2. Doing \notin BeforeSweep \cup {"sweep", "idle", "crashed"}
    BY <2>1 DEF BeforeSweep
  <2>3. fdo'.unplugged = fdo.unplugged /\ fdo'.disconnected = fdo.disconnected
    BY <1>5, <2>1 DEF Contexts
  <2>4. Places
    BY <1>12, <2>1, Zenon
  <2>. QED BY <1>3, <1>9, <2>1, <2>2, <2>3, <2>4
<1>16. ASSUME Connect
       PROVE  OnTheRing' /\ LostOnlyByPowerDown'
  <2>1. /\ Doing = "connect" /\ pnp' = pnp /\ fdo' = fdo
        /\ place' = place
        /\ Sweeping' => Sweeping
    BY <1>1, <1>3, <1>4, <1>16, ConnectDoes, Zenon
       DEF Onward, Begun, Failed, NothingNext, SweepsNext, Sweeping
  <2>2. Doing \notin BeforeSweep \cup {"sweep", "idle", "crashed"}
    BY <2>1 DEF BeforeSweep
  <2>3. fdo'.unplugged = fdo.unplugged /\ fdo'.disconnected = fdo.disconnected
    BY <1>5, <2>1 DEF Contexts
  <2>4. Places
    BY <1>12, <2>1, Zenon
  <2>. QED BY <1>3, <1>9, <2>1, <2>2, <2>3, <2>4
<1>17. ASSUME AwaitInitWait
       PROVE  OnTheRing' /\ LostOnlyByPowerDown'
  <2>1. /\ Doing = "awaitInitWait" /\ pnp' = pnp /\ fdo' = fdo
        /\ place' = place
        /\ Sweeping' => Sweeping
    BY <1>1, <1>3, <1>4, <1>17, AwaitInitWaitDoes, Zenon
       DEF Onward, Begun, Failed, NothingNext, SweepsNext, Sweeping
  <2>2. Doing \notin BeforeSweep \cup {"sweep", "idle", "crashed"}
    BY <2>1 DEF BeforeSweep
  <2>3. fdo'.unplugged = fdo.unplugged /\ fdo'.disconnected = fdo.disconnected
    BY <1>5, <2>1 DEF Contexts
  <2>4. Places
    BY <1>12, <2>1, Zenon
  <2>. QED BY <1>3, <1>9, <2>1, <2>2, <2>3, <2>4
<1>18. ASSUME Publish
       PROVE  OnTheRing' /\ LostOnlyByPowerDown'
  <2>1. /\ Doing = "publish" /\ pnp' = pnp /\ fdo' = fdo
        /\ place' = place
        /\ Sweeping' => Sweeping
    BY <1>1, <1>3, <1>4, <1>18, PublishDoes, Zenon
       DEF Onward, Begun, Failed, NothingNext, SweepsNext, Sweeping
  <2>2. Doing \notin BeforeSweep \cup {"sweep", "idle", "crashed"}
    BY <2>1 DEF BeforeSweep
  <2>3. fdo'.unplugged = fdo.unplugged /\ fdo'.disconnected = fdo.disconnected
    BY <1>5, <2>1 DEF Contexts
  <2>4. Places
    BY <1>12, <2>1, Zenon
  <2>. QED BY <1>3, <1>9, <2>1, <2>2, <2>3, <2>4
<1>19. ASSUME AwaitConnected
       PROVE  OnTheRing' /\ LostOnlyByPowerDown'
  <2>1. /\ Doing = "awaitConnected" /\ pnp' = pnp /\ fdo' = fdo
        /\ place' = place
        /\ Sweeping' => Sweeping
    BY <1>1, <1>3, <1>4, <1>19, AwaitConnectedDoes, Zenon
       DEF Onward, Begun, Failed, NothingNext, SweepsNext, Sweeping
  <2>2. Doing \notin BeforeSweep \cup {"sweep", "idle", "crashed"}
    BY <2>1 DEF BeforeSweep
  <2>3. fdo'.unplugged = fdo.unplugged /\ fdo'.disconnected = fdo.disconnected
    BY <1>5, <2>1 DEF Contexts
  <2>4. Places
    BY <1>12, <2>1, Zenon
  <2>. QED BY <1>3, <1>9, <2>1, <2>2, <2>3, <2>4
<1>20. ASSUME Configured
       PROVE  OnTheRing' /\ LostOnlyByPowerDown'
  <2>1. /\ Doing = "configured" /\ pnp' = pnp /\ fdo' = [fdo EXCEPT !.configured = TRUE]
        /\ place' = place
        /\ Sweeping' => Sweeping
    BY <1>1, <1>3, <1>4, <1>20, ConfiguredDoes, Zenon
       DEF Onward, Begun, Failed, NothingNext, SweepsNext, Sweeping
  <2>2. Doing \notin BeforeSweep \cup {"sweep", "idle", "crashed"}
    BY <2>1 DEF BeforeSweep
  <2>3. fdo'.unplugged = fdo.unplugged /\ fdo'.disconnected = fdo.disconnected
    BY <1>5, <2>1 DEF Contexts
  <2>4. Places
    BY <1>12, <2>1, Zenon
  <2>. QED BY <1>3, <1>9, <2>1, <2>2, <2>3, <2>4
<1>21. ASSUME GetUsbConfigData
       PROVE  OnTheRing' /\ LostOnlyByPowerDown'
  <2>1. /\ Doing = "getUsbConfigData" /\ pnp' = pnp /\ fdo' = fdo
        /\ place' = place
        /\ Sweeping' => Sweeping
    BY <1>1, <1>3, <1>4, <1>21, GetUsbConfigDataDoes, Zenon
       DEF Onward, Begun, Failed, NothingNext, SweepsNext, Sweeping
  <2>2. Doing \notin BeforeSweep \cup {"sweep", "idle", "crashed"}
    BY <2>1 DEF BeforeSweep
  <2>3. fdo'.unplugged = fdo.unplugged /\ fdo'.disconnected = fdo.disconnected
    BY <1>5, <2>1 DEF Contexts
  <2>4. Places
    BY <1>12, <2>1, Zenon
  <2>. QED BY <1>3, <1>9, <2>1, <2>2, <2>3, <2>4
<1>22. ASSUME CreateRootHubPdo
       PROVE  OnTheRing' /\ LostOnlyByPowerDown'
  <2>1. /\ Doing = "createRootHubPdo" /\ pnp' = pnp
        /\ fdo' = [fdo EXCEPT !.child = TRUE, !.timer = "armed"] \/ fdo' = fdo
        /\ place' = place
        /\ Sweeping' => Sweeping
    BY <1>1, <1>3, <1>4, <1>22, CreateRootHubPdoDoes, Zenon
       DEF Onward, Begun, Failed, NothingNext, SweepsNext, Sweeping
  <2>2. Doing \notin BeforeSweep \cup {"sweep", "idle", "crashed"}
    BY <2>1 DEF BeforeSweep
  <2>3. fdo'.unplugged = fdo.unplugged /\ fdo'.disconnected = fdo.disconnected
    BY <1>5, <2>1 DEF Contexts
  <2>4. Places
    BY <1>12, <2>1, Zenon
  <2>. QED BY <1>3, <1>9, <2>1, <2>2, <2>3, <2>4
<1>23. ASSUME StartTimer
       PROVE  OnTheRing' /\ LostOnlyByPowerDown'
  <2>1. /\ Doing = "startTimer" /\ pnp' = pnp /\ fdo' = [fdo EXCEPT !.timer = "armed"]
        /\ place' = place
        /\ Sweeping' => Sweeping
    BY <1>1, <1>3, <1>4, <1>23, StartTimerDoes, Zenon
       DEF Onward, Begun, Failed, NothingNext, SweepsNext, Sweeping
  <2>2. Doing \notin BeforeSweep \cup {"sweep", "idle", "crashed"}
    BY <2>1 DEF BeforeSweep
  <2>3. fdo'.unplugged = fdo.unplugged /\ fdo'.disconnected = fdo.disconnected
    BY <1>5, <2>1 DEF Contexts
  <2>4. Places
    BY <1>12, <2>1, Zenon
  <2>. QED BY <1>3, <1>9, <2>1, <2>2, <2>3, <2>4
<1>24. ASSUME Deconfigure
       PROVE  OnTheRing' /\ LostOnlyByPowerDown'
  <2>1. /\ Doing = "deconfigure" /\ pnp' = pnp /\ fdo' = [fdo EXCEPT !.configured = FALSE]
        /\ place' = place
        /\ Sweeping' => Sweeping
    BY <1>1, <1>3, <1>4, <1>24, DeconfigureDoes, Zenon
       DEF Onward, Begun, Failed, NothingNext, SweepsNext, Sweeping
  <2>2. Doing \notin BeforeSweep \cup {"sweep", "idle", "crashed"}
    BY <2>1 DEF BeforeSweep
  <2>3. fdo'.unplugged = fdo.unplugged /\ fdo'.disconnected = fdo.disconnected
    BY <1>5, <2>1 DEF Contexts
  <2>4. Places
    BY <1>12, <2>1, Zenon
  <2>. QED BY <1>3, <1>9, <2>1, <2>2, <2>3, <2>4
<1>25. ASSUME DisonnectBackend
       PROVE  OnTheRing' /\ LostOnlyByPowerDown'
  <2>1. /\ Doing \in {"stabilise", "awaitChange", "closing", "closed"} /\ pnp' = pnp /\ fdo' = fdo
        /\ place' = place
        /\ Sweeping' => Sweeping
    BY <1>1, <1>3, <1>4, <1>25, DisonnectDoes, Zenon
       DEF Onward, Begun, Failed, NothingNext, SweepsNext, Sweeping
  <2>2. Doing \notin BeforeSweep \cup {"sweep", "idle", "crashed"}
    BY <2>1 DEF BeforeSweep
  <2>3. fdo'.unplugged = fdo.unplugged /\ fdo'.disconnected = fdo.disconnected
    BY <1>5, <2>1 DEF Contexts
  <2>4. Places
    BY <1>12, <2>1, Zenon
  <2>. QED BY <1>3, <1>9, <2>1, <2>2, <2>3, <2>4
<1>26. ASSUME Unregister
       PROVE  OnTheRing' /\ LostOnlyByPowerDown'
  <2>1. /\ Doing = "unregister" /\ pnp' = pnp /\ fdo' = fdo
        /\ place' = place
        /\ Sweeping' => Sweeping
    BY <1>1, <1>3, <1>4, <1>26, UnregisterDoes, Zenon
       DEF Onward, Begun, Failed, NothingNext, SweepsNext, Sweeping
  <2>2. Doing \notin BeforeSweep \cup {"sweep", "idle", "crashed"}
    BY <2>1 DEF BeforeSweep
  <2>3. fdo'.unplugged = fdo.unplugged /\ fdo'.disconnected = fdo.disconnected
    BY <1>5, <2>1 DEF Contexts
  <2>4. Places
    BY <1>12, <2>1, Zenon
  <2>. QED BY <1>3, <1>9, <2>1, <2>2, <2>3, <2>4
<1>27. ASSUME Deallocate
       PROVE  OnTheRing' /\ LostOnlyByPowerDown'
  <2>1. /\ Doing = "deallocate" /\ pnp' = pnp /\ fdo' = [fdo EXCEPT !.scratch = FALSE]
        /\ DeallocateXenInterface
        /\ Sweeping' => Sweeping
    BY <1>1, <1>3, <1>4, <1>27, DeallocateDoes, Zenon
       DEF Onward, Begun, Failed, NothingNext, SweepsNext, Sweeping
  <2>2. Doing \notin BeforeSweep \cup {"sweep", "idle", "crashed"}
    BY <2>1 DEF BeforeSweep
  <2>3. fdo'.unplugged = fdo.unplugged /\ fdo'.disconnected = fdo.disconnected
    BY <1>5, <2>1 DEF Contexts
  <2>4. Places
    BY <1>12, <2>1, Zenon
  <2>. QED BY <1>3, <1>9, <2>1, <2>2, <2>3, <2>4
<1>28. ASSUME Online
       PROVE  OnTheRing' /\ LostOnlyByPowerDown'
  <2>1. /\ Doing = "online" /\ pnp' = pnp /\ fdo' = fdo /\ place' = place
        /\ Sweeping' => Sweeping \/ UnplugFirst'
    BY <1>1, <1>3, <1>4, <1>28, OnlineDoes, Zenon
       DEF Onward, Begun, Failed, NothingNext, SweepsNext, Sweeping
  <2>2. Doing \notin BeforeSweep \cup {"sweep", "idle", "crashed"}
    BY <2>1 DEF BeforeSweep
  <2>3. Places
    BY <1>12, <2>1, Zenon
  <2>. QED BY <1>3, <1>9, <2>1, <2>2, <2>3
<1>29. ASSUME ClosePort("pnp")
       PROVE  OnTheRing' /\ LostOnlyByPowerDown'
  <2>1. /\ Doing = "closePort" /\ pnp' = pnp /\ fdo' = fdo /\ place' = place
        /\ Doing' \in {"unplug", "removeChildren", "stabilise"}
        /\ Sweeping' <=> Sweeping
        /\ UnplugFirst => UnplugFirst' \/ Doing = "unplug"
    BY <1>1, <1>3, <1>4, <1>29, ClosePortDoes, Zenon
       DEF Onward, Begun, Failed, NothingNext, SweepsNext, Sweeping
  <2>2. Doing \in BeforeSweep \ {"cleanup"} /\ Doing' # "cleanup"
    BY <2>1 DEF BeforeSweep
  <2>3. /\ fdo.unplugged => fdo'.unplugged
        /\ Doing = "unplug" => fdo'.unplugged
        /\ fdo'.disconnected = fdo.disconnected /\ fdo'.configured = fdo.configured
    BY <1>5, <2>1 DEF Contexts
  <2>. QED BY <1>10, <2>1, <2>2, <2>3
<1>30. ASSUME Unplug("pnp")
       PROVE  OnTheRing' /\ LostOnlyByPowerDown'
  <2>1. /\ Doing = "unplug" /\ UNCHANGED <<pnp, place>>
        /\ fdo' = [fdo EXCEPT !.unplugged = TRUE]
        /\ Doing' \in {"sweep", "failed", "checkPort"}
        /\ Sweeping' <=> Sweeping
        /\ UnplugFirst => UnplugFirst' \/ Doing = "unplug"
    BY <1>1, <1>3, <1>4, <1>30, UnplugDoes, Zenon
       DEF Onward, Begun, Failed, NothingNext, SweepsNext, Sweeping
  <2>2. Doing \in BeforeSweep \ {"cleanup"} /\ Doing' # "cleanup"
    BY <2>1 DEF BeforeSweep
  <2>3. /\ fdo.unplugged => fdo'.unplugged
        /\ Doing = "unplug" => fdo'.unplugged
        /\ fdo'.disconnected = fdo.disconnected /\ fdo'.configured = fdo.configured
    BY <1>5, <2>1 DEF Contexts
  <2>. QED BY <1>10, <2>1, <2>2, <2>3
<1>31. ASSUME RemoveAllChildDevices("pnp")
       PROVE  OnTheRing' /\ LostOnlyByPowerDown'
  <2>1. /\ Doing = "removeChildren" /\ UNCHANGED <<pnp, place>>
        /\ fdo' = [fdo EXCEPT !.child = FALSE]
        /\ Doing' \in {"sweep", "failed"}
        /\ Sweeping' <=> Sweeping
        /\ UnplugFirst => UnplugFirst' \/ Doing = "unplug"
    BY <1>1, <1>3, <1>4, <1>31, RemoveChildrenDoes, Zenon
       DEF Onward, Begun, Failed, NothingNext, SweepsNext, Sweeping
  <2>2. Doing \in BeforeSweep \ {"cleanup"} /\ Doing' # "cleanup"
    BY <2>1 DEF BeforeSweep
  <2>3. /\ fdo.unplugged => fdo'.unplugged
        /\ Doing = "unplug" => fdo'.unplugged
        /\ fdo'.disconnected = fdo.disconnected /\ fdo'.configured = fdo.configured
    BY <1>5, <2>1 DEF Contexts
  <2>. QED BY <1>10, <2>1, <2>2, <2>3
<1>32. ASSUME CheckPort("pnp")
       PROVE  OnTheRing' /\ LostOnlyByPowerDown'
  <2>1. /\ Doing = "checkPort" /\ pnp' = pnp /\ fdo' = fdo /\ place' = place
        /\ \/ Doing' = "crashed" /\ ~Sweeping'
           \/ /\ Doing' = "closePort" \/ Doing' \in {"unplug", "removeChildren", "stabilise"}
              /\ Sweeping' <=> Sweeping
              /\ UnplugFirst => UnplugFirst'
    BY <1>1, <1>3, <1>4, <1>32, CheckPortDoes, Zenon
       DEF Onward, Begun, Failed, NothingNext, SweepsNext, Sweeping
  <2>2. Doing \in BeforeSweep \ {"cleanup"} /\ Doing' # "cleanup"
    BY <2>1 DEF BeforeSweep
  <2>. QED BY <1>10, <1>11, <2>1, <2>2
<1>33. ASSUME StopTimer
       PROVE  OnTheRing' /\ LostOnlyByPowerDown'
  <2>1. /\ pnp' = pnp /\ place' = place /\ Doing \in {"stopTimer", "timerStopped"}
        /\ \/ fdo' = fdo \/ fdo' = [fdo EXCEPT !.timer = "stopping"]
           \/ fdo' = [fdo EXCEPT !.timer = "off"]
        /\ \/ Doing' = "crashed" /\ ~Sweeping'
           \/ /\ Doing' = "timerStopped" \/ Doing' \in {"checkPort", "deconfigure"}
              /\ Sweeping' <=> Sweeping
              /\ UnplugFirst => UnplugFirst'
    BY <1>1, <1>3, <1>4, <1>33, StopTimerDoes, Zenon
       DEF Onward, Begun, Failed, NothingNext, SweepsNext, Sweeping
  <2>2. Doing \in BeforeSweep \ {"cleanup"} /\ Doing' # "cleanup"
    BY <2>1 DEF BeforeSweep
  <2>3. /\ fdo'.unplugged = fdo.unplugged
        /\ fdo'.disconnected = fdo.disconnected /\ fdo'.configured = fdo.configured
    BY <1>5, <2>1 DEF Contexts
  <2>. QED BY <1>10, <1>11, <2>1, <2>2, <2>3
<1>34. ASSUME Sweep
       PROVE  OnTheRing' /\ LostOnlyByPowerDown'
  <2>1. /\ Doing = "sweep" /\ pnp' = pnp /\ fdo' = fdo /\ ~Sweeping'
        /\ place' = [r \in Requests |->
                       IF fdo.configured /\ place[r] = "ring" THEN "done" ELSE place[r]]
        /\ Doing' \in {"stopTimer", "d0", "remove", "deallocate"}
    BY <1>1, <1>3, <1>4, <1>34, SweepDoes, Zenon
       DEF Onward, Begun, Failed, NothingNext, SweepsNext, Sweeping
  <2>2. fdo.unplugged /\ ~Crashed
    BY <1>2, <1>3, <2>1
  <2>3. \A r \in Requests : /\ place'[r] = "ring" => place[r] = "ring" /\ ~fdo.configured
                            /\ place'[r] = "lost" => place[r] = "lost"
    BY <2>1
  <2>. QED
    <3>20. AcceptsSwept
      BY <1>1, <1>2, <2>1, <2>2, <2>3
    <3>21. CleanedUp
      BY <1>1, <1>2, <2>1, <2>2, <2>3
    <3>22. SweptLast
      BY <1>1, <1>2, <2>1, <2>2, <2>3
    <3>23. Awaited
      BY <1>1, <1>2, <2>1, <2>2, <2>3
    <3>24. Accounted
      BY <1>1, <1>2, <2>1, <2>2, <2>3
    <3>. QED BY <1>6, <3>20, <3>21, <3>22, <3>23, <3>24
<1>35. ASSUME Cleanup
       PROVE  OnTheRing' /\ LostOnlyByPowerDown'
  <2>1. /\ Doing = "cleanup" /\ pnp' = pnp /\ place' = place
        /\ fdo' = [fdo EXCEPT !.disconnected = TRUE]
        /\ ~fdo.disconnected => /\ Doing' = "stopTimer" /\ (Sweeping => Sweeping')
                                /\ UnplugFirst => UnplugFirst'
        /\ fdo.disconnected => ~Sweeping'
    BY <1>1, <1>3, <1>4, <1>35, CleanupDoes, Zenon
       DEF Onward, Begun, Failed, NothingNext, SweepsNext, Sweeping
  <2>2. /\ fdo'.unplugged = fdo.unplugged /\ fdo'.disconnected = TRUE
        /\ fdo'.configured = fdo.configured
    BY <1>5, <2>1 DEF Contexts
  <2>3. ~Crashed /\ Sweeping
    BY <1>2, <1>3, <2>1
  <2>4. CASE fdo.disconnected
    <3>1. fdo.unplugged /\ ~Swept
      BY <1>2, <2>1, <2>3, <2>4
    <3>. QED
      <4>20. AcceptsSwept
        BY <1>1, <1>2, <2>1, <2>2, <2>3, <2>4, <3>1
      <4>21. CleanedUp
        BY <1>1, <1>2, <2>1, <2>2, <2>3, <2>4, <3>1
      <4>22. SweptLast
        BY <1>1, <1>2, <2>1, <2>2, <2>3, <2>4, <3>1
      <4>23. Awaited
        BY <1>1, <1>2, <2>1, <2>2, <2>3, <2>4, <3>1
      <4>24. Accounted
        BY <1>1, <1>2, <2>1, <2>2, <2>3, <2>4, <3>1
      <4>. QED BY <1>6, <4>20, <4>21, <4>22, <4>23, <4>24
  <2>5. CASE ~fdo.disconnected
    <3>1. Swept'
      BY <1>7, <2>1, <2>3, <2>5
    <3>. QED
      <4>20. AcceptsSwept
        BY <1>1, <1>2, <2>1, <2>2, <2>3, <2>5, <3>1
      <4>21. CleanedUp
        BY <1>1, <1>2, <2>1, <2>2, <2>3, <2>5, <3>1
      <4>22. SweptLast
        BY <1>1, <1>2, <2>1, <2>2, <2>3, <2>5, <3>1
      <4>23. Awaited
        BY <1>1, <1>2, <2>1, <2>2, <2>3, <2>5, <3>1
      <4>24. Accounted
        BY <1>1, <1>2, <2>1, <2>2, <2>3, <2>5, <3>1
      <4>. QED BY <1>6, <4>20, <4>21, <4>22, <4>23, <4>24
  <2>. QED BY <2>4, <2>5
<1>36. ASSUME Returned
       PROVE  OnTheRing' /\ LostOnlyByPowerDown'
  <2>1. /\ Doing \in Ends \ {"remove"} /\ pnp' = Doing /\ fdo' = fdo /\ place' = place
        /\ Sweeping' => Sweeping
        /\ Doing' = "idle" \/ (Doing = "failed" /\ Doing' = "stopTimer")
    BY <1>1, <1>3, <1>4, <1>36, ReturnedDoes, Zenon
       DEF Onward, Begun, Failed, NothingNext, SweepsNext, Sweeping
  <2>2. /\ ~Sweeping /\ ~Sweeping' /\ (Crashed <=> Doing = "crashed")
        /\ Doing \notin {"idle", "cleanup"}
    BY <1>2, <1>3, <2>1 DEF Ends, BeforeSweep
  <2>3. Crashed => Crashed'
    BY <1>8, <2>1, <2>2
  <2>4. Swept <=> Crashed
    BY <1>2, <2>2
  <2>5. fdo.disconnected => fdo.unplugged \/ Crashed'
    BY <1>2, <2>2, <2>3
  <2>6. pnp' = "d0" /\ ~fdo.unplugged => Swept'
    <3>1. pnp' = "d0" => Doing' = "idle" /\ ~Crashed'
      BY <1>8, <2>1
    <3>. QED BY <1>7, <2>1, <2>5, <3>1
  <2>. QED
    <3>20. AcceptsSwept
      BY <1>1, <1>2, <2>1, <2>2, <2>3, <2>4, <2>5, <2>6
    <3>21. CleanedUp
      BY <1>1, <1>2, <2>1, <2>2, <2>3, <2>4, <2>5, <2>6
    <3>22. SweptLast
      BY <1>1, <1>2, <2>1, <2>2, <2>3, <2>4, <2>5, <2>6
    <3>23. Awaited
      BY <1>1, <1>2, <2>1, <2>2, <2>3, <2>4, <2>5, <2>6
    <3>24. Accounted
      BY <1>1, <1>2, <2>1, <2>2, <2>3, <2>4, <2>5, <2>6
    <3>. QED BY <1>6, <3>20, <3>21, <3>22, <3>23, <3>24
<1>37. ASSUME PowerUp \/ PowerDown \/ SurpriseRemoval \/ Remove
       PROVE  OnTheRing' /\ LostOnlyByPowerDown'
  <2>1. /\ Doing \in {"idle", "remove"} /\ pnp \notin {"removed", "crashed"}
        /\ fdo' = fdo /\ place' = place
        /\ \/ pnp \in {"added", "dx"} /\ pnp' = pnp /\ ~Sweeping'
           \/ /\ pnp' = "stopping" /\ ~Sweeping'
              /\ RecordIf("stoppedBusy", \E r \in Requests : place[r] = "ring")
           \/ pnp' = pnp /\ Doing' = "cleanup" /\ Sweeping' /\ UnplugFirst'
    BY <1>1, <1>3, <1>4, <1>37, FrameworkDoes, Zenon
       DEF Onward, Begun, Failed, NothingNext, SweepsNext, Sweeping
  <2>2. ~Crashed /\ ~Sweeping
    BY <1>2, <1>3, <2>1 DEF BeforeSweep
  <2>3. CASE pnp \in {"added", "dx"} /\ pnp' = pnp /\ ~Sweeping'
    <3>1. AcceptsSwept /\ CleanedUp /\ SweptLast /\ Awaited /\ Accounted
      BY <1>1, <1>2, <2>1, <2>2, <2>3
    <3>. QED BY <1>6, <3>1
  <2>4. CASE /\ pnp' = "stopping" /\ ~Sweeping'
             /\ RecordIf("stoppedBusy", \E r \in Requests : place[r] = "ring")
    <3>1. \A r \in Requests : place[r] = "ring" => Stopped'
      BY <2>4 DEF RecordIf, Stopped
    <3>. QED
      <4>20. AcceptsSwept
        BY <1>1, <1>2, <2>1, <2>2, <2>4, <3>1
      <4>21. CleanedUp
        BY <1>1, <1>2, <2>1, <2>2, <2>4, <3>1
      <4>22. SweptLast
        BY <1>1, <1>2, <2>1, <2>2, <2>4, <3>1
      <4>23. Awaited
        BY <1>1, <1>2, <2>1, <2>2, <2>4, <3>1
      <4>24. Accounted
        BY <1>1, <1>2, <2>1, <2>2, <2>4, <3>1
      <4>. QED BY <1>6, <4>20, <4>21, <4>22, <4>23, <4>24
  <2>5. CASE pnp' = pnp /\ Doing' = "cleanup" /\ Sweeping' /\ UnplugFirst'
    <3>1. Swept => Swept'
      BY <1>2, <1>7, <2>1, <2>2, <2>5
    <3>. QED
      <4>20. AcceptsSwept
        BY <1>1, <1>2, <2>1, <2>2, <2>5, <3>1
      <4>21. CleanedUp
        BY <1>1, <1>2, <2>1, <2>2, <2>5, <3>1
      <4>22. SweptLast
        BY <1>1, <1>2, <2>1, <2>2, <2>5, <3>1
      <4>23. Awaited
        BY <1>1, <1>2, <2>1, <2>2, <2>5, <3>1
      <4>24. Accounted
        BY <1>1, <1>2, <2>1, <2>2, <2>5, <3>1
      <4>. QED BY <1>6, <4>20, <4>21, <4>22, <4>23, <4>24
  <2>. QED BY <2>1, <2>3, <2>4, <2>5
<1>. QED BY <1>13, <1>14, <1>15, <1>16, <1>17, <1>18, <1>19, <1>20, <1>21, <1>22, <1>23, <1>24,
            <1>25, <1>26, <1>27, <1>28, <1>29, <1>30, <1>31, <1>32, <1>33, <1>34, <1>35, <1>36,
            <1>37, Zenon
         DEF ByPnp, PnpStep, ThreadStep

\* A request goes on the ring only in D0, before the unplug.
LEMMA OnTheRingAside ==
  ASSUME LifeInv, Aside, LifeNext
  PROVE  OnTheRing' /\ LostOnlyByPowerDown'
<1>1. /\ LifeTypes /\ Control /\ Data
      /\ "stoppedBusy" \in history => "stoppedBusy" \in history'
  BY HistoryGrows, Zenon DEF LifeInv, LifeTypes
<1>2. /\ pnp = "d0" /\ ~fdo.unplugged => Swept
      /\ fdo.disconnected => fdo.unplugged \/ (Doing # "cleanup" /\ Ahead("sweep")) \/ Crashed
      /\ Ahead("sweep") => fdo.unplugged \/ UnplugFirst
      /\ \A r \in Requests :
           place[r] = "ring" => \/ "stoppedBusy" \in history
                                \/ Crashed
                                \/ pnp = "d0" /\ fdo.configured /\ Swept
      /\ \A r \in Requests : place[r] = "lost" => "stoppedBusy" \in history
  BY Zenon DEF LifeInv, OnTheRing, LostOnlyByPowerDown
<1>3. /\ pnp' = pnp /\ Doing' = Doing /\ (Ahead("sweep")' <=> Ahead("sweep"))
      /\ UnplugFirst' <=> UnplugFirst
  BY <1>1, AsideTakes, Unmoved, Zenon DEF Steady
<1>4. /\ fdo'.configured = fdo.configured /\ fdo'.disconnected = fdo.disconnected
      /\ fdo.unplugged => fdo'.unplugged
  BY <1>1, AsideContext, Zenon
<1>5. (Crashed' <=> Crashed) /\ (Swept' <=> Swept)
  <2>1. Crashed' <=> Crashed
    BY <1>3, Zenon DEF Crashed
  <2>. QED BY <1>3, <1>4, <2>1, Zenon DEF Swept
<1>6. \A r \in Requests :
        /\ place'[r] = "ring"
             => place[r] = "ring" \/ (pnp = "d0" /\ fdo.configured /\ ~fdo.unplugged)
        /\ place'[r] = "lost" => place[r] = "lost"
  <2>1. ASSUME NEW r \in Requests, Submit(r) \/ Answer(r)
        PROVE  \/ /\ place' = [place EXCEPT ![r] = "ring"]
                  /\ pnp = "d0" /\ fdo.configured /\ ~fdo.unplugged
               \/ place' = [place EXCEPT ![r] = "done"]
    BY <2>1, Zenon DEF Submit, Answer
  <2>2. CASE \E r \in Requests : Submit(r) \/ Answer(r)
    <3>1. PICK r \in Requests : \/ /\ place' = [place EXCEPT ![r] = "ring"]
                                   /\ pnp = "d0" /\ fdo.configured /\ ~fdo.unplugged
                                \/ place' = [place EXCEPT ![r] = "done"]
      BY <2>1, <2>2, Zenon
    <3>2. place \in [Requests -> {"none", "ring", "done", "lost"}]
      BY <1>1, Zenon DEF Data
    <3>. QED BY <3>1, <3>2
  <2>3. CASE ~\E r \in Requests : Submit(r) \/ Answer(r)
    <3>1. place' = place
      BY <2>3, Zenon DEF Aside, ThreadStep, CheckPort, ClosePort, Unplug, RemoveAllChildDevices,
         TimerFires, TimerStep, TimerReadsState, TimerDecides, WaitForScratchCompletion,
         BackendFollows, BackendRestarts, Detach, BackendGoes
    <3>. QED BY <3>1
  <2>. QED BY <2>2, <2>3
<1>7. /\ pnp' = "d0" /\ ~fdo'.unplugged => Swept'
      /\ fdo'.disconnected => fdo'.unplugged \/ (Doing' # "cleanup" /\ Ahead("sweep")') \/ Crashed'
      /\ Ahead("sweep")' => fdo'.unplugged \/ UnplugFirst'
  BY <1>2, <1>3, <1>4, <1>5, Zenon
<1>8. /\ \A r \in Requests :
           place'[r] = "ring" => \/ "stoppedBusy" \in history'
                                 \/ Crashed'
                                 \/ pnp' = "d0" /\ fdo'.configured /\ Swept'
      /\ \A r \in Requests : place'[r] = "lost" => "stoppedBusy" \in history'
  BY <1>1, <1>2, <1>3, <1>4, <1>5, <1>6, Zenon
<1>. QED BY <1>7, <1>8, Zenon DEF OnTheRing, LostOnlyByPowerDown

--------------------------------------------------------------------------------
(* The handshake.                                                           *)

\* The frontend takes its states in order.
LEMMA HandshakeByPnp ==
  ASSUME LifeInv, ByPnp, LifeNext
  PROVE  Handshake'
<1> DEFINE Deleting == Ahead("deallocate")
<1> DEFINE Connecting == {"initialize", "connect", "awaitInitWait", "publish"}
<1>1. /\ LifeTypes /\ Control /\ Data /\ Handshake
      /\ "refused" \in history => "refused" \in history'
      /\ "removedConnected" \in history => "removedConnected" \in history'
  BY HistoryGrows, Zenon DEF LifeInv, LifeTypes
<1>2. /\ store.be \notin {"connected", "closing"} => store.mapped = 0
      /\ fdo.configured \/ Doing \in {"awaitConnected", "configured"} \/ Parting
           => store.fe # "initialising"
      /\ Doing \in {"initialize", "connect", "awaitInitWait", "publish", "awaitConnected",
                    "configured"} => ~fdo.configured /\ gen > 0
      /\ Doing = "awaitConnected" => /\ store.fe = "connected" /\ store.ringRef = gen
                                     /\ store.be = "connected" => store.mapped = gen
      /\ store.fe = "initialising" => store.be # "connected"
      /\ store.be = "connected" => Bound
      /\ store.be \in {"initialising", "initwait"} /\ store.fe = "connected" => Bound
      /\ store.mapped = gen /\ gen > 0 => Bound \/ "refused" \in history
      /\ Doing = "configured" => /\ store.be \notin {"initialising", "initwait"}
                                 /\ store.mapped \in {gen, 0}
      /\ Doing \in {"closing", "closed"} /\ seen \in {"closed", "unknown"}
           => store.be \in {"closed", "unknown"}
      /\ Deleting /\ fdo.configured => "removedConnected" \in history
  BY <1>1, Zenon DEF Handshake
<1>3. /\ Bound <=> \/ fdo.configured \/ Doing \in {"awaitConnected", "configured"} \/ Parting
                   \/ Crashed
      /\ Crashed <=> Doing = "crashed" \/ pnp = "crashed"
      /\ pnp = "crashed" => Doing = "idle"
      /\ Parting => Doing \in {"checkPort", "closePort", "stabilise", "closing", "closed",
                               "awaitChange"}
      /\ Doing \in {"stabilise", "closing", "closed", "awaitChange"} => Parting
      /\ Doing \notin BeforeSweep \cup {"sweep", "deallocate"} => ~Deleting
  <2>1. /\ pnp \in {"removed", "crashed"} => Doing = "idle"
        /\ Parting => Doing \in {"checkPort", "closePort", "stabilise", "closing", "closed",
                                 "awaitChange"}
        /\ Doing \notin BeforeSweep \cup {"sweep", "deallocate"} => ~Deleting
    BY <1>1, Positions, Zenon
  <2>2. Doing \in {"stabilise", "closing", "closed", "awaitChange"} => Parting
    BY Zenon DEF Parting
  <2>3. pnp = "crashed" => Doing = "idle"
    BY <2>1
  <2>. QED BY <2>1, <2>2, <2>3, Zenon DEF Bound, Crashed
<1>4. /\ Bound' <=> \/ fdo'.configured \/ Doing' \in {"awaitConnected", "configured"}
                    \/ Parting' \/ Crashed'
      /\ Crashed' <=> Doing' = "crashed" \/ pnp' = "crashed"
      /\ Doing' \in {"stabilise", "closing", "closed", "awaitChange"} => Parting'
  BY Zenon DEF Bound, Crashed, Parting
<1>5. UNCHANGED todo => /\ Doing' = Doing /\ (Parting' <=> Parting) /\ (Deleting' <=> Deleting)
  BY Unmoved, Zenon
<1>6. /\ fdo \in Contexts /\ gen \in Nat /\ store.mapped \in 0..gen
      /\ store'.be = store.be /\ store'.mapped = store.mapped
      /\ store \in [fe : BackendStates, be : BackendStates, online : BOOLEAN, ringRef : 0..gen,
                    mapped : 0..gen, restarts : Nat]
  <2>1. store'.be = store.be /\ store'.mapped = store.mapped
    BY <1>1, PnpLeaves, Zenon
  <2>. QED BY <1>1, <2>1, LifeAssumption DEF Data
<1> HIDE DEF Deleting
<1> DEFINE Conclusion ==
      /\ store'.be \notin {"connected", "closing"} => store'.mapped = 0
      /\ fdo'.configured \/ Doing' \in {"awaitConnected", "configured"} \/ Parting'
           => store'.fe # "initialising"
      /\ Doing' \in {"initialize", "connect", "awaitInitWait", "publish", "awaitConnected",
                     "configured"} => ~fdo'.configured /\ gen' > 0
      /\ Doing' = "awaitConnected" => /\ store'.fe = "connected" /\ store'.ringRef = gen'
                                      /\ store'.be = "connected" => store'.mapped = gen'
      /\ store'.fe = "initialising" => store'.be # "connected"
      /\ store'.be = "connected" => Bound'
      /\ store'.be \in {"initialising", "initwait"} /\ store'.fe = "connected" => Bound'
      /\ store'.mapped = gen' /\ gen' > 0 => Bound' \/ "refused" \in history'
      /\ Doing' = "configured" => /\ store'.be \notin {"initialising", "initwait"}
                                  /\ store'.mapped \in {gen', 0}
      /\ Doing' \in {"closing", "closed"} /\ seen' \in {"closed", "unknown"}
           => store'.be \in {"closed", "unknown"}
      /\ Deleting' /\ fdo'.configured => "removedConnected" \in history'
<1>7. Conclusion => Handshake'
  BY Zenon DEF Handshake, Deleting
<1> HIDE DEF Conclusion
\* The steps that do not take part in the handshake.
<1>8. ASSUME gen' = gen, store'.fe = store.fe, store'.ringRef = store.ringRef,
             fdo'.configured = fdo.configured,
             Doing \notin {"awaitConnected", "configured", "closed"},
             Doing' \notin {"awaitConnected", "configured", "closing", "closed"},
             Doing' \in Connecting => ~fdo.configured /\ gen > 0,
             Parting' <=> Parting, Crashed => Crashed',
             Deleting' /\ fdo.configured => Deleting \/ "removedConnected" \in history'
      PROVE  Handshake'
  <2>1. Bound => Bound'
    BY <1>3, <1>4, <1>8
  <2>2. Conclusion
    BY <1>1, <1>2, <1>6, <1>8, <2>1 DEF Conclusion
  <2>. QED BY <1>7, <2>2
\* The steps that wait for another answer.
<1>9. ASSUME UNCHANGED <<todo, gen, store, fdo, pnp>>, Doing \notin {"closing", "closed"}
      PROVE  Handshake'
  <2>1. /\ Doing' = Doing /\ (Parting' <=> Parting) /\ (Deleting' <=> Deleting)
        /\ Bound' <=> Bound
    BY <1>3, <1>4, <1>5, <1>9
  <2>2. Conclusion
    BY <1>1, <1>2, <1>6, <1>9, <2>1 DEF Conclusion
  <2>. QED BY <1>7, <2>2
<1>10. ASSUME DeviceAdd PROVE Handshake'
  <2>1. /\ Doing = "deviceAdd" /\ UNCHANGED <<pnp, gen, store>>
        /\ Doing' = "configure" \/ Doing' = "failed"
        /\ ~Parting' /\ ~Deleting'
    BY <1>1, <1>10, DeviceAddDoes, Zenon DEF Begun, Failed, NothingNext, Deleting, xenVars
  <2>2. \E s \in BOOLEAN, t \in {"none", "off"} : fdo' = [fdo EXCEPT !.scratch = s, !.timer = t]
    <3>1. TRUE \in BOOLEAN /\ "off" \in {"none", "off"}
      OBVIOUS
    <3>. QED BY <1>1, <1>10, <3>1, DeviceAddDoes, Zenon
  <2>3. fdo'.configured = fdo.configured
    BY <1>6, <2>2 DEF Contexts
  <2>. QED BY <1>1, <1>3, <1>4, <1>8, <2>1, <2>3
<1>11. ASSUME Configure PROVE Handshake'
  <2>1. /\ Doing = "configure" /\ UNCHANGED <<pnp, fdo, store, seen>>
        /\ \/ gen' = gen /\ Doing' \in {"getUsbConfigData", "startTimer"} /\ (Parting' => Parting)
           \/ ~fdo.configured /\ gen' = gen + 1 /\ Doing' = "initialize" /\ (Parting' => Parting)
           \/ ~fdo.configured /\ gen' = gen /\ Doing' = "failed" /\ ~Parting'
        /\ Deleting' => Deleting
    BY <1>1, <1>5, <1>3, <1>11, ConfigureDoes, Zenon
       DEF Onward, Begun, Failed, NothingNext, SweepsNext, Deleting
  <2>2. ~Parting /\ ~Parting' /\ ~Crashed
    BY <1>3, <2>1
  <2>3. CASE gen' = gen /\ Doing' \in {"getUsbConfigData", "startTimer"}
    BY <1>1, <1>3, <1>4, <1>8, <2>1, <2>2, <2>3
  <2>4. CASE ~fdo.configured /\ gen' = gen + 1 /\ Doing' = "initialize"
    <3>1. ~Bound
      BY <1>3, <2>1, <2>2, <2>4
    <3>2. Conclusion
      BY <1>1, <1>2, <1>6, <2>1, <2>2, <2>4, <3>1 DEF Conclusion
    <3>. QED BY <1>7, <3>2
  <2>5. CASE ~fdo.configured /\ gen' = gen /\ Doing' = "failed"
    BY <1>1, <1>3, <1>4, <1>8, <2>1, <2>2, <2>5
  <2>. QED BY <2>1, <2>3, <2>4, <2>5
<1>12. ASSUME Initialize PROVE Handshake'
  <2>1. /\ Doing = "initialize" /\ UNCHANGED <<pnp, gen, fdo, store, seen>>
        /\ Doing' = "connect" \/ Doing' = "failed"
        /\ Parting' => Parting
        /\ Deleting' => Deleting
    BY <1>1, <1>5, <1>3, <1>12, InitializeDoes, Zenon
       DEF Onward, Begun, Failed, NothingNext, SweepsNext, Deleting
  <2>2. ~Bound /\ ~Parting /\ ~fdo.configured /\ gen > 0 /\ ~Deleting /\ ~Parting'
    BY <1>2, <1>3, <2>1 DEF BeforeSweep
  <2>. QED BY <1>1, <1>3, <1>4, <1>8, <2>1, <2>2
<1>13. ASSUME Connect PROVE Handshake'
  <2>1. /\ Doing = "connect" /\ UNCHANGED <<pnp, gen, fdo>>
        /\ store' = [store EXCEPT !.fe = "initialising"] \/ store' = store
        /\ Doing' = "awaitInitWait" \/ Doing' = "failed"
        /\ Parting' => Parting
        /\ Deleting' => Deleting
    BY <1>1, <1>5, <1>3, <1>13, ConnectDoes, Zenon
       DEF Onward, Begun, Failed, NothingNext, SweepsNext, Deleting
  <2>2. ~Bound /\ ~Parting /\ ~fdo.configured /\ gen > 0 /\ ~Deleting /\ ~Parting'
    BY <1>2, <1>3, <2>1 DEF BeforeSweep
  <2>3. store'.fe \in {"initialising", store.fe} /\ store'.ringRef = store.ringRef
    BY <1>6, <2>1
  <2>4. Conclusion
    BY <1>1, <1>2, <1>6, <2>1, <2>2, <2>3 DEF Conclusion
  <2>. QED BY <1>7, <2>4
<1>14. ASSUME AwaitInitWait PROVE Handshake'
  <2>1. /\ Doing = "awaitInitWait" /\ UNCHANGED <<pnp, gen, fdo, store>>
        /\ Doing' = "publish" \/ Doing' = "failed" \/ Doing' = Doing
        /\ Parting' => Parting
        /\ Deleting' => Deleting
    BY <1>1, <1>5, <1>3, <1>14, AwaitInitWaitDoes, Zenon
       DEF Onward, Begun, Failed, NothingNext, SweepsNext, Deleting
  <2>2. ~Bound /\ ~Parting /\ ~fdo.configured /\ gen > 0 /\ ~Deleting /\ ~Parting'
    BY <1>2, <1>3, <2>1 DEF BeforeSweep
  <2>. QED BY <1>1, <1>3, <1>4, <1>8, <2>1, <2>2
<1>15. ASSUME Publish PROVE Handshake'
  <2>1. /\ Doing = "publish" /\ UNCHANGED <<pnp, gen, fdo>>
        /\ \/ /\ store' = [store EXCEPT !.ringRef = gen, !.fe = "connected"]
              /\ Doing' = "awaitConnected"
           \/ store' = store /\ Doing' = "failed"
        /\ Parting' => Parting
        /\ Deleting' => Deleting
    BY <1>1, <1>5, <1>3, <1>15, PublishDoes, Zenon
       DEF Onward, Begun, Failed, NothingNext, SweepsNext, Deleting
  <2>2. ~Bound /\ ~Parting /\ ~fdo.configured /\ gen > 0 /\ ~Deleting /\ ~Parting'
    BY <1>2, <1>3, <2>1 DEF BeforeSweep
  <2>3. CASE /\ store' = [store EXCEPT !.ringRef = gen, !.fe = "connected"]
             /\ Doing' = "awaitConnected"
    <3>1. store'.ringRef = gen /\ store'.fe = "connected" /\ Bound'
      BY <1>4, <1>6, <2>3
    <3>2. Conclusion
      BY <1>1, <1>2, <1>6, <2>1, <2>2, <2>3, <3>1 DEF Conclusion
    <3>. QED BY <1>7, <3>2
  <2>4. CASE store' = store /\ Doing' = "failed"
    BY <1>1, <1>3, <1>4, <1>8, <2>1, <2>2, <2>4
  <2>. QED BY <2>1, <2>3, <2>4
<1>16. ASSUME AwaitConnected PROVE Handshake'
  <2>1. /\ Doing = "awaitConnected" /\ UNCHANGED <<pnp, gen, fdo, store>> /\ seen' = store.be
        /\ \/ seen' = "connected" /\ Doing' = "configured"
           \/ seen' \in BackendRefused /\ history' = history \cup {"refused"} /\ Doing' = "failed"
           \/ UNCHANGED todo
        /\ Parting' => Parting
        /\ Deleting' => Deleting
    BY <1>1, <1>5, <1>3, <1>16, AwaitConnectedDoes, Zenon
       DEF Onward, Begun, Failed, NothingNext, SweepsNext, Deleting
  <2>2. ~Parting /\ ~fdo.configured /\ gen > 0 /\ ~Deleting /\ ~Parting'
    BY <1>2, <1>3, <2>1 DEF BeforeSweep
  <2>3. CASE seen' = "connected" /\ Doing' = "configured"
    <3>1. Bound'
      BY <1>4, <2>3
    <3>2. Conclusion
      BY <1>1, <1>2, <1>6, <2>1, <2>2, <2>3, <3>1 DEF Conclusion
    <3>. QED BY <1>7, <3>2
  <2>4. CASE /\ seen' \in BackendRefused /\ history' = history \cup {"refused"}
             /\ Doing' = "failed"
    <3>1. "refused" \in history'
      BY <2>4
    <3>2. Conclusion
      BY <1>1, <1>2, <1>6, <2>1, <2>2, <2>4, <3>1 DEF Conclusion, BackendRefused
    <3>. QED BY <1>7, <3>2
  <2>5. CASE UNCHANGED todo
    BY <1>9, <2>1, <2>5
  <2>. QED BY <2>1, <2>3, <2>4, <2>5
<1>17. ASSUME Configured PROVE Handshake'
  <2>1. /\ Doing = "configured" /\ UNCHANGED <<pnp, gen, store>>
        /\ fdo' = [fdo EXCEPT !.configured = TRUE]
        /\ Doing' \in {"getUsbConfigData", "startTimer"}
        /\ Parting' => Parting
        /\ Deleting' => Deleting
    BY <1>1, <1>5, <1>3, <1>17, ConfiguredDoes, Zenon
       DEF Onward, Begun, Failed, NothingNext, SweepsNext, Deleting, xenVars
  <2>2. ~Parting /\ ~Deleting /\ ~Parting' /\ fdo'.configured
    BY <1>3, <1>6, <2>1 DEF BeforeSweep, Contexts
  <2>3. Bound'
    BY <1>4, <2>2
  <2>4. Conclusion
    BY <1>1, <1>2, <1>6, <2>1, <2>2, <2>3 DEF Conclusion
  <2>. QED BY <1>7, <2>4
<1>18. ASSUME GetUsbConfigData PROVE Handshake'
  <2>1. /\ Doing = "getUsbConfigData" /\ UNCHANGED <<pnp, gen, store>>
        /\ fdo' = fdo
        /\ Doing' = "createRootHubPdo" \/ Doing' = "failed" \/ Doing' = "unplug" \/ Doing' = "added"
        /\ Parting' => Parting
        /\ Deleting' => Deleting
    BY <1>1, <1>5, <1>3, <1>18, GetUsbConfigDataDoes, Zenon
       DEF Onward, Begun, Failed, NothingNext, SweepsNext, Deleting, xenVars
  <2>2. fdo'.configured = fdo.configured
    BY <1>6, <2>1 DEF Contexts
  <2>. QED BY <1>1, <1>3, <1>4, <1>8, <2>1, <2>2
<1>19. ASSUME CreateRootHubPdo PROVE Handshake'
  <2>1. /\ Doing = "createRootHubPdo" /\ UNCHANGED <<pnp, gen, store>>
        /\ fdo' = [fdo EXCEPT !.child = TRUE, !.timer = "armed"] \/ fdo' = fdo
        /\ Doing' = "added" \/ Doing' = "failed"
        /\ Parting' => Parting
        /\ Deleting' => Deleting
    BY <1>1, <1>5, <1>3, <1>19, CreateRootHubPdoDoes, Zenon
       DEF Onward, Begun, Failed, NothingNext, SweepsNext, Deleting, xenVars
  <2>2. fdo'.configured = fdo.configured
    BY <1>6, <2>1 DEF Contexts
  <2>. QED BY <1>1, <1>3, <1>4, <1>8, <2>1, <2>2
<1>20. ASSUME StartTimer PROVE Handshake'
  <2>1. /\ Doing = "startTimer" /\ UNCHANGED <<pnp, gen, store>>
        /\ fdo' = [fdo EXCEPT !.timer = "armed"]
        /\ Doing' = "d0"
        /\ Parting' => Parting
        /\ Deleting' => Deleting
    BY <1>1, <1>5, <1>3, <1>20, StartTimerDoes, Zenon
       DEF Onward, Begun, Failed, NothingNext, SweepsNext, Deleting, xenVars
  <2>2. fdo'.configured = fdo.configured
    BY <1>6, <2>1 DEF Contexts
  <2>. QED BY <1>1, <1>3, <1>4, <1>8, <2>1, <2>2
<1>21. ASSUME StopTimer PROVE Handshake'
  <2>1. /\ Doing \in {"stopTimer", "timerStopped"} /\ UNCHANGED <<pnp, gen, store>>
        /\ \/ fdo' = fdo \/ fdo' = [fdo EXCEPT !.timer = "stopping"]
           \/ fdo' = [fdo EXCEPT !.timer = "off"]
        /\ \/ Doing' = "crashed" \/ Doing' = "timerStopped"
           \/ Doing' \in {"checkPort", "deconfigure"}
        /\ Parting' => Parting
        /\ Deleting' => Deleting
    BY <1>1, <1>5, <1>3, <1>21, StopTimerDoes, Zenon
       DEF Onward, Begun, Failed, NothingNext, SweepsNext, Deleting, xenVars
  <2>2. fdo'.configured = fdo.configured
    BY <1>6, <2>1 DEF Contexts
  <2>. QED BY <1>1, <1>3, <1>4, <1>8, <2>1, <2>2
<1>22. ASSUME Cleanup PROVE Handshake'
  <2>1. /\ Doing = "cleanup" /\ UNCHANGED <<pnp, gen, store>>
        /\ fdo' = [fdo EXCEPT !.disconnected = TRUE]
        /\ Doing' = "stopTimer" \/ Doing' \in {"stopTimer", "d0", "remove", "deallocate"}
        /\ Parting' => Parting
        /\ Deleting' => Deleting
    BY <1>1, <1>5, <1>3, <1>22, CleanupDoes, Zenon
       DEF Onward, Begun, Failed, NothingNext, SweepsNext, Deleting, xenVars
  <2>2. fdo'.configured = fdo.configured
    BY <1>6, <2>1 DEF Contexts
  <2>. QED BY <1>1, <1>3, <1>4, <1>8, <2>1, <2>2
<1>23. ASSUME Sweep PROVE Handshake'
  <2>1. /\ Doing = "sweep" /\ UNCHANGED <<pnp, gen, store>>
        /\ fdo' = fdo
        /\ Doing' \in {"stopTimer", "d0", "remove", "deallocate"}
        /\ Parting' => Parting
        /\ Deleting' => Deleting
    BY <1>1, <1>5, <1>3, <1>23, SweepDoes, Zenon
       DEF Onward, Begun, Failed, NothingNext, SweepsNext, Deleting, xenVars
  <2>2. fdo'.configured = fdo.configured
    BY <1>6, <2>1 DEF Contexts
  <2>. QED BY <1>1, <1>3, <1>4, <1>8, <2>1, <2>2
<1>24. ASSUME Unregister PROVE Handshake'
  <2>1. /\ Doing = "unregister" /\ UNCHANGED <<pnp, gen, store>>
        /\ fdo' = fdo
        /\ Doing' \in {"idle", "dx", "remove"}
        /\ Parting' => Parting
        /\ Deleting' => Deleting
    BY <1>1, <1>5, <1>3, <1>24, UnregisterDoes, Zenon
       DEF Onward, Begun, Failed, NothingNext, SweepsNext, Deleting, xenVars
  <2>2. fdo'.configured = fdo.configured
    BY <1>6, <2>1 DEF Contexts
  <2>. QED BY <1>1, <1>3, <1>4, <1>8, <2>1, <2>2
<1>25. ASSUME Deallocate PROVE Handshake'
  <2>1. /\ Doing = "deallocate" /\ UNCHANGED <<pnp, gen, store>>
        /\ fdo' = [fdo EXCEPT !.scratch = FALSE]
        /\ Doing' = "removed"
        /\ Parting' => Parting
        /\ Deleting' => Deleting
    BY <1>1, <1>5, <1>3, <1>25, DeallocateDoes, Zenon
       DEF Onward, Begun, Failed, NothingNext, SweepsNext, Deleting, xenVars
  <2>2. fdo'.configured = fdo.configured
    BY <1>6, <2>1 DEF Contexts
  <2>. QED BY <1>1, <1>3, <1>4, <1>8, <2>1, <2>2
<1>26. ASSUME ClosePort("pnp") PROVE Handshake'
  <2>1. /\ Doing = "closePort" /\ UNCHANGED <<pnp, gen, store>>
        /\ fdo' = fdo
        /\ Doing' \in {"unplug", "removeChildren", "stabilise"}
        /\ Parting' => Parting
        /\ Parting => Parting'
        /\ Deleting' => Deleting
    BY <1>1, <1>5, <1>3, <1>26, ClosePortDoes, Zenon
       DEF Onward, Begun, Failed, NothingNext, SweepsNext, Deleting, xenVars
  <2>2. fdo'.configured = fdo.configured
    BY <1>6, <2>1 DEF Contexts
  <2>. QED BY <1>1, <1>3, <1>4, <1>8, <2>1, <2>2
<1>27. ASSUME Unplug("pnp") PROVE Handshake'
  <2>1. /\ Doing = "unplug" /\ UNCHANGED <<pnp, gen, store>>
        /\ fdo' = [fdo EXCEPT !.unplugged = TRUE]
        /\ Doing' \in {"sweep", "failed", "checkPort"}
        /\ Parting' => Parting
        /\ Deleting' => Deleting
    BY <1>1, <1>5, <1>3, <1>27, UnplugDoes, Zenon
       DEF Onward, Begun, Failed, NothingNext, SweepsNext, Deleting, xenVars
  <2>2. fdo'.configured = fdo.configured
    BY <1>6, <2>1 DEF Contexts
  <2>. QED BY <1>1, <1>3, <1>4, <1>8, <2>1, <2>2
<1>28. ASSUME RemoveAllChildDevices("pnp") PROVE Handshake'
  <2>1. /\ Doing = "removeChildren" /\ UNCHANGED <<pnp, gen, store>>
        /\ fdo' = [fdo EXCEPT !.child = FALSE]
        /\ Doing' \in {"sweep", "failed"}
        /\ Parting' => Parting
        /\ Deleting' => Deleting
    BY <1>1, <1>5, <1>3, <1>28, RemoveChildrenDoes, Zenon
       DEF Onward, Begun, Failed, NothingNext, SweepsNext, Deleting, xenVars
  <2>2. fdo'.configured = fdo.configured
    BY <1>6, <2>1 DEF Contexts
  <2>. QED BY <1>1, <1>3, <1>4, <1>8, <2>1, <2>2
<1>29. ASSUME CheckPort("pnp") PROVE Handshake'
  <2>1. /\ Doing = "checkPort" /\ UNCHANGED <<pnp, gen, fdo, store>>
        /\ \/ Doing' = "crashed" /\ ~Parting' /\ ~Deleting'
           \/ /\ Doing' = "closePort" \/ Doing' \in {"unplug", "removeChildren", "stabilise"}
              /\ Parting' <=> Parting
              /\ Deleting' => Deleting
    BY <1>1, <1>5, <1>3, <1>29, CheckPortDoes, Zenon
       DEF Onward, Begun, Failed, NothingNext, SweepsNext, Deleting
  <2>2. CASE Doing' = "crashed" /\ ~Parting' /\ ~Deleting'
    <3>1. Bound'
      BY <1>4, <2>2
    <3>2. Conclusion
      BY <1>1, <1>2, <1>6, <2>1, <2>2, <3>1 DEF Conclusion
    <3>. QED BY <1>7, <3>2
  <2>3. CASE Doing' # "crashed"
    BY <1>1, <1>3, <1>4, <1>8, <2>1, <2>3
  <2>. QED BY <2>2, <2>3, <2>1
<1>30. ASSUME Deconfigure PROVE Handshake'
  <2>1. /\ Doing = "deconfigure" /\ UNCHANGED <<pnp, gen, store>>
        /\ fdo' = [fdo EXCEPT !.configured = FALSE]
        /\ fdo.configured => Doing' = "checkPort" /\ Parting'
        /\ ~fdo.configured => Doing' \in {"idle", "dx", "remove"}
        /\ Parting' => Parting \/ Doing = "deconfigure"
    BY <1>1, <1>5, <1>3, <1>30, DeconfigureDoes, Zenon
       DEF Onward, Begun, Failed, NothingNext, SweepsNext, Deleting, xenVars
  <2>2. ~fdo'.configured
    BY <1>6, <2>1 DEF Contexts
  <2>3. CASE fdo.configured
    <3>1. Bound'
      BY <1>4, <2>1, <2>3
    <3>2. Conclusion
      BY <1>1, <1>2, <1>6, <2>1, <2>2, <2>3, <3>1 DEF Conclusion
    <3>. QED BY <1>7, <3>2
  <2>4. CASE ~fdo.configured
    <3>1. ~Bound
      BY <1>3, <2>1, <2>4
    <3>2. ~Parting'
      <4>1. Parting' => Doing' \in {"checkPort", "closePort", "stabilise", "closing", "closed",
                                    "awaitChange"}
        BY Zenon DEF Parting
      <4>. QED BY <2>1, <2>4, <4>1
    <3>3. Conclusion
      BY <1>1, <1>2, <1>6, <2>1, <2>2, <2>4, <3>1, <3>2 DEF Conclusion
    <3>. QED BY <1>7, <3>3
  <2>. QED BY <2>3, <2>4
<1>31. ASSUME DisonnectBackend PROVE Handshake'
  <2>1. /\ UNCHANGED <<pnp, gen, fdo>>
        /\ \/ /\ Doing \in {"stabilise", "awaitChange"} /\ seen' = store.be
              /\ UNCHANGED <<todo, store>>
           \/ Doing = "stabilise" /\ seen' = store.be /\ store' = store /\ Doing' = "closing"
           \/ /\ Doing = "awaitChange" /\ seen' = store.be /\ store' = store
              /\ Doing' \in {"closing", "closed"}
           \/ /\ Doing \in {"closing", "closed"} /\ seen' = seen
              /\ store' = [store EXCEPT !.fe = Doing] /\ Doing' = "awaitChange"
           \/ Doing = "closing" /\ UNCHANGED <<seen, store>> /\ Doing' = "closed"
           \/ /\ Doing = "closed" /\ seen \in {"closed", "unknown"} /\ UNCHANGED <<seen, store>>
              /\ Doing' = "unregister"
        /\ Deleting' => Deleting
    BY <1>1, <1>5, <1>3, <1>31, DisonnectDoes, Zenon
       DEF Onward, Begun, Failed, NothingNext, SweepsNext, Deleting, xenVars
  <2>2. CASE Doing \in {"stabilise", "awaitChange"} /\ UNCHANGED <<todo, store>>
    BY <1>9, <2>1, <2>2
  <2>3. CASE /\ Doing \in {"stabilise", "awaitChange"} /\ seen' = store.be /\ store' = store
             /\ Doing' \in {"closing", "closed"}
    <3>1. Parting /\ Bound'
      BY <1>3, <1>4, <2>3
    <3>2. Conclusion
      BY <1>1, <1>2, <1>6, <2>1, <2>3, <3>1 DEF Conclusion
    <3>. QED BY <1>7, <3>2
  <2>4. CASE /\ Doing \in {"closing", "closed"} /\ seen' = seen
             /\ store' = [store EXCEPT !.fe = Doing] /\ Doing' = "awaitChange"
    <3>1. Parting /\ Bound'
      BY <1>3, <1>4, <2>4
    <3>2. store'.fe = Doing /\ store'.ringRef = store.ringRef
      BY <1>6, <2>4
    <3>3. Conclusion
      BY <1>1, <1>2, <1>6, <2>1, <2>4, <3>1, <3>2 DEF Conclusion
    <3>. QED BY <1>7, <3>3
  <2>5. CASE Doing = "closing" /\ UNCHANGED <<seen, store>> /\ Doing' = "closed"
    <3>1. Parting /\ Bound'
      BY <1>3, <1>4, <2>5
    <3>2. Conclusion
      BY <1>1, <1>2, <1>6, <2>1, <2>5, <3>1 DEF Conclusion
    <3>. QED BY <1>7, <3>2
  <2>6. CASE /\ Doing = "closed" /\ seen \in {"closed", "unknown"} /\ UNCHANGED <<seen, store>>
             /\ Doing' = "unregister"
    <3>1. Parting /\ store.be \in {"closed", "unknown"} /\ store.mapped = 0
      BY <1>2, <1>3, <2>6
    <3>2. Conclusion
      BY <1>1, <1>2, <1>6, <2>1, <2>6, <3>1 DEF Conclusion
    <3>. QED BY <1>7, <3>2
  <2>. QED BY <2>1, <2>2, <2>3, <2>4, <2>5, <2>6
<1>32. ASSUME Online PROVE Handshake'
  <2>1. /\ Doing = "online" /\ UNCHANGED <<pnp, gen, fdo, store>>
        /\ Doing' = "cleanup" \/ Doing' = "d0" \/ Doing' = "configure"
        /\ Parting' => Parting
        /\ Deleting' => Deleting
    BY <1>1, <1>5, <1>3, <1>32, OnlineDoes, Zenon
       DEF Onward, Begun, Failed, NothingNext, SweepsNext, Deleting, xenVars
  <2>. QED BY <1>1, <1>3, <1>4, <1>8, <2>1
<1>33. ASSUME Returned PROVE Handshake'
  <2>1. /\ Doing \in Ends \ {"remove"} /\ pnp' = Doing /\ UNCHANGED <<gen, fdo, store>>
        /\ Doing' = "idle" \/ Doing' = "stopTimer"
        /\ Parting' => Parting \/ Doing = "deconfigure"
        /\ Deleting' => Deleting
    BY <1>1, <1>5, <1>3, <1>33, ReturnedDoes, Zenon
       DEF Onward, Begun, Failed, NothingNext, SweepsNext, Deleting, xenVars
  <2>2. /\ ~Parting /\ ~Parting' /\ (Crashed => Crashed')
        /\ Doing \notin {"awaitConnected", "configured", "closed"}
    BY <1>3, <1>4, <2>1 DEF Ends
  <2>. QED BY <1>1, <1>3, <1>4, <1>8, <2>1, <2>2
<1>34. ASSUME PowerUp \/ PowerDown \/ SurpriseRemoval \/ Remove PROVE Handshake'
  <2>1. /\ Doing \in {"idle", "remove"} /\ pnp \notin {"removed", "crashed"}
        /\ UNCHANGED <<gen, fdo, store>> /\ ~Parting'
        /\ Doing' = "online" \/ Doing' = "stopTimer" \/ Doing' = "cleanup"
        /\ Deleting' => RecordIf("removedConnected", fdo.configured)
    BY <1>1, <1>5, <1>3, <1>34, FrameworkDoes, Zenon
       DEF Onward, Begun, Failed, NothingNext, SweepsNext, Deleting, xenVars
  <2>2. Deleting' /\ fdo.configured => "removedConnected" \in history'
    BY <2>1 DEF RecordIf
  <2>3. ~Parting /\ ~Crashed /\ Doing \notin {"awaitConnected", "configured", "closed"}
        /\ Doing' \notin {"awaitConnected", "configured", "closing", "closed"} \cup Connecting
    BY <1>3, <2>1
  <2>4. gen' = gen /\ store' = store /\ fdo' = fdo /\ ~Parting'
    BY <2>1, Zenon
  <2>. QED BY <1>8, <2>2, <2>3, <2>4
<1>. QED BY <1>10, <1>11, <1>12, <1>13, <1>14, <1>15, <1>16, <1>17, <1>18, <1>19, <1>20, <1>21,
            <1>22, <1>23, <1>24, <1>25, <1>26, <1>27, <1>28, <1>29, <1>30, <1>31, <1>32, <1>33,
            <1>34, Zenon
         DEF ByPnp, PnpStep, ThreadStep

\* The backend follows, closes, goes and comes back: it maps only what is published.
LEMMA HandshakeAside ==
  ASSUME LifeInv, Aside, LifeNext
  PROVE  Handshake'
<1> DEFINE Deleting == Ahead("deallocate")
<1>1. /\ LifeTypes /\ Control /\ Data /\ Handshake
      /\ "refused" \in history => "refused" \in history'
      /\ "removedConnected" \in history => "removedConnected" \in history'
  BY HistoryGrows, Zenon DEF LifeInv, LifeTypes
<1>2. /\ store.be \notin {"connected", "closing"} => store.mapped = 0
      /\ fdo.configured \/ Doing \in {"awaitConnected", "configured"} \/ Parting
           => store.fe # "initialising"
      /\ Doing \in {"initialize", "connect", "awaitInitWait", "publish", "awaitConnected",
                    "configured"} => ~fdo.configured /\ gen > 0
      /\ Doing = "awaitConnected" => /\ store.fe = "connected" /\ store.ringRef = gen
                                     /\ store.be = "connected" => store.mapped = gen
      /\ store.fe = "initialising" => store.be # "connected"
      /\ store.be = "connected" => Bound
      /\ store.be \in {"initialising", "initwait"} /\ store.fe = "connected" => Bound
      /\ store.mapped = gen /\ gen > 0 => Bound \/ "refused" \in history
      /\ Doing = "configured" => /\ store.be \notin {"initialising", "initwait"}
                                 /\ store.mapped \in {gen, 0}
      /\ Doing \in {"closing", "closed"} /\ seen \in {"closed", "unknown"}
           => store.be \in {"closed", "unknown"}
      /\ Deleting /\ fdo.configured => "removedConnected" \in history
  BY <1>1, Zenon DEF Handshake
<1>3. /\ pnp' = pnp /\ gen' = gen /\ Doing' = Doing /\ (Parting' <=> Parting)
      /\ Deleting' <=> Deleting
  BY <1>1, AsideTakes, Unmoved, Zenon DEF Steady
<1>4. fdo'.configured = fdo.configured
  BY <1>1, AsideContext, Zenon
<1>5. Bound' <=> Bound
  BY <1>3, <1>4, Zenon DEF Bound, Crashed
<1>6. seen' = seen
  BY Zenon DEF Aside, ThreadStep, CheckPort, ClosePort, Unplug, RemoveAllChildDevices,
     TimerFires, TimerStep, TimerReadsState, TimerDecides, WaitForScratchCompletion,
     Submit, Answer, BackendFollows, BackendRestarts, Detach, BackendGoes
<1>7. Doing \in {"closing", "closed"} => Parting
  BY DEF Parting
<1>8. /\ gen \in Nat /\ store.mapped \in 0..gen /\ store.ringRef \in 0..gen
      /\ store \in [fe : BackendStates, be : BackendStates, online : BOOLEAN, ringRef : 0..gen,
                    mapped : 0..gen, restarts : Nat]
  BY <1>1, LifeAssumption DEF Data
<1> HIDE DEF Deleting
\* What a step of the backend, or of nobody that the handshake knows, keeps.
<1>9. ASSUME store'.fe = store.fe, store'.ringRef = store.ringRef,
             store'.be \notin {"connected", "closing"} => store'.mapped = 0,
             Doing = "awaitConnected" /\ store'.be = "connected" => store'.mapped = gen,
             store.fe = "initialising" => store'.be # "connected",
             store'.be = "connected" => Bound,
             store'.be \in {"initialising", "initwait"} /\ store.fe = "connected" => Bound,
             store'.mapped = gen /\ gen > 0 => Bound \/ "refused" \in history,
             Doing = "configured" => /\ store'.be \notin {"initialising", "initwait"}
                                     /\ store'.mapped \in {gen, 0},
             Doing \in {"closing", "closed"} /\ seen \in {"closed", "unknown"}
               => store'.be \in {"closed", "unknown"}
      PROVE  Handshake'
  <2>1. /\ store'.be \notin {"connected", "closing"} => store'.mapped = 0
        /\ fdo'.configured \/ Doing' \in {"awaitConnected", "configured"} \/ Parting'
             => store'.fe # "initialising"
        /\ Doing' \in {"initialize", "connect", "awaitInitWait", "publish", "awaitConnected",
                       "configured"} => ~fdo'.configured /\ gen' > 0
        /\ Doing' = "awaitConnected" => /\ store'.fe = "connected" /\ store'.ringRef = gen'
                                        /\ store'.be = "connected" => store'.mapped = gen'
        /\ store'.fe = "initialising" => store'.be # "connected"
        /\ store'.be = "connected" => Bound'
        /\ store'.be \in {"initialising", "initwait"} /\ store'.fe = "connected" => Bound'
        /\ store'.mapped = gen' /\ gen' > 0 => Bound' \/ "refused" \in history'
        /\ Doing' = "configured" => /\ store'.be \notin {"initialising", "initwait"}
                                    /\ store'.mapped \in {gen', 0}
        /\ Doing' \in {"closing", "closed"} /\ seen' \in {"closed", "unknown"}
             => store'.be \in {"closed", "unknown"}
        /\ Deleting' /\ fdo'.configured => "removedConnected" \in history'
    BY <1>1, <1>2, <1>3, <1>4, <1>5, <1>6, <1>9
  <2>. QED BY <2>1, Zenon DEF Handshake, Deleting
<1>10. ASSUME store' = store PROVE Handshake'
  BY <1>2, <1>9, <1>10
<1>11. ASSUME store.be = "initialising", store' = [store EXCEPT !.be = "initwait"]
       PROVE  Handshake'
  <2>1. /\ store'.fe = store.fe /\ store'.ringRef = store.ringRef /\ store'.be = "initwait"
        /\ store'.mapped = store.mapped
    BY <1>8, <1>11
  <2>. QED BY <1>2, <1>9, <1>11, <2>1
<1>12. ASSUME store.be = "initwait", store.fe = "connected",
              store' = [store EXCEPT !.be = "connected", !.mapped = store.ringRef]
       PROVE  Handshake'
  <2>1. /\ store'.fe = store.fe /\ store'.ringRef = store.ringRef /\ store'.be = "connected"
        /\ store'.mapped = store.ringRef
    BY <1>8, <1>12
  <2>. QED BY <1>2, <1>9, <1>12, <2>1
<1>13. ASSUME store.be \in {"initwait", "connected"} \/ store.be \notin NotOperational,
              \/ store' = [store EXCEPT !.be = "closing"]
              \/ store' = [store EXCEPT !.online = FALSE, !.be = "closing"]
       PROVE  Handshake'
  <2>1. /\ store'.fe = store.fe /\ store'.ringRef = store.ringRef /\ store'.be = "closing"
        /\ store'.mapped = store.mapped
    BY <1>8, <1>13
  <2>2. store.be \notin {"closing", "closed", "unknown"}
    BY <1>13 DEF NotOperational
  <2>. QED BY <1>2, <1>9, <2>1, <2>2
<1>14. ASSUME \/ store' = [store EXCEPT !.be = "closed", !.mapped = 0]
              \/ store' = [store EXCEPT !.be = IF @ = "closing" THEN "closed" ELSE "unknown",
                                        !.mapped = 0]
       PROVE  Handshake'
  <2>1. /\ store'.fe = store.fe /\ store'.ringRef = store.ringRef
        /\ store'.be \in {"closed", "unknown"} /\ store'.mapped = 0
    BY <1>8, <1>14
  <2>. QED BY <1>2, <1>8, <1>9, <2>1
<1>15. ASSUME store.be = "closed", store.fe = "initialising",
              store' = [store EXCEPT !.be = "initwait", !.restarts = @ + 1]
       PROVE  Handshake'
  <2>1. /\ store'.fe = store.fe /\ store'.ringRef = store.ringRef /\ store'.be = "initwait"
        /\ store'.mapped = store.mapped
    BY <1>8, <1>15
  <2>. QED BY <1>2, <1>7, <1>9, <1>15, <2>1
<1>16. ASSUME BackendFollows PROVE Handshake'
  BY <1>11, <1>12, <1>13, <1>14, <1>16, Zenon DEF BackendFollows
<1>17. ASSUME BackendRestarts \/ Detach \/ BackendGoes PROVE Handshake'
  BY <1>13, <1>14, <1>15, <1>17, Zenon DEF BackendRestarts, Detach, BackendGoes
<1>18. CASE ~(BackendFollows \/ BackendRestarts \/ Detach \/ BackendGoes)
  <2>1. store' = store
    BY <1>18, Zenon DEF Aside, ThreadStep, CheckPort, ClosePort, Unplug, RemoveAllChildDevices,
       TimerFires, TimerStep, TimerReadsState, TimerDecides, WaitForScratchCompletion,
       Submit, Answer
  <2>. QED BY <1>10, <2>1
<1>. QED BY <1>16, <1>17, <1>18

--------------------------------------------------------------------------------
(* The ring is freed while it is mapped.                                    *)

\* A ring that is freed while mapped was not bound to a callback that would end the
\* handshake.
LEMMA MappedRingKeptKept ==
  ASSUME LifeInv, LifeNext
  PROVE  MappedRingKept'
<1>1. /\ LifeTypes /\ Control /\ Data /\ Handshake /\ Accounts
      /\ "refused" \in history => "refused" \in history'
      /\ "removedConnected" \in history => "removedConnected" \in history'
      /\ "freedMapped" \in history => "refused" \in history \/ "removedConnected" \in history
  BY HistoryGrows, Zenon DEF LifeInv, LifeTypes, MappedRingKept
<1>2. /\ xen # NULL => gen > 0
      /\ store.mapped = gen /\ gen > 0 => Bound \/ "refused" \in history
      /\ Ahead("deallocate") /\ fdo.configured => "removedConnected" \in history
  BY <1>1, Zenon DEF Handshake, Accounts
<1>3. /\ Parting => Doing \in {"checkPort", "closePort", "stabilise", "closing", "closed",
                               "awaitChange"}
      /\ pnp = "crashed" => Doing = "idle"
      /\ Doing = "deallocate" => Ahead("deallocate")
  <2>1. pnp \in {"removed", "crashed"} => Doing = "idle"
    BY <1>1, Positions, Zenon
  <2>2. pnp = "crashed" => Doing = "idle"
    BY <2>1
  <2>. QED BY <1>1, <2>2, Positions, Zenon
<1>4. Doing \in {"configure", "deallocate"} => (Bound => fdo.configured)
  BY <1>3 DEF Bound, Crashed
\* Only an interface that is there gives a mapped ring away.
<1>5. DeallocateXenInterface /\ "freedMapped" \in history'
        => "freedMapped" \in history \/ (store.mapped = gen /\ gen > 0)
  <2>1. DeallocateXenInterface =>
          \/ history' = history
          \/ /\ gen > 0
             /\ history' = history \cup {x \in {"freedMapped"} : store.mapped = gen}
    BY <1>2, Zenon DEF DeallocateXenInterface, RecordIf
  <2>. QED BY <2>1
<1>6. ASSUME Configure, "freedMapped" \in history'
      PROVE  "freedMapped" \in history \/ "refused" \in history
  <2>1. /\ Doing = "configure"
        /\ history' = history \/ (~fdo.configured /\ DeallocateXenInterface)
    <3>1. Doing = "configure"
      BY <1>1, <1>6, ConfigureDoes, Zenon
    <3>. QED BY <1>6, <3>1, Zenon DEF Configure
  <2>. QED BY <1>2, <1>4, <1>5, <1>6, <2>1
<1>7. ASSUME Deallocate, "freedMapped" \in history'
      PROVE  \/ "freedMapped" \in history \/ "refused" \in history
             \/ "removedConnected" \in history
  <2>1. Doing = "deallocate" /\ DeallocateXenInterface
    <3>1. Doing = "deallocate"
      BY <1>1, <1>7, DeallocateDoes, Zenon
    <3>. QED BY <1>7, <3>1, Zenon DEF Deallocate
  <2>. QED BY <1>2, <1>3, <1>4, <1>5, <1>7, <2>1
<1>8. "freedMapped" \in history'
        => "freedMapped" \in history \/ Configure \/ Deallocate
  BY Events, Zenon
<1>. QED BY <1>1, <1>6, <1>7, <1>8, Zenon DEF MappedRingKept

\* Nothing but the end of XenConfigure sets XenConfigured.
LEMMA OnlyConfigured ==
  ASSUME Data, ByPnp, ~fdo.configured, fdo'.configured
  PROVE  Configured
<1>1. fdo \in Contexts
  BY Zenon DEF Data
<1>2. ASSUME ~Configured PROVE ~fdo'.configured
  <2>1. \/ fdo' = fdo
        \/ \E s, t : fdo' = [fdo EXCEPT !.scratch = s, !.timer = t]
        \/ \E s, t : fdo' = [fdo EXCEPT !.child = s, !.timer = t]
        \/ \E t : fdo' = [fdo EXCEPT !.timer = t]
        \/ \E b : fdo' = [fdo EXCEPT !.disconnected = b]
        \/ \E b : fdo' = [fdo EXCEPT !.scratch = b]
        \/ \E b : fdo' = [fdo EXCEPT !.unplugged = b]
        \/ \E b : fdo' = [fdo EXCEPT !.child = b]
        \/ fdo' = [fdo EXCEPT !.configured = FALSE]
    BY <1>2, Zenon DEF ByPnp, PnpStep, DeviceAdd, Configure, Initialize, Connect, AwaitInitWait,
       Publish, AwaitConnected, GetUsbConfigData, CreateRootHubPdo, Returned, Online,
       StartTimer, Cleanup, StopTimer, Sweep, Deallocate, Deconfigure, DisonnectBackend, Await,
       AskFor, Unregister, PowerUp, PowerDown, SurpriseRemoval, Remove, ThreadStep, CheckPort,
       ClosePort, Unplug, RemoveAllChildDevices
  <2>2. ASSUME NEW s, NEW t,
               \/ fdo' = fdo
               \/ fdo' = [fdo EXCEPT !.scratch = s, !.timer = t]
               \/ fdo' = [fdo EXCEPT !.child = s, !.timer = t]
               \/ fdo' = [fdo EXCEPT !.timer = t]
               \/ fdo' = [fdo EXCEPT !.disconnected = s]
               \/ fdo' = [fdo EXCEPT !.scratch = s]
               \/ fdo' = [fdo EXCEPT !.unplugged = s]
               \/ fdo' = [fdo EXCEPT !.child = s]
               \/ fdo' = [fdo EXCEPT !.configured = FALSE]
        PROVE  ~fdo'.configured
    BY <1>1, <2>2 DEF Contexts
  <2>. QED BY <2>1, <2>2, Zenon
<1>. QED BY <1>2

--------------------------------------------------------------------------------
(* The invariant.                                                           *)

\* LifeInv holds in the initial state.
LEMMA InvariantHoldsFirst == LifeInit => LifeInv
<1> SUFFICES ASSUME LifeInit PROVE LifeInv
  OBVIOUS
<1>1. /\ pnp = "adding" /\ xen = NULL /\ gen = 0
      /\ todo = [t \in Threads |-> IF t = "pnp" THEN <<"deviceAdd">> ELSE <<>>]
      /\ saw = [t \in Threads |-> 0]
      /\ ledger = [page |-> 0, grant |-> 0, port |-> 0, handler |-> 0]
      /\ fdo = [configured |-> FALSE, unplugged |-> FALSE, disconnected |-> FALSE,
                timer |-> "none", scratch |-> FALSE, child |-> FALSE]
      /\ place = [r \in Requests |-> "none"]
      /\ store = [fe |-> "closed", be |-> "initialising", online |-> TRUE, ringRef |-> 0,
                  mapped |-> 0, restarts |-> 0]
      /\ seen = "unknown" /\ history = {}
  BY Zenon DEF LifeInit
<1>2. MaxGen \in Nat \ {0}
  BY LifeAssumption
<1> DEFINE q == <<"deviceAdd">>
<1>3. /\ q \in Seq(Steps) /\ q # <<>> /\ Len(q) = 1 /\ q[1] = "deviceAdd" /\ Head(q) = "deviceAdd"
      /\ 1..Len(q) = {1} /\ 1..(Len(q) - 1) = {} /\ 1..(1 - 1) = {}
  BY DEF Steps
<1>4. Orderly(q)
  <2>1. Placed(q, 1)
    BY <1>3 DEF Placed
  <2> HIDE DEF q
  <2>. QED BY <1>3, <2>1 DEF Orderly, Piece
<1>5. todo["pnp"] = q /\ todo["timer"] = <<>> /\ todo["waiter"] = <<>>
      /\ todo \in [Threads -> Seq(Steps)]
  BY <1>1, <1>3 DEF Threads
<1> HIDE DEF q
<1>6. Doing = "deviceAdd"
  BY <1>3, <1>5, Zenon DEF Doing
<1>7. ~Ahead("sweep") /\ ~Ahead("deallocate")
  BY <1>3, <1>5 DEF Ahead
<1>8. LifeTypes
  <2>1. saw \in [Threads -> Nat] /\ place \in [Requests -> {"none", "ring", "done", "lost"}]
    BY <1>1
  <2>2. ledger \in Ledgers /\ fdo \in Contexts
    BY <1>1 DEF Ledgers, Contexts
  <2>3. /\ store \in [fe : BackendStates, be : BackendStates, online : BOOLEAN, ringRef : 0..gen,
                      mapped : 0..gen, restarts : Nat]
        /\ seen \in BackendStates /\ gen \in 0..MaxGen
    BY <1>1, <1>2 DEF BackendStates
  <2>. QED BY <1>1, <1>5, <2>1, <2>2, <2>3 DEF LifeTypes, Data
<1>9. Control
  BY <1>1, <1>4, <1>5 DEF Control, Rests
<1>10. Watchdog
  BY <1>1, <1>5, <1>6 DEF Watchdog, Quiet, Idle, SettingUp, AfterTimer
<1>11. SawOpen
  BY <1>3, <1>5 DEF SawOpen, At, Threads
<1>12. Accounts
  BY <1>1, <1>2, <1>6 DEF Accounts, Books, One
<1>13. OnTheRing /\ LostOnlyByPowerDown
  BY <1>1, <1>7 DEF OnTheRing, LostOnlyByPowerDown
<1>14. Handshake
  <2>1. ~Parting
    BY <1>6 DEF Parting
  <2>. QED BY <1>1, <1>6, <1>7, <2>1 DEF Handshake
<1>15. MappedRingKept /\ PortClosedOnce
  BY <1>1 DEF MappedRingKept, PortClosedOnce
<1>. QED BY <1>8, <1>9, <1>10, <1>11, <1>12, <1>13, <1>14, <1>15 DEF LifeInv

\* LifeInv speaks of the variables of lifeVars only.
LEMMA InvariantStutters == LifeInv /\ UNCHANGED lifeVars => LifeInv'
<1> SUFFICES ASSUME LifeInv, UNCHANGED lifeVars PROVE LifeInv'
  OBVIOUS
<1>1. UNCHANGED <<pnp, todo, saw, xen, gen, ledger, fdo, place, store, seen, history>>
  BY DEF lifeVars, xenVars
<1>2. /\ Doing' = Doing /\ (Parting' <=> Parting) /\ (UnplugFirst' <=> UnplugFirst)
      /\ (Ahead("sweep")' <=> Ahead("sweep")) /\ (Ahead("deallocate")' <=> Ahead("deallocate"))
      /\ (Removing' <=> Removing)
  BY <1>1, Unmoved, Zenon
<1>3. LifeTypes' /\ Control'
  BY <1>1, <1>2, Zenon DEF LifeInv, LifeTypes, Data, Control
<1>4. Watchdog'
  BY <1>1, <1>2, Zenon DEF LifeInv, Watchdog, Quiet, Idle, Crashed
<1>5. SawOpen' /\ Accounts'
  BY <1>1, <1>2, Zenon DEF LifeInv, SawOpen, At, Accounts, Books
<1>6. OnTheRing' /\ LostOnlyByPowerDown'
  BY <1>1, <1>2, Zenon DEF LifeInv, OnTheRing, Swept, Crashed, LostOnlyByPowerDown
<1>7. Handshake'
  BY <1>1, <1>2, Zenon DEF LifeInv, Handshake, Bound, Crashed
<1>8. MappedRingKept' /\ PortClosedOnce'
  BY <1>1, Zenon DEF LifeInv, MappedRingKept, PortClosedOnce
<1>. QED BY <1>3, <1>4, <1>5, <1>6, <1>7, <1>8, Zenon DEF LifeInv

\* LifeInv is inductive.
LEMMA InvariantKept == LifeInv /\ [LifeNext]_lifeVars => LifeInv'
<1> SUFFICES ASSUME LifeInv, LifeNext PROVE LifeInv'
  BY InvariantStutters
<1>1. LifeTypes'
  BY TypesKept, Zenon
<1>2. Control'
  BY ControlKept, Zenon DEF LifeInv
<1>3. SawOpen' /\ PortClosedOnce' /\ MappedRingKept'
  BY SawOpenKept, PortClosedOnceKept, MappedRingKeptKept, Zenon
<1>4. CASE ByPnp
  <2>1. Watchdog' /\ Accounts' /\ OnTheRing' /\ LostOnlyByPowerDown' /\ Handshake'
    BY <1>4, WatchdogByPnp, AccountsByPnp, OnTheRingByPnp, HandshakeByPnp, Zenon
  <2>. QED BY <1>1, <1>2, <1>3, <2>1, Zenon DEF LifeInv
<1>5. CASE Aside
  <2>1. Watchdog' /\ Accounts' /\ OnTheRing' /\ LostOnlyByPowerDown' /\ Handshake'
    BY <1>5, WatchdogAside, AccountsAside, OnTheRingAside, HandshakeAside, Zenon
  <2>. QED BY <1>1, <1>2, <1>3, <2>1, Zenon DEF LifeInv
<1>. QED BY <1>4, <1>5, Actors

\* The inductive invariant of the life cycle: which steps the rest of a callback can hold
\* and in which order, when the watchdog is quiet, whose open port a thread has seen,
\* what the interface holds, which requests are on the ring and how far the handshake
\* with the backend is.
THEOREM LifeInvariant == LifeSpec => []LifeInv
<1>1. LifeInit => LifeInv
  BY InvariantHoldsFirst
<1>2. LifeInv /\ [LifeNext]_lifeVars => LifeInv'
  BY InvariantKept
<1>. QED BY <1>1, <1>2, PTL DEF LifeSpec

\* Every variable keeps its range, and nothing is released that was not had, except as
\* history says.
THEOREM LifeTypesAlways == LifeSpec => []LifeTypeOK
<1>1. LifeInv => LifeTypeOK
  <2> SUFFICES ASSUME LifeInv PROVE LifeTypeOK
    OBVIOUS
  <2>1. LifeTypes /\ Data /\ Books
    BY Zenon DEF LifeInv, LifeTypes, Accounts
  <2>2. /\ ledger.grant >= 0 /\ ledger.handler >= 0
        /\ ledger.page < 0 => "freedEarly" \in history
        /\ ledger.port < 0 => "closedTwice" \in history
    <3>1. ledger \in Ledgers
      BY <2>1, Zenon DEF Data
    <3>2. ledger.grant \in Int
      BY <3>1 DEF Ledgers
    <3>. QED BY <2>1, <3>2 DEF Books, One
  <2>3. /\ fdo.timer \in {"none", "off", "armed", "stopping"}
        /\ store.be \in BackendStates /\ store.fe \in BackendStates
    BY <2>1 DEF Data, Contexts
  <2>. QED BY <2>1, <2>2, <2>3, Zenon DEF LifeTypeOK, LifeTypes, Data, Interfaces
<1>. QED BY <1>1, LifeInvariant, PTL

\* A removed device has given everything back, except a grant of a ring that was
\* freed while it was mapped; its page is freed twice only after a failed way up,
\* and its port closed twice only by two threads.
THEOREM ResourcesReturnedAlways == LifeSpec => []ResourcesReturned
<1>1. ASSUME LifeInv, pnp = "removed"
      PROVE  /\ ledger.handler = 0 /\ ~fdo.scratch
             /\ ledger.page <= 0 /\ (ledger.page < 0 => "freedEarly" \in history)
             /\ ledger.port <= 0 /\ (ledger.port < 0 => "closedTwice" \in history)
             /\ ledger.grant = 0 \/ "freedMapped" \in history
  <2>1. Books /\ xen = NULL /\ ~fdo.scratch /\ Data
    BY <1>1, Zenon DEF LifeInv, LifeTypes, Accounts
  <2>2. ledger.page \in Int /\ ledger.port \in Int
    BY <2>1 DEF Data, Ledgers
  <2>3. /\ ledger.page <= 0 /\ (ledger.page = 0 \/ "freedEarly" \in history)
        /\ ledger.port <= 0 /\ (ledger.port = 0 \/ "closedTwice" \in history)
        /\ ledger.grant = 0 \/ "freedMapped" \in history
        /\ ledger.handler = 0
    BY <2>1 DEF Books, One
  <2>. QED BY <2>1, <2>2, <2>3
<1>2. LifeInv => ResourcesReturned
  BY <1>1, Zenon DEF ResourcesReturned
<1>. QED BY <1>2, LifeInvariant, PTL

\* A ring that the backend has mapped is freed only after a refused connection or the
\* deletion of a connected device.
THEOREM MappedRingKeptAlways == LifeSpec => []MappedRingKept
<1>1. LifeInv => MappedRingKept
  BY DEF LifeInv
<1>. QED BY <1>1, LifeInvariant, PTL

\* As long as no thread gives up a scratch request, the port is closed once per
\* interface: WdfTimerStop is what keeps the PnP thread and the watchdog apart.
THEOREM PortClosedOnceAlways == LifeSpec => []PortClosedOnce
<1>1. LifeInv => PortClosedOnce
  BY DEF LifeInv
<1>. QED BY <1>1, LifeInvariant, PTL

\* No request on the ring is forgotten with its shadow except by a power down that left
\* it there.
THEOREM LostOnlyByPowerDownAlways == LifeSpec => []LostOnlyByPowerDown
<1>1. LifeInv => LostOnlyByPowerDown
  BY DEF LifeInv
<1>. QED BY <1>1, LifeInvariant, PTL

\* XenConfigure ends with the backend on the ring of this interface, or gone again, and
\* never on the ring of an earlier one.
THEOREM ConnectedToThisRingAlways == LifeSpec => ConnectedToThisRing
<1>1. LifeInv /\ [LifeNext]_lifeVars
        => [~fdo.configured /\ fdo'.configured => store.mapped \in {gen, 0}]_lifeVars
  <2> SUFFICES ASSUME LifeInv, LifeNext, ~fdo.configured, fdo'.configured
               PROVE  store.mapped \in {gen, 0}
    OBVIOUS
  <2>1. LifeTypes /\ Control /\ Data /\ Handshake
    BY Zenon DEF LifeInv, LifeTypes
  <2>2. CASE ByPnp
    <3>1. Configured
      BY <2>1, <2>2, OnlyConfigured
    <3>2. Doing = "configured"
      BY <2>1, <3>1, ConfiguredDoes, Zenon
    <3>. QED BY <2>1, <3>2, Zenon DEF Handshake
  <2>3. CASE Aside
    BY <2>1, <2>3, AsideContext
  <2>. QED BY <2>2, <2>3, Actors
<1>. QED BY <1>1, LifeInvariant, PTL DEF LifeSpec, ConnectedToThisRing

================================================================================
