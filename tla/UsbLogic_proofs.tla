---------------------------- MODULE UsbLogic_proofs ----------------------------
(***************************************************************************)
(* What the driver computes and keeps of a device, for every device and     *)
(* every memory: ParseConfig and the look-ups (UsbDescriptors), the          *)
(* configuration that is set up and selected (DeviceConfig), and what a      *)
(* client reads of an answer (UsbAnswers).                                   *)
(***************************************************************************)
EXTENDS DeviceConfig, UsbAnswers, FiniteSetTheorems, WellFoundedInduction, TLAPS

--------------------------------------------------------------------------------
(***************************************************************************)
(* Natural numbers: the least element, and induction stated for a set.      *)
(***************************************************************************)
Less == {pair \in Nat \X Nat : pair[1] < pair[2]}

\* A set of natural numbers that is not empty has a least element.
LEMMA LeastExists ==
  ASSUME NEW T, T \subseteq Nat, T # {}
  PROVE  \E x \in T : \A y \in T : x <= y
<1>1. IsWellFoundedOn(Less, Nat)
  BY NatLessThanWellFounded DEF OpToRel, Less
<1>2. PICK x \in T : \A y \in T : ~ (<<y, x>> \in Less)
  BY <1>1, WFMin, Zenon
<1>3. \A y \in T : ~ (y < x)
  BY <1>2 DEF Less
<1>. QED BY <1>3

\* A set with 0, and with n + 1 whenever it has n, has them all.
LEMMA NatSetInduction ==
  ASSUME NEW T, 0 \in T, \A n \in Nat : n \in T => n + 1 \in T
  PROVE  \A n \in Nat : n \in T
<1> DEFINE U == {n \in Nat : n \notin T}
<1>1. SUFFICES ASSUME U # {} PROVE FALSE
  OBVIOUS
<1>2. PICK x \in U : \A y \in U : x <= y
  <2>1. U \subseteq Nat
    OBVIOUS
  <2> HIDE DEF U
  <2>. QED BY <1>1, <2>1, LeastExists
<1>3. x # 0 /\ x - 1 \in Nat /\ x - 1 \notin U
  BY <1>2
<1>. QED BY <1>2, <1>3

\* First finds the least element.
LEMMA FirstIsLeast ==
  ASSUME NEW S, S \subseteq Nat \ {0}
  PROVE  /\ S = {} => First(S) = 0
         /\ S # {} => First(S) \in S /\ \A j \in S : First(S) <= j
<1>1. CASE S = {}
  BY <1>1 DEF First
<1>2. CASE S # {}
  <2>1. \E i \in S : \A j \in S : i <= j
    <3>1. S \subseteq Nat
      OBVIOUS
    <3>. QED BY <3>1, <1>2, LeastExists
  <2>2. First(S) = CHOOSE i \in S : \A j \in S : i <= j
    BY <1>2 DEF First
  <2>. QED BY <1>2, <2>1, <2>2, Zenon
<1>. QED BY <1>1, <1>2

\* A set of numbers from 1 to n without gaps is an interval.
LEMMA NoGaps ==
  ASSUME NEW n \in Nat, NEW S, S \subseteq 1..n, S # {},
         \A x, z \in S : \A y \in 1..n : x <= y /\ y <= z => y \in S
  PROVE  \E lo, hi \in 1..n :
           lo <= hi /\ lo = First(S) /\ S = lo..hi
<1> DEFINE lo == First(S)
<1>1. lo \in S /\ \A j \in S : lo <= j
  <2>1. S \subseteq Nat \ {0}
    OBVIOUS
  <2>. QED BY <2>1, FirstIsLeast, Zenon
<1> DEFINE T == {k \in Nat : n - k \in S}
<1>2. PICK k \in T : \A j \in T : k <= j
  <2>1. lo \in 1..n
    BY <1>1
  <2> HIDE DEF lo
  <2>2. n - lo \in Nat /\ n - (n - lo) = lo /\ lo \in S
    BY <2>1, <1>1 DEF lo
  <2>3. T \subseteq Nat /\ n - lo \in T
    BY <2>2
  <2> HIDE DEF T
  <2>. QED BY <2>3, LeastExists
<1>3. n - k \in S /\ k \in Nat
  BY <1>2
<1>4. \A j \in S : j <= n - k
  <2> SUFFICES ASSUME NEW j \in S PROVE j <= n - k
    OBVIOUS
  <2>1. n - (n - j) = j /\ n - j \in Nat
    OBVIOUS
  <2>2. n - j \in T
    BY <2>1
  <2>3. k <= n - j
    BY <1>2, <2>2
  <2>. QED BY <1>3, <2>3
<1> HIDE DEF lo
<1>5. lo \in S /\ lo \in 1..n /\ n - k \in 1..n /\ \A j \in S : lo <= j /\ j <= n - k
  BY <1>1, <1>3, <1>4 DEF lo
<1>6. lo <= n - k
  BY <1>3, <1>5
<1>7. \A y \in 1..n : lo <= y /\ y <= n - k => y \in S
  BY <1>3, <1>5
<1>8. S = lo..(n - k)
  <2>1. \A y \in S : y \in lo..(n - k)
    BY <1>5
  <2>2. \A y \in lo..(n - k) : y \in S
    BY <1>5, <1>7
  <2>. QED BY <2>1, <2>2
<1>. QED BY <1>5, <1>6, <1>8 DEF lo

\* The members of a sequence are listed in increasing order.
Increasing(s) == \A a, b \in 1..Len(s) : a < b => s[a] < s[b]

\* Such a sequence has as many members as its length.
LEMMA IncreasingCounted ==
  ASSUME NEW s \in Seq(Nat), Increasing(s), NEW T, T = {s[k] : k \in 1..Len(s)}
  PROVE  IsFiniteSet(T) /\ Cardinality(T) = Len(s)
<1>1. Len(s) \in Nat /\ s \in [1..Len(s) -> Nat]
  OBVIOUS
<1>2. IsFiniteSet(1..Len(s)) /\ Cardinality(1..Len(s)) = Len(s)
  <2>1. /\ 1 \in Int /\ Len(s) \in Int
        /\ Len(s) = IF 1 > Len(s) THEN 0 ELSE Len(s) - 1 + 1
    BY <1>1
  <2>. QED BY <2>1, FS_Interval, Zenon
<1>3. s \in [1..Len(s) -> T]
  BY <1>1
<1>4. \A a, b \in 1..Len(s) : s[a] = s[b] => a = b
  <2> SUFFICES ASSUME NEW a \in 1..Len(s), NEW b \in 1..Len(s), a # b PROVE s[a] # s[b]
    OBVIOUS
  <2>1. s[a] \in Nat /\ s[b] \in Nat /\ (a < b \/ b < a)
    BY <1>1
  <2>2. (a < b => s[a] < s[b]) /\ (b < a => s[b] < s[a])
    BY DEF Increasing
  <2>. QED BY <2>1, <2>2
<1>5. s \in Bijection(1..Len(s), T)
  BY <1>3, <1>4 DEF Bijection, Injection, Surjection, IsInjective
<1>. QED BY <1>2, <1>5, FS_Bijection DEF ExistsBijection

--------------------------------------------------------------------------------
(***************************************************************************)
(* The two recursive functions are what their equations say.                *)
(***************************************************************************)
\* Starts: a memory starts at 0, and each descriptor ends where the next starts.
LEMMA StartsEquations ==
  ASSUME NEW memory \in Seq(Descriptors)
  PROVE  /\ Starts(memory) \in [1..Len(memory) + 1 -> Nat]
         /\ Starts(memory)[1] = 0
         /\ \A k \in 1..Len(memory) : Starts(memory)[k + 1] = Starts(memory)[k] + memory[k].len
<1> DEFINE n == Len(memory)
<1> DEFINE Solves(f, m) == /\ f \in [1..m + 1 -> Nat] /\ f[1] = 0
                         /\ \A k \in 1..m : f[k + 1] = f[k] + memory[k].len
<1> DEFINE T == {m \in Nat : m <= n => \E f : Solves(f, m)}
<1>1. n \in Nat /\ \A k \in 1..n : memory[k].len \in Nat
  <2>1. n \in Nat /\ \A k \in 1..n : memory[k] \in Descriptors
    OBVIOUS
  <2>. QED BY <2>1 DEF Descriptors
<1> HIDE DEF n
<1>2. 0 \in T
  <2>1. Solves([k \in 1..1 |-> 0], 0)
    OBVIOUS
  <2>. QED BY <2>1
<1>3. ASSUME NEW m \in Nat, m \in T PROVE m + 1 \in T
  <2> SUFFICES ASSUME m + 1 <= n PROVE \E f : Solves(f, m + 1)
    OBVIOUS
  <2>1. PICK f : Solves(f, m)
    BY <1>1, <1>3
  <2> DEFINE g == [k \in 1..m + 2 |-> IF k <= m + 1 THEN f[k] ELSE f[m + 1] + memory[m + 1].len]
  <2>2. memory[m + 1].len \in Nat /\ \A k \in 1..m + 1 : f[k] \in Nat
    BY <1>1, <2>1
  <2>3. g \in [1..m + 2 -> Nat] /\ m + 1 + 1 = m + 2
    BY <2>2
  <2>4. g[1] = 0
    BY <2>1
  <2>5. ASSUME NEW k \in 1..m + 1 PROVE g[k + 1] = g[k] + memory[k].len
    <3>1. CASE k = m + 1
      BY <3>1
    <3>2. CASE k # m + 1
      <4>1. k \in 1..m /\ k + 1 <= m + 1
        BY <3>2
      <4>. QED BY <4>1, <2>1
    <3>. QED BY <3>1, <3>2
  <2> HIDE DEF g
  <2>6. Solves(g, m + 1)
    BY <2>3, <2>4, <2>5
  <2>. QED BY <2>6
<1>4. n \in T
  <2> HIDE DEF T
  <2>. QED BY <1>1, <1>2, <1>3, NatSetInduction, Zenon
<1>5. PICK f : Solves(f, n)
  BY <1>1, <1>4
<1> DEFINE F(at) == [k \in 1..n + 1 |-> IF k = 1 THEN 0 ELSE at[k - 1] + memory[k - 1].len]
<1> DEFINE chosen == CHOOSE at : at = F(at)
<1>6. \A g : g = F(g) => Solves(g, n)
  <2> SUFFICES ASSUME NEW g, g = F(g) PROVE Solves(g, n)
    OBVIOUS
  <2>1. g = [k \in 1..n + 1 |-> g[k]] /\ g[1] = 0
    BY <1>1
  <2>2. ASSUME NEW k \in 1..n PROVE g[k + 1] = g[k] + memory[k].len
    <3>1. k + 1 \in 1..n + 1 /\ k + 1 # 1 /\ k + 1 - 1 = k
      BY <1>1
    <3>2. F(g)[k + 1] = g[k] + memory[k].len
      BY <3>1
    <3>. QED BY <3>2
  <2>3. ASSUME NEW k \in 1..n + 1 PROVE g[k] = f[k]
    <3> DEFINE E == {m \in Nat : m + 1 <= n + 1 => g[m + 1] = f[m + 1]}
    <3>1. 0 \in E
      BY <2>1, <1>5
    <3>2. ASSUME NEW m \in Nat, m \in E PROVE m + 1 \in E
      <4> SUFFICES ASSUME m + 1 + 1 <= n + 1 PROVE g[m + 1 + 1] = f[m + 1 + 1]
        OBVIOUS
      <4>1. m + 1 \in 1..n /\ g[m + 1] = f[m + 1]
        BY <3>2, <1>1
      <4>2. g[m + 1 + 1] = g[m + 1] + memory[m + 1].len
        BY <2>2, <4>1
      <4>3. f[m + 1 + 1] = f[m + 1] + memory[m + 1].len
        BY <1>5, <4>1
      <4>. QED BY <4>1, <4>2, <4>3
    <3>3. k - 1 \in Nat /\ k - 1 + 1 = k /\ k <= n + 1
      BY <1>1
    <3>4. k - 1 \in E
      <4> HIDE DEF E
      <4>. QED BY <3>1, <3>2, <3>3, NatSetInduction, Zenon
    <3>. QED BY <3>3, <3>4
  <2>. QED BY <2>1, <2>2, <2>3, <1>5
<1>7. f = F(f)
  <2>1. f = [k \in 1..n + 1 |-> f[k]]
    BY <1>5
  <2>2. ASSUME NEW k \in 1..n + 1
        PROVE  f[k] = IF k = 1 THEN 0 ELSE f[k - 1] + memory[k - 1].len
    <3>1. CASE k = 1
      BY <3>1, <1>5
    <3>2. CASE k # 1
      <4>1. k - 1 \in 1..n /\ k - 1 + 1 = k
        BY <3>2, <1>1
      <4>2. f[k - 1 + 1] = f[k - 1] + memory[k - 1].len
        BY <4>1, <1>5
      <4>. QED BY <4>1, <4>2, <3>2
    <3>. QED BY <3>1, <3>2
  <2>. QED BY <2>1, <2>2
<1>8. chosen = F(chosen)
  <2> HIDE DEF F
  <2>. QED BY <1>7, Zenon
<1>9. Starts(memory) = chosen
  BY Zenon DEF Starts, n
<1> HIDE DEF chosen, F
<1>. QED BY <1>6, <1>8, <1>9 DEF n

\* Turns: the loop starts with nothing, and each turn looks at one descriptor.
LEMMA TurnsEquations ==
  ASSUME NEW memory, Len(memory) \in Nat, NEW total
  PROVE  /\ Turns(memory, total)[0] = ParseStart
         /\ \A k \in 1..Len(memory) :
              Turns(memory, total)[k]
                = ParseDescriptor(Turns(memory, total)[k - 1], memory[k], total)
<1> DEFINE n == Len(memory)
<1> DEFINE Next(p, k) == ParseDescriptor(p, memory[k], total)
<1> DEFINE Solves(f, m) == /\ f = [k \in 0..m |-> f[k]] /\ f[0] = ParseStart
                         /\ \A k \in 1..m : f[k] = Next(f[k - 1], k)
<1> DEFINE T == {m \in Nat : m <= n => \E f : Solves(f, m)}
<1>1. n \in Nat
  OBVIOUS
<1> HIDE DEF n, Next
<1>2. 0 \in T
  <2>1. Solves([k \in 0..0 |-> ParseStart], 0)
    OBVIOUS
  <2>. QED BY <2>1
<1>3. ASSUME NEW m \in Nat, m \in T PROVE m + 1 \in T
  <2> SUFFICES ASSUME m + 1 <= n PROVE \E f : Solves(f, m + 1)
    OBVIOUS
  <2>1. PICK f : Solves(f, m)
    BY <1>1, <1>3
  <2> DEFINE g == [k \in 0..m + 1 |-> IF k <= m THEN f[k] ELSE Next(f[m], m + 1)]
  <2>2. g = [k \in 0..m + 1 |-> g[k]] /\ g[0] = ParseStart
    BY <2>1
  <2>3. ASSUME NEW k \in 1..m + 1 PROVE g[k] = Next(g[k - 1], k)
    <3>1. CASE k = m + 1
      BY <3>1
    <3>2. CASE k # m + 1
      <4>1. k \in 1..m /\ k - 1 \in 0..m
        BY <3>2
      <4>2. g[k] = f[k] /\ g[k - 1] = f[k - 1]
        BY <4>1
      <4>. QED BY <4>1, <4>2, <2>1
    <3>. QED BY <3>1, <3>2
  <2> HIDE DEF g
  <2>4. Solves(g, m + 1)
    BY <2>2, <2>3
  <2>. QED BY <2>4
<1>4. n \in T
  <2> HIDE DEF T
  <2>. QED BY <1>1, <1>2, <1>3, NatSetInduction, Zenon
<1>5. PICK f : Solves(f, n)
  BY <1>1, <1>4
<1> DEFINE F(turn) == [k \in 0..n |-> IF k = 0 THEN ParseStart ELSE Next(turn[k - 1], k)]
<1> DEFINE chosen == CHOOSE turn : turn = F(turn)
<1>6. f = F(f)
  <2>1. ASSUME NEW k \in 0..n
        PROVE  f[k] = IF k = 0 THEN ParseStart ELSE Next(f[k - 1], k)
    <3>1. CASE k = 0
      BY <3>1, <1>5
    <3>2. CASE k # 0
      <4>1. k \in 1..n
        BY <3>2, <1>1
      <4>. QED BY <4>1, <1>5, <3>2
    <3>. QED BY <3>1, <3>2
  <2>. QED BY <2>1, <1>5
<1>7. chosen = F(chosen)
  <2> HIDE DEF F
  <2>. QED BY <1>6, Zenon
<1>8. Turns(memory, total) = chosen
  BY Zenon DEF Turns, n, Next
<1>9. F(chosen)[0] = ParseStart /\ \A k \in 1..n : F(chosen)[k] = Next(chosen[k - 1], k)
  BY <1>1
<1> HIDE DEF chosen, F
<1>. QED BY <1>7, <1>8, <1>9, Zenon DEF n, Next
(***************************************************************************)
(* ParseConfig: what its loop has found when it has looked at k descriptors *)
(***************************************************************************)
ParseStates ==
  [at : Nat, next : Nat \ {0}, status : {"parsing", "parsed", "failed", "loops"},
   configs : Nat, ifs : Seq(Nat), pipes : Seq([endpoint : Nat, interface : Nat])]

\* The descriptors before next lie inside; where the loop has ended, that one does not.
Consumed(memory, total, p, k) ==
  /\ p \in ParseStates
  /\ p.next - 1 <= k
  /\ p.status = "parsing" => p.next = k + 1
  /\ p.at = Starts(memory)[p.next]
  /\ \A i \in 1..p.next - 1 : Inside(memory, total, i)
  /\ p.status = "parsed" => p.next <= k /\ ~Inside(memory, total, p.next)

\* What there is among the first n descriptors of a memory.
ConfigsFound(memory, n, configs) ==
  /\ configs = 0 => \A i \in 1..n : memory[i].type # "config"
  /\ \A i, j \in 1..n : memory[i].type = "config" /\ memory[j].type = "config" => i = j

InterfacesFound(memory, n, ifs) ==
  /\ Increasing(ifs)
  /\ \A a \in 1..Len(ifs) : ifs[a] \in 1..n /\ memory[ifs[a]].type = "interface"
  /\ \A i \in 1..n : memory[i].type = "interface" => \E a \in 1..Len(ifs) : ifs[a] = i

EndpointsFound(memory, n, pipes) ==
  /\ \A a, b \in 1..Len(pipes) : a < b => pipes[a].endpoint < pipes[b].endpoint
  /\ \A a \in 1..Len(pipes) :
       pipes[a].endpoint \in 1..n /\ memory[pipes[a].endpoint].type = "endpoint"
  /\ \A i \in 1..n :
       memory[i].type = "endpoint" => \E a \in 1..Len(pipes) : pipes[a].endpoint = i

\* The interface of a pipe is the last one before its endpoint.
Owned(ifs, pipes) ==
  \A a \in 1..Len(pipes) :
    /\ \E b \in 1..Len(ifs) : ifs[b] = pipes[a].interface
    /\ pipes[a].interface < pipes[a].endpoint
    /\ \A b \in 1..Len(ifs) : ifs[b] < pipes[a].endpoint => ifs[b] <= pipes[a].interface

Found(memory, p) ==
  /\ ConfigsFound(memory, p.next - 1, p.configs)
  /\ InterfacesFound(memory, p.next - 1, p.ifs)
  /\ EndpointsFound(memory, p.next - 1, p.pipes)
  /\ Owned(p.ifs, p.pipes)

ParseInv(memory, total, p, k) == Consumed(memory, total, p, k) /\ Found(memory, p)

\* A turn that only notes how the loop has ended finds nothing.
LEMMA EndedFindsNothing ==
  ASSUME NEW memory, NEW p \in ParseStates, NEW s, Found(memory, p)
  PROVE  Found(memory, [p EXCEPT !.status = s])
<1> DEFINE q == [p EXCEPT !.status = s]
<1>1. q.next = p.next /\ q.configs = p.configs /\ q.ifs = p.ifs /\ q.pipes = p.pipes
  BY DEF ParseStates
<1> HIDE DEF q
<1>. QED BY <1>1 DEF Found

Pipes == [endpoint : Nat, interface : Nat]

\* Descriptor k is a configuration, the first one, or none.
LEMMA ConfigsGrow ==
  ASSUME NEW memory, NEW k \in Nat \ {0}, NEW configs \in Nat,
         ConfigsFound(memory, k - 1, configs)
  PROVE  /\ memory[k].type # "config" => ConfigsFound(memory, k, configs)
         /\ memory[k].type = "config" /\ configs = 0 => ConfigsFound(memory, k, configs + 1)
<1>1. \A i \in 1..k : i = k \/ i \in 1..k - 1
  OBVIOUS
<1>2. configs + 1 # 0
  OBVIOUS
<1>. QED BY <1>1, <1>2 DEF ConfigsFound

\* Descriptor k is an interface and is listed behind the others, or none.
LEMMA InterfacesGrow ==
  ASSUME NEW memory, NEW k \in Nat \ {0}, NEW ifs \in Seq(Nat),
         InterfacesFound(memory, k - 1, ifs)
  PROVE  /\ memory[k].type # "interface" => InterfacesFound(memory, k, ifs)
         /\ memory[k].type = "interface" => InterfacesFound(memory, k, Append(ifs, k))
<1>1. \A i \in 1..k : i = k \/ i \in 1..k - 1
  OBVIOUS
<1>2. 1..k - 1 \subseteq 1..k /\ k \in 1..k
  OBVIOUS
<1>3. CASE memory[k].type # "interface"
  BY <1>1, <1>2, <1>3 DEF InterfacesFound
<1>4. CASE memory[k].type = "interface"
  <2> DEFINE n == Len(ifs)
  <2> DEFINE more == Append(ifs, k)
  <2>1. n \in Nat /\ Len(more) = n + 1 /\ more[n + 1] = k /\ \A a \in 1..n : more[a] = ifs[a]
    OBVIOUS
  <2>2. \A a \in 1..n + 1 : a = n + 1 \/ a \in 1..n
    BY <2>1
  <2>3. n + 1 \in 1..n + 1 /\ 1..n \subseteq 1..n + 1
    BY <2>1
  <2> HIDE DEF more
  <2>4. Increasing(more)
    <3> SUFFICES ASSUME NEW a \in 1..n + 1, NEW b \in 1..n + 1, a < b
                 PROVE  more[a] < more[b]
      BY <2>1 DEF Increasing
    <3>1. a \in 1..n /\ ifs[a] \in 1..k - 1
      BY <2>1, <2>2 DEF InterfacesFound
    <3>2. CASE b = n + 1
      BY <2>1, <3>1, <3>2
    <3>3. CASE b \in 1..n
      BY <2>1, <3>1, <3>3 DEF InterfacesFound, Increasing
    <3>. QED BY <2>2, <3>2, <3>3
  <2>5. ASSUME NEW a \in 1..n + 1
        PROVE  more[a] \in 1..k /\ memory[more[a]].type = "interface"
    <3>1. CASE a = n + 1
      BY <1>2, <1>4, <2>1, <3>1
    <3>2. CASE a \in 1..n
      BY <1>2, <2>1, <3>2 DEF InterfacesFound
    <3>. QED BY <2>2, <3>1, <3>2
  <2>6. ASSUME NEW i \in 1..k, memory[i].type = "interface"
        PROVE  \E a \in 1..n + 1 : more[a] = i
    <3>1. CASE i = k
      BY <2>1, <2>3, <3>1
    <3>2. CASE i \in 1..k - 1
      BY <2>1, <2>3, <2>6, <3>2 DEF InterfacesFound
    <3>. QED BY <1>1, <3>1, <3>2
  <2>7. InterfacesFound(memory, k, more)
    BY <2>1, <2>4, <2>5, <2>6 DEF InterfacesFound
  <2>. QED BY <1>4, <2>7 DEF more
<1>. QED BY <1>3, <1>4

\* Descriptor k is an endpoint and is listed behind the others, or none.
LEMMA EndpointsGrow ==
  ASSUME NEW memory, NEW k \in Nat \ {0}, NEW pipes \in Seq(Pipes), NEW pipe \in Pipes,
         pipe.endpoint = k, EndpointsFound(memory, k - 1, pipes)
  PROVE  /\ memory[k].type # "endpoint" => EndpointsFound(memory, k, pipes)
         /\ memory[k].type = "endpoint" => EndpointsFound(memory, k, Append(pipes, pipe))
<1>1. \A i \in 1..k : i = k \/ i \in 1..k - 1
  OBVIOUS
<1>2. 1..k - 1 \subseteq 1..k /\ k \in 1..k
  OBVIOUS
<1>3. CASE memory[k].type # "endpoint"
  BY <1>1, <1>2, <1>3 DEF EndpointsFound
<1>4. CASE memory[k].type = "endpoint"
  <2> DEFINE n == Len(pipes)
  <2> DEFINE more == Append(pipes, pipe)
  <2>1. /\ n \in Nat /\ Len(more) = n + 1 /\ more[n + 1] = pipe
        /\ \A a \in 1..n : more[a] = pipes[a]
    OBVIOUS
  <2>2. \A a \in 1..n + 1 : a = n + 1 \/ a \in 1..n
    BY <2>1
  <2>3. n + 1 \in 1..n + 1 /\ 1..n \subseteq 1..n + 1
    BY <2>1
  <2> HIDE DEF more
  <2>4. ASSUME NEW a \in 1..n + 1, NEW b \in 1..n + 1, a < b
        PROVE  more[a].endpoint < more[b].endpoint
    <3>1. a \in 1..n /\ pipes[a].endpoint \in 1..k - 1
      BY <2>1, <2>2, <2>4 DEF EndpointsFound
    <3>2. CASE b = n + 1
      BY <2>1, <3>1, <3>2
    <3>3. CASE b \in 1..n
      BY <2>1, <2>4, <3>1, <3>3 DEF EndpointsFound
    <3>. QED BY <2>2, <3>2, <3>3
  <2>5. ASSUME NEW a \in 1..n + 1
        PROVE  more[a].endpoint \in 1..k /\ memory[more[a].endpoint].type = "endpoint"
    <3>1. CASE a = n + 1
      BY <1>2, <1>4, <2>1, <3>1
    <3>2. CASE a \in 1..n
      BY <1>2, <2>1, <3>2 DEF EndpointsFound
    <3>. QED BY <2>2, <3>1, <3>2
  <2>6. ASSUME NEW i \in 1..k, memory[i].type = "endpoint"
        PROVE  \E a \in 1..n + 1 : more[a].endpoint = i
    <3>1. CASE i = k
      BY <2>1, <2>3, <3>1
    <3>2. CASE i \in 1..k - 1
      BY <2>1, <2>3, <2>6, <3>2 DEF EndpointsFound
    <3>. QED BY <1>1, <3>1, <3>2
  <2>7. EndpointsFound(memory, k, more)
    BY <2>1, <2>4, <2>5, <2>6 DEF EndpointsFound
  <2>. QED BY <1>4, <2>7 DEF more
<1>. QED BY <1>3, <1>4

\* A new interface owns no endpoint yet.
LEMMA InterfaceOwnsNone ==
  ASSUME NEW memory, NEW k \in Nat \ {0}, NEW ifs \in Seq(Nat), NEW pipes \in Seq(Pipes),
         EndpointsFound(memory, k - 1, pipes), Owned(ifs, pipes)
  PROVE  Owned(Append(ifs, k), pipes)
<1> DEFINE n == Len(ifs)
<1> DEFINE more == Append(ifs, k)
<1>1. n \in Nat /\ Len(more) = n + 1 /\ more[n + 1] = k /\ \A b \in 1..n : more[b] = ifs[b]
  OBVIOUS
<1>2. \A b \in 1..n + 1 : b = n + 1 \/ b \in 1..n
  BY <1>1
<1>3. 1..n \subseteq 1..n + 1
  BY <1>1
<1> HIDE DEF more
<1>4. ASSUME NEW a \in 1..Len(pipes)
      PROVE  /\ \E b \in 1..n + 1 : more[b] = pipes[a].interface
             /\ pipes[a].interface < pipes[a].endpoint
             /\ \A b \in 1..n + 1 :
                  more[b] < pipes[a].endpoint => more[b] <= pipes[a].interface
  <2>1. pipes[a].endpoint \in 1..k - 1
    BY DEF EndpointsFound
  <2>2. ~(k < pipes[a].endpoint)
    BY <2>1
  <2>. QED BY <1>1, <1>2, <1>3, <2>2 DEF Owned
<1>5. Owned(more, pipes)
  BY <1>1, <1>4 DEF Owned
<1>. QED BY <1>5 DEF more

\* A new endpoint is owned by the last interface.
LEMMA LastOwnsEndpoint ==
  ASSUME NEW memory, NEW k \in Nat \ {0}, NEW ifs \in Seq(Nat), ifs # <<>>,
         NEW pipes \in Seq(Pipes), NEW pipe \in Pipes,
         pipe.endpoint = k, pipe.interface = Last(ifs),
         InterfacesFound(memory, k - 1, ifs), Owned(ifs, pipes)
  PROVE  Owned(ifs, Append(pipes, pipe))
<1> DEFINE n == Len(pipes)
<1> DEFINE more == Append(pipes, pipe)
<1>1. /\ n \in Nat /\ Len(more) = n + 1 /\ more[n + 1] = pipe
      /\ \A a \in 1..n : more[a] = pipes[a]
  OBVIOUS
<1>2. \A a \in 1..n + 1 : a = n + 1 \/ a \in 1..n
  BY <1>1
<1> HIDE DEF more
<1>3. Len(ifs) \in 1..Len(ifs) /\ Last(ifs) = ifs[Len(ifs)]
  BY DEF Last
<1>4. \A b \in 1..Len(ifs) : ifs[b] \in 1..k - 1
  BY DEF InterfacesFound
<1>5. ASSUME NEW b \in 1..Len(ifs) PROVE ifs[b] <= Last(ifs)
  <2>1. CASE b = Len(ifs)
    BY <1>3, <1>4, <2>1
  <2>2. CASE b < Len(ifs)
    BY <1>3, <1>4, <2>2 DEF InterfacesFound, Increasing
  <2>. QED BY <1>3, <2>1, <2>2
<1>6. pipe.interface < pipe.endpoint
  BY <1>3, <1>4
<1>7. ASSUME NEW a \in 1..n + 1
      PROVE  /\ \E b \in 1..Len(ifs) : ifs[b] = more[a].interface
             /\ more[a].interface < more[a].endpoint
             /\ \A b \in 1..Len(ifs) :
                  ifs[b] < more[a].endpoint => ifs[b] <= more[a].interface
  <2>1. CASE a = n + 1
    BY <1>1, <1>3, <1>5, <1>6, <2>1
  <2>2. CASE a \in 1..n
    BY <1>1, <2>2 DEF Owned
  <2>. QED BY <1>2, <2>1, <2>2
<1>8. Owned(ifs, more)
  BY <1>1, <1>7 DEF Owned
<1>. QED BY <1>8 DEF more

\* A turn that stores a descriptor.
Stored(p, d) == [StoreDescriptor(p, d) EXCEPT !.at = @ + d.len, !.next = @ + 1]

\* What is stored of a descriptor, as one record.
LEMMA StoredAs ==
  ASSUME NEW p \in ParseStates, NEW d \in Descriptors, p.status = "parsing"
  PROVE  LET As(configs, ifs, pipes) ==
               [at |-> p.at + d.len, next |-> p.next + 1, status |-> "parsing",
                configs |-> configs, ifs |-> ifs, pipes |-> pipes]
         IN  /\ d.type = "config" => Stored(p, d) = As(p.configs + 1, p.ifs, p.pipes)
             /\ d.type = "interface" =>
                  Stored(p, d) = As(p.configs, Append(p.ifs, p.next), p.pipes)
             /\ d.type = "endpoint" =>
                  Stored(p, d)
                    = As(p.configs, p.ifs,
                         Append(p.pipes, [endpoint |-> p.next, interface |-> Last(p.ifs)]))
             /\ d.type = "other" => Stored(p, d) = As(p.configs, p.ifs, p.pipes)
<1>1. p = [at |-> p.at, next |-> p.next, status |-> "parsing", configs |-> p.configs,
           ifs |-> p.ifs, pipes |-> p.pipes]
  BY DEF ParseStates
<1> DEFINE With(at, next, configs, ifs, pipes) ==
      [at |-> at, next |-> next, status |-> "parsing", configs |-> configs,
       ifs |-> ifs, pipes |-> pipes]
<1>2. ASSUME NEW configs, NEW ifs, NEW pipes,
             StoreDescriptor(p, d) = With(p.at, p.next, configs, ifs, pipes)
      PROVE  Stored(p, d) = With(p.at + d.len, p.next + 1, configs, ifs, pipes)
  <2> DEFINE r == StoreDescriptor(p, d)
  <2> HIDE DEF r
  <2>1. r = With(p.at, p.next, configs, ifs, pipes)
    BY <1>2 DEF r
  <2>2. [r EXCEPT !.at = @ + d.len] = With(p.at + d.len, p.next, configs, ifs, pipes)
    BY <2>1
  <2>3. [r EXCEPT !.at = @ + d.len, !.next = @ + 1]
          = [With(p.at + d.len, p.next, configs, ifs, pipes) EXCEPT !.next = @ + 1]
    BY <2>2
  <2>4. ASSUME NEW s, s = With(p.at + d.len, p.next, configs, ifs, pipes)
        PROVE  [s EXCEPT !.next = @ + 1] = With(p.at + d.len, p.next + 1, configs, ifs, pipes)
    BY <2>4
  <2> HIDE DEF With
  <2>. QED BY <2>3, <2>4 DEF Stored, r
<1>3. CASE d.type = "config"
  <2>1. StoreDescriptor(p, d) = [p EXCEPT !.configs = @ + 1]
    BY <1>3, Zenon DEF StoreDescriptor
  <2>2. StoreDescriptor(p, d) = With(p.at, p.next, p.configs + 1, p.ifs, p.pipes)
    BY <1>1, <2>1
  <2>. QED BY <1>2, <1>3, <2>2
<1>4. CASE d.type = "interface"
  <2>1. StoreDescriptor(p, d) = [p EXCEPT !.ifs = Append(@, p.next)]
    BY <1>4, Zenon DEF StoreDescriptor
  <2>2. StoreDescriptor(p, d) = With(p.at, p.next, p.configs, Append(p.ifs, p.next), p.pipes)
    BY <1>1, <2>1
  <2>. QED BY <1>2, <1>4, <2>2
<1>5. CASE d.type = "endpoint"
  <2> DEFINE pipe == [endpoint |-> p.next, interface |-> Last(p.ifs)]
  <2>1. StoreDescriptor(p, d) = [p EXCEPT !.pipes = Append(@, pipe)]
    BY <1>5, Zenon DEF StoreDescriptor
  <2>2. StoreDescriptor(p, d) = With(p.at, p.next, p.configs, p.ifs, Append(p.pipes, pipe))
    BY <1>1, <2>1
  <2>. QED BY <1>2, <1>5, <2>2
<1>6. CASE d.type = "other"
  <2>1. StoreDescriptor(p, d) = p
    BY <1>6, Zenon DEF StoreDescriptor
  <2>. QED BY <1>1, <1>2, <1>6, <2>1
<1>. QED BY <1>3, <1>4, <1>5, <1>6 DEF Descriptors

\* One turn that stores a descriptor keeps what has been found.
LEMMA StoredFinds ==
  ASSUME NEW memory \in Seq(Descriptors), NEW total \in Nat, NEW k \in 1..Len(memory),
         NEW p, ParseInv(memory, total, p, k - 1), p.status = "parsing",
         ~Ended(p, memory[k], total), ~Malformed(p, memory[k])
  PROVE  ParseInv(memory, total, Stored(p, memory[k]), k)
<1> DEFINE d == memory[k]
<1> DEFINE q == Stored(p, d)
<1>1. k \in Nat \ {0} /\ k <= Len(memory) /\ Len(memory) \in Nat /\ d \in Descriptors
  OBVIOUS
<1>2. /\ p \in ParseStates /\ p.next = k /\ p.at = Starts(memory)[k] /\ Found(memory, p)
      /\ \A i \in 1..k - 1 : Inside(memory, total, i)
  BY <1>1 DEF ParseInv, Consumed
<1>3. /\ p.at \in Nat /\ p.configs \in Nat /\ p.ifs \in Seq(Nat) /\ d.len \in Nat
      /\ p.pipes \in Seq(Pipes)
      /\ d.type \in {"config", "interface", "endpoint", "other"}
  BY <1>1, <1>2 DEF ParseStates, Descriptors, Pipes
<1>4. Starts(memory)[k + 1] = p.at + d.len
  BY <1>2, StartsEquations
<1>5. Inside(memory, total, k)
  <2>1. ~(p.at + 2 >= total) /\ ~(p.at + d.len > total)
    BY DEF Ended, CommonLength
  <2>2. p.at + 2 < total /\ p.at + d.len <= total
    BY <1>3, <2>1
  <2>. QED BY <1>2, <1>4, <2>2 DEF Inside, CommonLength
<1>6. \A i \in 1..k : Inside(memory, total, i)
  <2> SUFFICES ASSUME NEW i \in 1..k PROVE Inside(memory, total, i)
    OBVIOUS
  <2>1. i = k \/ i \in 1..k - 1
    BY <1>1
  <2>. QED BY <2>1, <1>2, <1>5
<1>7. /\ d.type = "config" => p.configs = 0
      /\ d.type = "endpoint" => p.ifs # <<>>
  BY DEF Malformed
<1>8. /\ ConfigsFound(memory, k - 1, p.configs) /\ InterfacesFound(memory, k - 1, p.ifs)
      /\ EndpointsFound(memory, k - 1, p.pipes) /\ Owned(p.ifs, p.pipes)
  BY <1>2 DEF Found
<1>9. ASSUME NEW configs \in Nat, NEW ifs \in Seq(Nat), NEW pipes \in Seq(Pipes),
             q = [at |-> p.at + d.len, next |-> p.next + 1, status |-> "parsing",
                  configs |-> configs, ifs |-> ifs, pipes |-> pipes],
             ConfigsFound(memory, k, configs), InterfacesFound(memory, k, ifs),
             EndpointsFound(memory, k, pipes), Owned(ifs, pipes)
      PROVE  ParseInv(memory, total, q, k)
  <2> HIDE DEF q
  <2>1. /\ q.at = Starts(memory)[k + 1] /\ q.next = k + 1 /\ q.status = "parsing"
        /\ q.configs = configs /\ q.ifs = ifs /\ q.pipes = pipes
    BY <1>2, <1>4, <1>9
  <2>2. q \in ParseStates
    <3>1. p.at + d.len \in Nat /\ p.next + 1 \in Nat \ {0}
      BY <1>1, <1>2, <1>3
    <3>. QED BY <1>9, <3>1 DEF ParseStates, Pipes
  <2>3. q.next - 1 = k /\ k <= k
    BY <1>1, <2>1
  <2>4. Consumed(memory, total, q, k)
    BY <1>6, <2>1, <2>2, <2>3 DEF Consumed
  <2>5. Found(memory, q)
    BY <1>9, <2>1, <2>3 DEF Found
  <2>. QED BY <2>4, <2>5 DEF ParseInv
<1>10. [endpoint |-> k, interface |-> 0] \in Pipes
  BY <1>1 DEF Pipes
<1> HIDE DEF d
<1>11. CASE d.type = "config"
  <2>1. ConfigsFound(memory, k, p.configs + 1)
    BY <1>1, <1>3, <1>7, <1>8, <1>11, ConfigsGrow DEF d
  <2>2. InterfacesFound(memory, k, p.ifs)
    BY <1>1, <1>3, <1>8, <1>11, InterfacesGrow DEF d
  <2>3. EndpointsFound(memory, k, p.pipes)
    BY <1>1, <1>3, <1>8, <1>10, <1>11, EndpointsGrow DEF d
  <2>4. p.configs + 1 \in Nat
    BY <1>3
  <2>5. q = [at |-> p.at + d.len, next |-> p.next + 1, status |-> "parsing",
             configs |-> p.configs + 1, ifs |-> p.ifs, pipes |-> p.pipes]
    BY <1>1, <1>2, <1>11, StoredAs
  <2> HIDE DEF q
  <2>6. ParseInv(memory, total, q, k)
    BY <1>3, <1>8, <1>9, <2>1, <2>2, <2>3, <2>4, <2>5
  <2>. QED BY <2>6 DEF q, d
<1>12. CASE d.type = "interface"
  <2>1. ConfigsFound(memory, k, p.configs)
    BY <1>1, <1>3, <1>8, <1>12, ConfigsGrow DEF d
  <2>2. InterfacesFound(memory, k, Append(p.ifs, k))
    BY <1>1, <1>3, <1>8, <1>12, InterfacesGrow DEF d
  <2>3. EndpointsFound(memory, k, p.pipes)
    BY <1>1, <1>3, <1>8, <1>10, <1>12, EndpointsGrow DEF d
  <2>4. Owned(Append(p.ifs, k), p.pipes)
    BY <1>1, <1>3, <1>8, InterfaceOwnsNone
  <2>5. Append(p.ifs, k) \in Seq(Nat)
    BY <1>1, <1>3
  <2>6. q = [at |-> p.at + d.len, next |-> p.next + 1, status |-> "parsing",
             configs |-> p.configs, ifs |-> Append(p.ifs, k), pipes |-> p.pipes]
    BY <1>1, <1>2, <1>12, StoredAs
  <2> HIDE DEF q
  <2>7. ParseInv(memory, total, q, k)
    BY <1>3, <1>9, <2>1, <2>2, <2>3, <2>4, <2>5, <2>6
  <2>. QED BY <2>7 DEF q, d
<1>13. CASE d.type = "endpoint"
  <2> DEFINE pipe == [endpoint |-> k, interface |-> Last(p.ifs)]
  <2>1. pipe \in Pipes /\ pipe.endpoint = k /\ pipe.interface = Last(p.ifs)
    <3>1. Last(p.ifs) \in Nat
      <4>1. Len(p.ifs) \in 1..Len(p.ifs)
        BY <1>3, <1>7, <1>13
      <4>2. p.ifs[Len(p.ifs)] \in Nat
        BY <1>3, <4>1
      <4>. QED BY <4>2 DEF Last
    <3>. QED BY <1>1, <3>1 DEF Pipes
  <2>2. q = [at |-> p.at + d.len, next |-> p.next + 1, status |-> "parsing",
             configs |-> p.configs, ifs |-> p.ifs, pipes |-> Append(p.pipes, pipe)]
    BY <1>1, <1>2, <1>13, StoredAs
  <2> HIDE DEF q, pipe
  <2>3. ConfigsFound(memory, k, p.configs)
    BY <1>1, <1>3, <1>8, <1>13, ConfigsGrow DEF d
  <2>4. InterfacesFound(memory, k, p.ifs)
    BY <1>1, <1>3, <1>8, <1>13, InterfacesGrow DEF d
  <2>5. EndpointsFound(memory, k, Append(p.pipes, pipe))
    BY <1>1, <1>3, <1>8, <1>13, <2>1, EndpointsGrow DEF d
  <2>6. Owned(p.ifs, Append(p.pipes, pipe))
    BY <1>1, <1>3, <1>7, <1>8, <1>13, <2>1, LastOwnsEndpoint
  <2>7. Append(p.pipes, pipe) \in Seq(Pipes)
    BY <1>3, <2>1
  <2>8. ParseInv(memory, total, q, k)
    BY <1>3, <1>9, <2>2, <2>3, <2>4, <2>5, <2>6, <2>7
  <2>. QED BY <2>8 DEF q, d
<1>14. CASE d.type = "other"
  <2>1. ConfigsFound(memory, k, p.configs)
    BY <1>1, <1>3, <1>8, <1>14, ConfigsGrow DEF d
  <2>2. InterfacesFound(memory, k, p.ifs)
    BY <1>1, <1>3, <1>8, <1>14, InterfacesGrow DEF d
  <2>3. EndpointsFound(memory, k, p.pipes)
    BY <1>1, <1>3, <1>8, <1>10, <1>14, EndpointsGrow DEF d
  <2>4. q = [at |-> p.at + d.len, next |-> p.next + 1, status |-> "parsing",
             configs |-> p.configs, ifs |-> p.ifs, pipes |-> p.pipes]
    BY <1>1, <1>2, <1>14, StoredAs
  <2> HIDE DEF q
  <2>5. ParseInv(memory, total, q, k)
    BY <1>3, <1>8, <1>9, <2>1, <2>2, <2>3, <2>4
  <2>. QED BY <2>5 DEF q, d
<1>. QED BY <1>3, <1>11, <1>12, <1>13, <1>14 DEF d

\* One turn of the loop keeps what has been found.
LEMMA TurnKeeps ==
  ASSUME NEW memory \in Seq(Descriptors), NEW total \in Nat, NEW k \in 1..Len(memory),
         NEW p, ParseInv(memory, total, p, k - 1)
  PROVE  ParseInv(memory, total, ParseDescriptor(p, memory[k], total), k)
<1> DEFINE d == memory[k]
<1> DEFINE q == ParseDescriptor(p, d, total)
<1>1. k \in Nat \ {0} /\ d \in Descriptors /\ k - 1 <= k
  OBVIOUS
<1>2. p \in ParseStates /\ p.next \in Nat \ {0} /\ Found(memory, p)
      /\ Consumed(memory, total, p, k - 1)
  BY DEF ParseInv, Consumed, ParseStates
<1>3. CASE p.status # "parsing"
  <2>1. q = p
    BY <1>3, Zenon DEF ParseDescriptor
  <2>2. Consumed(memory, total, p, k)
    BY <1>1, <1>2, <1>3 DEF Consumed
  <2>. QED BY <1>2, <2>1, <2>2 DEF ParseInv
<1>4. ASSUME p.status = "parsing", NEW s \in {"parsed", "failed", "loops"},
             q = [p EXCEPT !.status = s], s = "parsed" => Ended(p, d, total)
      PROVE  ParseInv(memory, total, q, k)
  <2> HIDE DEF q, d
  <2>1. /\ q \in ParseStates /\ q.status = s /\ q.next = p.next /\ q.at = p.at
        /\ p.next = k /\ p.at = Starts(memory)[k]
    <3>1. p.next = k /\ p.at = Starts(memory)[k]
      BY <1>1, <1>2, <1>4 DEF Consumed
    <3>. QED BY <1>2, <1>4, <3>1 DEF ParseStates
  <2>2. Found(memory, q)
    BY <1>2, <1>4, EndedFindsNothing
  <2>3. s = "parsed" => ~Inside(memory, total, k)
    <3>1. /\ Starts(memory)[k + 1] = Starts(memory)[k] + d.len
          /\ Starts(memory)[k] \in Nat /\ d.len \in Nat /\ total \in Nat
      <4>1. k \in 1..Len(memory) + 1
        OBVIOUS
      <4>. QED BY <1>1, <4>1, StartsEquations DEF Descriptors, d
    <3>2. s = "parsed" => p.at + 2 >= total \/ p.at + d.len > total
      BY <1>4 DEF Ended, CommonLength
    <3>3. s = "parsed" => ~(Starts(memory)[k] + 2 < total /\ Starts(memory)[k + 1] <= total)
      BY <2>1, <3>1, <3>2
    <3>. QED BY <3>3 DEF Inside, CommonLength
  <2>4. \A i \in 1..q.next - 1 : Inside(memory, total, i)
    BY <1>2, <2>1 DEF Consumed
  <2>5. Consumed(memory, total, q, k)
    BY <1>1, <2>1, <2>3, <2>4 DEF Consumed
  <2>. QED BY <2>2, <2>5 DEF ParseInv
<1>5. CASE p.status = "parsing" /\ Ended(p, d, total)
  <2>1. q = [p EXCEPT !.status = "parsed"]
    BY <1>5, Zenon DEF ParseDescriptor
  <2>. QED BY <1>4, <1>5, <2>1
<1>6. CASE p.status = "parsing" /\ ~Ended(p, d, total) /\ Malformed(p, d)
  <2>1. q = [p EXCEPT !.status = "failed"]
    BY <1>6, Zenon DEF ParseDescriptor
  <2>. QED BY <1>4, <1>6, <2>1
<1>7. CASE p.status = "parsing" /\ ~Ended(p, d, total) /\ ~Malformed(p, d)
  <2>1. CASE d.len = 0
    <3>1. q = [p EXCEPT !.status = "loops"]
      BY <1>7, <2>1, Zenon DEF ParseDescriptor
    <3>. QED BY <1>4, <1>7, <3>1
  <2>2. CASE d.len # 0
    <3>1. q = Stored(p, d)
      BY <1>7, <2>2, Zenon DEF ParseDescriptor, Stored
    <3>2. ParseInv(memory, total, Stored(p, d), k)
      BY <1>7, StoredFinds
    <3>. QED BY <3>1, <3>2
  <2>. QED BY <2>1, <2>2
<1>. QED BY <1>3, <1>5, <1>6, <1>7

\* What the loop has found after each of its turns.
LEMMA TurnsKeep ==
  ASSUME NEW memory \in Seq(Descriptors), NEW total \in Nat
  PROVE  \A k \in 0..Len(memory) : ParseInv(memory, total, Turns(memory, total)[k], k)
<1> DEFINE n == Len(memory)
<1> DEFINE turn == Turns(memory, total)
<1> DEFINE T == {k \in Nat : k <= n => ParseInv(memory, total, turn[k], k)}
<1>1. n \in Nat
  OBVIOUS
<1>2. /\ turn[0] = ParseStart
      /\ \A k \in 1..n : turn[k] = ParseDescriptor(turn[k - 1], memory[k], total)
  BY <1>1, TurnsEquations
<1>3. Starts(memory)[1] = 0
  BY StartsEquations
<1> HIDE DEF n, turn
<1>4. ParseInv(memory, total, ParseStart, 0)
  <2>1. /\ ParseStart.at = 0 /\ ParseStart.next = 1 /\ ParseStart.status = "parsing"
        /\ ParseStart.configs = 0 /\ ParseStart.ifs = <<>> /\ ParseStart.pipes = <<>>
        /\ ParseStart \in ParseStates
    BY DEF ParseStart, ParseStates
  <2>2. 1..ParseStart.next - 1 = {} /\ Len(ParseStart.ifs) = 0 /\ Len(ParseStart.pipes) = 0
    BY <2>1
  <2>3. Consumed(memory, total, ParseStart, 0)
    BY <1>3, <2>1, <2>2 DEF Consumed
  <2>4. Found(memory, ParseStart)
    BY <2>2 DEF Found, ConfigsFound, InterfacesFound, EndpointsFound, Owned, Increasing
  <2>. QED BY <2>3, <2>4 DEF ParseInv
<1>5. 0 \in T
  BY <1>2, <1>4
<1>6. ASSUME NEW k \in Nat, k \in T PROVE k + 1 \in T
  <2> SUFFICES ASSUME k + 1 <= n PROVE ParseInv(memory, total, turn[k + 1], k + 1)
    OBVIOUS
  <2>1. k + 1 \in 1..Len(memory) /\ k + 1 - 1 = k /\ k <= n
    BY <1>1 DEF n
  <2>2. ParseInv(memory, total, turn[k + 1 - 1], k + 1 - 1)
    BY <1>6, <2>1
  <2>3. ParseInv(memory, total, ParseDescriptor(turn[k + 1 - 1], memory[k + 1], total), k + 1)
    BY <2>1, <2>2, TurnKeeps
  <2>. QED BY <1>2, <2>1, <2>3 DEF n
<1>7. \A k \in Nat : k \in T
  <2> HIDE DEF T
  <2>. QED BY <1>5, <1>6, NatSetInduction, Zenon
<1>. QED BY <1>1, <1>7 DEF n, turn

\* What a configuration that has passed ParseConfig holds: n descriptors of its
\* memory lie before its end, and their interfaces and endpoints are listed.
Holds(info, n) ==
  /\ n \in 0..Len(info.memory) /\ Whole(info) = 1..n
  /\ \E configs \in Nat : ConfigsFound(info.memory, n, configs)
  /\ info.ifs \in Seq(Nat) /\ InterfacesFound(info.memory, n, info.ifs)
  /\ info.pipes \in Seq(Pipes) /\ EndpointsFound(info.memory, n, info.pipes)
  /\ Owned(info.ifs, info.pipes)

\* What has passed ParseConfig.
Parsed(info) ==
  LET p == ParseConfig(info.memory, info.total)
  IN p.status = "parsed" /\ info.ifs = p.ifs /\ info.pipes = p.pipes /\ info.ifs # <<>>

\* ParseConfig finds what there is.
LEMMA ParsedHolds ==
  ASSUME NEW info, info.memory \in Seq(Descriptors), info.total \in Nat, Parsed(info)
  PROVE  \E n \in Nat : Holds(info, n)
<1> DEFINE memory == info.memory
<1> DEFINE last == Len(memory)
<1> DEFINE p == Turns(memory, info.total)[last]
<1> DEFINE n == p.next - 1
<1>1. last \in Nat /\ ParseInv(memory, info.total, p, last)
  BY TurnsKeep
<1>2. /\ p.status \in {"parsing", "parsed"}
      /\ info.ifs = p.ifs /\ info.pipes = p.pipes
  <2> HIDE DEF p
  <2>1. p \in ParseStates
    BY <1>1 DEF ParseInv, Consumed
  <2>2. ParseConfig(memory, info.total)
          = IF p.status = "parsing" THEN [p EXCEPT !.status = "parsed"] ELSE p
    BY DEF ParseConfig, p
  <2>3. [p EXCEPT !.status = "parsed"].ifs = p.ifs /\ [p EXCEPT !.status = "parsed"].pipes = p.pipes
    BY <2>1 DEF ParseStates
  <2>. QED BY <2>2, <2>3 DEF Parsed
<1> HIDE DEF p
<1>3. /\ p \in ParseStates /\ n <= last /\ Found(memory, p)
      /\ p.status = "parsing" => n = last
      /\ \A i \in 1..n : Inside(memory, info.total, i)
      /\ p.status = "parsed" => n + 1 <= last /\ ~Inside(memory, info.total, n + 1)
  <2>1. p.next \in Nat \ {0}
    BY <1>1 DEF ParseInv, Consumed, ParseStates
  <2>2. n + 1 = p.next
    BY <2>1
  <2>. QED BY <1>1, <2>1, <2>2 DEF ParseInv, Consumed
<1>4. n \in Nat /\ p.configs \in Nat /\ p.ifs \in Seq(Nat) /\ p.pipes \in Seq(Pipes)
  BY <1>3 DEF ParseStates, Pipes
<1>5. /\ ConfigsFound(memory, n, p.configs) /\ InterfacesFound(memory, n, p.ifs)
      /\ EndpointsFound(memory, n, p.pipes) /\ Owned(p.ifs, p.pipes)
  BY <1>3 DEF Found
<1> HIDE DEF n
<1>6. Whole(info) = 1..n
  <2>1. ASSUME NEW k \in 1..n PROVE k \in Whole(info)
    <3>1. k \in 1..last /\ \A i \in 1..k : i \in 1..n
      BY <1>1, <1>3, <1>4
    <3>. QED BY <1>3, <3>1 DEF Whole
  <2>2. ASSUME NEW k \in Whole(info) PROVE k \in 1..n
    <3>1. k \in 1..last /\ \A i \in 1..k : Inside(memory, info.total, i)
      BY DEF Whole
    <3> SUFFICES ASSUME k > n PROVE FALSE
      BY <1>4, <3>1
    <3>2. n # last /\ n + 1 \in 1..k
      BY <1>1, <1>4, <3>1
    <3>. QED BY <1>2, <1>3, <3>1, <3>2
  <2>. QED BY <2>1, <2>2
<1>7. Holds(info, n)
  BY <1>1, <1>2, <1>3, <1>4, <1>5, <1>6 DEF Holds
<1>. QED BY <1>4, <1>7

--------------------------------------------------------------------------------
(***************************************************************************)
(* The look-ups: an interface is given its own pipes.                       *)
(***************************************************************************)
\* The endpoints of interface f among the first n descriptors, and its pipes.
OwnOf(info, n, f) ==
  {k \in {j \in 1..n : info.memory[j].type = "endpoint"} :
     k > f /\ \A g \in {info.ifs[b] : b \in 1..Len(info.ifs)} : g < k => g <= f}
PipesOf(info, f) == {k \in 1..Len(info.pipes) : info.pipes[k].interface = f}

\* The pipes of an interface are those of its own endpoints, one each, and
\* they lie one behind the other.
LEMMA PipesOfInterface ==
  ASSUME NEW info, NEW n \in Nat, Holds(info, n), NEW f \in {info.ifs[b] : b \in 1..Len(info.ifs)}
  PROVE  /\ {info.pipes[k].endpoint : k \in PipesOf(info, f)} = OwnOf(info, n, f)
         /\ IsFiniteSet(PipesOf(info, f))
         /\ Cardinality(OwnOf(info, n, f)) = Cardinality(PipesOf(info, f))
         /\ \A x, z \in PipesOf(info, f) : \A y \in 1..Len(info.pipes) :
              x <= y /\ y <= z => y \in PipesOf(info, f)
<1> DEFINE pipes == info.pipes
<1> DEFINE ifs == {info.ifs[b] : b \in 1..Len(info.ifs)}
<1> DEFINE N == Len(pipes)
<1> DEFINE B == PipesOf(info, f)
<1> DEFINE own == OwnOf(info, n, f)
<1>1. /\ pipes \in Seq(Pipes) /\ EndpointsFound(info.memory, n, pipes) /\ info.ifs \in Seq(Nat)
      /\ N \in Nat
  BY DEF Holds
<1>2. \A k \in 1..N : pipes[k].endpoint \in 1..n /\ pipes[k].interface \in Nat
  <2>1. \A k \in 1..N : pipes[k] \in Pipes
    BY <1>1
  <2>. QED BY <1>1, <2>1 DEF EndpointsFound, Pipes
<1>3. ifs \subseteq Nat /\ f \in Nat
  <2>1. \A b \in 1..Len(info.ifs) : info.ifs[b] \in Nat
    <3>1. info.ifs \in Seq(Nat)
      BY <1>1
    <3>. QED BY <3>1
  <2>. QED BY <2>1
<1>4. \A k \in 1..N : /\ pipes[k].interface \in ifs
                      /\ pipes[k].interface < pipes[k].endpoint
                      /\ \A g \in ifs : g < pipes[k].endpoint => g <= pipes[k].interface
  BY DEF Holds, Owned
<1>5. \A k, l \in 1..N : k < l => pipes[k].endpoint < pipes[l].endpoint
  BY <1>1 DEF EndpointsFound
<1>6. \A k \in 1..N : info.memory[pipes[k].endpoint].type = "endpoint"
  BY <1>1 DEF EndpointsFound
<1>7. f \in ifs
  OBVIOUS
<1> HIDE DEF ifs, pipes, N
<1>8. \A k \in 1..N : k \in B <=> pipes[k].endpoint \in own
  <2> SUFFICES ASSUME NEW k \in 1..N
               PROVE  k \in B <=> pipes[k].endpoint \in own
    OBVIOUS
  <2>1. k \in B <=> pipes[k].interface = f
    BY DEF PipesOf, pipes, N
  <2>2. pipes[k].endpoint \in own <=>
          pipes[k].endpoint > f /\ \A g \in ifs : g < pipes[k].endpoint => g <= f
    BY <1>2, <1>6 DEF OwnOf, ifs
  <2>3. pipes[k].endpoint \in Int /\ pipes[k].interface \in Nat
    BY <1>2
  <2>. QED BY <1>3, <1>4, <1>7, <2>1, <2>2, <2>3
<1>9. B \subseteq 1..N
  BY DEF PipesOf, pipes, N
<1>10. \A j \in own : \E k \in 1..N : pipes[k].endpoint = j
  BY <1>1 DEF OwnOf, EndpointsFound, N
<1>11. {pipes[k].endpoint : k \in B} = own
  <2>1. \A k \in B : pipes[k].endpoint \in own
    BY <1>8, <1>9
  <2>2. \A j \in own : \E k \in B : pipes[k].endpoint = j
    BY <1>8, <1>10
  <2>. QED BY <2>1, <2>2
<1>12. IsFiniteSet(B)
  <2>1. IsFiniteSet(1..N)
    <3>1. 1 \in Int /\ N \in Int
      BY <1>1
    <3>. QED BY <3>1, FS_Interval, Zenon
  <2>. QED BY <1>9, <2>1, FS_Subset
<1>13. Cardinality(own) = Cardinality(B)
  <2> DEFINE e == [k \in B |-> pipes[k].endpoint]
  <2>1. e \in [B -> own]
    BY <1>11
  <2>2. \A k, l \in B : e[k] = e[l] => k = l
    <3> SUFFICES ASSUME NEW k \in B, NEW l \in B, k # l PROVE e[k] # e[l]
      OBVIOUS
    <3>1. k \in 1..N /\ l \in 1..N /\ (k < l \/ l < k)
      BY <1>1, <1>9
    <3>2. pipes[k].endpoint \in Int /\ pipes[l].endpoint \in Int
      BY <1>2, <3>1
    <3>. QED BY <1>5, <3>1, <3>2
  <2>3. \A j \in own : \E k \in B : e[k] = j
    BY <1>11
  <2> HIDE DEF e, B, own
  <2>4. e \in Bijection(B, own)
    BY <2>1, <2>2, <2>3 DEF Bijection, Injection, Surjection, IsInjective
  <2>. QED BY <1>12, <2>4, FS_Bijection DEF ExistsBijection
<1>14. ASSUME NEW x \in B, NEW z \in B, NEW y \in 1..N, x <= y, y <= z
       PROVE  y \in B
  <2>1. x \in 1..N /\ z \in 1..N /\ pipes[x].interface = f /\ pipes[z].interface = f
    BY <1>9 DEF PipesOf, pipes
  <2>2. pipes[y].interface = f
    <3>1. CASE x = y \/ y = z
      BY <2>1, <3>1
    <3>2. CASE x < y /\ y < z
      <4>1. pipes[x].endpoint < pipes[y].endpoint /\ pipes[y].endpoint < pipes[z].endpoint
        BY <1>5, <2>1, <3>2
      <4>2. /\ pipes[x].endpoint \in Int /\ pipes[y].endpoint \in Int /\ pipes[z].endpoint \in Int
            /\ pipes[y].interface \in Nat
        <5>1. \A k \in 1..N : pipes[k].endpoint \in Int /\ pipes[k].interface \in Nat
          BY <1>2
        <5>. QED BY <2>1, <5>1
      <4>3. f < pipes[x].endpoint /\ f <= pipes[y].interface
        BY <1>3, <1>4, <1>7, <2>1, <4>1, <4>2
      <4>4. pipes[y].interface < pipes[z].endpoint
        <5>1. pipes[y].interface < pipes[y].endpoint
          BY <1>4
        <5>. QED BY <4>1, <4>2, <5>1
      <4>5. pipes[y].interface <= f
        <5>1. pipes[y].interface \in ifs
          BY <1>4
        <5>. QED BY <1>4, <2>1, <4>4, <5>1
      <4>. QED BY <1>3, <4>2, <4>3, <4>5
    <3>3. x \in Int /\ y \in Int /\ z \in Int
      BY <2>1
    <3>. QED BY <1>14, <3>1, <3>2, <3>3
  <2>. QED BY <2>2 DEF PipesOf, pipes, N
<1>. QED BY <1>11, <1>12, <1>13, <1>14 DEF pipes, N

\* What SetInterfaceDescriptorPipes gives to an interface that claims so many
\* endpoints and whose pipes are lo..hi of N, or none.
LEMMA PipesTaken ==
  ASSUME NEW info, NEW f, info.memory[f].claims \in Nat, Len(info.pipes) \in Nat
  PROVE  LET given == SetInterfaceDescriptorPipes(info, f)
             own   == PipesOf(info, f)
             claims == info.memory[f].claims
         IN  /\ claims = 0 => given = [ok |-> TRUE, pipes |-> {}, beyond |-> FALSE]
             /\ claims # 0 /\ own = {} => given = [ok |-> FALSE, pipes |-> {}, beyond |-> FALSE]
             /\ \A lo, hi \in 1..Len(info.pipes) :
                  claims # 0 /\ lo <= hi /\ lo = First(own) /\ own = lo..hi =>
                    /\ given.ok <=> claims <= hi - lo + 1
                    /\ given.pipes \subseteq own
                    /\ given.ok => given.pipes = lo..(lo + claims - 1)
                    /\ given.beyond => claims > hi - lo + 1
<1> DEFINE N == Len(info.pipes)
<1> DEFINE own == PipesOf(info, f)
<1> DEFINE claims == info.memory[f].claims
<1> DEFINE given == SetInterfaceDescriptorPipes(info, f)
<1>1. own \subseteq Nat \ {0}
  BY DEF PipesOf
<1>2. FindFirstPipeForInterface(info, f) = First(own)
  BY DEF FindFirstPipeForInterface, Indices, PipesOf
<1> DEFINE there(first) == {j \in 0..(claims - 1) : first + j <= N}
<1> DEFINE mine(first) ==
      {j \in there(first) : \A i \in 0..j : info.pipes[first + i].interface = f}
<1> DEFINE taken(first) ==
      [ok     |-> mine(first) = 0..(claims - 1),
       pipes  |-> {first + j : j \in mine(first)},
       beyond |-> mine(first) = there(first) /\ there(first) # 0..(claims - 1)]
<1>3. given = IF claims = 0 THEN [ok |-> TRUE, pipes |-> {}, beyond |-> FALSE]
              ELSE IF First(own) = 0 THEN [ok |-> FALSE, pipes |-> {}, beyond |-> FALSE]
              ELSE taken(First(own))
  BY <1>2, Zenon DEF SetInterfaceDescriptorPipes
<1> HIDE DEF given, own, claims, taken, there, mine, N
<1>4. own = {} => First(own) = 0
  BY <1>1, FirstIsLeast
<1>5. ASSUME NEW lo \in 1..N, NEW hi \in 1..N,
             claims # 0, lo <= hi, lo = First(own), own = lo..hi
      PROVE  /\ given.ok <=> claims <= hi - lo + 1
             /\ given.pipes \subseteq own
             /\ given.ok => given.pipes = lo..(lo + claims - 1)
             /\ given.beyond => claims > hi - lo + 1
  <2>1. given = taken(lo)
    BY <1>3, <1>5
  <2>2. claims \in Nat /\ N \in Nat /\ lo \in Nat /\ hi \in Nat
    BY DEF claims, N
  <2>3. \A k \in 1..N : k \in own <=> info.pipes[k].interface = f
    BY DEF own, N, PipesOf
  <2>4. mine(lo) = {j \in 0..(claims - 1) : lo + j <= hi}
    <3>1. ASSUME NEW j \in 0..(claims - 1), lo + j <= hi PROVE j \in mine(lo)
      <4>1. lo + j <= N
        BY <2>2, <3>1
      <4>2. \A i \in 0..j : lo + i \in lo..hi /\ lo + i \in 1..N
        BY <2>2, <3>1
      <4>. QED BY <1>5, <2>3, <4>1, <4>2 DEF mine, there
    <3>2. ASSUME NEW j \in mine(lo) PROVE j \in 0..(claims - 1) /\ lo + j <= hi
      <4>1. j \in 0..(claims - 1) /\ lo + j <= N
        BY DEF mine, there
      <4>2. info.pipes[lo + j].interface = f
        <5>1. j \in 0..j
          BY <4>1
        <5>. QED BY <5>1 DEF mine
      <4>3. lo + j \in 1..N
        BY <2>2, <4>1
      <4>. QED BY <1>5, <2>3, <4>1, <4>2, <4>3
    <3>3. mine(lo) \subseteq 0..(claims - 1)
      BY DEF mine, there
    <3>. QED BY <3>1, <3>2, <3>3
  <2>5. /\ given.ok <=> mine(lo) = 0..(claims - 1)
        /\ given.pipes = {lo + j : j \in mine(lo)}
        /\ given.beyond => mine(lo) # 0..(claims - 1)
    BY <2>1 DEF taken
  <2>6. mine(lo) = 0..(claims - 1) <=> claims <= hi - lo + 1
    <3>1. CASE claims <= hi - lo + 1
      BY <2>2, <2>4, <3>1
    <3>2. CASE ~(claims <= hi - lo + 1)
      <4>1. claims - 1 \in 0..(claims - 1) /\ ~(lo + (claims - 1) <= hi)
        <5>1. claims # 0 /\ lo <= hi
          BY <1>5
        <5>. QED BY <2>2, <3>2, <5>1
      <4>2. claims - 1 \notin mine(lo)
        BY <2>4, <4>1
      <4>. QED BY <3>2, <4>1, <4>2
    <3>. QED BY <3>1, <3>2
  <2>7. given.pipes \subseteq own
    <3>1. \A j \in mine(lo) : lo + j \in lo..hi
      BY <2>2, <2>4
    <3>. QED BY <1>5, <2>5, <3>1
  <2>8. ASSUME mine(lo) = 0..(claims - 1) PROVE given.pipes = lo..(lo + claims - 1)
    <3>1. \A j \in 0..(claims - 1) : lo + j \in lo..(lo + claims - 1)
      BY <2>2
    <3>2. \A k \in lo..(lo + claims - 1) : k - lo \in 0..(claims - 1) /\ lo + (k - lo) = k
      BY <2>2
    <3>. QED BY <2>5, <2>8, <3>1, <3>2
  <2>9. ~(claims <= hi - lo + 1) => claims > hi - lo + 1
    BY <2>2
  <2>. QED BY <2>5, <2>6, <2>7, <2>8, <2>9
<1>6. claims = 0 => given = [ok |-> TRUE, pipes |-> {}, beyond |-> FALSE]
  BY <1>3, Zenon
<1>7. claims # 0 /\ own = {} => given = [ok |-> FALSE, pipes |-> {}, beyond |-> FALSE]
  BY <1>3, <1>4, Zenon
<1>. QED BY <1>5, <1>6, <1>7, Zenon DEF given, own, claims, N

\* One interface: what it is given, against the endpoints that are its own.
LEMMA InterfaceGiven ==
  ASSUME NEW info, NEW n \in Nat, Holds(info, n), info.memory \in Seq(Descriptors),
         NEW f \in {info.ifs[b] : b \in 1..Len(info.ifs)}
  PROVE  LET given == SetInterfaceDescriptorPipes(info, f)
             own   == OwnOf(info, n, f)
         IN  /\ {info.pipes[k].endpoint : k \in given.pipes} \subseteq own
             /\ given.ok <=> info.memory[f].claims <= Cardinality(own)
             /\ given.ok => Cardinality(given.pipes) = info.memory[f].claims
             /\ given.beyond => info.memory[f].claims > Cardinality(own)
<1> DEFINE given == SetInterfaceDescriptorPipes(info, f)
<1> DEFINE own == OwnOf(info, n, f)
<1> DEFINE B == PipesOf(info, f)
<1> DEFINE claims == info.memory[f].claims
<1> DEFINE N == Len(info.pipes)
<1>1. claims \in Nat /\ N \in Nat
  <2>1. f \in 1..Len(info.memory)
    <3>1. f \in 1..n /\ n <= Len(info.memory)
      BY DEF Holds, InterfacesFound
    <3>. QED BY <3>1
  <2>2. info.memory[f] \in Descriptors
    BY <2>1
  <2>3. info.pipes \in Seq(Pipes)
    BY DEF Holds
  <2>. QED BY <2>2, <2>3 DEF Descriptors
<1>2. /\ {info.pipes[k].endpoint : k \in B} = own
      /\ IsFiniteSet(B) /\ Cardinality(own) = Cardinality(B)
      /\ \A x, z \in B : \A y \in 1..N : x <= y /\ y <= z => y \in B
  BY PipesOfInterface
<1>3. /\ claims = 0 => given = [ok |-> TRUE, pipes |-> {}, beyond |-> FALSE]
      /\ claims # 0 /\ B = {} => given = [ok |-> FALSE, pipes |-> {}, beyond |-> FALSE]
      /\ \A lo, hi \in 1..N :
           claims # 0 /\ lo <= hi /\ lo = First(B) /\ B = lo..hi =>
             /\ given.ok <=> claims <= hi - lo + 1
             /\ given.pipes \subseteq B
             /\ given.ok => given.pipes = lo..(lo + claims - 1)
             /\ given.beyond => claims > hi - lo + 1
  BY <1>1, PipesTaken
<1>4. B \subseteq 1..N
  BY DEF PipesOf
<1>5. Cardinality(B) \in Nat /\ Cardinality({}) = 0
  BY <1>2, FS_CardinalityType, FS_EmptySet
<1> HIDE DEF given, own, B, claims, N
<1> DEFINE Right == /\ {info.pipes[k].endpoint : k \in given.pipes} \subseteq own
                    /\ given.ok <=> claims <= Cardinality(own)
                    /\ given.ok => Cardinality(given.pipes) = claims
                    /\ given.beyond => claims > Cardinality(own)
<1>6. ASSUME claims = 0 PROVE Right
  <2>1. given.ok /\ given.pipes = {} /\ ~given.beyond
    BY <1>3, <1>6
  <2>2. 0 <= Cardinality(own)
    BY <1>2, <1>5
  <2>3. {info.pipes[k].endpoint : k \in given.pipes} \subseteq own
    BY <2>1
  <2>. QED BY <1>5, <1>6, <2>1, <2>2, <2>3
<1>7. ASSUME claims # 0, B = {} PROVE Right
  <2>1. ~given.ok /\ given.pipes = {} /\ ~given.beyond
    BY <1>3, <1>7
  <2>2. Cardinality(own) = 0
    BY <1>2, <1>5, <1>7
  <2>3. {info.pipes[k].endpoint : k \in given.pipes} \subseteq own
    BY <2>1
  <2>4. ~(claims <= 0)
    BY <1>1, <1>7
  <2>. QED BY <2>1, <2>2, <2>3, <2>4
<1>8. ASSUME claims # 0, B # {} PROVE Right
  <2>1. \E lo, hi \in 1..N : lo <= hi /\ lo = First(B) /\ B = lo..hi
    BY <1>1, <1>2, <1>4, <1>8, NoGaps
  <2>2. PICK lo \in 1..N, hi \in 1..N : lo <= hi /\ lo = First(B) /\ B = lo..hi
    BY <2>1
  <2>3. /\ given.ok <=> claims <= hi - lo + 1
        /\ given.pipes \subseteq B
        /\ given.ok => given.pipes = lo..(lo + claims - 1)
        /\ given.beyond => claims > hi - lo + 1
    BY <1>3, <1>8, <2>2
  <2>4. Cardinality(B) = hi - lo + 1
    <3>1. lo \in Int /\ hi \in Int /\ ~(lo > hi)
      BY <2>2
    <3>2. Cardinality(lo..hi) = IF lo > hi THEN 0 ELSE hi - lo + 1
      BY <3>1, FS_Interval, Zenon
    <3>. QED BY <2>2, <3>1, <3>2, Zenon
  <2>5. given.ok => Cardinality(given.pipes) = claims
    <3> SUFFICES ASSUME given.ok PROVE Cardinality(lo..(lo + claims - 1)) = claims
      BY <2>3
    <3> DEFINE top == lo + claims - 1
    <3>1. lo \in Int /\ top \in Int /\ ~(lo > top) /\ top - lo + 1 = claims
      BY <1>1, <1>8
    <3> HIDE DEF top
    <3>2. Cardinality(lo..top) = IF lo > top THEN 0 ELSE top - lo + 1
      BY <3>1, FS_Interval, Zenon
    <3>3. Cardinality(lo..top) = claims
      BY <3>1, <3>2, Zenon
    <3>. QED BY <3>3 DEF top
  <2>6. {info.pipes[k].endpoint : k \in given.pipes} \subseteq own
    BY <1>2, <2>3
  <2>. QED BY <1>2, <2>3, <2>4, <2>5, <2>6
<1>9. Right
  BY <1>6, <1>7, <1>8
<1>. QED BY <1>9 DEF given, own, claims

\* At most one descriptor of the whole ones is a configuration.
LEMMA OneConfig ==
  ASSUME NEW memory, NEW n \in Nat, NEW configs, ConfigsFound(memory, n, configs)
  PROVE  Cardinality({k \in 1..n : memory[k].type = "config"}) <= 1
<1> DEFINE S == {k \in 1..n : memory[k].type = "config"}
<1>1. \A x, y \in S : x = y
  BY DEF ConfigsFound
<1> HIDE DEF S
<1>2. CASE S = {}
  <2>1. Cardinality(S) = 0
    BY <1>2, FS_EmptySet
  <2>. QED BY <2>1 DEF S
<1>3. CASE S # {}
  <2>1. PICK x \in S : TRUE
    BY <1>3
  <2>2. S = {x}
    BY <1>1
  <2>3. Cardinality(S) = 1
    BY <2>2, FS_Singleton
  <2>. QED BY <2>3 DEF S
<1>. QED BY <1>2, <1>3

\* A configuration that has passed ParseConfig is well formed.
THEOREM ParsedIsWellFormed ==
  ASSUME NEW info, info.memory \in Seq(Descriptors), info.total \in Nat, Parsed(info)
  PROVE  WellFormed(info)
<1>1. PICK n \in Nat : Holds(info, n)
  BY ParsedHolds
<1> DEFINE OfType(type) == {k \in 1..n : info.memory[k].type = type}
<1> DEFINE ifs == {info.ifs[k] : k \in 1..Len(info.ifs)}
<1> DEFINE ends == {info.pipes[k].endpoint : k \in 1..Len(info.pipes)}
<1>2. /\ Whole(info) = 1..n
      /\ info.ifs \in Seq(Nat) /\ InterfacesFound(info.memory, n, info.ifs)
      /\ info.pipes \in Seq(Pipes) /\ EndpointsFound(info.memory, n, info.pipes)
  BY <1>1 DEF Holds
<1>3. Cardinality(OfType("config")) <= 1
  BY <1>1, OneConfig DEF Holds
<1>4. ifs = OfType("interface")
  BY <1>2 DEF InterfacesFound
<1>5. ifs # {} /\ Len(info.ifs) = Cardinality(ifs)
  <2>1. info.ifs # <<>>
    BY DEF Parsed
  <2>2. 1 \in 1..Len(info.ifs)
    BY <1>2, <2>1
  <2>3. Increasing(info.ifs)
    BY <1>2 DEF InterfacesFound
  <2>4. Cardinality(ifs) = Len(info.ifs)
    BY <1>2, <2>3, IncreasingCounted
  <2>. QED BY <2>2, <2>4
<1>6. ends = OfType("endpoint")
  <2>1. \A k \in 1..Len(info.pipes) : info.pipes[k].endpoint \in OfType("endpoint")
    BY <1>2 DEF EndpointsFound
  <2>2. \A i \in OfType("endpoint") : \E k \in 1..Len(info.pipes) : info.pipes[k].endpoint = i
    BY <1>2 DEF EndpointsFound
  <2> HIDE DEF OfType
  <2>. QED BY <2>1, <2>2
<1>7. Len(info.pipes) = Cardinality(OfType("endpoint"))
  <2> DEFINE s == [k \in 1..Len(info.pipes) |-> info.pipes[k].endpoint]
  <2>1. \A k \in 1..Len(info.pipes) : info.pipes[k].endpoint \in Nat
    BY <1>2 DEF EndpointsFound
  <2>2. s \in Seq(Nat) /\ Len(s) = Len(info.pipes)
    BY <1>2, <2>1
  <2>3. Increasing(s)
    BY <1>2, <2>2 DEF EndpointsFound, Increasing
  <2>4. ends = {s[k] : k \in 1..Len(s)}
    BY <2>2
  <2> HIDE DEF s, ends
  <2>5. Cardinality(ends) = Len(s)
    BY <2>2, <2>3, <2>4, IncreasingCounted
  <2>. QED BY <1>6, <2>2, <2>5
<1>8. ASSUME NEW f \in ifs
      PROVE  LET given == SetInterfaceDescriptorPipes(info, f)
                 own == {k \in OfType("endpoint") : k > f /\ \A g \in ifs : g < k => g <= f}
             IN  /\ {info.pipes[k].endpoint : k \in given.pipes} \subseteq own
                 /\ given.ok <=> info.memory[f].claims <= Cardinality(own)
                 /\ given.ok => Cardinality(given.pipes) = info.memory[f].claims
                 /\ given.beyond => info.memory[f].claims > Cardinality(own)
  BY <1>1, InterfaceGiven, Zenon DEF OwnOf
<1>. QED BY <1>2, <1>3, <1>4, <1>5, <1>6, <1>7, <1>8, Zenon DEF WellFormed


--------------------------------------------------------------------------------
(***************************************************************************)
(* DeviceConfig: the inductive invariant.                                   *)
(***************************************************************************)
Known == {"deviceDescriptor", "reset", "speed"}
Fetching == {"header", "body"}
Loading == {"osString", "osReset", "osHeader", "osBody", "strings", "getConfig"}
Settling == {"setConfig", "ready"}
Steps == Known \cup Fetching \cup Loading \cup Settling \cup {"failed", "hung", "released"}

Infos == [loaded : BOOLEAN, value : 0..255, memory : Seq(Descriptors), total : Nat,
          ifs : Seq(Nat), pipes : Seq(Pipes)]

ConfigTyped ==
  /\ device \in Devices /\ step \in Steps
  /\ index \in Nat \ {0} /\ numConfigs \in Nat /\ late \in Nat
  /\ configData \in Seq(Infos)
  /\ offset \in {0, 1}
  /\ configBusy \in BOOLEAN /\ cleared \in BOOLEAN /\ busyLost \in BOOLEAN
  /\ refused \in BOOLEAN /\ unplugged \in BOOLEAN /\ badCount \in BOOLEAN

\* What is loaded has passed ParseConfig.
LoadedIsParsed ==
  \A i \in 1..Len(configData) : configData[i].loaded => Parsed(configData[i])

\* The offset is 1 for a device whose only configuration has the value 0.
OffsetFound ==
  \/ offset = 0 /\ Configs[1].value # 0
  \/ offset = 1 /\ Configs[1].value = 0 /\ Len(Configs) = 1

\* How far GetUsbConfigData has come.
SetUp ==
  /\ step \in Known \cup Fetching \cup Loading =>
       /\ currentValue = 0 /\ pointers = 0 /\ devValue = device.active
       /\ ~refused /\ ~badCount
  /\ step = "deviceDescriptor" => configData = <<>>
  /\ step \in Known => offset = 0 /\ index = 1
  /\ step \in {"reset", "speed"} => numConfigs \in {0, Len(Configs)}
  /\ step \in {"reset", "speed"} => Len(configData) = numConfigs
  /\ step \in Fetching \cup Loading \cup Settling =>
       Len(configData) = Len(Configs) /\ Len(Configs) > 0
  /\ step \in Fetching => index <= Len(Configs) /\ numConfigs = Len(Configs)
  /\ step = "header" /\ index = 1 => offset = 0
  /\ (step = "header" /\ index > 1) \/ step \in {"body"} \cup Loading => OffsetFound
  /\ numConfigs = Len(configData) \/ badCount \/ configData = <<>>

PointersAgree ==
  pointers # 0 => /\ pointers \in 1..Len(configData)
                  /\ configData[pointers].loaded /\ configData[pointers].value = currentValue

\* Nobody is between the two exchanges of a selection.
AtRest == step = "ready" /\ ~unplugged /\ \A s \in select : s.kind # "interface"

Selecting ==
  /\ select # {} => step = "ready"
  /\ \A s, t \in select : s = t
  /\ AtRest => PointersAgree /\ (~refused => currentValue = devValue)
  /\ \A s \in select :
       /\ s.kind = "read" => pointers = 0
       /\ (s.kind = "interface" /\ ~unplugged /\ ~refused) => s.value = devValue

BusyExplained ==
  /\ select # {} => configBusy \/ cleared
  /\ configBusy => select # {} \/ late > 0 \/ busyLost

Released == step = "released" => badCount \/ configData = <<>>

ConfigInv == ConfigTyped /\ LoadedIsParsed /\ SetUp /\ Selecting /\ BusyExplained /\ Released

\* What is known of the device that is plugged in.
LEMMA DeviceTyped ==
  ASSUME ConfigTyped
  PROVE  /\ Len(Configs) \in Nat
         /\ \A i \in 1..Len(Configs) :
              /\ Configs[i].value \in 0..255 /\ Configs[i].total \in Nat
              /\ Configs[i].memory \in Seq(Descriptors)
         /\ device.active \in {0} \cup {Configs[i].value : i \in 1..Len(Configs)}
<1> DEFINE R == [value : 0..255, memory : Seq(Descriptors) \ {<<>>}, total : Nat]
<1>1. /\ Configs \in Seq(R)
      /\ device.active \in {0} \cup {Configs[i].value : i \in 1..Len(Configs)}
  BY DevicesAssumption DEF ConfigTyped, Configs
<1> DEFINE c == Configs
<1> HIDE DEF R, c
<1>2. ASSUME NEW i \in 1..Len(c) PROVE c[i] \in R
  <2>1. c \in Seq(R)
    BY <1>1 DEF c
  <2>. QED BY <2>1
<1>3. \A r \in R : r.value \in 0..255 /\ r.total \in Nat /\ r.memory \in Seq(Descriptors)
  BY DEF R
<1>4. Len(c) \in Nat
  BY <1>1 DEF c
<1>. QED BY <1>1, <1>2, <1>3, <1>4 DEF c

\* What ParseConfig returns.
LEMMA ParseConfigTyped ==
  ASSUME NEW memory \in Seq(Descriptors), NEW total \in Nat
  PROVE  ParseConfig(memory, total) \in ParseStates
<1> DEFINE p == Turns(memory, total)[Len(memory)]
<1>1. p \in ParseStates
  BY TurnsKeep DEF ParseInv, Consumed
<1>2. ParseConfig(memory, total)
        = IF p.status = "parsing" THEN [p EXCEPT !.status = "parsed"] ELSE p
  BY DEF ParseConfig
<1> HIDE DEF p
<1>. QED BY <1>1, <1>2 DEF ParseStates

\* A configuration that is loaded.
LEMMA LoadedTyped ==
  ASSUME ConfigTyped, NEW i \in 1..Len(Configs), NEW memory \in Seq(Descriptors),
         NEW total \in Nat
  PROVE  /\ Loaded(i, memory, total) \in Infos
         /\ (/\ ParseConfig(memory, total).status = "parsed"
             /\ Loaded(i, memory, total).ifs # <<>>) => Parsed(Loaded(i, memory, total))
<1> DEFINE p == ParseConfig(memory, total)
<1>1. p \in ParseStates /\ Configs[i].value \in 0..255
  BY DeviceTyped, ParseConfigTyped
<1>2. Loaded(i, memory, total)
        = [loaded |-> TRUE, value |-> Configs[i].value, memory |-> memory,
           total |-> total, ifs |-> p.ifs, pipes |-> p.pipes]
  BY DEF Loaded
<1> DEFINE info == Loaded(i, memory, total)
<1>3. info.memory = memory /\ info.total = total /\ info.ifs = p.ifs
      /\ info.pipes = p.pipes
  BY <1>2
<1> HIDE DEF info, p
<1>4. info \in Infos
  BY <1>1, <1>2 DEF Infos, ParseStates, Pipes, info
<1>5. p.status = "parsed" /\ info.ifs # <<>> => Parsed(info)
  BY <1>3 DEF Parsed, p
<1>. QED BY <1>4, <1>5 DEF info, p

\* The pointers found for a value name a loaded configuration that has it.
LEMMA FoundByValue ==
  ASSUME NEW v, configData \in Seq(Infos), ConfigInfoByValue(v) # 0
  PROVE  /\ ConfigInfoByValue(v) \in 1..Len(configData)
         /\ configData[ConfigInfoByValue(v)].loaded
         /\ configData[ConfigInfoByValue(v)].value = v
<1> DEFINE S == {i \in 1..Len(configData) :
                   i <= numConfigs /\ configData[i].loaded /\ configData[i].value = v}
<1>1. S \subseteq Nat \ {0} /\ ConfigInfoByValue(v) = First(S)
  BY DEF ConfigInfoByValue
<1>2. First(S) \in S
  <2> HIDE DEF S
  <2>. QED BY <1>1, FirstIsLeast
<1>. QED BY <1>1, <1>2

\* The same of SetConfigPointers.
LEMMA PointersFound ==
  ASSUME NEW v, configData \in Seq(Infos), SetConfigPointers(v) # 0
  PROVE  /\ SetConfigPointers(v) \in 1..Len(configData)
         /\ configData[SetConfigPointers(v)].loaded
         /\ configData[SetConfigPointers(v)].value = v
BY FoundByValue DEF SetConfigPointers

--------------------------------------------------------------------------------
(***************************************************************************)
(* The steps of GetUsbConfigData.                                           *)
(***************************************************************************)
\* An exchange notes that the device does not answer, and nothing else.
LEMMA ExchangeNotes ==
  ASSUME NEW o, NEW memory, ExchangeAnd(o, memory), unplugged \in BOOLEAN
  PROVE  unplugged' \in BOOLEAN /\ (unplugged => unplugged') /\ (o = "lost" => unplugged')
BY DEF ExchangeAnd

\* While GetUsbConfigData is at work nobody selects.
LEMMA NobodySelects ==
  ASSUME ConfigInv, step # "ready", UNCHANGED selectVars
  PROVE  /\ select' = {} /\ BusyExplained' /\ (step' # "ready" => Selecting')
         /\ configBusy' \in BOOLEAN /\ cleared' \in BOOLEAN
         /\ busyLost' \in BOOLEAN /\ late' \in Nat
BY DEF ConfigInv, ConfigTyped, Selecting, BusyExplained, AtRest, selectVars

\* A step that changes neither the data nor the value.
LEMMA SetUpGoesOn ==
  ASSUME ConfigInv, step # "ready", step' # "ready", step' # "released", step' \in Steps,
         UNCHANGED <<device, refused, badCount, index, configData, numConfigs, pointers,
                     currentValue, devValue, selectVars>>,
         offset' \in {0, 1}, unplugged' \in BOOLEAN, SetUp'
  PROVE  ConfigInv'
<1>1. ConfigTyped'
  BY NobodySelects DEF ConfigInv, ConfigTyped
<1>2. LoadedIsParsed'
  BY DEF ConfigInv, LoadedIsParsed
<1>3. Released'
  BY DEF Released
<1>. QED BY <1>1, <1>2, <1>3, NobodySelects DEF ConfigInv

USE DEF Known, Fetching, Loading, Settling, Steps

\* GetDeviceDescriptor.
LEMMA GetDeviceDescriptorKeeps == ConfigInv /\ GetDeviceDescriptor => ConfigInv'
<1> SUFFICES ASSUME ConfigInv, GetDeviceDescriptor PROVE ConfigInv'
  OBVIOUS
<1>1. PICK o \in Outcomes, memory \in BOOLEAN :
        LET n == IF o = "full" THEN Len(Configs) ELSE 0 IN
        /\ ExchangeAnd(o, memory)
        /\ numConfigs' = n
        /\ IF o \notin {"full", "short"} \/ (o = "full" /\ n = 0)
           THEN FailSetup /\ UNCHANGED <<configData, fetchOs, resetDevice>>
           ELSE /\ configData' = IF memory THEN [i \in 1..n |-> NoInfo] ELSE <<>>
                /\ fetchOs' = registry.fetchOs
                /\ resetDevice' = registry.reset
                /\ Go(IF ~memory THEN "failed" ELSE IF registry.reset THEN "reset" ELSE "speed")
  BY Zenon DEF GetDeviceDescriptor
<1> DEFINE n == IF o = "full" THEN Len(Configs) ELSE 0
<1>2. /\ step = "deviceDescriptor" /\ device' = device /\ refused' = refused
      /\ badCount' = badCount /\ pointers' = pointers /\ UNCHANGED valueVars
      /\ UNCHANGED selectVars
  BY DEF GetDeviceDescriptor
<1>3. n \in Nat /\ n \in {0, Len(Configs)} /\ numConfigs' = n
  BY <1>1, DeviceTyped DEF ConfigInv
<1>4. unplugged' \in BOOLEAN
  BY <1>1, ExchangeNotes DEF ConfigInv, ConfigTyped
<1>5. /\ index' = index
      /\ \/ step' = "failed" /\ configData' = <<>>
         \/ step' \in {"reset", "speed"} /\ configData' = [i \in 1..n |-> NoInfo]
  <2>1. configData = <<>>
    BY <1>2 DEF ConfigInv, SetUp
  <2>. QED BY <1>1, <2>1 DEF FailSetup, Go
<1> HIDE DEF n
<1>6. NoInfo \in Infos /\ ~NoInfo.loaded
  BY DEF NoInfo, Infos
<1>7. /\ configData' \in Seq(Infos)
      /\ \A i \in 1..Len(configData') : ~configData'[i].loaded
      /\ step' # "failed" => Len(configData') = n
      /\ step' = "failed" => configData' = <<>>
  <2>1. CASE configData' = <<>>
    BY <1>3, <1>5, <2>1
  <2>2. CASE step' # "failed" /\ configData' = [i \in 1..n |-> NoInfo]
    BY <1>3, <1>6, <2>2
  <2>. QED BY <1>5, <2>1, <2>2
<1>8. step' \in {"failed", "reset", "speed"}
  BY <1>5
<1>9. ConfigTyped'
  BY <1>2, <1>3, <1>4, <1>5, <1>7, <1>8, NobodySelects DEF ConfigInv, ConfigTyped, valueVars
<1>10. LoadedIsParsed'
  BY <1>7 DEF LoadedIsParsed
<1>11. SetUp'
  <2>1. Configs' = Configs
    BY <1>2 DEF Configs
  <2>2. /\ currentValue' = 0 /\ pointers' = 0 /\ devValue' = device'.active
        /\ ~refused' /\ ~badCount' /\ offset' = 0 /\ index' = 1
    BY <1>2, <1>5 DEF ConfigInv, SetUp, valueVars
  <2>. QED BY <1>3, <1>7, <1>8, <2>1, <2>2 DEF SetUp
<1>12. Released'
  BY <1>8 DEF Released
<1>. QED BY <1>2, <1>8, <1>9, <1>10, <1>11, <1>12, NobodySelects DEF ConfigInv

\* Reset.
LEMMA ResetKeeps == ConfigInv /\ Reset => ConfigInv'
<1> SUFFICES ASSUME ConfigInv, Reset PROVE ConfigInv'
  OBVIOUS
<1>1. PICK o \in Outcomes :
        /\ Exchange(o)
        /\ IF o \in {"full", "short"}
           THEN Go("speed") /\ UNCHANGED flagVars
           ELSE IF tries + 1 < ResetTries
           THEN tries' = tries + 1 /\ UNCHANGED <<step, index, flagVars>>
           ELSE FailSetup /\ SetUsbInfo(fetchOs, FALSE)
  BY DEF Reset
<1>2. /\ step = "reset" /\ step' \in {"reset", "speed", "failed"} /\ index' = index
      /\ UNCHANGED <<device, refused, badCount, dataVars, valueVars, selectVars>>
  BY <1>1 DEF Reset, Go, FailSetup
<1>3. unplugged' \in BOOLEAN
  BY <1>1, ExchangeNotes DEF ConfigInv, ConfigTyped, Exchange
<1>4. SetUp'
  BY <1>2 DEF ConfigInv, SetUp, dataVars, valueVars, OffsetFound, Configs
<1>. QED BY <1>2, <1>3, <1>4, SetUpGoesOn DEF dataVars, valueVars, ConfigInv, ConfigTyped

\* GetDeviceSpeed.
LEMMA GetDeviceSpeedKeeps == ConfigInv /\ GetDeviceSpeed => ConfigInv'
<1> SUFFICES ASSUME ConfigInv, GetDeviceSpeed PROVE ConfigInv'
  OBVIOUS
<1>1. PICK o \in Outcomes : WaitsInVain(o) /\ Exchange(o)
  BY DEF GetDeviceSpeed
<1>2. /\ step = "speed" /\ step' = IF numConfigs = 0 THEN "failed" ELSE "header"
      /\ index' = index
      /\ UNCHANGED <<device, refused, badCount, dataVars, valueVars, selectVars>>
  BY DEF GetDeviceSpeed, Go
<1>3. unplugged' \in BOOLEAN
  BY <1>1, ExchangeNotes DEF ConfigInv, ConfigTyped, Exchange
<1>4. SetUp'
  <2>1. /\ numConfigs \in {0, Len(Configs)} /\ Len(configData) = numConfigs
        /\ offset = 0 /\ index = 1 /\ currentValue = 0 /\ pointers = 0
        /\ devValue = device.active /\ ~refused /\ ~badCount
        /\ Len(Configs) \in Nat
    BY <1>2, DeviceTyped DEF ConfigInv, SetUp
  <2>2. Configs' = Configs
    BY <1>2 DEF Configs
  <2>3. CASE numConfigs = 0
    BY <1>2, <2>1, <2>2, <2>3 DEF SetUp, dataVars, valueVars
  <2>4. CASE numConfigs # 0
    BY <1>2, <2>1, <2>2, <2>4 DEF SetUp, dataVars, valueVars
  <2>. QED BY <2>3, <2>4
<1>. QED BY <1>2, <1>3, <1>4, SetUpGoesOn DEF dataVars, valueVars, ConfigInv, ConfigTyped

\* GetConfigHeader: here the offset is found.
LEMMA GetConfigHeaderKeeps == ConfigInv /\ GetConfigHeader => ConfigInv'
<1> SUFFICES ASSUME ConfigInv, GetConfigHeader PROVE ConfigInv'
  OBVIOUS
<1>1. PICK o \in Outcomes, memory \in BOOLEAN :
        /\ ExchangeAnd(o, memory)
        /\ offset' = IF o = "full" THEN NewOffset(index) ELSE offset
        /\ Go(IF o = "full" /\ ValueAllowed(index) /\ memory
                   /\ Configs[index].total >= ConfigLength
              THEN "body" ELSE "failed")
  BY Zenon DEF GetConfigHeader
<1>2. /\ step = "header" /\ step' \in {"body", "failed"} /\ index' = index
      /\ UNCHANGED <<device, refused, badCount, dataVars, currentValue, devValue, selectVars>>
  BY <1>1 DEF GetConfigHeader, Go
<1>3. unplugged' \in BOOLEAN
  BY <1>1, ExchangeNotes DEF ConfigInv, ConfigTyped
<1>4. /\ index \in Nat \ {0} /\ index <= Len(Configs) /\ numConfigs = Len(Configs)
      /\ Len(configData) = Len(Configs) /\ Len(Configs) \in Nat /\ offset \in {0, 1}
      /\ index = 1 => offset = 0
      /\ index > 1 => OffsetFound
      /\ currentValue = 0 /\ pointers = 0 /\ devValue = device.active /\ ~refused /\ ~badCount
  BY <1>2, DeviceTyped DEF ConfigInv, ConfigTyped, SetUp
<1>5. offset' \in {0, 1}
  BY <1>1, <1>4 DEF NewOffset
<1>6. Configs' = Configs
  BY <1>2 DEF Configs
<1>7. step' = "body" => OffsetFound'
  <2> SUFFICES ASSUME step' = "body" PROVE OffsetFound'
    OBVIOUS
  <2>1. ValueAllowed(index) /\ offset' = NewOffset(index)
    BY <1>1 DEF Go
  <2>2. CASE index = 1
    BY <1>4, <1>6, <2>1, <2>2 DEF OffsetFound, NewOffset, ValueAllowed
  <2>3. CASE index > 1
    BY <1>4, <1>6, <2>1, <2>3 DEF OffsetFound, NewOffset, ValueAllowed
  <2>. QED BY <1>4, <2>2, <2>3
<1>8. SetUp'
  BY <1>2, <1>4, <1>6, <1>7 DEF SetUp, dataVars
<1>. QED BY <1>2, <1>3, <1>5, <1>8, SetUpGoesOn DEF dataVars

\* GetConfigBody: what it loads has passed ParseConfig.
LEMMA GetConfigBodyKeeps == ConfigInv /\ GetConfigBody => ConfigInv'
<1> SUFFICES ASSUME ConfigInv, GetConfigBody PROVE ConfigInv'
  OBVIOUS
<1> DEFINE status(memory, total) == ParseConfig(memory, total).status
<1> DEFINE ok(o, memory, total, arrays) ==
      o = "full" /\ status(memory, total) = "parsed" /\ Loaded(index, memory, total).ifs # <<>>
        /\ arrays
<1>1. PICK o \in Outcomes, partial \in BOOLEAN, arrays \in BOOLEAN,
         total \in {Configs[index].total} \cup OtherTotals :
        \E memory \in BufferHolds(index, partial, total) :
          /\ ExchangeAnd(o, arrays /\ ~partial /\ total = Configs[index].total)
          /\ configData' = IF ok(o, memory, total, arrays)
                           THEN [configData EXCEPT ![index] = Loaded(index, memory, total)]
                           ELSE configData
          /\ IF ok(o, memory, total, arrays) /\ index < numConfigs
             THEN step' = "header" /\ index' = index + 1 /\ UNCHANGED tries
             ELSE Go(IF ok(o, memory, total, arrays) THEN "osString"
                     ELSE IF o = "full" /\ status(memory, total) = "loops" THEN "hung"
                     ELSE "failed")
  BY Zenon DEF GetConfigBody
<1>2. PICK memory \in BufferHolds(index, partial, total) :
        /\ ExchangeAnd(o, arrays /\ ~partial /\ total = Configs[index].total)
        /\ configData' = IF ok(o, memory, total, arrays)
                         THEN [configData EXCEPT ![index] = Loaded(index, memory, total)]
                         ELSE configData
        /\ IF ok(o, memory, total, arrays) /\ index < numConfigs
           THEN step' = "header" /\ index' = index + 1 /\ UNCHANGED tries
           ELSE Go(IF ok(o, memory, total, arrays) THEN "osString"
                   ELSE IF o = "full" /\ status(memory, total) = "loops" THEN "hung" ELSE "failed")
  BY <1>1, Zenon
<1>3. /\ step = "body"
      /\ UNCHANGED <<device, refused, badCount, numConfigs, pointers, valueVars, selectVars>>
  BY DEF GetConfigBody
<1>4. unplugged' \in BOOLEAN
  BY <1>2, ExchangeNotes DEF ConfigInv, ConfigTyped
<1>5. /\ index \in Nat \ {0} /\ index <= Len(Configs) /\ numConfigs = Len(Configs)
      /\ Len(configData) = Len(Configs) /\ Len(Configs) \in Nat
      /\ index \in 1..Len(Configs) /\ configData \in Seq(Infos) /\ OffsetFound
      /\ currentValue = 0 /\ pointers = 0 /\ devValue = device.active /\ ~refused /\ ~badCount
  BY <1>3, DeviceTyped DEF ConfigInv, ConfigTyped, SetUp
<1>6. memory \in Seq(Descriptors) /\ total \in Nat
  <2>1. Configs[index].memory \in Seq(Descriptors) /\ Configs[index].total \in Nat
    BY <1>5, DeviceTyped DEF ConfigInv
  <2>2. total \in Nat
    BY <2>1, OtherTotalsAssumption
  <2>3. \A g \in Garbage : g \in Seq(Descriptors) /\ Tail(g) \in Seq(Descriptors)
    BY GarbageAssumption
  <2>4. \A g \in Garbage : Configs[index].memory \o Tail(g) \in Seq(Descriptors)
    BY <2>1, <2>3
  <2>. QED BY <1>2, <2>1, <2>2, <2>3, <2>4 DEF BufferHolds
<1> DEFINE loaded == ok(o, memory, total, arrays)
<1> DEFINE info == Loaded(index, memory, total)
<1>7. info \in Infos /\ (loaded => Parsed(info))
  BY <1>5, <1>6, LoadedTyped DEF ConfigInv
<1>8. configData' = IF loaded THEN [configData EXCEPT ![index] = info] ELSE configData
  BY <1>2
<1>9. \/ loaded /\ index < numConfigs /\ step' = "header" /\ index' = index + 1
      \/ step' \in {"osString", "hung", "failed"} /\ index' = index
  BY <1>2 DEF Go
<1> HIDE DEF loaded, info
<1>10. /\ configData' \in Seq(Infos) /\ Len(configData') = Len(configData)
       /\ \A i \in 1..Len(configData) :
            configData'[i] = IF loaded /\ i = index THEN info ELSE configData[i]
  BY <1>5, <1>7, <1>8
<1>11. LoadedIsParsed'
  BY <1>7, <1>10 DEF LoadedIsParsed, ConfigInv
<1>12. Configs' = Configs /\ OffsetFound'
  BY <1>3, <1>5 DEF Configs, OffsetFound, valueVars
<1>13. step' # "ready" /\ step' \in Steps /\ index' \in Nat \ {0}
  BY <1>5, <1>9
<1>14. ConfigTyped'
  BY <1>3, <1>4, <1>10, <1>13, NobodySelects DEF ConfigInv, ConfigTyped, valueVars
<1>15. SetUp'
  BY <1>3, <1>5, <1>9, <1>10, <1>12 DEF SetUp, valueVars
<1>16. Released'
  BY <1>9 DEF Released
<1>. QED BY <1>3, <1>11, <1>13, <1>14, <1>15, <1>16, NobodySelects DEF ConfigInv

\* GetOsString, OsReset, GetOsFeature and GetStrings: they change nothing of it.
LEMMA StringsKeep ==
  ConfigInv /\ (GetOsString \/ OsReset \/ GetOsFeature \/ GetStrings) => ConfigInv'
<1> SUFFICES ASSUME ConfigInv, GetOsString \/ OsReset \/ GetOsFeature \/ GetStrings
             PROVE ConfigInv'
  OBVIOUS
<1>1. unplugged' \in BOOLEAN
  <2>1. (\E o \in Outcomes : Exchange(o)) \/ NoExchange
    BY DEF GetOsString, OsReset, GetOsFeature, GetStrings
  <2>2. CASE NoExchange
    BY <2>2 DEF NoExchange, linkVars, ConfigInv, ConfigTyped
  <2>3. ASSUME NEW o \in Outcomes, Exchange(o) PROVE unplugged' \in BOOLEAN
    BY <2>3, ExchangeNotes DEF ConfigInv, ConfigTyped, Exchange
  <2>. QED BY <2>1, <2>2, <2>3
<1>2. /\ UNCHANGED <<device, refused, badCount, configData, numConfigs, pointers, valueVars,
                     selectVars>>
      /\ index' = index /\ step \in Loading
      /\ step' \in {"osReset", "osHeader", "osBody", "strings", "getConfig"}
  BY DEF GetOsString, OsReset, GetOsFeature, GetStrings, Go, dataVars
<1>3. SetUp'
  BY <1>2 DEF ConfigInv, SetUp, valueVars, OffsetFound, Configs
<1>. QED BY <1>1, <1>2, <1>3, SetUpGoesOn DEF valueVars, ConfigInv, ConfigTyped

\* GetCurrentConfigurationLocked: what it leaves in the value.
LEMMA ValueRead ==
  ASSUME ConfigTyped, NEW o \in Outcomes, GetCurrentConfigurationLocked(o)
  PROVE  /\ unplugged' \in BOOLEAN /\ (unplugged => unplugged')
         /\ ~unplugged' => currentValue' \in {devValue, currentValue}
         /\ ~unplugged' /\ o # "full" => currentValue' = currentValue
         /\ ~unplugged' /\ o = "full" => currentValue' = devValue
         /\ ~Waited(o) => unplugged'
<1>1. Exchange(o) /\ WaitsInVain(o) /\ currentValue' \in ReadValues(o)
  BY DEF GetCurrentConfigurationLocked
<1>2. unplugged' \in BOOLEAN /\ (unplugged => unplugged') /\ (o = "lost" => unplugged')
  BY <1>1, ExchangeNotes DEF Exchange, ConfigTyped
<1>3. ~Waited(o) => o = "lost" \/ unplugged
  BY <1>1 DEF Waited, WaitsInVain, Outcomes, Answered
<1>. QED BY <1>1, <1>2, <1>3 DEF ReadValues

\* SetCurrentConfigurationLocked: what the value, and the device, are afterwards.
LEMMA ValueSet ==
  ASSUME ConfigTyped, NEW o \in Outcomes, NEW v, SetCurrentConfigurationLocked(o, v)
  PROVE  /\ unplugged' \in BOOLEAN /\ (unplugged => unplugged')
         /\ refused' \in BOOLEAN
         /\ Waited(o) => currentValue' = v /\ (~refused' => devValue' = v)
         /\ ~Waited(o) => unplugged'
<1>1. /\ Exchange(o) /\ WaitsInVain(o)
      /\ currentValue' = IF Waited(o) THEN v ELSE currentValue
      /\ refused' = IF Waited(o) THEN devValue' # v ELSE refused
  BY DEF SetCurrentConfigurationLocked
<1>2. unplugged' \in BOOLEAN /\ (unplugged => unplugged') /\ (o = "lost" => unplugged')
  BY <1>1, ExchangeNotes DEF Exchange, ConfigTyped
<1>3. ~Waited(o) => o = "lost" \/ unplugged
  BY <1>1 DEF Waited, WaitsInVain, Outcomes, Answered
<1>4. refused' \in BOOLEAN
  BY <1>1 DEF ConfigTyped
<1>. QED BY <1>1, <1>2, <1>3, <1>4

\* The step that makes the device ready, or fails to.
LEMMA ReadyOrFailed ==
  ASSUME ConfigInv, step \in {"getConfig", "setConfig"}, step' \in {"setConfig", "ready", "failed"},
         UNCHANGED <<device, badCount, configData, numConfigs, offset, index, selectVars>>,
         unplugged' \in BOOLEAN, refused' \in BOOLEAN,
         step' = "ready" /\ ~unplugged' =>
           PointersAgree' /\ (~refused' => currentValue' = devValue')
  PROVE  ConfigInv'
<1>1. /\ select' = {} /\ BusyExplained' /\ configBusy' \in BOOLEAN /\ cleared' \in BOOLEAN
      /\ busyLost' \in BOOLEAN /\ late' \in Nat
  BY NobodySelects
<1>2. ConfigTyped'
  BY <1>1 DEF ConfigInv, ConfigTyped
<1>3. LoadedIsParsed'
  BY DEF ConfigInv, LoadedIsParsed
<1>4. SetUp'
  BY DEF ConfigInv, SetUp, Configs
<1>5. Selecting'
  BY <1>1 DEF Selecting, AtRest
<1>6. Released'
  BY DEF Released
<1>. QED BY <1>1, <1>2, <1>3, <1>4, <1>5, <1>6 DEF ConfigInv

\* GetDefaultConfiguration.
LEMMA GetDefaultConfigurationKeeps == ConfigInv /\ GetDefaultConfiguration => ConfigInv'
<1> SUFFICES ASSUME ConfigInv, GetDefaultConfiguration PROVE ConfigInv'
  OBVIOUS
<1> DEFINE set == /\ CurrentConfigValue(currentValue', offset) = 0
                  /\ currentValue' # Configs[1].value + offset
<1>1. PICK o \in Outcomes :
        /\ GetCurrentConfigurationLocked(o)
        /\ Go(IF ~Waited(o) THEN "failed" ELSE IF set THEN "setConfig" ELSE "ready")
        /\ pointers' = IF Waited(o) /\ ~set THEN SetConfigPointers(currentValue') ELSE pointers
  BY Zenon DEF GetDefaultConfiguration
<1>2. /\ step = "getConfig"
      /\ UNCHANGED <<device, refused, badCount, configData, numConfigs, offset, devValue,
                     selectVars>>
  BY DEF GetDefaultConfiguration
<1>3. /\ unplugged' \in BOOLEAN
      /\ ~unplugged' /\ o # "full" => currentValue' = currentValue
      /\ ~unplugged' /\ o = "full" => currentValue' = devValue
  BY <1>1, ValueRead DEF ConfigInv
<1>4. /\ index' = index /\ step' \in {"setConfig", "ready", "failed"}
      /\ step' = "ready" => Waited(o) /\ ~set
  BY <1>1 DEF Go
<1>5. ASSUME step' = "ready" PROVE PointersAgree'
  <2>1. pointers' = SetConfigPointers(currentValue') /\ configData \in Seq(Infos)
    BY <1>1, <1>4, <1>5 DEF ConfigInv, ConfigTyped
  <2>2. pointers' # 0 => /\ pointers' \in 1..Len(configData)
                         /\ configData[pointers'].loaded
                         /\ configData[pointers'].value = currentValue'
    BY <2>1, PointersFound
  <2>. QED BY <1>2, <2>2 DEF PointersAgree
<1>6. ASSUME step' = "ready", ~unplugged' PROVE currentValue' = devValue'
  <2>1. OffsetFound /\ currentValue = 0 /\ devValue = device.active
        /\ Len(Configs) \in Nat /\ Len(Configs) > 0
    BY <1>2, DeviceTyped DEF ConfigInv, SetUp
  <2>2. Configs[1].value \in 0..255
        /\ device.active \in {0} \cup {Configs[i].value : i \in 1..Len(Configs)}
    <3>1. 1 \in 1..Len(Configs) /\ ConfigTyped
      BY <2>1 DEF ConfigInv
    <3>. QED BY <3>1, DeviceTyped
  <2>3. CASE o = "full"
    BY <1>2, <1>3, <1>6, <2>3
  <2>4. CASE o # "full"
    <3>1. currentValue' = 0 /\ ~set
      BY <1>3, <1>4, <1>6, <2>1, <2>4
    <3>2. CASE offset = 0 /\ Configs[1].value # 0
      <4>1. (0 - 0) % 256 = 0
        OBVIOUS
      <4>2. CurrentConfigValue(currentValue', offset) = 0
        BY <3>1, <3>2, <4>1 DEF CurrentConfigValue
      <4>3. currentValue' # Configs[1].value + offset
        <5> DEFINE first == Configs[1].value
        <5>1. first \in 0..255 /\ first # 0
          BY <2>2, <3>2
        <5> HIDE DEF first
        <5>2. first + 0 # 0
          BY <5>1
        <5>. QED BY <3>1, <3>2, <5>2 DEF first
      <4>. QED BY <3>1, <4>2, <4>3
    <3>3. CASE offset = 1 /\ Configs[1].value = 0 /\ Len(Configs) = 1
      <4>1. device.active = 0
        BY <2>2, <3>3
      <4>. QED BY <1>2, <2>1, <3>1, <4>1
    <3>. QED BY <2>1, <3>2, <3>3 DEF OffsetFound
  <2>. QED BY <2>3, <2>4
<1>7. refused' \in BOOLEAN
  BY <1>2 DEF ConfigInv, ConfigTyped
<1>. QED BY <1>2, <1>3, <1>4, <1>5, <1>6, <1>7, ReadyOrFailed

\* SetDefaultConfiguration.
LEMMA SetDefaultConfigurationKeeps == ConfigInv /\ SetDefaultConfiguration => ConfigInv'
<1> SUFFICES ASSUME ConfigInv, SetDefaultConfiguration PROVE ConfigInv'
  OBVIOUS
<1> DEFINE default == Configs[1].value + offset
<1>1. PICK o \in Outcomes :
        /\ SetCurrentConfigurationLocked(o, default)
        /\ Go(IF Waited(o) THEN "ready" ELSE "failed")
        /\ pointers' = IF Waited(o) THEN SetConfigPointers(currentValue') ELSE pointers
  BY DEF SetDefaultConfiguration
<1>2. /\ step = "setConfig"
      /\ UNCHANGED <<device, badCount, configData, numConfigs, offset, selectVars>>
  BY DEF SetDefaultConfiguration
<1> HIDE DEF default
<1>3. /\ unplugged' \in BOOLEAN /\ refused' \in BOOLEAN
      /\ Waited(o) => currentValue' = default /\ (~refused' => devValue' = default)
  BY <1>1, ValueSet DEF ConfigInv
<1>4. /\ index' = index /\ step' \in {"ready", "failed"}
      /\ step' = "ready" => Waited(o)
  BY <1>1 DEF Go
<1>5. ASSUME step' = "ready" PROVE PointersAgree'
  <2>1. pointers' = SetConfigPointers(currentValue') /\ configData \in Seq(Infos)
    BY <1>1, <1>4, <1>5 DEF ConfigInv, ConfigTyped
  <2>2. pointers' # 0 => /\ pointers' \in 1..Len(configData)
                         /\ configData[pointers'].loaded
                         /\ configData[pointers'].value = currentValue'
    BY <2>1, PointersFound
  <2>. QED BY <1>2, <2>2 DEF PointersAgree
<1>. QED BY <1>2, <1>3, <1>4, <1>5, ReadyOrFailed

--------------------------------------------------------------------------------
(***************************************************************************)
(* The requests of the client, and the end.                                 *)
(***************************************************************************)
\* A step of a device that is ready, and stays so, with the same data.
LEMMA ReadyGoesOn ==
  ASSUME ConfigInv, step = "ready", step' = "ready",
         UNCHANGED <<device, badCount, configData, numConfigs, offset, index>>,
         unplugged' \in BOOLEAN, refused' \in BOOLEAN,
         configBusy' \in BOOLEAN, cleared' \in BOOLEAN, busyLost' \in BOOLEAN, late' \in Nat,
         Selecting', BusyExplained'
  PROVE  ConfigInv'
<1>1. ConfigTyped'
  BY DEF ConfigInv, ConfigTyped
<1>2. LoadedIsParsed'
  BY DEF ConfigInv, LoadedIsParsed
<1>3. SetUp'
  BY DEF ConfigInv, SetUp, Configs
<1>4. Released'
  BY DEF Released
<1>. QED BY <1>1, <1>2, <1>3, <1>4 DEF ConfigInv

\* How a selection ends: with the lock, late, or with ConfigBusy left set.
Ends == Finish \/ FinishSelected \/ FinishFailed \/ FinishBusy

\* Whatever way it ends, ConfigBusy is explained.
LEMMA EndExplained ==
  ASSUME ConfigInv, Ends
  PROVE  /\ select' = {} /\ BusyExplained'
         /\ configBusy' \in BOOLEAN /\ cleared' \in BOOLEAN
         /\ busyLost' \in BOOLEAN /\ late' \in Nat
<1>1. /\ late \in Nat /\ late + 1 \in Nat /\ late + 1 > 0
      /\ cleared \in BOOLEAN /\ busyLost \in BOOLEAN
  BY DEF ConfigInv, ConfigTyped
<1>2. CASE Finish
  BY <1>1, <1>2 DEF Finish, End, BusyExplained
<1>3. CASE FinishSelected
  BY <1>1, <1>3 DEF FinishSelected, End, BusyExplained
<1>4. CASE FinishFailed
  BY <1>1, <1>4 DEF FinishFailed, End, BusyExplained
<1>5. CASE FinishBusy
  BY <1>1, <1>5 DEF FinishBusy, End, BusyExplained
<1>. QED BY <1>2, <1>3, <1>4, <1>5 DEF Ends

\* When it begins, too.
LEMMA BeginExplained ==
  ASSUME ConfigInv, NEW s, Begin(s)
  PROVE  /\ select' = {s} /\ BusyExplained'
         /\ configBusy' \in BOOLEAN /\ cleared' \in BOOLEAN
         /\ busyLost' \in BOOLEAN /\ late' \in Nat
BY DEF Begin, BusyExplained, ConfigInv, ConfigTyped

\* A selection ends and leaves pointers and value in agreement.
LEMMA EndsInAgreement ==
  ASSUME ConfigInv, step = "ready", step' = "ready",
         UNCHANGED <<device, badCount, configData, numConfigs, offset, index>>,
         unplugged' \in BOOLEAN, refused' \in BOOLEAN, Ends,
         ~unplugged' => PointersAgree' /\ (~refused' => currentValue' = devValue')
  PROVE  ConfigInv'
<1>1. /\ select' = {} /\ BusyExplained'
      /\ configBusy' \in BOOLEAN /\ cleared' \in BOOLEAN /\ busyLost' \in BOOLEAN /\ late' \in Nat
  BY EndExplained
<1>2. Selecting'
  BY <1>1 DEF Selecting, AtRest
<1>. QED BY <1>1, <1>2, ReadyGoesOn

\* A selection begins, or goes on to its next exchange.
LEMMA BeginsInAgreement ==
  ASSUME ConfigInv, step = "ready", step' = "ready",
         UNCHANGED <<device, badCount, configData, numConfigs, offset, index>>,
         unplugged' \in BOOLEAN, refused' \in BOOLEAN, NEW s, Begin(s),
         ~unplugged' /\ s.kind # "interface" =>
           PointersAgree' /\ (~refused' => currentValue' = devValue'),
         s.kind = "read" => pointers' = 0,
         s.kind = "interface" /\ ~unplugged' /\ ~refused' => s.value = devValue'
  PROVE  ConfigInv'
<1>1. /\ select' = {s} /\ BusyExplained'
      /\ configBusy' \in BOOLEAN /\ cleared' \in BOOLEAN /\ busyLost' \in BOOLEAN /\ late' \in Nat
  BY BeginExplained
<1>2. Selecting'
  BY <1>1 DEF Selecting, AtRest
<1>. QED BY <1>1, <1>2, ReadyGoesOn

\* SetConfigPointers for the value that is noted.
LEMMA PointersSet ==
  ASSUME ConfigInv, NEW v, currentValue' = v, pointers' = SetConfigPointers(v),
         configData' = configData
  PROVE  PointersAgree'
BY PointersFound DEF PointersAgree, ConfigInv, ConfigTyped

\* Nothing that is at rest changes.
LEMMA AgreementStays ==
  ASSUME ConfigInv, step = "ready", ~unplugged, \A s \in select : s.kind # "interface",
         UNCHANGED <<configData, currentValue, pointers, devValue>>, refused => refused'
  PROVE  PointersAgree' /\ (~refused' => currentValue' = devValue')
BY DEF PointersAgree, ConfigInv, Selecting, AtRest

\* SelectConfiguration.
LEMMA SelectConfigurationKeeps ==
  ASSUME ConfigInv, NEW v, SelectConfiguration(v)
  PROVE  ConfigInv'
<1> DEFINE i == ConfigInfoByValue(v)
<1>1. \E list \in (IF i = 0 THEN {NoInterfaces}
                   ELSE {L \in SUBSET Requested(configData[i]) : Cardinality(L) <= 2}) :
        IF v = 0 /\ offset # 1
        THEN Begin([kind |-> "unconfigure"]) /\ UNCHANGED <<currentValue, pointers>>
        ELSE IF pointers = 0 THEN Begin([kind |-> "read"]) /\ UNCHANGED <<currentValue, pointers>>
        ELSE IF i = 0 \/ ~ListValid(configData[i], list)
        THEN FinishFailed /\ UNCHANGED <<currentValue, pointers>>
        ELSE IF v = 0 /\ currentValue = 0 THEN FinishSelected /\ PostProcessSelectConfig(v)
        ELSE /\ Begin([kind |-> "set", value |-> v, interface |-> Cardinality(list) = 1])
             /\ UNCHANGED <<currentValue, pointers>>
  BY Zenon DEF SelectConfiguration
<1>2. /\ step = "ready" /\ ~unplugged /\ select = {}
      /\ UNCHANGED <<device, badCount, configData, numConfigs, offset, refused, devValue, step,
                     index, unplugged>>
  BY DEF SelectConfiguration, CanSelect, setupVars, linkVars
<1>3. unplugged' \in BOOLEAN /\ refused' \in BOOLEAN /\ step' = "ready"
  BY <1>2 DEF ConfigInv, ConfigTyped
<1>4. CASE Begin([kind |-> "unconfigure"]) /\ UNCHANGED <<currentValue, pointers>>
  BY <1>2, <1>3, <1>4, AgreementStays, BeginsInAgreement
<1>5. CASE pointers = 0 /\ Begin([kind |-> "read"]) /\ UNCHANGED <<currentValue, pointers>>
  BY <1>2, <1>3, <1>5, AgreementStays, BeginsInAgreement
<1>6. CASE FinishFailed /\ UNCHANGED <<currentValue, pointers>>
  BY <1>2, <1>3, <1>6, AgreementStays, EndsInAgreement DEF Ends
<1>7. CASE v = 0 /\ currentValue = 0 /\ FinishSelected /\ PostProcessSelectConfig(v)
  <2>1. currentValue' = v /\ pointers' = SetConfigPointers(v) /\ currentValue' = currentValue
    BY <1>7 DEF PostProcessSelectConfig
  <2>2. PointersAgree'
    BY <1>2, <2>1, PointersSet
  <2>3. ~refused' => currentValue' = devValue'
    BY <1>2, <2>1 DEF ConfigInv, Selecting, AtRest
  <2>. QED BY <1>2, <1>3, <1>7, <2>2, <2>3, EndsInAgreement DEF Ends
<1>8. ASSUME NEW b, Begin([kind |-> "set", value |-> v, interface |-> b]),
             UNCHANGED <<currentValue, pointers>>
      PROVE  ConfigInv'
  BY <1>2, <1>3, <1>8, AgreementStays, BeginsInAgreement
<1>. QED BY <1>1, <1>4, <1>5, <1>6, <1>7, <1>8, Zenon

\* ReadBeforeSelect.
LEMMA ReadBeforeSelectKeeps == ConfigInv /\ ReadBeforeSelect => ConfigInv'
<1> SUFFICES ASSUME ConfigInv, ReadBeforeSelect PROVE ConfigInv'
  OBVIOUS
<1> DEFINE s == [kind |-> "read"]
<1>1. PICK o \in Outcomes : GetCurrentConfigurationLocked(o)
  BY DEF ReadBeforeSelect
<1>2. /\ s \in select /\ FinishFailed
      /\ UNCHANGED <<device, refused, badCount, configData, numConfigs, pointers, offset, devValue,
                     step, index>>
  BY DEF ReadBeforeSelect, dataVars, setupVars
<1>3. step = "ready" /\ pointers = 0 /\ \A t \in select : t.kind # "interface"
  BY <1>2 DEF ConfigInv, Selecting
<1>4. /\ unplugged' \in BOOLEAN /\ (unplugged => unplugged')
      /\ ~unplugged' => currentValue' \in {devValue, currentValue}
  BY <1>1, ValueRead DEF ConfigInv
<1>5. PointersAgree'
  BY <1>2, <1>3 DEF PointersAgree
<1>6. ~unplugged' /\ ~refused' => currentValue' = devValue'
  BY <1>2, <1>3, <1>4 DEF ConfigInv, Selecting, AtRest
<1>7. refused' \in BOOLEAN /\ step' = "ready"
  BY <1>2, <1>3 DEF ConfigInv, ConfigTyped
<1>. QED BY <1>2, <1>3, <1>4, <1>5, <1>6, <1>7, EndsInAgreement DEF Ends


\* SetSelected.
LEMMA SetSelectedKeeps == ConfigInv /\ SetSelected => ConfigInv'
<1> SUFFICES ASSUME ConfigInv, SetSelected PROVE ConfigInv'
  OBVIOUS
<1>1. PICK s \in select, o \in Outcomes :
        /\ s.kind = "set"
        /\ SetCurrentConfigurationLocked(o, s.value)
        /\ IF Waited(o) /\ s.interface
           THEN Begin([kind |-> "interface", value |-> s.value]) /\ UNCHANGED pointers
           ELSE IF Waited(o) THEN FinishSelected /\ pointers' = SetConfigPointers(s.value)
           ELSE FinishFailed /\ UNCHANGED pointers
  BY DEF SetSelected
<1>2. /\ step = "ready" /\ step' = "ready"
      /\ UNCHANGED <<device, badCount, configData, numConfigs, offset, index>>
  <2>1. UNCHANGED <<device, badCount, configData, numConfigs, offset, setupVars>>
    BY DEF SetSelected
  <2>. QED BY <1>1, <2>1 DEF setupVars, ConfigInv, Selecting
<1>3. /\ unplugged' \in BOOLEAN /\ refused' \in BOOLEAN
      /\ Waited(o) => currentValue' = s.value /\ (~refused' => devValue' = s.value)
      /\ ~Waited(o) => unplugged'
  BY <1>1, ValueSet DEF ConfigInv
<1>4. CASE Waited(o) /\ s.interface
  <2> DEFINE t == [kind |-> "interface", value |-> s.value]
  <2>1. Begin(t) /\ t.kind = "interface" /\ t.value = s.value
    BY <1>1, <1>4
  <2> HIDE DEF t
  <2>. QED BY <1>2, <1>3, <1>4, <2>1, BeginsInAgreement
<1>5. CASE Waited(o) /\ ~s.interface
  <2>1. FinishSelected /\ pointers' = SetConfigPointers(s.value)
    BY <1>1, <1>5
  <2>2. PointersAgree'
    BY <1>2, <1>3, <1>5, <2>1, PointersSet
  <2>. QED BY <1>2, <1>3, <1>5, <2>1, <2>2, EndsInAgreement DEF Ends
<1>6. CASE ~Waited(o)
  <2>1. FinishFailed
    BY <1>1, <1>6
  <2>. QED BY <1>2, <1>3, <1>6, <2>1, EndsInAgreement DEF Ends
<1>. QED BY <1>4, <1>5, <1>6

\* SetSelectedInterface: the value is noted only now.
LEMMA SetSelectedInterfaceKeeps == ConfigInv /\ SetSelectedInterface => ConfigInv'
<1> SUFFICES ASSUME ConfigInv, SetSelectedInterface PROVE ConfigInv'
  OBVIOUS
<1>1. PICK s \in select, o \in Outcomes :
        /\ s.kind = "interface"
        /\ WaitsInVain(o) /\ Exchange(o)
        /\ IF Waited(o) THEN FinishSelected /\ PostProcessSelectConfig(s.value)
           ELSE FinishFailed /\ UNCHANGED <<currentValue, pointers>>
  BY DEF SetSelectedInterface
<1>2. /\ step = "ready" /\ step' = "ready"
      /\ UNCHANGED <<device, refused, badCount, configData, numConfigs, offset, devValue, index>>
  <2>1. UNCHANGED <<device, refused, badCount, configData, numConfigs, offset, devValue, setupVars>>
    BY DEF SetSelectedInterface
  <2>. QED BY <1>1, <2>1 DEF setupVars, ConfigInv, Selecting
<1>3. unplugged' \in BOOLEAN /\ (unplugged => unplugged') /\ (o = "lost" => unplugged')
  BY <1>1, ExchangeNotes DEF Exchange, ConfigInv, ConfigTyped
<1>4. refused' \in BOOLEAN
  BY <1>2 DEF ConfigInv, ConfigTyped
<1>5. CASE Waited(o)
  <2>1. FinishSelected /\ currentValue' = s.value /\ pointers' = SetConfigPointers(s.value)
    BY <1>1, <1>5 DEF PostProcessSelectConfig
  <2>2. PointersAgree'
    BY <1>2, <2>1, PointersSet
  <2>3. ~unplugged' /\ ~refused' => currentValue' = devValue'
    BY <1>1, <1>2, <1>3, <2>1 DEF ConfigInv, Selecting
  <2>. QED BY <1>2, <1>3, <1>4, <2>1, <2>2, <2>3, EndsInAgreement DEF Ends
<1>6. CASE ~Waited(o)
  <2>1. FinishFailed
    BY <1>1, <1>6
  <2>2. unplugged'
    BY <1>1, <1>3, <1>6 DEF Waited, WaitsInVain, Outcomes, Answered
  <2>. QED BY <1>2, <1>3, <1>4, <2>1, <2>2, EndsInAgreement DEF Ends
<1>. QED BY <1>5, <1>6

\* Unconfigured.
LEMMA UnconfiguredKeeps == ConfigInv /\ Unconfigured => ConfigInv'
<1> SUFFICES ASSUME ConfigInv, Unconfigured PROVE ConfigInv'
  OBVIOUS
<1> DEFINE s == [kind |-> "unconfigure"]
<1>1. s \in select /\ s.kind # "interface" /\ refused' = (refused \/ busyLost')
  BY DEF Unconfigured
<1>2. UNCHANGED <<device, badCount, configData, numConfigs, offset, step, index, unplugged>>
  BY DEF Unconfigured, setupVars, linkVars
<1>3. \/ Finish /\ currentValue' = 0 /\ pointers' = SetConfigPointers(0) /\ devValue' = 0
      \/ Finish /\ UNCHANGED <<currentValue, pointers, devValue>>
      \/ FinishBusy /\ UNCHANGED <<currentValue, pointers>>
  BY DEF Unconfigured, PostProcessSelectConfig
<1> HIDE DEF s
<1>4. step = "ready" /\ step' = "ready" /\ \A t \in select : t.kind # "interface"
  BY <1>1, <1>2 DEF ConfigInv, Selecting
<1>5. /\ unplugged' \in BOOLEAN /\ busyLost' \in BOOLEAN /\ refused \in BOOLEAN
  BY <1>2, <1>3, EndExplained DEF Ends, ConfigInv, ConfigTyped
<1>6. refused' \in BOOLEAN /\ (refused => refused')
  BY <1>1, <1>5
<1>7. ASSUME ~unplugged' PROVE PointersAgree' /\ (~refused' => currentValue' = devValue')
  <2>1. CASE Finish /\ currentValue' = 0 /\ pointers' = SetConfigPointers(0) /\ devValue' = 0
    BY <1>2, <2>1, PointersSet
  <2>2. CASE Finish /\ UNCHANGED <<currentValue, pointers, devValue>>
    BY <1>2, <1>4, <1>6, <1>7, <2>2, AgreementStays
  <2>3. CASE FinishBusy /\ UNCHANGED <<currentValue, pointers>>
    <3>1. refused'
      BY <1>1, <2>3 DEF FinishBusy
    <3>2. PointersAgree
      BY <1>2, <1>4, <1>7 DEF ConfigInv, Selecting, AtRest
    <3>. QED BY <1>2, <2>3, <3>1, <3>2 DEF PointersAgree
  <2>. QED BY <1>3, <2>1, <2>2, <2>3
<1>. QED BY <1>2, <1>3, <1>4, <1>5, <1>6, <1>7, EndsInAgreement DEF Ends

\* SelectInterface.
LEMMA SelectInterfaceKeeps == ConfigInv /\ SelectInterface => ConfigInv'
<1> SUFFICES ASSUME ConfigInv, SelectInterface PROVE ConfigInv'
  OBVIOUS
<1> DEFINE s == [kind |-> "alternate"]
<1>1. Finish \/ Begin(s) \/ FinishBusy
  BY Zenon DEF SelectInterface
<1>2. /\ step = "ready" /\ ~unplugged /\ select = {}
      /\ UNCHANGED <<device, refused, badCount, dataVars, valueVars, setupVars, linkVars>>
  BY DEF SelectInterface, CanSelect
<1>3. /\ step' = "ready" /\ unplugged' \in BOOLEAN /\ refused' \in BOOLEAN /\ index' = index
      /\ UNCHANGED <<configData, numConfigs, pointers, currentValue, offset, devValue>>
  BY <1>2 DEF dataVars, valueVars, setupVars, linkVars, ConfigInv, ConfigTyped
<1>4. PointersAgree' /\ (~refused' => currentValue' = devValue')
  BY <1>2, <1>3, AgreementStays
<1>5. s.kind = "alternate"
  OBVIOUS
<1> HIDE DEF s
<1>6. CASE Begin(s)
  BY <1>2, <1>3, <1>4, <1>5, <1>6, BeginsInAgreement
<1>7. CASE Finish \/ FinishBusy
  BY <1>2, <1>3, <1>4, <1>7, EndsInAgreement DEF Ends
<1>. QED BY <1>1, <1>6, <1>7

\* InterfaceSelected.
LEMMA InterfaceSelectedKeeps == ConfigInv /\ InterfaceSelected => ConfigInv'
<1> SUFFICES ASSUME ConfigInv, InterfaceSelected PROVE ConfigInv'
  OBVIOUS
<1> DEFINE s == [kind |-> "alternate"]
<1>1. /\ s \in select /\ s.kind # "interface" /\ Finish
      /\ UNCHANGED <<device, refused, badCount, dataVars, valueVars, setupVars>>
  BY DEF InterfaceSelected
<1> HIDE DEF s
<1>2. PICK o \in Outcomes : Exchange(o)
  BY DEF InterfaceSelected
<1>3. unplugged' \in BOOLEAN /\ (unplugged => unplugged')
  BY <1>2, ExchangeNotes DEF Exchange, ConfigInv, ConfigTyped
<1>4. step = "ready" /\ \A t \in select : t.kind # "interface"
  BY <1>1 DEF ConfigInv, Selecting
<1>5. /\ step' = "ready" /\ refused' \in BOOLEAN /\ index' = index
      /\ UNCHANGED <<configData, numConfigs, pointers, currentValue, offset, devValue>>
  BY <1>1, <1>4 DEF dataVars, valueVars, setupVars, ConfigInv, ConfigTyped
<1>6. ~unplugged' => PointersAgree' /\ (~refused' => currentValue' = devValue')
  BY <1>1, <1>3, <1>4, <1>5, AgreementStays DEF ConfigInv, ConfigTyped
<1>. QED BY <1>1, <1>3, <1>4, <1>5, <1>6, EndsInAgreement DEF Ends

\* ClearConfigBusy.
LEMMA ClearConfigBusyKeeps == ConfigInv /\ ClearConfigBusy => ConfigInv'
<1> SUFFICES ASSUME ConfigInv, ClearConfigBusy PROVE ConfigInv'
  OBVIOUS
<1>1. /\ late > 0 /\ late' = late - 1 /\ configBusy' = FALSE
      /\ cleared' = (cleared \/ select # {})
      /\ UNCHANGED <<device, refused, badCount, step, index, configData, numConfigs, pointers,
                     currentValue, offset, devValue, select, busyLost, unplugged>>
  BY DEF ClearConfigBusy, setupVars, dataVars, valueVars, linkVars
<1>2. late' \in Nat /\ cleared' \in BOOLEAN
  BY <1>1 DEF ConfigInv, ConfigTyped
<1>3. ConfigTyped'
  <2>1. UNCHANGED <<device, refused, badCount, step, index, configData, numConfigs, offset,
                    busyLost, unplugged>> /\ configBusy' \in BOOLEAN
    BY <1>1
  <2>. QED BY <1>2, <2>1 DEF ConfigInv, ConfigTyped
<1>4. LoadedIsParsed' /\ SetUp'
  BY <1>1 DEF ConfigInv, LoadedIsParsed, SetUp, OffsetFound, Configs
<1>5. Selecting'
  BY <1>1 DEF ConfigInv, Selecting, AtRest, PointersAgree
<1>6. BusyExplained' /\ Released'
  BY <1>1 DEF ConfigInv, BusyExplained, Released
<1>. QED BY <1>3, <1>4, <1>5, <1>6 DEF ConfigInv

\* DeviceDescriptorAnswered: the number of configurations is right, or badCount.
LEMMA DeviceDescriptorAnsweredKeeps == ConfigInv /\ DeviceDescriptorAnswered => ConfigInv'
<1> SUFFICES ASSUME ConfigInv, DeviceDescriptorAnswered PROVE ConfigInv'
  OBVIOUS
<1>1. /\ step = "ready"
      /\ UNCHANGED <<device, refused, step, index, configData, pointers, currentValue, offset,
                     devValue, select, configBusy, late, busyLost, cleared, unplugged>>
      /\ \/ numConfigs' = Len(Configs) /\ badCount' = badCount
         \/ numConfigs' \in 0..(Len(Configs) + 1) /\ badCount' = TRUE
  BY DEF DeviceDescriptorAnswered, setupVars, valueVars, linkVars
<1>2. Len(Configs) \in Nat /\ Len(configData) = Len(Configs) /\ Configs' = Configs
  BY <1>1, DeviceTyped DEF ConfigInv, SetUp, Configs
<1>3. numConfigs' \in Nat /\ badCount' \in BOOLEAN /\ (numConfigs' = Len(configData) \/ badCount')
  <2>1. CASE numConfigs' = Len(Configs) /\ badCount' = badCount
    BY <1>2, <2>1 DEF ConfigInv, ConfigTyped
  <2>2. CASE numConfigs' \in 0..(Len(Configs) + 1) /\ badCount' = TRUE
    BY <1>2, <2>2
  <2>. QED BY <1>1, <2>1, <2>2
<1>4. ConfigTyped'
  <2>1. UNCHANGED <<device, refused, step, index, configData, offset, configBusy, late, busyLost,
                    cleared, unplugged>>
    BY <1>1
  <2>. QED BY <1>3, <2>1 DEF ConfigInv, ConfigTyped
<1>5. LoadedIsParsed' /\ SetUp'
  BY <1>1, <1>2, <1>3 DEF ConfigInv, LoadedIsParsed, SetUp
<1>6. Selecting'
  BY <1>1 DEF ConfigInv, Selecting, AtRest, PointersAgree
<1>7. BusyExplained' /\ Released'
  BY <1>1 DEF ConfigInv, BusyExplained, Released
<1>. QED BY <1>4, <1>5, <1>6, <1>7 DEF ConfigInv

\* UnplugDevice.
LEMMA UnplugDeviceKeeps == ConfigInv /\ UnplugDevice => ConfigInv'
<1> SUFFICES ASSUME ConfigInv, UnplugDevice PROVE ConfigInv'
  OBVIOUS
<1>1. /\ unplugged' = TRUE
      /\ UNCHANGED <<device, refused, badCount, step, index, configData, numConfigs, pointers,
                     currentValue, offset, devValue, select, configBusy, late, busyLost, cleared>>
  BY DEF UnplugDevice, setupVars, dataVars, valueVars, selectVars
<1>2. ConfigTyped'
  BY <1>1 DEF ConfigInv, ConfigTyped
<1>3. LoadedIsParsed' /\ SetUp'
  BY <1>1 DEF ConfigInv, LoadedIsParsed, SetUp, OffsetFound, Configs
<1>4. Selecting'
  BY <1>1 DEF ConfigInv, Selecting, AtRest
<1>5. BusyExplained' /\ Released'
  BY <1>1 DEF ConfigInv, BusyExplained, Released
<1>. QED BY <1>2, <1>3, <1>4, <1>5 DEF ConfigInv

\* ReleaseHardware: it leaves nothing, unless the number of configurations is wrong.
LEMMA ReleaseHardwareKeeps == ConfigInv /\ ReleaseHardware => ConfigInv'
<1> SUFFICES ASSUME ConfigInv, ReleaseHardware PROVE ConfigInv'
  OBVIOUS
<1>1. /\ step \in {"ready", "failed"} /\ step' = "released" /\ select = {}
      /\ configData' = SubSeq(configData, numConfigs + 1, Len(configData))
      /\ UNCHANGED <<device, refused, badCount, index, numConfigs, pointers, currentValue, offset,
                     devValue, select, configBusy, late, busyLost, cleared, unplugged>>
  BY DEF ReleaseHardware, valueVars, selectVars, linkVars
<1>2. configData \in Seq(Infos) /\ numConfigs \in Nat /\ Len(configData) \in Nat
  BY DEF ConfigInv, ConfigTyped
<1>3. /\ configData' \in Seq(Infos)
      /\ numConfigs >= Len(configData) => Len(configData') = 0
      /\ \A i \in 1..Len(configData') :
           /\ numConfigs + i \in 1..Len(configData) /\ configData'[i] = configData[numConfigs + i]
  <2> DEFINE m == numConfigs + 1
  <2>1. m \in Nat /\ m >= 1
    BY <1>2
  <2>2. Len(configData') = IF m <= Len(configData) THEN Len(configData) - m + 1 ELSE 0
    BY <1>1, <1>2, <2>1
  <2>3. \A i \in 1..Len(configData') :
          /\ numConfigs + i \in 1..Len(configData) /\ configData'[i] = configData[numConfigs + i]
    BY <1>1, <1>2, <2>1, <2>2
  <2>4. configData' \in Seq(Infos)
    BY <1>1, <1>2, <2>1
  <2>5. numConfigs >= Len(configData) => Len(configData') = 0
    <3> SUFFICES ASSUME numConfigs >= Len(configData) PROVE Len(configData') = 0
      OBVIOUS
    <3>1. ~(m <= Len(configData))
      BY <1>2
    <3>. QED BY <2>2, <3>1
  <2>. QED BY <2>3, <2>4, <2>5
<1>4. badCount \/ configData' = <<>>
  <2>1. numConfigs = Len(configData) \/ badCount \/ configData = <<>>
    BY DEF ConfigInv, SetUp
  <2>2. CASE numConfigs = Len(configData) \/ configData = <<>>
    <3>1. numConfigs >= Len(configData)
      BY <1>2, <2>2
    <3>. QED BY <1>3, <3>1
  <2>. QED BY <2>1, <2>2
<1>5. LoadedIsParsed'
  BY <1>3 DEF ConfigInv, LoadedIsParsed
<1>6. ConfigTyped'
  BY <1>1, <1>3 DEF ConfigInv, ConfigTyped
<1>7. SetUp' /\ Released'
  BY <1>1, <1>4 DEF SetUp, Released
<1>8. Selecting' /\ BusyExplained'
  BY <1>1 DEF ConfigInv, Selecting, AtRest, BusyExplained
<1>. QED BY <1>5, <1>6, <1>7, <1>8 DEF ConfigInv

\* A new context: GetUsbConfigData begins.
NewContext ==
  /\ device \in Devices /\ devValue = device.active
  /\ step = "deviceDescriptor" /\ index = 1
  /\ configData = <<>> /\ numConfigs = 0 /\ currentValue = 0 /\ offset = 0 /\ pointers = 0
  /\ select = {} /\ configBusy = FALSE /\ late = 0 /\ cleared = FALSE
  /\ unplugged = FALSE /\ refused = FALSE /\ busyLost = FALSE /\ badCount = FALSE

\* It satisfies the invariant.
LEMMA NewContextInv == NewContext => ConfigInv
<1> SUFFICES ASSUME NewContext PROVE ConfigInv
  OBVIOUS
<1>1. ConfigTyped
  <2>1. /\ <<>> \in Seq(Infos) /\ 1 \in Nat \ {0} /\ 0 \in Nat /\ 0 \in {0, 1}
        /\ "deviceDescriptor" \in Steps
    OBVIOUS
  <2>. QED BY <2>1 DEF NewContext, ConfigTyped
<1>2. LoadedIsParsed /\ Released
  BY DEF NewContext, LoadedIsParsed, Released
<1>3. SetUp
  BY DEF NewContext, SetUp
<1>4. Selecting /\ BusyExplained
  BY DEF NewContext, Selecting, AtRest, BusyExplained
<1>. QED BY <1>1, <1>2, <1>3, <1>4 DEF ConfigInv

\* The invariant holds when the device is plugged in.
LEMMA ConfigInvInit == ConfigInit => ConfigInv
BY NewContextInv DEF ConfigInit, ConfigInitWith, NewContext

\* Replug.
LEMMA ReplugKeeps == ConfigInv /\ Replug => ConfigInv'
<1> SUFFICES ASSUME ConfigInv, Replug PROVE ConfigInv'
  OBVIOUS
<1>1. NewContext'
  BY DEF Replug, NewContext, ConfigInv, ConfigTyped
<1>2. NewContext' => ConfigInv'
  BY NewContextInv, PTL
<1>. QED BY <1>1, <1>2

\* Every step keeps the invariant.
LEMMA ConfigInvStep == ConfigInv /\ [ConfigNext]_configVars => ConfigInv'
<1> SUFFICES ASSUME ConfigInv, [ConfigNext]_configVars PROVE ConfigInv'
  OBVIOUS
<1>1. CASE GetDeviceDescriptor \/ Reset \/ GetDeviceSpeed \/ GetConfigHeader \/ GetConfigBody
  BY <1>1, GetDeviceDescriptorKeeps, ResetKeeps, GetDeviceSpeedKeeps, GetConfigHeaderKeeps,
     GetConfigBodyKeeps
<1>2. CASE GetOsString \/ OsReset \/ GetOsFeature \/ GetStrings
  BY <1>2, StringsKeep
<1>3. CASE GetDefaultConfiguration \/ SetDefaultConfiguration
  BY <1>3, GetDefaultConfigurationKeeps, SetDefaultConfigurationKeeps
<1>4. ASSUME NEW v, SelectConfiguration(v) PROVE ConfigInv'
  BY <1>4, SelectConfigurationKeeps
<1>5. CASE ReadBeforeSelect \/ SetSelected \/ SetSelectedInterface \/ Unconfigured
  BY <1>5, ReadBeforeSelectKeeps, SetSelectedKeeps, SetSelectedInterfaceKeeps, UnconfiguredKeeps
<1>6. CASE SelectInterface \/ InterfaceSelected \/ ClearConfigBusy \/ DeviceDescriptorAnswered
  BY <1>6, SelectInterfaceKeeps, InterfaceSelectedKeeps, ClearConfigBusyKeeps,
     DeviceDescriptorAnsweredKeeps
<1>7. CASE UnplugDevice \/ ReleaseHardware \/ Replug
  BY <1>7, UnplugDeviceKeeps, ReleaseHardwareKeeps, ReplugKeeps
<1>8. CASE UNCHANGED configVars
  <2>1. UNCHANGED <<device, refused, badCount, step, index, configData, numConfigs, pointers,
                    currentValue, offset, devValue, select, configBusy, late, busyLost, cleared,
                    unplugged>>
    BY <1>8 DEF configVars, setupVars, dataVars, valueVars, selectVars, linkVars
  <2>2. ConfigTyped' /\ LoadedIsParsed'
    BY <2>1 DEF ConfigInv, ConfigTyped, LoadedIsParsed
  <2>3. SetUp'
    BY <2>1 DEF ConfigInv, SetUp, OffsetFound, Configs
  <2>4. Selecting' /\ BusyExplained' /\ Released'
    BY <2>1 DEF ConfigInv, Selecting, AtRest, PointersAgree, BusyExplained, Released
  <2>. QED BY <2>2, <2>3, <2>4 DEF ConfigInv
<1>. QED BY <1>1, <1>2, <1>3, <1>4, <1>5, <1>6, <1>7, <1>8, Zenon DEF ConfigNext

\* The invariant, for all behaviours.
THEOREM ConfigInvAlways == ConfigSpec => []ConfigInv
BY ConfigInvInit, ConfigInvStep, PTL DEF ConfigSpec

\* Between two selections the driver's idea of the configuration is right
\* (ProcessSelectConfiguration, PostProcessSelectConfig, SetConfigPointers),
\* ConfigBusy is explained, and the release frees what was loaded.
THEOREM ConfigAgreesAlways == ConfigSpec => []ConfigAgrees
<1>1. ConfigInv => ConfigAgrees
  <2> SUFFICES ASSUME ConfigInv PROVE ConfigAgrees
    OBVIOUS
  <2>1. ASSUME step = "ready", select = {}, ~unplugged
        PROVE  /\ pointers # 0 => /\ configData[pointers].loaded
                                  /\ configData[pointers].value = currentValue
               /\ ~refused => currentValue = devValue
    BY <2>1 DEF ConfigInv, Selecting, AtRest, PointersAgree
  <2>2. /\ select # {} => configBusy \/ cleared
        /\ configBusy => select # {} \/ late > 0 \/ busyLost
    BY DEF ConfigInv, BusyExplained
  <2>3. step = "ready" => numConfigs = Len(configData) \/ badCount
    <3> SUFFICES ASSUME step = "ready", ~badCount PROVE numConfigs = Len(configData)
      OBVIOUS
    <3>1. Len(configData) = Len(Configs) /\ Len(Configs) > 0
      BY DEF ConfigInv, SetUp
    <3>2. configData # <<>>
      BY <3>1, DeviceTyped DEF ConfigInv
    <3>. QED BY <3>2 DEF ConfigInv, SetUp
  <2>4. step = "released" => badCount \/ \A i \in 1..Len(configData) : ~configData[i].loaded
    BY DEF ConfigInv, Released
  <2>. QED BY <2>1, <2>2, <2>3, <2>4 DEF ConfigAgrees
<1>. QED BY <1>1, ConfigInvAlways, PTL

\* Every configuration that GetCompleteConfigDescriptor has accepted holds
\* exactly the interfaces and endpoints that lie before its end, whatever the
\* memory was; and an interface is given its own pipes (ParseConfig,
\* SetInterfaceDescriptorPipes).
THEOREM ConfigWellFormedAlways == ConfigSpec => []ConfigWellFormed
<1>1. ConfigInv => ConfigWellFormed
  <2> SUFFICES ASSUME ConfigInv, NEW i \in 1..Len(configData), configData[i].loaded
               PROVE  WellFormed(configData[i])
    BY DEF ConfigWellFormed
  <2>1. configData[i] \in Infos /\ Parsed(configData[i])
    BY DEF ConfigInv, ConfigTyped, LoadedIsParsed
  <2>2. /\ configData[i].memory \in Seq(Descriptors) /\ configData[i].total \in Nat
        /\ configData[i].ifs \in Seq(Nat) /\ configData[i].pipes \in Seq(Pipes)
    BY <2>1 DEF Infos
  <2>. QED BY <2>1, <2>2, ParsedIsWellFormed
<1>. QED BY <1>1, ConfigInvAlways, PTL

--------------------------------------------------------------------------------
Packets == [status : {"OK", "SHORTPKT", "STALLED"}, offset : Nat, length : Nat]

\* A shadow that carries a URB was taken with isReset cleared.
Carries ==
  /\ vistaOrLater \in BOOLEAN /\ isReset \in BOOLEAN /\ portLost \in BOOLEAN
  /\ carried \in {"none", "reset", "scratch"} \cup UrbKinds
  /\ carried \in UrbKinds => ~isReset

AnswersInv == Carries /\ AnswersAgree

--------------------------------------------------------------------------------
\* The status of a URB that is not answered in a reset.
LEMMA Mapped ==
  ASSUME NEW status \in UsbIfStatuses
  PROVE  LET usbd == MapUsbifToUsbdStatus(FALSE, status)
         IN  /\ usbd = "SUCCESS" <=> status = "OK"
             /\ IrpStatus(usbd) = "SUCCESS" <=> usbd = "SUCCESS"
             /\ usbd = "DEVICE_GONE" <=> status \in {"DEVRMVD", "SHUTDOWN"}
BY DEF MapUsbifToUsbdStatus, IrpStatus, UsbIfStatuses

\* How many packets are good: no more than there are.
LEMMA GoodCounted ==
  ASSUME NEW p \in Seq(Packets)
  PROVE  Cardinality(Good(p)) \in Nat /\ Cardinality(Good(p)) <= Len(p)
<1>1. Len(p) \in Nat /\ Good(p) \subseteq 1..Len(p)
  BY DEF Good
<1>2. IsFiniteSet(1..Len(p)) /\ Cardinality(1..Len(p)) = Len(p)
  <2>1. /\ 1 \in Int /\ Len(p) \in Int
        /\ Len(p) = IF 1 > Len(p) THEN 0 ELSE Len(p) - 1 + 1
    BY <1>1
  <2>. QED BY <2>1, FS_Interval, Zenon
<1>. QED BY <1>1, <1>2, FS_Subset, FS_CardinalityType

\* What the answer of an isochronous transfer says, good or bad.
IsoTold(told, usbd, p) ==
  /\ told.urb = usbd
  /\ usbd = "SUCCESS" => /\ told.irp = "SUCCESS"
                         /\ told.errors + Cardinality(Good(p)) = Len(p)
                         /\ \/ told.length = GoodBytes(p)
                               /\ \A i \in 1..Len(p) : told.packets[i] = p[i].status
                            \/ ~vistaOrLater /\ told.length > 0
  /\ usbd # "SUCCESS" => told.irp = IF ~vistaOrLater THEN "SUCCESS" ELSE IrpStatus(usbd)

\* XenPostProcessIsoResponse says so.
LEMMA IsoAgrees ==
  ASSUME NEW p \in PacketLists, NEW usbd, vistaOrLater \in BOOLEAN
  PROVE  IsoTold(IsoResponse(usbd, p), usbd, p)
<1>1. /\ p \in Seq(Packets) /\ Len(p) > 0
      /\ p[1].length > 0 \/ (Len(p) > 1 /\ p[2].offset > 0)
  BY PacketsAssumption DEF Packets
<1>2. Len(p) \in Nat /\ Cardinality(Good(p)) \in Nat /\ Cardinality(Good(p)) <= Len(p)
  BY <1>1, GoodCounted
<1> DEFINE first == IF p[1].length # 0 THEN p[1].length ELSE p[2].offset
<1> DEFINE mend == GoodBytes(p) = 0 /\ ~vistaOrLater
<1>3. first > 0
  <2>1. p[1] \in Packets /\ (Len(p) > 1 => p[2] \in Packets)
    BY <1>1, <1>2
  <2>. QED BY <1>1, <2>1 DEF Packets
<1> HIDE DEF first
<1>4. CASE usbd # "SUCCESS"
  <2>1. IsoResponse(usbd, p)
          = [irp |-> IF vistaOrLater THEN IrpStatus(usbd) ELSE "SUCCESS", urb |-> usbd,
             length |-> AskedLength, errors |-> 0, packets |-> <<>>]
    BY <1>4, Zenon DEF IsoResponse
  <2>. QED BY <1>4, <2>1 DEF IsoTold
<1>5. CASE usbd = "SUCCESS"
  <2>1. IsoResponse(usbd, p)
          = [irp |-> "SUCCESS", urb |-> usbd,
             length |-> IF mend THEN first ELSE GoodBytes(p),
             errors |-> Len(p) - Cardinality(Good(p)),
             packets |-> [i \in 1..Len(p) |-> IF i = 1 /\ mend THEN "OK" ELSE p[i].status]]
    BY <1>5, Zenon DEF IsoResponse, first
  <2> HIDE DEF mend
  <2>2. /\ IsoResponse(usbd, p).irp = "SUCCESS" /\ IsoResponse(usbd, p).urb = usbd
        /\ IsoResponse(usbd, p).length = IF mend THEN first ELSE GoodBytes(p)
        /\ IsoResponse(usbd, p).errors = Len(p) - Cardinality(Good(p))
        /\ ~mend => \A i \in 1..Len(p) : IsoResponse(usbd, p).packets[i] = p[i].status
    BY <2>1
  <2>3. IsoResponse(usbd, p).errors + Cardinality(Good(p)) = Len(p)
    BY <1>2, <2>2
  <2>4. mend => ~vistaOrLater
    BY DEF mend
  <2>. QED BY <1>3, <1>5, <2>2, <2>3, <2>4 DEF IsoTold
<1>. QED BY <1>4, <1>5

\* What PostProcessUrb reports, kind by kind.
LEMMA PostAgrees ==
  ASSUME NEW usbd, NEW bytes, NEW packets, NEW kind,
         NEW told, told = PostProcessUrb(kind, usbd, bytes, packets)
  PROVE  /\ kind = "isochronous" => told = IsoResponse(usbd, packets)
         /\ kind = "unconfigure" => told.irp # "SUCCESS" /\ told.urb = "SUCCESS"
         /\ kind \in {"transfer", "other"} => told.urb = usbd /\ told.irp = IrpStatus(usbd)
         /\ kind = "transfer" => told.length = bytes
<1> DEFINE plain == [irp |-> IrpStatus(usbd), urb |-> usbd, length |-> AskedLength, errors |-> 0,
                     packets |-> <<>>]
<1>1. ASSUME kind = "isochronous" PROVE told = IsoResponse(usbd, packets)
  BY <1>1, Zenon DEF PostProcessUrb
<1>2. ASSUME kind = "unconfigure" PROVE told.irp # "SUCCESS" /\ told.urb = "SUCCESS"
  <2>1. told = [plain EXCEPT !.irp = IF @ = "SUCCESS" THEN "UNSUCCESSFUL" ELSE @,
                             !.urb = "SUCCESS"]
    BY <1>2, Zenon DEF PostProcessUrb
  <2>. QED BY <2>1
<1>3. ASSUME kind = "transfer"
      PROVE  told.urb = usbd /\ told.irp = IrpStatus(usbd) /\ told.length = bytes
  <2>1. told = [plain EXCEPT !.length = bytes]
    BY <1>3, Zenon DEF PostProcessUrb
  <2>. QED BY <2>1
<1>4. ASSUME kind = "other" PROVE told.urb = usbd /\ told.irp = IrpStatus(usbd)
  <2>1. told = plain
    BY <1>4, Zenon DEF PostProcessUrb
  <2>. QED BY <2>1
<1>. QED BY <1>1, <1>2, <1>3, <1>4

--------------------------------------------------------------------------------
(* The steps.                                                               *)

\* XenDpc takes an answer.
LEMMA AnswerTaken ==
  ASSUME Carries, NEW status \in UsbIfStatuses, NEW bytes \in {0, 2},
         NEW packets \in (IF carried = "isochronous" THEN PacketLists ELSE {<<>>}),
         TakeAnswer(status, bytes, packets)
  PROVE  AnswersInv'
<1> DEFINE usbd == MapUsbifToUsbdStatus(isReset, status)
<1> DEFINE told == CASE carried = "reset" -> [irp |-> "SUCCESS", urb |-> "none", length |-> 0,
                                              errors |-> 0, packets |-> <<>>]
                     [] carried = "scratch" -> [irp |-> "none", urb |-> usbd, length |-> bytes,
                                                errors |-> 0, packets |-> <<>>]
                     [] OTHER -> PostProcessUrb(carried, usbd, bytes, packets)
<1> DEFINE r == [kind |-> carried, status |-> status, bytes |-> bytes, reported |-> packets,
                 wasReset |-> isReset, told |-> told]
<1>1. /\ carried # "none" /\ carried' = "none" /\ isReset' = isReset
      /\ vistaOrLater' = vistaOrLater /\ result' = {r}
      /\ portLost' = (portLost \/ usbd = "DEVICE_GONE")
  BY Zenon DEF TakeAnswer
<1>2. carried \in UrbKinds => told = PostProcessUrb(carried, usbd, bytes, packets)
  <2>1. carried \in UrbKinds => carried # "reset" /\ carried # "scratch"
    BY DEF UrbKinds
  <2>. QED BY <2>1, Zenon
<1>3. /\ r.kind = carried /\ r.status = status /\ r.bytes = bytes /\ r.reported = packets
      /\ r.wasReset = isReset /\ r.told = told
  BY Zenon
<1>4. ~isReset => /\ usbd = "SUCCESS" <=> status = "OK"
                  /\ IrpStatus(usbd) = "SUCCESS" <=> usbd = "SUCCESS"
                  /\ usbd = "DEVICE_GONE" <=> status \in {"DEVRMVD", "SHUTDOWN"}
  <2>1. ~isReset => isReset = FALSE
    BY DEF Carries
  <2>. QED BY <2>1, Mapped
<1> HIDE DEF usbd, told, r
<1>5. CASE carried \in UrbKinds
  <2>1. ~isReset /\ vistaOrLater \in BOOLEAN /\ told = PostProcessUrb(carried, usbd, bytes, packets)
    BY <1>2, <1>5 DEF Carries
  <2>2. CASE carried = "isochronous"
    <3>1. packets \in PacketLists /\ told = IsoResponse(usbd, packets)
      BY <2>1, <2>2, PostAgrees
    <3>2. IsoTold(told, usbd, packets)
      <4>1. IsoTold(IsoResponse(usbd, packets), usbd, packets)
        BY <2>1, <3>1, IsoAgrees
      <4>. QED BY <3>1, <4>1
    <3>3. AnswersAgree'
      BY <1>1, <1>3, <1>4, <2>1, <2>2, <3>2 DEF AnswersAgree, IsoTold
    <3>. QED BY <1>1, <2>1, <3>3 DEF AnswersInv, Carries, UrbKinds
  <2>3. CASE carried = "unconfigure"
    <3>1. told.irp # "SUCCESS" /\ told.urb = "SUCCESS"
      BY <2>1, <2>3, PostAgrees
    <3>2. AnswersAgree'
      BY <1>1, <1>3, <1>4, <2>1, <2>3, <3>1 DEF AnswersAgree
    <3>. QED BY <1>1, <2>1, <3>2 DEF AnswersInv, Carries, UrbKinds
  <2>4. CASE carried \in {"transfer", "other"}
    <3>1. /\ told.urb = usbd /\ told.irp = IrpStatus(usbd)
          /\ carried = "transfer" => told.length = bytes
      BY <2>1, <2>4, PostAgrees
    <3>2. AnswersAgree'
      BY <1>1, <1>3, <1>4, <2>1, <2>4, <3>1 DEF AnswersAgree
    <3>. QED BY <1>1, <2>1, <3>2 DEF AnswersInv, Carries, UrbKinds
  <2>. QED BY <1>5, <2>2, <2>3, <2>4 DEF UrbKinds
<1>6. CASE carried \in {"reset", "scratch"}
  <2>1. AnswersAgree'
    BY <1>1, <1>3, <1>4, <1>6 DEF AnswersAgree, Carries, UrbKinds
  <2>. QED BY <1>1, <1>6, <2>1 DEF AnswersInv, Carries, UrbKinds
<1>. QED BY <1>1, <1>5, <1>6 DEF Carries

\* AnswersInv is inductive.
LEMMA AnswersKept == AnswersInv /\ [AnswersNext]_answersVars => AnswersInv'
<1> SUFFICES ASSUME AnswersInv, [AnswersNext]_answersVars PROVE AnswersInv'
  OBVIOUS
<1>1. Carries /\ AnswersAgree
  BY DEF AnswersInv
<1>2. ASSUME NEW kind \in UrbKinds, PutUrb(kind) PROVE AnswersInv'
  BY <1>1, <1>2 DEF PutUrb, AnswersInv, Carries, AnswersAgree
<1>3. ASSUME PutReset PROVE AnswersInv'
  BY <1>1, <1>3 DEF PutReset, AnswersInv, Carries, AnswersAgree, UrbKinds
<1>4. ASSUME NEW reset \in BOOLEAN, PutScratch(reset) PROVE AnswersInv'
  BY <1>1, <1>4 DEF PutScratch, AnswersInv, Carries, AnswersAgree, UrbKinds
<1>5. ASSUME UNCHANGED answersVars PROVE AnswersInv'
  BY <1>1, <1>5, Zenon DEF answersVars, AnswersInv, Carries, AnswersAgree
<1>. QED BY <1>1, <1>2, <1>3, <1>4, <1>5, AnswerTaken, Zenon DEF AnswersNext

\* For every status usbback can write, every kind of request and every list of packets:
\* IRP, URB and length tell the client the same, and a device that is gone is noticed.
THEOREM AnswersAgreeAlways == AnswersSpec => []AnswersAgree
<1>1. AnswersInit => AnswersInv
  BY DEF AnswersInit, AnswersInv, Carries, AnswersAgree, UrbKinds
<1>2. AnswersInv => AnswersAgree
  BY DEF AnswersInv
<1>. QED BY <1>1, <1>2, AnswersKept, PTL DEF AnswersSpec
================================================================================
