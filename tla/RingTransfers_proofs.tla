------------------------- MODULE RingTransfers_proofs -------------------------
(***************************************************************************)
(* No grant reference is lost or held twice, and a transfer on the ring is *)
(* described completely, for every number of grant references, of shadows  *)
(* and of entries of a request or an indirect page, and for transfers of   *)
(* every length.  ResourcesAccounted is not inductive: what a shadow gives *)
(* back must be what it took, whichever reference was refused.  It is,     *)
(* because the entries are only asked for when every indirect page has its *)
(* reference: otherwise the references are exhausted (GrantsGiven).        *)
(***************************************************************************)
EXTENDS RingTransfers, FiniteSetTheorems, FunctionTheorems, SequenceTheorems, TLAPS

-------------------------------------------------------------------------------
(* Grant references.                                                       *)

\* The number of references of S below g.
Rank(S, g) == Cardinality({h \in S : h < g})

Fewer(m, n) == IF m < n THEN m ELSE n

\* Every set of grant references is finite and consists of numbers.
LEMMA GrantSets ==
  ASSUME NEW S \in SUBSET GrantRefs
  PROVE  S \subseteq Nat /\ IsFiniteSet(S) /\ Cardinality(S) \in Nat
BY GrantsAssumption, FS_Subset, FS_CardinalityType

\* A rank is below the number of references, and grows with the reference.
LEMMA RankGrows ==
  ASSUME NEW S \in SUBSET GrantRefs, NEW g \in S
  PROVE  /\ Rank(S, g) \in 0 .. Cardinality(S) - 1
         /\ \A h \in S : h < g => Rank(S, h) < Rank(S, g)
<1> DEFINE Below(x) == {h \in S : h < x}
<1>1. IsFiniteSet(S) /\ S \subseteq Nat /\ Cardinality(S) \in Nat
  BY GrantSets
<1>2. \A x \in S : IsFiniteSet(Below(x)) /\ Cardinality(Below(x)) \in Nat
  BY <1>1, FS_Subset, FS_CardinalityType
<1>3. Cardinality(Below(g)) < Cardinality(S)
  <2>1. Below(g) \in SUBSET S /\ g \notin Below(g)
    BY <1>1
  <2>2. Below(g) # S
    BY <2>1
  <2>3. /\ Cardinality(Below(g)) <= Cardinality(S)
        /\ Cardinality(S) = Cardinality(Below(g)) => S = Below(g)
    BY <1>1, <2>1, FS_Subset, Zenon
  <2>. QED BY <1>1, <1>2, <2>2, <2>3
<1>4. ASSUME NEW h \in S, h < g
      PROVE  Cardinality(Below(h)) < Cardinality(Below(g))
  <2>0. \A x \in S : x < h => x < g
    BY <1>1, <1>4
  <2>1. Below(h) \in SUBSET Below(g) /\ h \in Below(g) /\ h \notin Below(h)
    <3>1. h \in Below(g) /\ h \notin Below(h)
      BY <1>1, <1>4
    <3>2. \A x \in Below(h) : x \in Below(g)
      BY <2>0
    <3>. QED BY <3>1, <3>2
  <2>2. Below(h) # Below(g)
    BY <2>1
  <2>3. /\ Cardinality(Below(h)) <= Cardinality(Below(g))
        /\ Cardinality(Below(g)) = Cardinality(Below(h)) => Below(g) = Below(h)
    BY <1>2, <2>1, FS_Subset, Zenon
  <2>. QED BY <1>2, <2>2, <2>3
<1>. QED BY <1>1, <1>2, <1>3, <1>4 DEF Rank

\* There is exactly one reference of each rank.
LEMMA RankExact ==
  ASSUME NEW S \in SUBSET GrantRefs
  PROVE  /\ \A g, h \in S : Rank(S, g) = Rank(S, h) => g = h
         /\ \A k \in 0 .. Cardinality(S) - 1 : \E g \in S : Rank(S, g) = k
<1>1. IsFiniteSet(S) /\ S \subseteq Nat /\ Cardinality(S) \in Nat
  BY GrantSets
<1>2. ASSUME NEW g \in S, NEW h \in S, Rank(S, g) = Rank(S, h)
      PROVE  g = h
  <2>1. Rank(S, g) \in Nat
    BY <1>1, RankGrows
  <2>2. ~(g < h) /\ ~(h < g)
    BY <1>2, <2>1, RankGrows
  <2>. QED BY <1>1, <2>2
<1> DEFINE T == 0 .. Cardinality(S) - 1
           f == [g \in S |-> Rank(S, g)]
<1>3. f \in [S -> T]
  BY RankGrows
<1>4. f \in Injection(S, T)
  BY <1>2, <1>3 DEF Injection, IsInjective
<1>5. IsFiniteSet(T) /\ Cardinality(T) = Cardinality(S)
  <2>1. 0 \in Int /\ Cardinality(S) - 1 \in Int
    BY <1>1
  <2>2. IsFiniteSet(T) /\ Cardinality(T) = IF 0 > Cardinality(S) - 1 THEN 0
                                           ELSE Cardinality(S) - 1 - 0 + 1
    BY <2>1, FS_Interval, Zenon
  <2> HIDE DEF T
  <2>. QED BY <1>1, <2>2
<1>6. f \in Surjection(S, T)
  BY <1>4, <1>5, FS_Injection, Zenon
<1>7. \A k \in T : \E g \in S : f[g] = k
  BY <1>6 DEF Surjection
<1>. QED BY <1>2, <1>7

\* The n least references of S, or all of them.
LEMMA LeastExact ==
  ASSUME NEW S \in SUBSET GrantRefs, NEW n \in Nat
  PROVE  /\ Least(S, n) = {g \in S : Rank(S, g) < n}
         /\ Cardinality(Least(S, n)) = Fewer(n, Cardinality(S))
         /\ n >= Cardinality(S) => Least(S, n) = S
<1> DEFINE L == {g \in S : Rank(S, g) < n}
<1>1. Least(S, n) = L
  BY DEF Least, Rank
<1>2. IsFiniteSet(S) /\ Cardinality(S) \in Nat
  BY GrantSets
<1>3. CASE n >= Cardinality(S)
  <2>1. L = S
    BY <1>2, <1>3, RankGrows
  <2>. QED BY <1>1, <1>2, <1>3, <2>1 DEF Fewer
<1>4. CASE n < Cardinality(S)
  <2> DEFINE T == 0 .. n - 1
             f == [g \in L |-> Rank(S, g)]
  <2>1. f \in [L -> T]
    BY <1>2, RankGrows
  <2>2. f \in Injection(L, T)
    BY <2>1, RankExact DEF Injection, IsInjective
  <2>3. \A k \in T : \E g \in L : f[g] = k
    <3> SUFFICES ASSUME NEW k \in T PROVE \E g \in L : f[g] = k
      OBVIOUS
    <3>1. k \in 0 .. Cardinality(S) - 1 /\ k < n
      BY <1>2, <1>4
    <3>2. PICK g \in S : Rank(S, g) = k
      BY <3>1, RankExact
    <3>3. g \in L /\ f[g] = k
      BY <3>1, <3>2
    <3>. QED BY <3>3
  <2>4. f \in Surjection(L, T)
    BY <2>1, <2>3 DEF Surjection
  <2>5. IsFiniteSet(T) /\ Cardinality(T) = n
    <3>1. 0 \in Int /\ n - 1 \in Int
      OBVIOUS
    <3>2. IsFiniteSet(T) /\ Cardinality(T) = IF 0 > n - 1 THEN 0 ELSE n - 1 - 0 + 1
      BY <3>1, FS_Interval, Zenon
    <3> HIDE DEF T
    <3>. QED BY <3>2
  <2>6. Cardinality(L) = Cardinality(T)
    BY <2>2, <2>4, <2>5, FS_Injection, Zenon
  <2>. QED BY <1>1, <1>2, <1>4, <2>5, <2>6 DEF Fewer
<1>. QED BY <1>2, <1>3, <1>4

\* n calls of GetGrantFromFreelist return n different references, or all there are.
LEMMA GrantsGiven ==
  ASSUME NEW S \in SUBSET GrantRefs, NEW n \in Nat
  PROVE  /\ Grants(S, n) \in Seq(S)
         /\ Len(Grants(S, n)) = Fewer(n, Cardinality(S))
         /\ \A i, j \in 1 .. Len(Grants(S, n)) : Grants(S, n)[i] = Grants(S, n)[j] => i = j
         /\ Refs(Grants(S, n)) \subseteq S
         /\ n >= Cardinality(S) => Refs(Grants(S, n)) = S
<1> DEFINE c == Cardinality(Least(S, n))
           G == Grants(S, n)
<1>1. c = Fewer(n, Cardinality(S)) /\ c \in Nat /\ Cardinality(S) \in Nat /\ c <= Cardinality(S)
  BY LeastExact, GrantSets DEF Fewer
<1>2. G = [i \in 1 .. c |-> CHOOSE g \in S : Rank(S, g) = i - 1]
  BY DEF Grants, Rank
<1> HIDE DEF c
<1>3. ASSUME NEW i \in 1 .. c
      PROVE  G[i] \in S /\ Rank(S, G[i]) = i - 1
  <2>1. i - 1 \in 0 .. Cardinality(S) - 1
    BY <1>1
  <2>2. \E g \in S : Rank(S, g) = i - 1
    BY <2>1, RankExact
  <2>3. G[i] = CHOOSE g \in S : Rank(S, g) = i - 1
    BY <1>2
  <2>. QED BY <2>2, <2>3, Zenon
<1>4. DOMAIN G = 1 .. c
  BY <1>2
<1> HIDE DEF G
<1>5. G \in Seq(S) /\ Len(G) = c
  <2>1. G \in [1 .. c -> S]
    BY <1>2, <1>3
  <2>. QED BY <1>1, <2>1
<1>6. \A i, j \in 1 .. c : G[i] = G[j] => i = j
  <2> SUFFICES ASSUME NEW i \in 1 .. c, NEW j \in 1 .. c, G[i] = G[j] PROVE i = j
    OBVIOUS
  <2>1. i - 1 = j - 1
    BY <1>3
  <2>. QED BY <2>1
<1>7. Refs(G) \subseteq S
  BY <1>3, <1>5 DEF Refs
<1>8. ASSUME n >= Cardinality(S), NEW g \in S
      PROVE  g \in Refs(G)
  <2>1. c = Cardinality(S)
    BY <1>1, <1>8 DEF Fewer
  <2>2. Rank(S, g) \in 0 .. Cardinality(S) - 1
    BY RankGrows
  <2> DEFINE i == Rank(S, g) + 1
  <2>3. i \in 1 .. c /\ i - 1 = Rank(S, g)
    BY <1>1, <2>1, <2>2
  <2>4. G[i] = g
    BY <1>3, <2>3, RankExact
  <2>. QED BY <1>5, <2>3, <2>4 DEF Refs
<1>. QED BY <1>1, <1>5, <1>6, <1>7, <1>8 DEF G

\* A sequence of different references names as many as it is long.
LEMMA RefsCounted ==
  ASSUME NEW q \in Seq(GrantRefs), \A i, j \in 1 .. Len(q) : q[i] = q[j] => i = j
  PROVE  Cardinality(Refs(q)) = Len(q)
<1> DEFINE D == 1 .. Len(q)
           T == Refs(q)
<1>1. Len(q) \in Nat /\ DOMAIN q = D
  OBVIOUS
<1>2. IsFiniteSet(D) /\ Cardinality(D) = Len(q)
  <2>1. 1 \in Int /\ Len(q) \in Int
    BY <1>1
  <2>2. IsFiniteSet(D) /\ Cardinality(D) = IF 1 > Len(q) THEN 0 ELSE Len(q) - 1 + 1
    BY <2>1, FS_Interval, Zenon
  <2> HIDE DEF D
  <2>. QED BY <1>1, <2>2
<1> DEFINE f == [i \in D |-> q[i]]
<1>3. f \in [D -> T]
  BY DEF Refs
<1>4. f \in Surjection(D, T)
  BY <1>3 DEF Surjection, Refs
<1>5. f \in Injection(D, T)
  BY <1>3 DEF Injection, IsInjective
<1> HIDE DEF D, T, f
<1>6. Cardinality(T) = Cardinality(D)
  BY <1>2, <1>4, <1>5, FS_Surjection, Zenon
<1>. QED BY <1>2, <1>6 DEF T

\* One page of a sequence of entries.
LEMMA PageExact ==
  ASSUME NEW q \in Seq(GrantRefs), NEW a \in Nat, NEW b \in Nat, a <= b
  PROVE  LET p == SubSeq(q, a + 1, Fewer(b, Len(q)))
         IN  /\ p \in Seq(GrantRefs)
             /\ Len(p) = IF a < Len(q) THEN Fewer(b, Len(q)) - a ELSE 0
             /\ Refs(p) = {q[k] : k \in a + 1 .. Fewer(b, Len(q))}
<1> DEFINE m == Fewer(b, Len(q))
           p == SubSeq(q, a + 1, m)
<1>1. Len(q) \in Nat /\ \A i \in 1 .. Len(q) : q[i] \in GrantRefs
  OBVIOUS
<1>2. m \in Nat /\ m <= Len(q)
  BY <1>1 DEF Fewer
<1> HIDE DEF m
<1>3. p \in Seq(GrantRefs) /\ Len(p) = IF a + 1 <= m THEN m - a ELSE 0
  <2>1. p \in Seq(GrantRefs)
    BY <1>1, <1>2
  <2>2. Len(p) = IF a + 1 <= m THEN m - a ELSE 0
    BY <1>1, <1>2
  <2>. QED BY <2>1, <2>2
<1>4. \A i \in 1 .. Len(p) : p[i] = q[a + i]
  BY <1>1, <1>2
<1> HIDE DEF p
<1>5. Len(p) = IF a < Len(q) THEN m - a ELSE 0
  BY <1>1, <1>3 DEF m, Fewer
<1>6. Refs(p) \subseteq {q[k] : k \in a + 1 .. m}
  <2> SUFFICES ASSUME NEW i \in 1 .. Len(p) PROVE p[i] \in {q[k] : k \in a + 1 .. m}
    BY DEF Refs
  <2>1. a + i \in a + 1 .. m
    BY <1>2, <1>3
  <2>. QED BY <1>4, <2>1
<1>7. {q[k] : k \in a + 1 .. m} \subseteq Refs(p)
  <2> SUFFICES ASSUME NEW k \in a + 1 .. m PROVE q[k] \in Refs(p)
    OBVIOUS
  <2>1. k - a \in 1 .. Len(p) /\ a + (k - a) = k
    BY <1>2, <1>3
  <2>2. p[k - a] = q[k]
    BY <1>4, <2>1
  <2>. QED BY <2>1, <2>2 DEF Refs
<1>. QED BY <1>3, <1>5, <1>6, <1>7 DEF p, m

\* Quotient and remainder.
LEMMA DivisionExact ==
  ASSUME NEW m \in Nat, NEW k \in Nat, k > 0
  PROVE  /\ m \div k \in Nat /\ (m \div k) * k \in Nat /\ (m \div k) * k <= m
         /\ m % k \in Nat /\ m = (m \div k) * k + (m % k)
<1>1. m \div k \in Nat /\ m % k \in Nat
  OBVIOUS
<1>2. m = (m \div k) * k + (m % k)
  OBVIOUS
<1>3. (m \div k) * k \in Nat
  BY <1>1
<1> DEFINE whole == (m \div k) * k
           left  == m % k
<1> HIDE DEF whole, left
<1>4. whole \in Nat /\ left \in Nat /\ m = whole + left
  BY <1>1, <1>2, <1>3 DEF whole, left
<1>5. whole <= m
  BY <1>4
<1>. QED BY <1>1, <1>2, <1>3, <1>5 DEF whole

\* The entries n fill Pages(n) pages, the last one at least with one.
LEMMA PagesExact ==
  ASSUME NEW n \in Nat, n > 0
  PROVE  /\ Pages(n) \in Nat \ {0}
         /\ (Pages(n) - 1) * IndirectGrefPages < n
         /\ n <= Pages(n) * IndirectGrefPages
<1> DEFINE P == IndirectGrefPages
           m == (n - 1) \div P
<1>1. P \in Nat /\ P > 0 /\ n - 1 \in Nat
  BY GrantsAssumption
<1> HIDE DEF P
<1>2. m \in Nat /\ m * P <= n - 1 /\ n - 1 < m * P + P
  BY <1>1
<1> HIDE DEF m
<1>3. (m + 1) * P = m * P + P /\ m * P \in Nat /\ m + 1 - 1 = m
  BY <1>1, <1>2
<1>4. Pages(n) = m + 1
  BY DEF Pages, m, P
<1>. QED BY <1>1, <1>2, <1>3, <1>4 DEF P

\* Entry k is on page j, for some page of those n entries need.
LEMMA PageOfEntry ==
  ASSUME NEW n \in Nat, NEW k \in 1 .. n
  PROVE  \E j \in 1 .. Pages(n) :
           (j - 1) * IndirectGrefPages < k /\ k <= j * IndirectGrefPages
<1>1. k \in Nat /\ k > 0 /\ n > 0 /\ k <= n
  OBVIOUS
<1>2. /\ Pages(k) \in Nat \ {0}
      /\ (Pages(k) - 1) * IndirectGrefPages < k /\ k <= Pages(k) * IndirectGrefPages
  BY <1>1, PagesExact
<1>3. Pages(n) \in Nat /\ n <= Pages(n) * IndirectGrefPages
  BY <1>1, PagesExact
<1>4. Pages(k) <= Pages(n)
  <2>1. SUFFICES ASSUME Pages(n) <= Pages(k) - 1 PROVE FALSE
    BY <1>2, <1>3
  <2>2. Pages(n) * IndirectGrefPages <= (Pages(k) - 1) * IndirectGrefPages
    BY <1>2, <1>3, <2>1, GrantsAssumption
  <2>3. Pages(n) * IndirectGrefPages \in Nat /\ (Pages(k) - 1) * IndirectGrefPages \in Nat
    BY <1>2, <1>3, GrantsAssumption
  <2>. QED BY <1>1, <1>2, <1>3, <2>2, <2>3
<1>. QED BY <1>2, <1>3, <1>4

-------------------------------------------------------------------------------
(* What a transfer takes.                                                  *)

\* n entries are described: in the request, or in indirect pages that are full but
\* for the last, with one reference in the request for each of them.
Described(sh, n) ==
  LET last == Len(sh.pages) IN
  /\ last = 0 => Len(sh.direct) = n
  /\ last > 0 => /\ Len(sh.direct) = last
                 /\ \A j \in 1 .. last - 1 : Len(sh.pages[j]) = IndirectGrefPages
                 /\ Len(sh.pages[last]) = n - (last - 1) * IndirectGrefPages
                 /\ Len(sh.pages[last]) \in 1 .. IndirectGrefPages
  /\ Cardinality(Taken(sh)) = n + (IF last > 0 THEN last ELSE 0)

\* What is given back is what was taken.
Returnable(sh) == PutGrants(sh) = Taken(sh)

\* AllocateGrefs.
LEMMA DirectGiven ==
  ASSUME NEW S \in SUBSET GrantRefs, NEW n \in Nat
  PROVE  LET g == AllocateGrefs(S, n)
         IN  /\ g.direct \in Seq(GrantRefs) /\ g.pages = <<>> /\ g.strays = {}
             /\ Taken(g) \subseteq S /\ Returnable(g)
             /\ g.ok => Described(g, n)
<1> DEFINE g == AllocateGrefs(S, n)
<1>1. /\ g.direct = Grants(S, n) /\ g.pages = <<>> /\ g.strays = {}
      /\ g.ok = (Cardinality(S) >= n)
  BY DEF AllocateGrefs
<1>2. /\ g.direct \in Seq(S) /\ Len(g.direct) = Fewer(n, Cardinality(S))
      /\ \A i, j \in 1 .. Len(g.direct) : g.direct[i] = g.direct[j] => i = j
      /\ Refs(g.direct) \subseteq S
  BY <1>1, GrantsGiven
<1> HIDE DEF g
<1>3. Taken(g) = Refs(g.direct) /\ PutGrants(g) = Refs(g.direct)
  <2>1. Len(g.pages) = 0
    BY <1>1
  <2>2. 1 .. Len(g.pages) = {}
    BY <2>1
  <2>3. UNION {Refs(g.pages[j]) : j \in 1 .. Len(g.pages)} = {}
    BY <2>2
  <2>4. Len(g.direct) \in Nat
    BY <1>2
  <2>5. UNION {IF j <= Len(g.pages) THEN Refs(g.pages[j]) ELSE {} : j \in 1 .. Len(g.direct)} = {}
    <3>1. \A j \in 1 .. Len(g.direct) : ~(j <= Len(g.pages))
      BY <2>1, <2>4
    <3>. QED BY <3>1
  <2>. QED BY <2>3, <2>5 DEF Taken, PutGrants
<1>4. g.direct \in Seq(GrantRefs)
  BY <1>2
<1>5. ASSUME g.ok PROVE Described(g, n)
  <2>0. Cardinality(S) >= n
    BY <1>1, <1>5
  <2>1. Len(g.direct) = n
    BY <1>2, <2>0, GrantSets DEF Fewer
  <2>2. Cardinality(Taken(g)) = n
    BY <1>2, <1>3, <1>4, <2>1, RefsCounted
  <2>. QED BY <1>1, <2>1, <2>2 DEF Described
<1>. QED BY <1>1, <1>2, <1>3, <1>4, <1>5 DEF g, Returnable

\* AllocateIndirectGrefs, for a transfer that has an entry.
LEMMA IndirectGiven ==
  ASSUME NEW S \in SUBSET GrantRefs, NEW n \in Nat, n > 0
  PROVE  LET g == AllocateIndirectGrefs(S, n)
         IN  /\ g.direct \in Seq(GrantRefs) /\ g.pages \in Seq(Seq(GrantRefs))
             /\ Len(g.pages) = Pages(n)
             /\ Taken(g) \subseteq S /\ Returnable(g)
             /\ g.ok => Described(g, n)
             /\ \A m \in g.strays : m % IndirectGrefPages = 0
<1> DEFINE P       == IndirectGrefPages
           needed  == Pages(n)
           first   == Grants(S, needed)
           rest    == S \ Refs(first)
           entries == Grants(rest, n)
           got     == Len(entries)
           page(j) == SubSeq(entries, (j - 1) * P + 1, Fewer(j * P, got))
           g       == AllocateIndirectGrefs(S, n)
<1>1. /\ g.direct = first /\ g.pages = [j \in 1 .. needed |-> page(j)]
      /\ g.ok = (Len(first) = needed /\ got = n)
      /\ g.strays = IF got \div P >= needed THEN {n} ELSE {}
  BY DEF AllocateIndirectGrefs, Fewer
<1>2. P \in Nat /\ P > 0
  BY GrantsAssumption
<1>3. /\ needed \in Nat \ {0} /\ (needed - 1) * P < n /\ n <= needed * P
  BY PagesExact
<1>4. /\ first \in Seq(S) /\ Len(first) = Fewer(needed, Cardinality(S)) /\ Refs(first) \subseteq S
      /\ \A i, j \in 1 .. Len(first) : first[i] = first[j] => i = j
      /\ needed >= Cardinality(S) => Refs(first) = S
  BY <1>3, GrantsGiven
<1>5. rest \in SUBSET GrantRefs
  OBVIOUS
<1>6. /\ entries \in Seq(rest) /\ got = Fewer(n, Cardinality(rest)) /\ Refs(entries) \subseteq rest
      /\ \A i, j \in 1 .. got : entries[i] = entries[j] => i = j
  BY <1>5, GrantsGiven
<1>7. /\ first \in Seq(GrantRefs) /\ entries \in Seq(GrantRefs) /\ got \in Nat /\ got <= n
  <2>1. first \in Seq(GrantRefs)
    BY <1>4
  <2>2. entries \in Seq(GrantRefs)
    BY <1>5, <1>6
  <2>3. Cardinality(rest) \in Nat
    BY <1>5, GrantSets
  <2>4. got \in Nat /\ got <= n
    BY <1>6, <2>3 DEF Fewer
  <2>. QED BY <2>1, <2>2, <2>4
<1> HIDE DEF P, needed, first, rest, entries, got
\* Page by page.
<1>8. ASSUME NEW j \in 1 .. needed
      PROVE  /\ (j - 1) * P \in Nat /\ j * P \in Nat /\ (j - 1) * P + P = j * P
             /\ page(j) \in Seq(GrantRefs)
             /\ Len(page(j)) = IF (j - 1) * P < got THEN Fewer(j * P, got) - (j - 1) * P ELSE 0
             /\ Refs(page(j)) = {entries[k] : k \in (j - 1) * P + 1 .. Fewer(j * P, got)}
  <2>1. (j - 1) * P \in Nat /\ j * P \in Nat /\ (j - 1) * P + P = j * P /\ (j - 1) * P <= j * P
    BY <1>2, <1>3
  <2> DEFINE a == (j - 1) * P
             b == j * P
  <2>2. a \in Nat /\ b \in Nat /\ a <= b
    BY <2>1
  <2>3. LET p == SubSeq(entries, a + 1, Fewer(b, Len(entries)))
        IN  /\ p \in Seq(GrantRefs)
            /\ Len(p) = IF a < Len(entries) THEN Fewer(b, Len(entries)) - a ELSE 0
            /\ Refs(p) = {entries[k] : k \in a + 1 .. Fewer(b, Len(entries))}
    <3> HIDE DEF a, b
    <3>. QED BY <1>7, <2>2, PageExact
  <2>. QED BY <2>1, <2>3 DEF got
<1> HIDE DEF page
<1>9. g.direct \in Seq(GrantRefs) /\ g.pages \in Seq(Seq(GrantRefs)) /\ Len(g.pages) = needed
  BY <1>1, <1>3, <1>7, <1>8
<1> HIDE DEF g
<1>10. \A j \in 1 .. needed : g.pages[j] = page(j)
  BY <1>1
\* The pages hold the entries.
<1>11. UNION {Refs(g.pages[j]) : j \in 1 .. Len(g.pages)} = Refs(entries)
  <2>1. ASSUME NEW j \in 1 .. needed PROVE Refs(page(j)) \subseteq Refs(entries)
    <3>1. \A k \in (j - 1) * P + 1 .. Fewer(j * P, got) : k \in 1 .. got
      BY <1>7, <1>8 DEF Fewer
    <3>2. Refs(page(j)) = {entries[k] : k \in (j - 1) * P + 1 .. Fewer(j * P, got)}
      BY <1>8
    <3>3. Refs(entries) = {entries[k] : k \in 1 .. got}
      BY DEF Refs, got
    <3>. QED BY <3>1, <3>2, <3>3
  <2>2. ASSUME NEW k \in 1 .. got PROVE \E j \in 1 .. needed : entries[k] \in Refs(page(j))
    <3>1. k \in 1 .. n
      BY <1>7
    <3>2. PICK j \in 1 .. needed : (j - 1) * P < k /\ k <= j * P
      BY <3>1, PageOfEntry DEF needed, P
    <3>3. k \in (j - 1) * P + 1 .. Fewer(j * P, got)
      BY <1>7, <1>8, <3>2 DEF Fewer
    <3>. QED BY <1>8, <3>3
  <2>3. Refs(entries) = {entries[k] : k \in 1 .. got}
    BY DEF Refs, got
  <2>4. {Refs(g.pages[j]) : j \in 1 .. Len(g.pages)} = {Refs(page(j)) : j \in 1 .. needed}
    BY <1>9, <1>10
  <2>5. UNION {Refs(page(j)) : j \in 1 .. needed} \subseteq Refs(entries)
    BY <2>1
  <2>6. Refs(entries) \subseteq UNION {Refs(page(j)) : j \in 1 .. needed}
    BY <2>2, <2>3
  <2>. QED BY <2>4, <2>5, <2>6
<1>12. Taken(g) = Refs(first) \cup Refs(entries)
  BY <1>1, <1>11 DEF Taken
<1>13. Returnable(g)
  <2>1. CASE Len(first) = needed
    <3>1. \A j \in 1 .. Len(g.direct) : j <= Len(g.pages)
      BY <1>1, <1>3, <1>9, <2>1
    <3>2. {IF j <= Len(g.pages) THEN Refs(g.pages[j]) ELSE {} : j \in 1 .. Len(g.direct)}
            = {Refs(g.pages[j]) : j \in 1 .. Len(g.pages)}
      BY <1>1, <1>9, <2>1, <3>1
    <3>. QED BY <3>2 DEF Returnable, PutGrants, Taken
  <2>2. CASE Len(first) # needed
    <3>1. Refs(first) = S
      BY <1>3, <1>4, <2>2, GrantSets DEF Fewer
    <3>2. Refs(entries) = {}
      BY <1>6, <3>1 DEF rest
    <3>3. Taken(g) = Refs(first) /\ UNION {Refs(g.pages[j]) : j \in 1 .. Len(g.pages)} = {}
      BY <1>11, <1>12, <3>2
    <3>4. \A j \in 1 .. Len(g.direct) : j <= Len(g.pages) => Refs(g.pages[j]) = {}
      <4> SUFFICES ASSUME NEW j \in 1 .. Len(g.direct), j <= Len(g.pages)
                   PROVE  Refs(g.pages[j]) = {}
        OBVIOUS
      <4>1. j \in 1 .. Len(g.pages)
        BY <1>9
      <4>. QED BY <3>3, <4>1
    <3>5. UNION {IF j <= Len(g.pages) THEN Refs(g.pages[j]) ELSE {} : j \in 1 .. Len(g.direct)} = {}
      BY <3>4
    <3>. QED BY <1>1, <3>3, <3>5 DEF Returnable, PutGrants
  <2>. QED BY <2>1, <2>2
<1>14. ASSUME g.ok PROVE Described(g, n)
  <2>1. Len(first) = needed /\ got = n
    BY <1>1, <1>14
  <2>2. \A j \in 1 .. needed - 1 : Len(page(j)) = P
    <3> SUFFICES ASSUME NEW j \in 1 .. needed - 1 PROVE Len(page(j)) = P
      OBVIOUS
    <3>1. j \in 1 .. needed
      BY <1>3
    <3>2. j * P <= (needed - 1) * P /\ (needed - 1) * P \in Nat
      BY <1>2, <1>3
    <3> DEFINE a == (j - 1) * P
               b == j * P
               c == (needed - 1) * P
    <3>3. /\ a \in Nat /\ b \in Nat /\ a + P = b /\ b <= c /\ c \in Nat /\ c < n
          /\ Len(page(j)) = IF a < got THEN Fewer(b, got) - a ELSE 0
      BY <1>3, <1>8, <3>1, <3>2
    <3> HIDE DEF a, b, c
    <3>. QED BY <1>2, <2>1, <3>3 DEF Fewer
  <2>3. Len(page(needed)) = n - (needed - 1) * P /\ Len(page(needed)) \in 1 .. P
    <3>1. needed \in 1 .. needed
      BY <1>3
    <3> DEFINE a == (needed - 1) * P
               b == needed * P
    <3>2. /\ a \in Nat /\ b \in Nat /\ a + P = b /\ a < n /\ n <= b
          /\ Len(page(needed)) = IF a < got THEN Fewer(b, got) - a ELSE 0
      BY <1>3, <1>8, <3>1
    <3>3. Len(page(needed)) = n - a
      <4> HIDE DEF a, b
      <4>. QED BY <2>1, <3>2 DEF Fewer
    <3>4. n - a \in 1 .. P
      <4> HIDE DEF a, b
      <4>. QED BY <1>2, <3>2
    <3>. QED BY <3>3, <3>4
  <2>4. Cardinality(Taken(g)) = n + needed
    <3>1. Cardinality(Refs(first)) = needed /\ Cardinality(Refs(entries)) = n
      BY <1>4, <1>6, <1>7, <2>1, RefsCounted DEF got
    <3>2. Refs(first) \cap Refs(entries) = {}
      BY <1>6 DEF rest
    <3>3. IsFiniteSet(Refs(first)) /\ IsFiniteSet(Refs(entries))
      <4>1. Refs(first) \in SUBSET GrantRefs /\ Refs(entries) \in SUBSET GrantRefs
        BY <1>4, <1>5, <1>6
      <4>. QED BY <4>1, GrantSets
    <3>4. Cardinality(Taken(g)) = needed + n - 0
      BY <1>12, <3>1, <3>2, <3>3, FS_Union, FS_EmptySet
    <3>. QED BY <1>3, <3>4
  <2>. QED BY <1>1, <1>3, <1>9, <1>10, <2>1, <2>2, <2>3, <2>4 DEF Described, P
<1>15. ASSUME NEW m \in g.strays PROVE m % IndirectGrefPages = 0
  <2>1. m = n /\ got \div P >= needed
    BY <1>1, <1>15
  <2>2. n <= (got \div P) * P
    <3>1. got \div P \in Nat
      BY <1>2, <1>7, DivisionExact
    <3>2. needed * P <= (got \div P) * P
      BY <1>2, <1>3, <2>1, <3>1
    <3>3. needed * P \in Nat /\ (got \div P) * P \in Nat
      BY <1>2, <1>3, <3>1
    <3>. QED BY <1>3, <3>2, <3>3
  <2>3. /\ (got \div P) * P \in Nat /\ (got \div P) * P <= got
        /\ got = (got \div P) * P + (got % P) /\ got % P \in Nat
    BY <1>2, <1>7, DivisionExact
  <2> DEFINE whole == (got \div P) * P
             left  == got % P
  <2>4. got = n /\ left = 0
    <3>1. /\ got \in Nat /\ whole \in Nat /\ left \in Nat /\ got = whole + left
          /\ n <= whole /\ got <= n
      BY <1>7, <2>2, <2>3
    <3> HIDE DEF whole, left
    <3>. QED BY <3>1
  <2>5. n % P = 0
    BY <2>4
  <2>. QED BY <2>1, <2>5 DEF P
<1>16. Taken(g) \subseteq S
  BY <1>4, <1>6, <1>12 DEF rest
<1>. QED BY <1>9, <1>13, <1>14, <1>15, <1>16 DEF g, needed

-------------------------------------------------------------------------------
(* What a transfer needs.                                                  *)

\* What a concatenation holds is in one of its parts.
LEMMA RefsConcat ==
  ASSUME NEW S, NEW p \in Seq(S), NEW q \in Seq(S)
  PROVE  p \o q \in Seq(S) /\ Refs(p \o q) = Refs(p) \cup Refs(q)
<1> DEFINE r == p \o q
<1>1. Len(p) \in Nat /\ Len(q) \in Nat
  OBVIOUS
<1>2. /\ r \in Seq(S) /\ Len(r) = Len(p) + Len(q)
      /\ \A i \in 1 .. Len(p) + Len(q) : r[i] = IF i <= Len(p) THEN p[i] ELSE q[i - Len(p)]
  BY ConcatProperties, Zenon
<1> HIDE DEF r
<1>3. ASSUME NEW i \in 1 .. Len(r) PROVE r[i] \in Refs(p) \cup Refs(q)
  <2>1. CASE i <= Len(p)
    <3>1. i \in 1 .. Len(p) /\ r[i] = p[i]
      BY <1>1, <1>2, <2>1
    <3>. QED BY <3>1 DEF Refs
  <2>2. CASE ~(i <= Len(p))
    <3>1. i - Len(p) \in 1 .. Len(q) /\ r[i] = q[i - Len(p)]
      BY <1>1, <1>2, <2>2
    <3>. QED BY <3>1 DEF Refs
  <2>. QED BY <2>1, <2>2
<1>4. ASSUME NEW i \in 1 .. Len(p) PROVE p[i] \in Refs(r)
  <2>1. i \in 1 .. Len(r) /\ r[i] = p[i]
    BY <1>1, <1>2
  <2>. QED BY <2>1 DEF Refs
<1>5. ASSUME NEW i \in 1 .. Len(q) PROVE q[i] \in Refs(r)
  <2>1. Len(p) + i \in 1 .. Len(r) /\ ~(Len(p) + i <= Len(p)) /\ Len(p) + i - Len(p) = i
    BY <1>1, <1>2
  <2>2. r[Len(p) + i] = q[i]
    BY <1>2, <2>1
  <2>. QED BY <2>1, <2>2 DEF Refs
<1>6. Refs(r) \subseteq Refs(p) \cup Refs(q)
  BY <1>3 DEF Refs
<1>7. Refs(p) \subseteq Refs(r) /\ Refs(q) \subseteq Refs(r)
  BY <1>4, <1>5 DEF Refs
<1>. QED BY <1>2, <1>6, <1>7 DEF r

\* What short sequences hold.
LEMMA Tuples ==
  ASSUME NEW S, NEW a \in S
  PROVE  /\ <<>> \in Seq(S) /\ Refs(<<>>) = {}
         /\ <<a>> \in Seq(S) /\ Refs(<<a>>) = {a}
<1>1. /\ <<>> \in Seq(S) /\ Len(<<>>) = 0
      /\ <<a>> \in Seq(S) /\ Len(<<a>>) = 1
  OBVIOUS
<1>2. 1 .. 0 = {} /\ 1 .. 1 = {1}
  OBVIOUS
<1>3. Refs(<<>>) = {}
  BY <1>1, <1>2 DEF Refs
<1>4. Refs(<<a>>) = {a}
  BY <1>1, <1>2 DEF Refs
<1>. QED BY <1>1, <1>3, <1>4

\* What a pair holds.
LEMMA Pair ==
  ASSUME NEW S, NEW a \in S, NEW b \in S
  PROVE  <<a, b>> \in Seq(S) /\ Refs(<<a, b>>) = {a, b}
<1>1. <<a, b>> \in Seq(S) /\ Len(<<a, b>>) = 2 /\ 1 .. 2 = {1, 2}
  OBVIOUS
<1>. QED BY <1>1 DEF Refs

\* What a sequence of three holds.
LEMMA Triple ==
  ASSUME NEW S, NEW a \in S, NEW b \in S, NEW c \in S
  PROVE  <<a, b, c>> \in Seq(S) /\ Refs(<<a, b, c>>) = {a, b, c}
<1>1. <<a, b, c>> \in Seq(S) /\ Len(<<a, b, c>>) = 3 /\ 1 .. 3 = {1, 2, 3}
  OBVIOUS
<1>. QED BY <1>1 DEF Refs

NeedNames == Memory \cup {"buffer", "size", "grants", "cancelable"}

TransferKinds == [type : {"iso", "bulk", "other"}, pages : Nat, buffer : {"mdl", "memory", "none"}]

\* A transfer without pages needs no references; every other one does, and its
\* size is checked when it needs indirect pages.  The packet buffer is for
\* isochronous transfers.
LEMMA NeedsExact ==
  ASSUME NEW t \in TransferKinds
  PROVE  /\ Needs(t) \in Seq(NeedNames)
         /\ "nothing" \notin Refs(Needs(t))
         /\ "grants" \in Refs(Needs(t)) <=> t.type = "iso" \/ t.pages # 0
         /\ "grants" \in Refs(Needs(t)) /\ Indirect(t) => "size" \in Refs(Needs(t))
         /\ "packetBuffer" \in Refs(Needs(t)) => t.type = "iso"
<1>0. /\ "ownMdl" \in NeedNames /\ "size" \in NeedNames /\ "indirectMemory" \in NeedNames
      /\ "indirectMdl" \in NeedNames /\ "packetBuffer" \in NeedNames
      /\ "packetMdl" \in NeedNames /\ "buffer" \in NeedNames /\ "grants" \in NeedNames
      /\ "cancelable" \in NeedNames /\ "nothing" \notin NeedNames
  BY DEF NeedNames, Memory
<1>1. /\ OwnMdl(t) \in Seq(NeedNames) /\ Refs(OwnMdl(t)) \subseteq {"ownMdl"}
  <2>1. /\ <<"ownMdl">> \in Seq(NeedNames) /\ <<>> \in Seq(NeedNames)
        /\ Refs(<<"ownMdl">>) = {"ownMdl"} /\ Refs(<<>>) = {}
    BY <1>0, Tuples
  <2>. QED BY <2>1 DEF OwnMdl
<1>2. /\ IndirectNeeds(t) \in Seq(NeedNames)
      /\ Refs(IndirectNeeds(t)) \subseteq {"size", "indirectMemory", "indirectMdl"}
      /\ Indirect(t) => "size" \in Refs(IndirectNeeds(t))
  <2> DEFINE q == <<"size", "indirectMemory", "indirectMdl">>
  <2>1. /\ q \in Seq(NeedNames) /\ Refs(q) = {"size", "indirectMemory", "indirectMdl"}
        /\ <<>> \in Seq(NeedNames) /\ Refs(<<>>) = {}
    <3>1. q \in Seq(NeedNames) /\ Refs(q) = {"size", "indirectMemory", "indirectMdl"}
      BY <1>0, Triple, Zenon
    <3>2. <<>> \in Seq(NeedNames) /\ Refs(<<>>) = {}
      BY <1>0, Tuples
    <3>. QED BY <3>1, <3>2
  <2>2. IndirectNeeds(t) = IF Indirect(t) THEN q ELSE <<>>
    BY DEF IndirectNeeds
  <2> HIDE DEF q
  <2>. QED BY <2>1, <2>2
<1>3. CASE t.type = "iso"
  <2> DEFINE a == <<"packetBuffer", "packetMdl", "buffer">>
             b == a \o OwnMdl(t)
             c == b \o IndirectNeeds(t)
             z == <<"grants", "cancelable">>
  <2>1. Needs(t) = c \o z
    BY <1>3 DEF Needs, IsoNeeds
  <2>2. a \in Seq(NeedNames) /\ Refs(a) = {"packetBuffer", "packetMdl", "buffer"}
    BY <1>0, Triple, Zenon
  <2>3. z \in Seq(NeedNames) /\ Refs(z) = {"grants", "cancelable"}
    BY <1>0, Pair, Zenon
  <2> HIDE DEF a, z
  <2>4. b \in Seq(NeedNames) /\ Refs(b) = Refs(a) \cup Refs(OwnMdl(t))
    BY <1>1, <2>2, RefsConcat
  <2> HIDE DEF b
  <2>5. c \in Seq(NeedNames) /\ Refs(c) = Refs(b) \cup Refs(IndirectNeeds(t))
    BY <1>2, <2>4, RefsConcat
  <2> HIDE DEF c
  <2>6. Needs(t) \in Seq(NeedNames) /\ Refs(Needs(t)) = Refs(c) \cup Refs(z)
    BY <2>1, <2>3, <2>5, RefsConcat
  <2>. QED BY <1>1, <1>2, <1>3, <2>2, <2>3, <2>4, <2>5, <2>6
<1>4. CASE t.type # "iso" /\ t.pages = 0
  <2> DEFINE z == <<"cancelable">>
  <2>1. Needs(t) = <<>> \o z
    BY <1>4 DEF Needs, UrbNeeds
  <2>2. <<>> \in Seq(NeedNames) /\ Refs(<<>>) = {}
    BY <1>0, Tuples
  <2>3. z \in Seq(NeedNames) /\ Refs(z) = {"cancelable"}
    BY <1>0, Tuples
  <2> HIDE DEF z
  <2>4. Needs(t) \in Seq(NeedNames) /\ Refs(Needs(t)) = {} \cup Refs(z)
    BY <2>1, <2>2, <2>3, RefsConcat
  <2>. QED BY <1>4, <2>3, <2>4
<1>5. CASE t.type # "iso" /\ t.pages # 0
  <2> DEFINE a == <<"buffer">>
             b == a \o OwnMdl(t)
             c == b \o IndirectNeeds(t)
             d == c \o <<"grants">>
             y == <<"grants">>
             z == <<"cancelable">>
  <2>1. Needs(t) = d \o z
    BY <1>5 DEF Needs, UrbNeeds
  <2>2. a \in Seq(NeedNames) /\ Refs(a) = {"buffer"}
    BY <1>0, Tuples
  <2>3. /\ y \in Seq(NeedNames) /\ Refs(y) = {"grants"}
        /\ z \in Seq(NeedNames) /\ Refs(z) = {"cancelable"}
    BY <1>0, Tuples
  <2>0. d = c \o y
    OBVIOUS
  <2> HIDE DEF a, y, z, d
  <2>4. b \in Seq(NeedNames) /\ Refs(b) = Refs(a) \cup Refs(OwnMdl(t))
    BY <1>1, <2>2, RefsConcat
  <2> HIDE DEF b
  <2>5. c \in Seq(NeedNames) /\ Refs(c) = Refs(b) \cup Refs(IndirectNeeds(t))
    BY <1>2, <2>4, RefsConcat
  <2> HIDE DEF c
  <2>6. d \in Seq(NeedNames) /\ Refs(d) = Refs(c) \cup Refs(y)
    BY <2>0, <2>3, <2>5, RefsConcat
  <2>7. Needs(t) \in Seq(NeedNames) /\ Refs(Needs(t)) = Refs(d) \cup Refs(z)
    BY <2>1, <2>3, <2>6, RefsConcat
  <2>. QED BY <1>1, <1>2, <1>5, <2>2, <2>3, <2>4, <2>5, <2>6, <2>7
<1>. QED BY <1>3, <1>4, <1>5

\* Only what is needed is acquired; when nothing has failed, nothing was refused.
LEMMA AcquiredExact ==
  ASSUME NEW t \in TransferKinds, NEW failing, NEW granted
  PROVE  LET acquired == Acquired(t, failing, granted)
         IN  /\ acquired \subseteq Refs(Needs(t))
             /\ FailedAt(t, acquired) = "nothing" =>
                  \A x \in Refs(Needs(t)) : x \in acquired /\ ~Refused(t, x, failing, granted)
<1> DEFINE q        == Needs(t)
           met      == {n \in 1 .. Len(q) : \A k \in 1 .. n : ~Refused(t, q[k], failing, granted)}
           acquired == {q[i] : i \in met}
<1>1. Acquired(t, failing, granted) = acquired
  BY DEF Acquired
<1>2. q \in Seq(NeedNames) /\ Len(q) \in Nat /\ "nothing" \notin Refs(q)
  BY NeedsExact
<1>3. acquired \subseteq Refs(q)
  BY DEF Refs
<1>4. ASSUME FailedAt(t, acquired) = "nothing", NEW i \in 1 .. Len(q)
      PROVE  i \in met /\ ~Refused(t, q[i], failing, granted)
  <2>1. IsFiniteSet(1 .. Len(q)) /\ Cardinality(1 .. Len(q)) = Len(q)
    <3>1. 1 \in Int /\ Len(q) \in Int
      BY <1>2
    <3>2. /\ IsFiniteSet(1 .. Len(q))
          /\ Cardinality(1 .. Len(q)) = IF 1 > Len(q) THEN 0 ELSE Len(q) - 1 + 1
      BY <3>1, FS_Interval, Zenon
    <3>. QED BY <1>2, <3>2
  <2>2. /\ met \in SUBSET (1 .. Len(q)) /\ IsFiniteSet(met)
        /\ Cardinality(met) \in Nat /\ Cardinality(met) <= Len(q)
        /\ Cardinality(met) = Len(q) => met = 1 .. Len(q)
    <3>1. met \in SUBSET (1 .. Len(q))
      OBVIOUS
    <3> HIDE DEF met
    <3>2. /\ IsFiniteSet(met) /\ Cardinality(met) <= Cardinality(1 .. Len(q))
          /\ Cardinality(1 .. Len(q)) = Cardinality(met) => 1 .. Len(q) = met
      BY <2>1, <3>1, FS_Subset, Zenon
    <3>3. Cardinality(met) \in Nat
      BY <3>2, FS_CardinalityType
    <3>. QED BY <2>1, <3>1, <3>2, <3>3
  <2>3. Cardinality(acquired) \in Nat /\ Cardinality(acquired) <= Cardinality(met)
    <3> DEFINE f == [n \in met |-> q[n]]
    <3>1. f \in Surjection(met, acquired)
      BY DEF Surjection
    <3> HIDE DEF f, met, acquired
    <3>2. IsFiniteSet(acquired) /\ Cardinality(acquired) <= Cardinality(met)
      BY <2>2, <3>1, FS_Surjection, Zenon
    <3>. QED BY <3>2, FS_CardinalityType
  <2>4. ~(Cardinality(acquired) < Len(q))
    <3>1. SUFFICES ASSUME Cardinality(acquired) < Len(q) PROVE FALSE
      OBVIOUS
    <3>2. Cardinality(acquired) + 1 \in 1 .. Len(q)
      <4> HIDE DEF acquired
      <4>. QED BY <1>2, <2>3, <3>1
    <3>3. FailedAt(t, acquired) = q[Cardinality(acquired) + 1]
      BY <3>1 DEF FailedAt
    <3>4. q[Cardinality(acquired) + 1] \in Refs(q)
      BY <3>2 DEF Refs
    <3>. QED BY <1>2, <1>4, <3>3, <3>4
  <2>5. met = 1 .. Len(q)
    <3> HIDE DEF met, acquired
    <3>. QED BY <1>2, <2>2, <2>3, <2>4
  <2>6. i \in met /\ i \in 1 .. i
    BY <2>5
  <2>. QED BY <2>6
<1>5. FailedAt(t, acquired) = "nothing" =>
        \A x \in Refs(q) : x \in acquired /\ ~Refused(t, x, failing, granted)
  BY <1>4 DEF Refs
<1>. QED BY <1>1, <1>3, <1>5

-------------------------------------------------------------------------------
(* The invariant.                                                          *)

\* What a shadow holds.
Shadows == [transfer : SUBSET Transfers, direct : Seq(GrantRefs), pages : Seq(Seq(GrantRefs)),
            memory : SUBSET Memory]

\* Every shadow gives back what it took, and describes its transfer.
ShadowsExact ==
  /\ shadow \in [TransferSlots -> Shadows]
  /\ \A s \in TransferSlots : Returnable(shadow[s])

TransfersInv == ShadowsExact /\ ResourcesAccounted /\ TransferDescribed

\* A free shadow holds nothing.
LEMMA NoShadowHolds ==
  NoShadow \in Shadows /\ Taken(NoShadow) = {} /\ Returnable(NoShadow)
<1>1. NoShadow \in Shadows
  BY DEF NoShadow, Shadows
<1>2. Refs(<<>>) = {} /\ 1 .. Len(<<>>) = {}
  BY DEF Refs
<1>3. Taken(NoShadow) = {}
  BY <1>2 DEF NoShadow, Taken
<1>4. PutGrants(NoShadow) = {}
  BY <1>2 DEF NoShadow, PutGrants
<1>. QED BY <1>1, <1>3, <1>4 DEF Returnable

\* The entries of a transfer.
LEMMA EntriesNat ==
  ASSUME NEW t \in Transfers
  PROVE  t \in TransferKinds /\ Entries(t) \in Nat /\ (Indirect(t) => Entries(t) > 0)
<1>1. t \in TransferKinds
  BY TransfersAssumption DEF TransferKinds
<1>2. t.pages \in Nat
  BY <1>1 DEF TransferKinds
<1>3. Entries(t) \in Nat
  BY <1>2 DEF Entries
<1>. QED BY <1>1, <1>3, GrantsAssumption DEF Indirect

\* Whatever is allocated for a transfer was free, can be given back, and describes
\* the transfer when it sufficed.
LEMMA AllocationExact ==
  ASSUME NEW t \in Transfers, freeGrants \subseteq GrantRefs
  PROVE  LET g == AllocateFor(t)
         IN  /\ g.direct \in Seq(GrantRefs) /\ g.pages \in Seq(Seq(GrantRefs))
             /\ Len(g.pages) = IF Indirect(t) THEN Pages(Entries(t)) ELSE 0
             /\ Taken(g) \subseteq freeGrants /\ Returnable(g)
             /\ g.ok => Described(g, Entries(t))
             /\ \A m \in g.strays : m % IndirectGrefPages = 0
<1>1. Entries(t) \in Nat /\ (Indirect(t) => Entries(t) > 0)
  BY EntriesNat
<1>2. CASE Indirect(t)
  <2>1. AllocateFor(t) = AllocateIndirectGrefs(freeGrants, Entries(t))
    BY <1>2 DEF AllocateFor
  <2>2. LET g == AllocateIndirectGrefs(freeGrants, Entries(t))
        IN  /\ g.direct \in Seq(GrantRefs) /\ g.pages \in Seq(Seq(GrantRefs))
            /\ Len(g.pages) = Pages(Entries(t))
            /\ Taken(g) \subseteq freeGrants /\ Returnable(g)
            /\ g.ok => Described(g, Entries(t))
            /\ \A m \in g.strays : m % IndirectGrefPages = 0
    <3>1. freeGrants \in SUBSET GrantRefs /\ Entries(t) \in Nat /\ Entries(t) > 0
      BY <1>1, <1>2
    <3>. QED BY <3>1, IndirectGiven, Zenon
  <2>. QED BY <1>2, <2>1, <2>2
<1>3. CASE ~Indirect(t)
  <2>1. AllocateFor(t) = AllocateGrefs(freeGrants, Entries(t))
    BY <1>3 DEF AllocateFor
  <2>2. LET g == AllocateGrefs(freeGrants, Entries(t))
        IN  /\ g.direct \in Seq(GrantRefs) /\ g.pages = <<>> /\ g.strays = {}
            /\ Taken(g) \subseteq freeGrants /\ Returnable(g)
            /\ g.ok => Described(g, Entries(t))
    BY <1>1, DirectGiven
  <2>3. <<>> \in Seq(Seq(GrantRefs)) /\ Len(<<>>) = 0
    OBVIOUS
  <2>. QED BY <1>3, <2>1, <2>2, <2>3
<1>. QED BY <1>2, <1>3

\* The shadow is filled with what was allocated for it, or with nothing.
LEMMA FilledExact ==
  ASSUME NEW t \in Transfers, freeGrants \subseteq GrantRefs, NEW acquired, NEW failed
  PROVE  LET g      == AllocateFor(t)
             filled == Filled(t, acquired, failed, g)
         IN  /\ filled \in Shadows /\ filled.transfer = {t}
             /\ Taken(filled) \subseteq freeGrants /\ Returnable(filled)
             /\ "grants" \in acquired =>
                  /\ filled.direct = g.direct /\ filled.pages = g.pages
                  /\ Taken(filled) = Taken(g)
             /\ "grants" \notin acquired \cup {failed} =>
                  filled.direct = <<>> /\ filled.pages = <<>> /\ Taken(filled) = {}
<1> DEFINE g      == AllocateFor(t)
           filled == Filled(t, acquired, failed, g)
           alloc  == IF "grants" \in acquired \cup {failed} THEN g ELSE NoShadow
<1>1. /\ g.direct \in Seq(GrantRefs) /\ g.pages \in Seq(Seq(GrantRefs))
      /\ Taken(g) \subseteq freeGrants /\ Returnable(g)
  BY AllocationExact
<1>2. filled = [transfer |-> {t}, direct |-> alloc.direct, pages |-> alloc.pages,
                memory |-> acquired \cap Kept]
  BY DEF Filled
<1>3. /\ filled.transfer = {t} /\ filled.direct = alloc.direct /\ filled.pages = alloc.pages
      /\ filled.memory = acquired \cap Kept
  BY <1>2
<1>4. Kept \subseteq Memory
  BY DEF Kept, Memory
<1> HIDE DEF g, filled
<1>5. /\ alloc.direct \in Seq(GrantRefs) /\ alloc.pages \in Seq(Seq(GrantRefs))
      /\ Taken(alloc) \subseteq freeGrants /\ Returnable(alloc)
  <2>1. NoShadow.direct \in Seq(GrantRefs) /\ NoShadow.pages \in Seq(Seq(GrantRefs))
    BY DEF NoShadow
  <2>. QED BY <1>1, <2>1, NoShadowHolds
<1>6. Taken(filled) = Taken(alloc) /\ PutGrants(filled) = PutGrants(alloc)
  <2> HIDE DEF alloc
  <2>. QED BY <1>3 DEF Taken, PutGrants
<1>7. filled \in Shadows
  <2> HIDE DEF alloc
  <2>. QED BY <1>2, <1>4, <1>5 DEF Shadows
<1>8. "grants" \in acquired => alloc = g
  OBVIOUS
<1>9. "grants" \notin acquired \cup {failed} =>
        alloc = NoShadow /\ NoShadow.direct = <<>> /\ NoShadow.pages = <<>>
  BY DEF NoShadow
<1> HIDE DEF alloc
<1>. QED BY <1>3, <1>5, <1>6, <1>7, <1>8, <1>9, NoShadowHolds DEF g, filled, Returnable

\* When nothing failed, the shadow describes its transfer, in a request.
LEMMA FilledDescribes ==
  ASSUME NEW t \in Transfers, freeGrants \subseteq GrantRefs, NEW failing
  PROVE  LET g        == AllocateFor(t)
             acquired == Acquired(t, failing, g.ok)
             filled   == Filled(t, acquired, "nothing", g)
         IN  FailedAt(t, acquired) = "nothing" =>
               Described(filled, Entries(t)) /\ Len(filled.direct) <= MaxSegments
<1> DEFINE g        == AllocateFor(t)
           acquired == Acquired(t, failing, g.ok)
           filled   == Filled(t, acquired, "nothing", g)
           n        == Entries(t)
<1> SUFFICES ASSUME FailedAt(t, acquired) = "nothing"
             PROVE  Described(filled, n) /\ Len(filled.direct) <= MaxSegments
  OBVIOUS
<1>1. t \in TransferKinds /\ n \in Nat /\ (Indirect(t) => n > 0)
  BY EntriesNat
<1>2. /\ acquired \subseteq Refs(Needs(t))
      /\ \A x \in Refs(Needs(t)) : x \in acquired /\ ~Refused(t, x, failing, g.ok)
  BY <1>1, AcquiredExact
<1>3. /\ "grants" \in acquired =>
           filled.direct = g.direct /\ filled.pages = g.pages /\ Taken(filled) = Taken(g)
      /\ "grants" \notin acquired \cup {"nothing"} =>
           filled.direct = <<>> /\ filled.pages = <<>> /\ Taken(filled) = {}
  BY FilledExact
<1>4. /\ Len(g.pages) = IF Indirect(t) THEN Pages(n) ELSE 0
      /\ g.ok => Described(g, n)
  BY AllocationExact
<1> HIDE DEF g, acquired, filled
<1>5. CASE "grants" \in Refs(Needs(t))
  <2>1. "grants" \in acquired /\ g.ok
    BY <1>2, <1>5 DEF Refused
  <2>2. Described(filled, n)
    BY <1>3, <1>4, <2>1 DEF Described
  <2>3. CASE Indirect(t)
    <3>1. "size" \in Refs(Needs(t))
      BY <1>1, <1>5, <2>3, NeedsExact
    <3>2. ~TooLong(t)
      BY <1>2, <3>1 DEF Refused
    <3>3. n <= MaxSegments * IndirectGrefPages
      BY <1>1, <3>2, GrantsAssumption DEF TooLong
    <3>4. Pages(n) \in Nat \ {0} /\ (Pages(n) - 1) * IndirectGrefPages < n
      BY <1>1, <2>3, PagesExact
    <3>5. Pages(n) <= MaxSegments
      <4>1. SUFFICES ASSUME MaxSegments <= Pages(n) - 1 PROVE FALSE
        BY <3>4, GrantsAssumption
      <4>2. MaxSegments * IndirectGrefPages <= (Pages(n) - 1) * IndirectGrefPages
        BY <3>4, <4>1, GrantsAssumption
      <4>3. /\ MaxSegments * IndirectGrefPages \in Nat
            /\ (Pages(n) - 1) * IndirectGrefPages \in Nat
        BY <3>4, GrantsAssumption
      <4>. QED BY <1>1, <3>3, <3>4, <4>2, <4>3
    <3>6. Len(filled.direct) = Pages(n)
      BY <1>3, <1>4, <2>1, <2>2, <2>3, <3>4 DEF Described
    <3>. QED BY <2>2, <3>5, <3>6
  <2>4. CASE ~Indirect(t)
    <3>1. Len(filled.direct) = n
      BY <1>3, <1>4, <2>1, <2>2, <2>4 DEF Described
    <3>. QED BY <1>1, <2>2, <2>4, <3>1, GrantsAssumption DEF Indirect
  <2>. QED BY <2>3, <2>4
<1>6. CASE "grants" \notin Refs(Needs(t))
  <2>1. filled.direct = <<>> /\ filled.pages = <<>> /\ Taken(filled) = {}
    BY <1>2, <1>3, <1>6
  <2>2. n = 0
    BY <1>1, <1>6, NeedsExact DEF Entries
  <2>3. Cardinality(Taken(filled)) = 0
    BY <2>1, FS_EmptySet
  <2>4. Len(filled.direct) = 0 /\ Len(filled.pages) = 0
    BY <2>1
  <2>. QED BY <2>2, <2>3, <2>4, GrantsAssumption DEF Described
<1>. QED BY <1>5, <1>6

\* Nothing is held at the start.
LEMMA TransfersInvInit == TransfersInit => TransfersInv
<1> SUFFICES ASSUME TransfersInit PROVE TransfersInv
  OBVIOUS
<1>1. \A s \in TransferSlots : shadow[s] = NoShadow
  BY DEF TransfersInit
<1>2. ShadowsExact
  BY <1>1, NoShadowHolds DEF TransfersInit, ShadowsExact
<1>3. \A s \in TransferSlots : Taken(shadow[s]) = {}
  BY <1>1, NoShadowHolds
<1>4. ResourcesAccounted
  BY <1>3 DEF TransfersInit, ResourcesAccounted
<1>5. TransferDescribed
  BY <1>1 DEF TransfersInit, TransferDescribed, NoShadow
<1>. QED BY <1>2, <1>4, <1>5 DEF TransfersInv

\* A transfer is put on the ring, or refused with everything given back.
LEMMA PutKeeps ==
  ASSUME TransfersInv, NEW s \in TransferSlots, NEW t \in Transfers, NEW failing \in MayFail(t),
         PutTransferOnRing(s, t, failing)
  PROVE  TransfersInv'
<1> DEFINE g        == AllocateFor(t)
           acquired == Acquired(t, failing, g.ok)
           failed   == FailedAt(t, acquired)
           filled   == Filled(t, acquired, failed, g)
<1>1. /\ shadow[s] = NoShadow
      /\ strays' = IF filled.pages = <<>> THEN {} ELSE g.strays
      /\ IF failed = "nothing"
         THEN /\ shadow' = [shadow EXCEPT ![s] = filled]
              /\ freeGrants' = freeGrants \ Taken(filled)
              /\ leaked' = {}
         ELSE /\ freeGrants' = (freeGrants \ Taken(filled)) \cup PutGrants(filled)
              /\ leaked' = {<<t.type, x>> : x \in (acquired \cap Memory) \ FinallyFrees(t)}
              /\ shadow' = shadow
      /\ lostGrants' = lostGrants
  BY DEF PutTransferOnRing
<1>2. freeGrants \subseteq GrantRefs
  BY DEF TransfersInv, ResourcesAccounted
<1>3. /\ filled \in Shadows /\ filled.transfer = {t}
      /\ Taken(filled) \subseteq freeGrants /\ Returnable(filled)
  BY <1>2, FilledExact
<1>4. /\ \A m \in g.strays : m % IndirectGrefPages = 0
      /\ acquired \subseteq Refs(Needs(t))
  BY <1>2, AllocationExact, AcquiredExact, EntriesNat
<1>5. failed = "nothing" => Described(filled, Entries(t)) /\ Len(filled.direct) <= MaxSegments
  BY <1>2, FilledDescribes
<1> HIDE DEF g, acquired, failed, filled
<1>6. /\ shadow \in [TransferSlots -> Shadows]
      /\ \A r \in TransferSlots : Returnable(shadow[r])
  BY DEF TransfersInv, ShadowsExact
<1>7. \A m \in strays' : m % IndirectGrefPages = 0
  BY <1>1, <1>4
<1>8. CASE failed = "nothing"
  <2>1. /\ shadow'[s] = filled
        /\ \A r \in TransferSlots \ {s} : shadow'[r] = shadow[r]
    BY <1>1, <1>6, <1>8
  <2>2. ShadowsExact'
    BY <1>1, <1>3, <1>6, <1>8, <2>1 DEF ShadowsExact, Returnable
  <2>3. ResourcesAccounted'
    <3> DEFINE T(r) == Taken(shadow[r])
    <3>1. /\ T(s) = {} /\ Taken(shadow'[s]) = Taken(filled)
          /\ \A r \in TransferSlots \ {s} : Taken(shadow'[r]) = T(r)
      BY <1>1, <2>1, NoShadowHolds
    <3>2. /\ freeGrants \cup lostGrants \cup UNION {T(r) : r \in TransferSlots} = GrantRefs
          /\ freeGrants \cap lostGrants = {}
          /\ \A r \in TransferSlots : T(r) \cap (freeGrants \cup lostGrants) = {}
          /\ \A r, q \in TransferSlots : r # q => T(r) \cap T(q) = {}
      BY DEF TransfersInv, ResourcesAccounted
    <3>3. freeGrants' = freeGrants \ Taken(filled) /\ lostGrants' = lostGrants /\ leaked' = {}
      BY <1>1, <1>8
    <3> DEFINE U(r) == Taken(shadow'[r])
    <3>4. U(s) = Taken(filled) /\ \A r \in TransferSlots \ {s} : U(r) = T(r)
      BY <3>1
    <3> HIDE DEF T, U
    <3>5. freeGrants' \cup lostGrants' \cup UNION {U(r) : r \in TransferSlots} = GrantRefs
      <4>1. UNION {U(r) : r \in TransferSlots}
              = Taken(filled) \cup UNION {T(r) : r \in TransferSlots}
        BY <3>1, <3>4 DEF T
      <4>. QED BY <1>3, <3>2, <3>3, <4>1
    <3>6. \A r \in TransferSlots : U(r) \cap (freeGrants' \cup lostGrants') = {}
      BY <1>3, <3>2, <3>3, <3>4
    <3>7. \A r, q \in TransferSlots : r # q => U(r) \cap U(q) = {}
      BY <1>3, <3>2, <3>4
    <3>8. freeGrants' \cap lostGrants' = {}
      BY <3>2, <3>3
    <3>. QED BY <3>3, <3>5, <3>6, <3>7, <3>8 DEF ResourcesAccounted, U
  <2>4. TransferDescribed'
    <3> SUFFICES ASSUME NEW r \in TransferSlots, NEW u \in shadow'[r].transfer
                 PROVE  Described(shadow'[r], Entries(u)) /\ Len(shadow'[r].direct) <= MaxSegments
      BY <1>7 DEF TransferDescribed, Described
    <3>1. CASE r = s
      BY <1>3, <1>5, <1>8, <2>1, <3>1
    <3>2. CASE r # s
      BY <2>1, <3>2 DEF TransfersInv, TransferDescribed, Described
    <3>. QED BY <3>1, <3>2
  <2>. QED BY <2>2, <2>3, <2>4 DEF TransfersInv
<1>9. CASE failed # "nothing"
  <2>1. /\ freeGrants' = freeGrants /\ lostGrants' = lostGrants /\ shadow' = shadow
        /\ leaked' = {<<t.type, x>> : x \in (acquired \cap Memory) \ FinallyFrees(t)}
    BY <1>1, <1>3, <1>9 DEF Returnable
  <2>2. leaked' \subseteq {"iso"} \X {"packetBuffer", "ownMdl"}
    <3>1. \A x \in (acquired \cap Memory) \ FinallyFrees(t) : x \in {"packetBuffer", "ownMdl"}
      BY DEF Memory, FinallyFrees
    <3>2. ASSUME NEW x \in (acquired \cap Memory) \ FinallyFrees(t) PROVE t.type = "iso"
      <4>1. x = "ownMdl" => t.type = "iso"
        BY DEF FinallyFrees
      <4>2. x = "packetBuffer" => t.type = "iso"
        BY <1>4, EntriesNat, NeedsExact
      <4>. QED BY <3>1, <4>1, <4>2
    <3>. QED BY <2>1, <3>1, <3>2
  <2>3. ShadowsExact'
    BY <1>6, <2>1 DEF ShadowsExact
  <2>4. ResourcesAccounted'
    BY <2>1, <2>2 DEF TransfersInv, ResourcesAccounted
  <2>5. TransferDescribed'
    BY <1>7, <2>1 DEF TransfersInv, TransferDescribed
  <2>. QED BY <2>3, <2>4, <2>5 DEF TransfersInv
<1>. QED BY <1>8, <1>9

\* A shadow is freed; what a backend has mapped is lost and nothing else.
LEMMA FreeKeeps ==
  ASSUME TransfersInv, NEW s \in TransferSlots, NEW mapped, PutShadowOnFreelist(s, mapped)
  PROVE  TransfersInv'
<1>1. /\ freeGrants' = freeGrants \cup (Taken(shadow[s]) \ mapped)
      /\ lostGrants' = lostGrants \cup (Taken(shadow[s]) \cap mapped)
      /\ shadow' = [shadow EXCEPT ![s] = NoShadow]
      /\ UNCHANGED <<leaked, strays>>
  BY DEF PutShadowOnFreelist, TransfersInv, ShadowsExact, Returnable
<1>2. /\ shadow \in [TransferSlots -> Shadows]
      /\ \A r \in TransferSlots : Returnable(shadow[r])
  BY DEF TransfersInv, ShadowsExact
<1>3. /\ shadow'[s] = NoShadow
      /\ \A r \in TransferSlots \ {s} : shadow'[r] = shadow[r]
  BY <1>1, <1>2
<1>4. ShadowsExact'
  BY <1>1, <1>2, <1>3, NoShadowHolds DEF ShadowsExact, Returnable
<1>5. ResourcesAccounted'
  <2> DEFINE T(r) == Taken(shadow[r])
             U(r) == Taken(shadow'[r])
  <2>1. U(s) = {} /\ \A r \in TransferSlots \ {s} : U(r) = T(r)
    BY <1>3, NoShadowHolds
  <2>2. /\ freeGrants \cup lostGrants \cup UNION {T(r) : r \in TransferSlots} = GrantRefs
        /\ freeGrants \cap lostGrants = {}
        /\ \A r \in TransferSlots : T(r) \cap (freeGrants \cup lostGrants) = {}
        /\ \A r, q \in TransferSlots : r # q => T(r) \cap T(q) = {}
        /\ leaked \subseteq {"iso"} \X {"packetBuffer", "ownMdl"}
    BY DEF TransfersInv, ResourcesAccounted
  <2>3. /\ freeGrants' = freeGrants \cup (T(s) \ mapped)
        /\ lostGrants' = lostGrants \cup (T(s) \cap mapped)
        /\ leaked' = leaked
    BY <1>1
  <2> HIDE DEF T, U
  <2>4. freeGrants' \cup lostGrants' \cup UNION {U(r) : r \in TransferSlots} = GrantRefs
    <3>1. UNION {T(r) : r \in TransferSlots} = T(s) \cup UNION {U(r) : r \in TransferSlots}
      BY <2>1
    <3>. QED BY <2>2, <2>3, <3>1
  <2>5. \A r \in TransferSlots : U(r) \cap (freeGrants' \cup lostGrants') = {}
    BY <2>1, <2>2, <2>3
  <2>6. \A r, q \in TransferSlots : r # q => U(r) \cap U(q) = {}
    BY <2>1, <2>2
  <2>7. freeGrants' \cap lostGrants' = {}
    BY <2>2, <2>3
  <2>. QED BY <2>2, <2>3, <2>4, <2>5, <2>6, <2>7 DEF ResourcesAccounted, U
<1>6. TransferDescribed'
  <2>1. \A m \in strays' : m % IndirectGrefPages = 0
    BY <1>1 DEF TransfersInv, TransferDescribed
  <2> SUFFICES ASSUME NEW r \in TransferSlots, NEW u \in shadow'[r].transfer
               PROVE  Described(shadow'[r], Entries(u)) /\ Len(shadow'[r].direct) <= MaxSegments
    BY <2>1 DEF TransferDescribed, Described
  <2>2. r # s
    BY <1>3 DEF NoShadow
  <2>. QED BY <1>3, <2>2 DEF TransfersInv, TransferDescribed, Described
<1>. QED BY <1>4, <1>5, <1>6 DEF TransfersInv

\* Every step keeps the invariant.
LEMMA TransfersInvNext == TransfersInv /\ [TransfersNext]_transferVars => TransfersInv'
<1> SUFFICES ASSUME TransfersInv, [TransfersNext]_transferVars PROVE TransfersInv'
  OBVIOUS
<1>1. ASSUME NEW s \in TransferSlots, NEW t \in Transfers, NEW failing \in MayFail(t),
             PutTransferOnRing(s, t, failing)
      PROVE  TransfersInv'
  BY <1>1, PutKeeps
<1>2. ASSUME NEW s \in TransferSlots, TransferAnswered(s) \/ TransferFreedEarly(s)
      PROVE  TransfersInv'
  BY <1>2, FreeKeeps DEF TransferAnswered, TransferFreedEarly
<1>3. CASE UNCHANGED transferVars
  BY <1>3 DEF transferVars, TransfersInv, ShadowsExact, ResourcesAccounted, TransferDescribed
<1>. QED BY <1>1, <1>2, <1>3 DEF TransfersNext

\* Whatever allocation fails and however far the references last, every reference is
\* free, held by one shadow or lost to a backend, and nothing but the packet buffer
\* and the MDL of a refused isochronous transfer is forgotten.
THEOREM TransferResources == TransfersSpec => []ResourcesAccounted
<1>1. TransfersInv => ResourcesAccounted
  BY DEF TransfersInv
<1>. QED BY TransfersInvInit, TransfersInvNext, <1>1, PTL DEF TransfersSpec

\* A transfer on the ring has one entry per page, in the request or in indirect pages
\* of which all but the last are full and each has its reference in the request.
THEOREM TransfersDescribed == TransfersSpec => []TransferDescribed
<1>1. TransfersInv => TransferDescribed
  BY DEF TransfersInv
<1>. QED BY TransfersInvInit, TransfersInvNext, <1>1, PTL DEF TransfersSpec

===============================================================================
