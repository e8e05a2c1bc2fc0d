----------------------------- MODULE RingTransfers -----------------------------
(***************************************************************************)
(* What a transfer takes on its way to the ring (PutUrbOnRing and          *)
(* PutIsoUrbOnRing of xenif.cpp): a shadow, MDLs, packet and indirect       *)
(* pages and grant references, each of which can be refused, and what is   *)
(* given back when one is, and when the shadow is freed.  ShadowRing has    *)
(* the same functions with the shadows and the ring in detail.             *)
(***************************************************************************)
EXTENDS Naturals, FiniteSets, Sequences

CONSTANTS
  TransferSlots,        \* shadows
  Transfers,            \* the transfers that are submitted
  GrantRefs,            \* grant references of the grant table, numbers
  MaxSegments,          \* gref entries of a ring request
  IndirectGrefPages,    \* gref entries of an indirect page
  MaxLost               \* bound: how many references the backend never unmaps

ASSUME TransfersAssumption ==
  Transfers \subseteq [type : {"iso", "bulk", "other"}, pages : Nat,
                       buffer : {"mdl", "memory", "none"}]
ASSUME GrantsAssumption ==
  /\ GrantRefs \subseteq Nat /\ IsFiniteSet(GrantRefs)
  /\ MaxSegments \in Nat \ {0} /\ IndirectGrefPages \in Nat \ {0, 1}
  /\ MaxLost \in Nat

VARIABLES
  freeGrants,   \* grant references XenLowerGntTblGetRef can return
  lostGrants,   \* references whose access could not be ended
  shadow,       \* what the shadow of a slot holds
  \* Of the last transfer that was put on the ring, or refused:
  fate,         \* "ring", "requeued" or "completed"
  leaked,       \* what was allocated and is known to nobody any more
  strays        \* its number of entries, if a header was written to the page
                \* behind its indirect pages

transferVars == <<freeGrants, lostGrants, shadow, fate, leaked, strays>>

\* A free shadow: no transfer, no grefs, no indirect pages, no memory.
NoShadow == [transfer |-> {}, direct |-> <<>>, pages |-> <<>>, memory |-> {}]

TransfersInit ==
  /\ freeGrants = GrantRefs /\ lostGrants = {}
  /\ shadow = [s \in TransferSlots |-> NoShadow]
  /\ fate = "none" /\ leaked = {} /\ strays = {}

--------------------------------------------------------------------------------
(***************************************************************************)
(* Grant references.                                                       *)
(***************************************************************************)
Least(S, n) == {g \in S : Cardinality({h \in S : h < g}) < n}

\* The references n calls of GetGrantFromFreelist return, as far as they last.
Grants(S, n) ==
  [i \in 1..Cardinality(Least(S, n)) |->
     CHOOSE g \in S : Cardinality({h \in S : h < g}) = i - 1]

Refs(q) == {q[i] : i \in 1..Len(q)}

\* Mutant of Pages: rounded down.
PagesRoundedDown(n) == n \div IndirectGrefPages

Pages(n) == (n - 1) \div IndirectGrefPages + 1      \* INDIRECT_PAGES_REQUIRED

\* A transfer with more pages than fit in the request; the page of the packet
\* descriptors of an isochronous transfer takes one entry.
Entries(t) == IF t.type = "iso" THEN t.pages + 1 ELSE t.pages
Indirect(t) == Entries(t) > MaxSegments

\* AllocateGrefs: a refused reference leaves the earlier ones in the request.
AllocateGrefs(S, n) ==
  [direct |-> Grants(S, n), pages |-> <<>>, ok |-> Cardinality(S) >= n, strays |-> {}]

\* AllocateIndirectGrefs: the indirect pages first, then their entries in order,
\* page by page.  A full page is followed by a header for the next one.
AllocateIndirectGrefs(S, n) ==
  LET needed  == Pages(n)
      first   == Grants(S, needed)
      entries == Grants(S \ Refs(first), n)
      got     == Len(entries)
      Least2(a, b) == IF a < b THEN a ELSE b
  IN [direct |-> first,
      pages  |-> [j \in 1..needed |->
                    SubSeq(entries, (j - 1) * IndirectGrefPages + 1,
                           Least2(j * IndirectGrefPages, got))],
      ok     |-> Len(first) = needed /\ got = n,
      strays |-> IF got \div IndirectGrefPages >= needed THEN {n} ELSE {}]

\* Mutant of PutGrants: the grefs in the indirect pages are forgotten.
PutDirectGrants(sh) == Refs(sh.direct)

\* The references PutShadowOnFreelist gives back: nr_segments of the request,
\* and of each indirect page.
PutGrants(sh) ==
  Refs(sh.direct) \cup
  UNION {IF j <= Len(sh.pages) THEN Refs(sh.pages[j]) ELSE {} : j \in 1..Len(sh.direct)}

--------------------------------------------------------------------------------
(***************************************************************************)
(* The order in which PutUrbOnRing and PutIsoUrbOnRing ask for what they    *)
(* need.  "buffer" and "size" are checks of the transfer.                   *)
(***************************************************************************)
OwnMdl(t) == IF t.buffer = "memory" THEN <<"ownMdl">> ELSE <<>>
IndirectNeeds(t) == IF Indirect(t) THEN <<"size", "indirectMemory", "indirectMdl">> ELSE <<>>

UrbNeeds(t) ==
  (IF t.pages = 0 THEN <<>>
   ELSE <<"buffer">> \o OwnMdl(t) \o IndirectNeeds(t) \o <<"grants">>) \o <<"cancelable">>

IsoNeeds(t) ==
  <<"packetBuffer", "packetMdl", "buffer">> \o OwnMdl(t) \o IndirectNeeds(t)
    \o <<"grants", "cancelable">>

Needs(t) == IF t.type = "iso" THEN IsoNeeds(t) ELSE UrbNeeds(t)

\* MAX_PAGES_FOR_INDIRECT_REQUEST, and one less for isochronous transfers.
TooLong(t) == t.type = "other" \/ Entries(t) > MaxSegments * IndirectGrefPages

AllocateFor(t) ==
  IF Indirect(t) THEN AllocateIndirectGrefs(freeGrants, Entries(t))
                 ELSE AllocateGrefs(freeGrants, Entries(t))

Memory == {"packetBuffer", "packetMdl", "ownMdl", "indirectMemory", "indirectMdl"}

\* An allocation, or marking the request cancelable, may fail at any time.
MayFail(t) == {x \in Memory \cup {"cancelable"} : \E i \in 1..Len(Needs(t)) : Needs(t)[i] = x}
                \cup {"nothing"}

\* "granted": the references lasted.
Refused(t, x, failing, granted) ==
  \/ x = failing
  \/ x = "buffer" /\ t.buffer = "none"
  \/ x = "size" /\ TooLong(t)
  \/ x = "grants" /\ ~granted

\* The needs that are met before the first refused one, and that one.
Acquired(t, failing, granted) ==
  {Needs(t)[i] : i \in {n \in 1..Len(Needs(t)) :
                          \A k \in 1..n : ~Refused(t, Needs(t)[k], failing, granted)}}

FailedAt(t, acquired) ==
  LET met == Cardinality(acquired) IN IF met < Len(Needs(t)) THEN Needs(t)[met + 1] ELSE "nothing"

--------------------------------------------------------------------------------
\* What the FINALLY blocks free after an error, the shadow's own memory
\* included.  That of PutIsoUrbOnRing frees the packet buffer and its own MDL
\* only when there is no shadow, which there always is.
FinallyFrees(t) ==
  {"indirectMdl", "packetMdl", "indirectMemory"}
    \cup (IF t.type = "iso" THEN {} ELSE {"ownMdl"})

\* The shadow keeps what the answer will free.
Kept == {"ownMdl", "packetBuffer", "indirectMemory"}

\* The shadow as it is filled with what was acquired before need "failed".
Filled(t, acquired, failed, grefs) ==
  LET alloc == IF "grants" \in acquired \cup {failed} THEN grefs ELSE NoShadow IN
  [transfer |-> {t}, direct |-> alloc.direct, pages |-> alloc.pages, memory |-> acquired \cap Kept]

\* Where a transfer goes that is refused: only one that lacks direct grefs waits
\* in the RequestQueue, and an isochronous one never does.
RefusedTransfer(t, failed) ==
  IF failed = "grants" /\ t.type # "iso" /\ ~Indirect(t) THEN "requeued" ELSE "completed"

Taken(sh) == Refs(sh.direct) \cup UNION {Refs(sh.pages[j]) : j \in 1..Len(sh.pages)}

\* PutUrbOnRing and PutIsoUrbOnRing after they took a shadow.
PutTransferOnRing(s, t, failing) ==
  \E grefs \in {AllocateFor(t)} : \E acquired \in {Acquired(t, failing, grefs.ok)} :
    LET failed == FailedAt(t, acquired)
        filled == Filled(t, acquired, failed, grefs)
    IN
    /\ shadow[s] = NoShadow
    /\ strays' = IF filled.pages = <<>> THEN {} ELSE grefs.strays
    /\ IF failed = "nothing"
       THEN /\ shadow' = [shadow EXCEPT ![s] = filled]
            /\ freeGrants' = freeGrants \ Taken(filled)
            /\ fate' = "ring" /\ leaked' = {}
       ELSE /\ freeGrants' = (freeGrants \ Taken(filled)) \cup PutGrants(filled)
            /\ fate' = RefusedTransfer(t, failed)
            /\ leaked' = {<<t.type, x>> : x \in (acquired \cap Memory) \ FinallyFrees(t)}
            /\ UNCHANGED shadow
    /\ UNCHANGED lostGrants

\* PutShadowOnFreelist: the grants a backend has still mapped cannot be ended
\* ("leaked grant ref"); the rest, and the shadow's memory, is free again.
PutShadowOnFreelist(s, mapped) ==
  /\ shadow[s] # NoShadow
  /\ freeGrants' = freeGrants \cup (PutGrants(shadow[s]) \ mapped)
  /\ lostGrants' = lostGrants \cup (PutGrants(shadow[s]) \cap mapped)
  /\ shadow' = [shadow EXCEPT ![s] = NoShadow]
  /\ UNCHANGED <<fate, leaked, strays>>

\* XenDpc frees the shadow of an answer: the backend has unmapped everything.
TransferAnswered(s) == PutShadowOnFreelist(s, {})

\* FreeShadowForRequest frees it while the entry is with the backend.
TransferFreedEarly(s) ==
  \E mapped \in SUBSET PutGrants(shadow[s]) :
    /\ Cardinality(lostGrants) + Cardinality(mapped) <= MaxLost
    /\ PutShadowOnFreelist(s, mapped)

TransfersNext ==
  \E s \in TransferSlots :
    \/ \E t \in Transfers : \E failing \in MayFail(t) : PutTransferOnRing(s, t, failing)
    \/ TransferAnswered(s) \/ TransferFreedEarly(s)

TransfersSpec == TransfersInit /\ [][TransfersNext]_transferVars

--------------------------------------------------------------------------------
\* Whatever allocation fails and however far the grant references last, every
\* reference is free, held by one shadow or still mapped by a backend, and what
\* was allocated for a transfer is freed by the FINALLY blocks or with the
\* shadow - except the packet buffer and the MDL of the driver's own of an
\* isochronous transfer that is refused: PutIsoUrbOnRing loses them.
ResourcesAccounted ==
  /\ freeGrants \cup lostGrants \cup UNION {Taken(shadow[s]) : s \in TransferSlots} = GrantRefs
  /\ freeGrants \cap lostGrants = {}
  /\ \A s \in TransferSlots :
       /\ Taken(shadow[s]) \cap (freeGrants \cup lostGrants) = {}
       /\ \A r \in TransferSlots \ {s} : Taken(shadow[s]) \cap Taken(shadow[r]) = {}
  /\ leaked \subseteq {"iso"} \X {"packetBuffer", "ownMdl"}

\* A transfer on the ring is described completely: one entry per page, and one
\* for the packet descriptors; with indirect pages, every page but the last is
\* full, the ring request has one gref for each of them, and no entry is beyond
\* them.  A header is written behind the last page only when the entries fill it
\* exactly (AllocateIndirectGrefs prepares a next page that was not allocated).
TransferDescribed ==
  /\ \A s \in TransferSlots : \A t \in shadow[s].transfer :
       LET sh == shadow[s]
           last == Len(sh.pages)
       IN
       /\ Len(sh.direct) <= MaxSegments
       /\ last = 0 => Len(sh.direct) = Entries(t)
       /\ last > 0 => /\ Len(sh.direct) = last
                      /\ \A j \in 1..last - 1 : Len(sh.pages[j]) = IndirectGrefPages
                      /\ Len(sh.pages[last]) = Entries(t) - (last - 1) * IndirectGrefPages
                      /\ Len(sh.pages[last]) \in 1..IndirectGrefPages
       /\ Cardinality(Taken(sh)) = Entries(t) + (IF last > 0 THEN last ELSE 0)
  /\ \A n \in strays : n % IndirectGrefPages = 0
================================================================================
