-------------------------------- MODULE IdPool --------------------------------
(***************************************************************************)
(* What the shadow array of xenif.cpp promises to the code that puts       *)
(* requests on the ring: a pool of request ids, each of which has at most  *)
(* one owner, is handed out only while nobody owns it and is given back    *)
(* only by being taken from its owner.  Nothing is said of stacks, indices *)
(* or InUse flags; ShadowRing shows that those implement this.             *)
(***************************************************************************)
CONSTANTS Ids,      \* the request ids (one per ring slot)
          Owners,   \* what an id can be handed out for
          NoOwner

VARIABLE owner      \* owner[i]: what id i is handed out for, or NoOwner

PoolInit == owner = [i \in Ids |-> NoOwner]

Take(i, o) == /\ owner[i] = NoOwner
              /\ owner' = [owner EXCEPT ![i] = o]

Give(i) == /\ owner[i] # NoOwner
           /\ owner' = [owner EXCEPT ![i] = NoOwner]

PoolNext == \E i \in Ids : Give(i) \/ \E o \in Owners : Take(i, o)

PoolSpec == PoolInit /\ [][PoolNext]_owner
===============================================================================
