----------------------------- MODULE SlotGrants -----------------------------
(***************************************************************************)
(* What the network of a gateway and its robots promises, without frames,  *)
(* slots in time, queues or messages: the gateway grants each client one   *)
(* slot, for good, that nobody else has, and a client uses no other slot   *)
(* than one it was granted.  A restart of either side forgets its half.    *)
(***************************************************************************)
EXTENDS Integers

CONSTANT Clients

VARIABLES
  granted,  \* the slot the gateway keeps for a client, 0 for none
  held      \* the slot a client believes to have, 0 for none

vars == <<granted, held>>

None == [c \in Clients |-> 0]

Init == granted = None /\ held = None

Grant(c) ==
  /\ granted[c] = 0
  /\ granted'[c] \in Nat \ {0}
  /\ \A d \in Clients : granted[d] # granted'[c]
  /\ granted' = [granted EXCEPT ![c] = granted'[c]]
  /\ UNCHANGED held

Take(c) ==
  /\ granted[c] # 0
  /\ held' = [held EXCEPT ![c] = granted[c]]
  /\ UNCHANGED granted

Forget(c) ==
  /\ held' = [held EXCEPT ![c] = 0]
  /\ UNCHANGED granted

Reset ==
  /\ granted' = None
  /\ UNCHANGED held

Next ==
  \/ \E c \in Clients : Grant(c) \/ Take(c) \/ Forget(c)
  \/ Reset

Spec == Init /\ [][Next]_vars
=============================================================================
