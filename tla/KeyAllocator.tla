---------------------------- MODULE KeyAllocator ----------------------------
(***************************************************************************)
(* What GET /image promises its clients: a key of their own.  A key is     *)
(* reserved for one answer, which reaches its client or is lost with the   *)
(* key, and only the operator makes a key available again.                 *)
(***************************************************************************)
EXTENDS Naturals

VARIABLES
    reserved,  \* the keys being answered
    held,      \* the keys clients have
    lost       \* the keys whose answer never reached the client

vars == <<reserved, held, lost>>

TypeOK == reserved \subseteq Nat /\ held \subseteq Nat /\ lost \subseteq Nat

Init == reserved = {} /\ held = {} /\ lost = {}

Taken == reserved \cup held \cup lost

Reserve ==
    /\ \E k \in reserved' \ Taken : reserved' = reserved \cup {k}
    /\ UNCHANGED <<held, lost>>

Hand(k) ==
    /\ reserved' = reserved \ {k}
    /\ held' = held \cup {k}
    /\ UNCHANGED lost

Lose(ks) ==
    /\ reserved' = reserved \ ks
    /\ lost' = lost \cup ks
    /\ UNCHANGED held

Release(k) ==
    /\ held' = held \ {k}
    /\ lost' = lost \ {k}
    /\ UNCHANGED reserved

Next ==
    \/ Reserve
    \/ \E k \in reserved : Hand(k)
    \/ \E ks \in SUBSET reserved : Lose(ks)
    \/ \E k \in held \cup lost : Release(k)

Spec == Init /\ [][Next]_vars
=============================================================================
