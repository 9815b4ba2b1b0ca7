------------------------------- MODULE Lease -------------------------------
(***************************************************************************)
(* What a lock that expires promises: it passes from one owner to another  *)
(* only through being free, and never from an owner that is sure of it.    *)
(***************************************************************************)
CONSTANTS Holders, NoHolder

VARIABLES
    owner,     \* who has the lock, or NoHolder
    sure       \* the holders that may act on having it

vars == <<owner, sure>>

Init == owner = NoHolder /\ sure = {}

Grant(h) ==
    /\ owner = NoHolder
    /\ owner' = h
    /\ UNCHANGED sure

(* An answer tells the owner that it is.                                   *)
Confirm(h) ==
    /\ owner = h
    /\ sure' = {h}
    /\ UNCHANGED owner

(* Certainty ends, and the lock may end with it or later.                  *)
Fade ==
    /\ sure' \subseteq sure
    /\ owner' \in {owner, NoHolder}
    /\ sure' \subseteq {owner'}

Next == (\E h \in Holders : Grant(h) \/ Confirm(h)) \/ Fade

Spec == Init /\ [][Next]_vars
=============================================================================
