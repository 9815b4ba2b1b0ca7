----------------------------- MODULE OrderOnce -----------------------------
(***************************************************************************)
(* What a caller of Exchange.place_order may rely on, and what EmaExecutor *)
(* does rely on: one call is one order.  The venue executes it at most     *)
(* once, a returned call was executed, and a call that raised may have     *)
(* been executed or may still be.                                          *)
(***************************************************************************)
CONSTANTS Calls,       \* the calls of place_order
          Requests     \* what a call may send to the venue

VARIABLES outcome,     \* how each call ended for its caller
          executed     \* the requests of each call that the venue executed

vars == <<outcome, executed>>

Init ==
    /\ outcome = [c \in Calls |-> "pending"]
    /\ executed = [c \in Calls |-> {}]

Executes(c) ==
    /\ executed[c] = {}
    /\ \E r \in Requests : executed' = [executed EXCEPT ![c] = {r}]
    /\ UNCHANGED outcome

Returns(c) ==
    /\ outcome[c] = "pending"
    /\ executed[c] # {}
    /\ outcome' = [outcome EXCEPT ![c] = "returned"]
    /\ UNCHANGED executed

Raises(c) ==
    /\ outcome[c] = "pending"
    /\ outcome' = [outcome EXCEPT ![c] = "raised"]
    /\ UNCHANGED executed

Next == \E c \in Calls : Executes(c) \/ Returns(c) \/ Raises(c)

Spec == Init /\ [][Next]_vars
=============================================================================
