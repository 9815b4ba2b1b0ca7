----------------------------- MODULE PlaceOrder -----------------------------
(***************************************************************************)
(* Exchange.place_order (common/exchange.py): a request to the venue under *)
(* a retry decorator, over a network that loses requests and replies and   *)
(* delivers late ones.  Every attempt of a call carries the same client    *)
(* order id, and the venue (external) refuses an id it knows.              *)
(***************************************************************************)
EXTENDS Naturals

CONSTANTS
    Calls,         \* the calls, each with a client order id of its own
    MarketCalls,   \* those that send a MARKET order, which never rests
    Attempts,      \* stop_after_attempt
    UniqueAmong    \* client ids are unique among "open" orders or for "ever"

ASSUME CallsAssumption    == MarketCalls \subseteq Calls
ASSUME AttemptsAssumption == Attempts \in Nat \ {0}
ASSUME UniqueAssumption   == UniqueAmong \in {"open", "ever"}

VARIABLES
    st,          \* where each call is
    attempts,    \* attempts it has made
    error,       \* the exception its last attempt ended with
    reply,       \* what the venue answered to its current attempt
    wire,        \* its attempts that have not reached the venue
    executed,    \* the attempts the venue executed
    unsure       \* history: an attempt ended without the venue's answer

vars == <<st, attempts, error, reply, wire, executed, unsure>>

States == {"ready", "sent", "backoff", "returned", "raised"}

(* -1013 and -2010, and 429; "duplicate" and "client" stand for the other  *)
(* codes the venue answers with.                                           *)
Refusals == {"busy", "badQuantity", "noFunds", "client"}

(* 5xx, and what the HTTP library raises without any answer.               *)
Silences == {"server", "network"}

Errors == Refusals \cup Silences \cup {"duplicate"}

(* _is_transient.                                                          *)
Transient(e) == e \in {"server", "busy", "badQuantity", "noFunds"}

(* Seeded: the attempt that fails last is followed by one more.            *)
RetriesMore(c, e) == Transient(e) /\ attempts[c] <= Attempts

(* The retry decorator tries again.                                        *)
Retries(c, e) == Transient(e) /\ attempts[c] < Attempts

(* Seeded: an attempt the venue never answered returns like the others.    *)
AfterErrorQuiet(c, e) ==
    IF Retries(c, e) THEN "backoff" ELSE IF e = "network" THEN "returned" ELSE "raised"

(* Seeded: an attempt that ended without an answer is still waited for.    *)
AfterErrorWaits(c, e) == IF e \in Silences THEN "sent" ELSE "raised"

AfterError(c, e) == IF Retries(c, e) THEN "backoff" ELSE "raised"

(* Seeded: each attempt takes a new client order id.                       *)
ClientIdFresh(c, n) == <<c, n>>

(* The client order id of attempt n: the retried call keeps its arguments. *)
ClientId(c, n) == <<c, 0>>

(* The venue knows the client id of attempt n, or has an open order of it. *)
Known(c, n) ==
    /\ \E m \in executed[c] : ClientId(c, m) = ClientId(c, n)
    /\ UniqueAmong = "ever" \/ c \notin MarketCalls

(* Seeded: a slow attempt is not waited for.                               *)
MayAttemptHedged(c) ==
    st[c] \in {"ready", "backoff", "sent"} /\ attempts[c] < Attempts

(* The call is about to make its first attempt, or its next one.           *)
MayAttempt(c) == st[c] \in {"ready", "backoff"}

-----------------------------------------------------------------------------
Init ==
    /\ st = [c \in Calls |-> "ready"]
    /\ attempts = [c \in Calls |-> 0]
    /\ error = [c \in Calls |-> "none"]
    /\ reply = [c \in Calls |-> "none"]
    /\ wire = [c \in Calls |-> {}]
    /\ executed = [c \in Calls |-> {}]
    /\ unsure = [c \in Calls |-> FALSE]

(* The first attempt, or the next one after the exponential wait.          *)
Attempt(c) ==
    /\ MayAttempt(c)
    /\ st' = [st EXCEPT ![c] = "sent"]
    /\ attempts' = [attempts EXCEPT ![c] = @ + 1]
    /\ wire' = [wire EXCEPT ![c] = @ \cup {attempts[c] + 1}]
    /\ reply' = [reply EXCEPT ![c] = "none"]
    /\ UNCHANGED <<error, executed, unsure>>

(* The venue answers attempt n; only the one being waited for is heard.    *)
Answers(c, n, answer) ==
    /\ n \in wire[c]
    /\ wire' = [wire EXCEPT ![c] = @ \ {n}]
    /\ reply' = IF st[c] = "sent" /\ n = attempts[c]
                  THEN [reply EXCEPT ![c] = answer] ELSE reply
    /\ UNCHANGED <<st, attempts, error, unsure>>

VenueExecutes(c, n) ==
    /\ ~Known(c, n)
    /\ Answers(c, n, "ok")
    /\ executed' = [executed EXCEPT ![c] = @ \cup {n}]

VenueRefuses(c, n) ==
    /\ IF Known(c, n) THEN Answers(c, n, "duplicate")
                   ELSE \E e \in Refusals : Answers(c, n, e)
    /\ UNCHANGED executed

RequestLost(c, n) ==
    /\ n \in wire[c]
    /\ wire' = [wire EXCEPT ![c] = @ \ {n}]
    /\ UNCHANGED <<st, attempts, error, reply, executed, unsure>>

(* The attempt ended with exception e.                                     *)
AttemptRaises(c, e) ==
    /\ st[c] = "sent"
    /\ error' = [error EXCEPT ![c] = e]
    /\ st' = [st EXCEPT ![c] = AfterError(c, e)]

Returns(c) ==
    /\ st[c] = "sent" /\ reply[c] = "ok"
    /\ st' = [st EXCEPT ![c] = "returned"]
    /\ UNCHANGED <<attempts, error, reply, wire, executed, unsure>>

Refused(c) ==
    /\ reply[c] \in Errors
    /\ AttemptRaises(c, reply[c])
    /\ UNCHANGED <<attempts, reply, wire, executed, unsure>>

(* A gateway or the network gives up, whatever the venue did or will do.   *)
Unanswered(c) ==
    /\ \E e \in Silences : AttemptRaises(c, e)
    /\ unsure' = [unsure EXCEPT ![c] = TRUE]
    /\ UNCHANGED <<attempts, reply, wire, executed>>

CallStep(c) == Attempt(c) \/ Returns(c) \/ Refused(c) \/ Unanswered(c)

VenueStep(c) ==
    \E n \in wire[c] : VenueExecutes(c, n) \/ VenueRefuses(c, n) \/ RequestLost(c, n)

Next == \E c \in Calls : CallStep(c) \/ VenueStep(c)

Spec == Init /\ [][Next]_vars

(* An attempt ends: the HTTP request has an answer or an error in the end, *)
(* and the wait between two attempts is at most eight seconds.             *)
FairSpec == Spec /\ \A c \in Calls : WF_vars(CallStep(c))

-----------------------------------------------------------------------------
(* The shape of every variable; no call makes more attempts than it may.   *)
TypeOK ==
    /\ st \in [Calls -> States]
    /\ attempts \in [Calls -> 0 .. Attempts]
    /\ error \in [Calls -> Errors \cup {"none"}]
    /\ reply \in [Calls -> Errors \cup {"none", "ok"}]
    /\ wire \in [Calls -> SUBSET (1 .. Attempts)]
    /\ executed \in [Calls -> SUBSET (1 .. Attempts)]
    /\ unsure \in [Calls -> BOOLEAN]

(* One call, one order: whatever was retried, lost or late, the venue      *)
(* executes an order at most once.                                         *)
AtMostOnce == \A c \in Calls : \A m, n \in executed[c] : m = n

(* A call of which every attempt was refused by the venue left nothing     *)
(* behind that could still execute: only a silence makes an error unsure.  *)
RefusalIsFinal ==
    \A c \in Calls : st[c] = "raised" /\ ~unsure[c]
        => executed[c] = {} /\ wire[c] = {}

(* How a call has ended for its caller.                                    *)
Outcome(c) == IF st[c] \in {"returned", "raised"} THEN st[c] ELSE "pending"

Abstract == INSTANCE OrderOnce
    WITH Requests <- 1 .. Attempts, outcome <- [c \in Calls |-> Outcome(c)]

(* The calls, their retries and the network implement one order per call.  *)
OneOrderPerCall == Abstract!Spec

(* Every call ends: the strategy gets its handler back.                    *)
CallsEnd == \A c \in Calls : <>(st[c] \in {"returned", "raised"})
=============================================================================
