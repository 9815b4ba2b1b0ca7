------------------------- MODULE PlaceOrderProofs -------------------------
(***************************************************************************)
(* Exchange.place_order for any number of calls and attempts, on a venue   *)
(* that never forgets a client order id.                                   *)
(***************************************************************************)
EXTENDS PlaceOrder, TLAPS

(* A call that waits for its next attempt has one left, and one that did   *)
(* not start has made none.                                                *)
Counted(c) ==
    /\ st[c] = "backoff" => attempts[c] < Attempts
    /\ st[c] = "ready" => attempts[c] = 0

TInv == TypeOK /\ \A c \in Calls : Counted(c)

(* What relates a call to what is under way for it.  Until an attempt went *)
(* unanswered, only the current attempt can be on the wire, and only while *)
(* its reply is missing; an execution is known to the caller or on its way *)
(* to it.                                                                  *)
Traced(c) ==
    /\ reply[c] = "ok" => executed[c] # {}
    /\ st[c] = "returned" => executed[c] # {}
    /\ wire[c] \subseteq 1 .. attempts[c]
    /\ ~unsure[c] =>
         /\ wire[c] # {} => st[c] = "sent" /\ reply[c] = "none" /\ wire[c] = {attempts[c]}
         /\ executed[c] # {} => st[c] = "returned" \/ (st[c] = "sent" /\ reply[c] = "ok")

IInv == TInv /\ AtMostOnce /\ \A c \in Calls : Traced(c)

-----------------------------------------------------------------------------
(* The initial state satisfies the inductive invariant.                    *)
LEMMA InitIInv == Init => IInv
  BY AttemptsAssumption
  DEF Init, IInv, TInv, Counted, TypeOK, AtMostOnce, Traced, States, Errors

(* Every step keeps the variables' shape, whatever the venue remembers.    *)
LEMMA StepTInv == ASSUME TInv, [Next]_vars PROVE TInv'
<1> USE AttemptsAssumption DEF TInv, Counted
<1>1. ASSUME NEW c \in Calls, Attempt(c) PROVE TInv'
  <2>1. attempts[c] < Attempts
    BY <1>1 DEF Attempt, MayAttempt, TypeOK
  <2>2. TypeOK'
    BY <1>1, <2>1 DEF Attempt, MayAttempt, TypeOK, States, Errors
  <2>3. \A d \in Calls : Counted(d)'
    BY <1>1, <2>1 DEF Attempt, TypeOK
  <2> QED
    BY <2>2, <2>3
<1>2. ASSUME NEW c \in Calls, Returns(c) PROVE TInv'
  BY <1>2 DEF Returns, TypeOK, States
<1>3. ASSUME NEW c \in Calls, NEW e \in Errors, AttemptRaises(c, e),
             unsure' = unsure \/ unsure' = [unsure EXCEPT ![c] = TRUE],
             UNCHANGED <<attempts, reply, wire, executed>>
      PROVE  TInv'
  <2>1. TypeOK'
    BY <1>3 DEF AttemptRaises, AfterError, TypeOK, States
  <2>2. \A d \in Calls : Counted(d)'
    BY <1>3 DEF AttemptRaises, AfterError, Retries, TypeOK
  <2> QED
    BY <2>1, <2>2
<1>4. ASSUME NEW c \in Calls, Refused(c) \/ Unanswered(c) PROVE TInv'
  BY <1>3, <1>4 DEF Refused, Unanswered, Errors
<1>5. ASSUME NEW c \in Calls, NEW n \in wire[c], NEW e \in Errors \cup {"ok"},
             Answers(c, n, e),
             executed' = executed \/ executed' = [executed EXCEPT ![c] = @ \cup {n}]
      PROVE  TInv'
  <2>1. TypeOK'
    BY <1>5 DEF Answers, TypeOK
  <2>2. \A d \in Calls : Counted(d)'
    BY <1>5 DEF Answers
  <2> QED
    BY <2>1, <2>2
<1>6. ASSUME NEW c \in Calls, NEW n \in wire[c], VenueExecutes(c, n) \/ VenueRefuses(c, n)
      PROVE  TInv'
  BY <1>5, <1>6 DEF VenueExecutes, VenueRefuses, Errors
<1>7. ASSUME NEW c \in Calls, NEW n \in wire[c], RequestLost(c, n) PROVE TInv'
  BY <1>7 DEF RequestLost, TypeOK
<1>8. ASSUME UNCHANGED vars PROVE TInv'
  BY <1>8 DEF vars, TypeOK
<1> QED
  BY <1>1, <1>2, <1>4, <1>6, <1>7, <1>8 DEF Next, CallStep, VenueStep

(* A known id is enough to keep an order from executing twice.             *)
LEMMA OnceKnown ==
  ASSUME UniqueAmong = "ever", NEW c \in Calls, NEW n, ~Known(c, n)
  PROVE  executed[c] = {}
  BY DEF Known, ClientId

(* Every step preserves the invariant: it only touches one call.           *)
LEMMA StepIInv == ASSUME UniqueAmong = "ever", IInv, [Next]_vars PROVE IInv'
<1>t. TypeOK /\ (\A c \in Calls : Counted(c)) /\ TInv'
  BY StepTInv DEF IInv, TInv
<1> USE AttemptsAssumption, <1>t DEF IInv
<1>1. ASSUME NEW c \in Calls, Attempt(c) PROVE IInv'
  <2>1. AtMostOnce'
    BY <1>1 DEF Attempt, AtMostOnce
  <2>2. Traced(c)'
    BY <1>1 DEF Attempt, MayAttempt, Counted, Traced, TypeOK
  <2>3. \A d \in Calls \ {c} : Traced(d)'
    BY <1>1 DEF Attempt, Traced, TypeOK
  <2> QED
    BY <2>1, <2>2, <2>3
<1>2. ASSUME NEW c \in Calls, Returns(c) PROVE IInv'
  <2>1. AtMostOnce' /\ Traced(c)'
    BY <1>2 DEF Returns, AtMostOnce, Traced, TypeOK, Errors
  <2>2. \A d \in Calls \ {c} : Traced(d)'
    BY <1>2 DEF Returns, Traced, TypeOK
  <2> QED
    BY <2>1, <2>2
<1>3. ASSUME NEW c \in Calls, Refused(c) PROVE IInv'
  <2>1. AtMostOnce'
    BY <1>3 DEF Refused, AtMostOnce
  <2>2. Traced(c)'
    BY <1>3 DEF Refused, AttemptRaises, AfterError, Traced, TypeOK, Errors, Refusals, Silences
  <2>3. \A d \in Calls \ {c} : Traced(d)'
    BY <1>3 DEF Refused, AttemptRaises, Traced, TypeOK
  <2> QED
    BY <2>1, <2>2, <2>3
<1>4. ASSUME NEW c \in Calls, Unanswered(c) PROVE IInv'
  <2>1. AtMostOnce'
    BY <1>4 DEF Unanswered, AtMostOnce
  <2>2. Traced(c)'
    BY <1>4 DEF Unanswered, AttemptRaises, AfterError, Traced, TypeOK
  <2>3. \A d \in Calls \ {c} : Traced(d)'
    BY <1>4 DEF Unanswered, AttemptRaises, Traced, TypeOK
  <2> QED
    BY <2>1, <2>2, <2>3
<1>5. ASSUME NEW c \in Calls, NEW n \in wire[c], VenueExecutes(c, n) PROVE IInv'
  <2>1. executed[c] = {}
    BY <1>5, OnceKnown DEF VenueExecutes
  <2>2. AtMostOnce' /\ Traced(c)'
    BY <1>5, <2>1 DEF VenueExecutes, Answers, AtMostOnce, Traced, TypeOK
  <2>3. \A d \in Calls \ {c} : Traced(d)'
    BY <1>5 DEF VenueExecutes, Answers, Traced, TypeOK
  <2> QED
    BY <2>2, <2>3
<1>6. ASSUME NEW c \in Calls, NEW n \in wire[c], NEW e \in Errors, Answers(c, n, e),
             UNCHANGED executed
      PROVE  IInv'
  <2>1. AtMostOnce' /\ Traced(c)'
    BY <1>6 DEF Answers, AtMostOnce, Traced, TypeOK, Errors, Refusals, Silences
  <2>2. \A d \in Calls \ {c} : Traced(d)'
    BY <1>6 DEF Answers, Traced, TypeOK
  <2> QED
    BY <2>1, <2>2
<1>7. ASSUME NEW c \in Calls, NEW n \in wire[c], VenueRefuses(c, n) PROVE IInv'
  BY <1>6, <1>7 DEF VenueRefuses, Errors
<1>8. ASSUME NEW c \in Calls, NEW n \in wire[c], RequestLost(c, n) PROVE IInv'
  <2>1. AtMostOnce' /\ Traced(c)'
    BY <1>8 DEF RequestLost, AtMostOnce, Traced, TypeOK
  <2>2. \A d \in Calls \ {c} : Traced(d)'
    BY <1>8 DEF RequestLost, Traced, TypeOK
  <2> QED
    BY <2>1, <2>2
<1>9. ASSUME UNCHANGED vars PROVE IInv'
  BY <1>9 DEF vars, AtMostOnce, Traced
<1> QED
  BY <1>1, <1>2, <1>3, <1>4, <1>5, <1>7, <1>8, <1>9 DEF Next, CallStep, VenueStep

-----------------------------------------------------------------------------
(* Every reachable state does, where ids are unique for ever.              *)
LEMMA Inductive == UniqueAmong = "ever" /\ Spec => []IInv
<1> SUFFICES ASSUME UniqueAmong = "ever" PROVE Spec => []IInv
  OBVIOUS
<1>1. Init => IInv
  BY InitIInv
<1>2. IInv /\ [Next]_vars => IInv'
  BY StepIInv
<1> QED
  BY <1>1, <1>2, PTL DEF Spec

(* The retry decorator never makes more attempts than it may, on any venue.*)
THEOREM TypeCorrect == Spec => []TypeOK
<1>1. Init => TInv
  BY InitIInv DEF IInv
<1>2. TInv /\ [Next]_vars => TInv'
  BY StepTInv
<1>3. TInv => TypeOK
  BY DEF TInv
<1> QED
  BY <1>1, <1>2, <1>3, PTL DEF Spec

(* One call is executed at most once, however many attempts it made and    *)
(* however late they reached the venue.                                    *)
THEOREM OneExecution == UniqueAmong = "ever" /\ Spec => []AtMostOnce
<1>1. IInv => AtMostOnce
  BY DEF IInv
<1> QED
  BY <1>1, Inductive, PTL

(* An error the venue itself gave every time leaves nothing behind.        *)
THEOREM RefusalsAreFinal == UniqueAmong = "ever" /\ Spec => []RefusalIsFinal
<1>1. IInv => RefusalIsFinal
  BY DEF IInv, Traced, RefusalIsFinal
<1> QED
  BY <1>1, Inductive, PTL

-----------------------------------------------------------------------------
(* Every step of a call that satisfies the invariant is a step of one      *)
(* order, or changes nothing that one order knows of.                      *)
LEMMA StepRefines ==
  ASSUME UniqueAmong = "ever", IInv, [Next]_vars
  PROVE  [Abstract!Next]_(Abstract!vars)
<1> DEFINE out == [c \in Calls |-> Outcome(c)]
<1> USE AttemptsAssumption DEF IInv, TInv
<1>s. ASSUME out' = out, executed' = executed PROVE [Abstract!Next]_(Abstract!vars)
  BY <1>s DEF Abstract!vars
<1>1. ASSUME NEW c \in Calls, Attempt(c) PROVE [Abstract!Next]_(Abstract!vars)
  <2>1. out' = out
    BY <1>1 DEF Attempt, MayAttempt, Outcome, TypeOK
  <2> QED
    BY <1>1, <1>s, <2>1 DEF Attempt, MayAttempt
<1>2. ASSUME NEW c \in Calls, Returns(c) PROVE [Abstract!Next]_(Abstract!vars)
  <2>1. out[c] = "pending" /\ executed[c] # {}
    BY <1>2 DEF Returns, Outcome, Traced
  <2>2. out' = [out EXCEPT ![c] = "returned"]
    BY <1>2 DEF Returns, Outcome, TypeOK
  <2>3. Abstract!Returns(c)
    BY <1>2, <2>1, <2>2 DEF Returns, Abstract!Returns
  <2> QED
    BY <2>3 DEF Abstract!Next
<1>3. ASSUME NEW c \in Calls, NEW e, AttemptRaises(c, e), UNCHANGED executed
      PROVE  [Abstract!Next]_(Abstract!vars)
  <2>1. CASE Retries(c, e)
    <3>1. out' = out
      BY <1>3, <2>1 DEF AttemptRaises, AfterError, Outcome, TypeOK
    <3> QED
      BY <1>3, <1>s, <3>1
  <2>2. CASE ~Retries(c, e)
    <3>1. out[c] = "pending"
      BY <1>3 DEF AttemptRaises, Outcome
    <3>2. out' = [out EXCEPT ![c] = "raised"]
      BY <1>3, <2>2 DEF AttemptRaises, AfterError, Outcome, TypeOK
    <3>3. Abstract!Raises(c)
      BY <1>3, <3>1, <3>2 DEF Abstract!Raises
    <3> QED
      BY <3>3 DEF Abstract!Next
  <2> QED
    BY <2>1, <2>2
<1>4. ASSUME NEW c \in Calls, Refused(c) \/ Unanswered(c)
      PROVE  [Abstract!Next]_(Abstract!vars)
  BY <1>3, <1>4 DEF Refused, Unanswered
<1>5. ASSUME NEW c \in Calls, NEW n \in wire[c], VenueExecutes(c, n)
      PROVE  [Abstract!Next]_(Abstract!vars)
  <2>1. executed[c] = {} /\ n \in 1 .. Attempts
    BY <1>5, OnceKnown DEF VenueExecutes, TypeOK
  <2>2. out' = out
    BY <1>5 DEF VenueExecutes, Answers, Outcome
  <2>3. executed' = [executed EXCEPT ![c] = {n}]
    BY <1>5, <2>1 DEF VenueExecutes, TypeOK
  <2>4. Abstract!Executes(c)
    BY <2>1, <2>2, <2>3 DEF Abstract!Executes
  <2> QED
    BY <2>4 DEF Abstract!Next
<1>6. ASSUME NEW c \in Calls, NEW n \in wire[c], VenueRefuses(c, n) \/ RequestLost(c, n)
      PROVE  [Abstract!Next]_(Abstract!vars)
  <2>1. out' = out /\ executed' = executed
    BY <1>6 DEF VenueRefuses, RequestLost, Answers, Outcome
  <2> QED
    BY <1>s, <2>1
<1>7. ASSUME UNCHANGED vars PROVE [Abstract!Next]_(Abstract!vars)
  <2>1. out' = out /\ executed' = executed
    BY <1>7 DEF vars, Outcome
  <2> QED
    BY <1>s, <2>1
<1> QED
  BY <1>1, <1>2, <1>4, <1>5, <1>6, <1>7 DEF Next, CallStep, VenueStep

(* place_order is one order per call, on a venue that never forgets an id. *)
THEOREM Refinement == UniqueAmong = "ever" /\ Spec => OneOrderPerCall
<1> SUFFICES ASSUME UniqueAmong = "ever" PROVE Spec => OneOrderPerCall
  OBVIOUS
<1>1. Init => Abstract!Init
  BY DEF Init, Abstract!Init, Outcome
<1>2. IInv /\ [Next]_vars => [Abstract!Next]_(Abstract!vars)
  BY StepRefines
<1> QED
  BY <1>1, <1>2, Inductive, PTL DEF Spec, OneOrderPerCall, Abstract!Spec
=============================================================================
