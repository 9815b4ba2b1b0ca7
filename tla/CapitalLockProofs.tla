------------------------- MODULE CapitalLockProofs -------------------------
(***************************************************************************)
(* The capital lock for any number of holders, calls and ticks to live,    *)
(* and any pattern of failures, late commands and restarts.                *)
(***************************************************************************)
EXTENDS CapitalLock, TLAPS

(* Redis keeps the lock for g until Ttl after the moment age ticks ago.    *)
Backed(g, age) == key.holder = g /\ key.left + age >= Ttl

LateRelease(g) == [op |-> "release", holder |-> g]

(* What relates a holder to Redis.  An answer still under way is worth     *)
(* what the belief it will become is worth, and only a release that was    *)
(* given up on could take it away, which a clean call excludes.            *)
Tracked(g) ==
    /\ call[g].done => call[g].op # "none"
    /\ Sure(g) => Backed(g, belief[g].age)
    /\ /\ call[g].done /\ call[g].op # "release"
       /\ call[g].answer /\ call[g].clean /\ call[g].age < Ttl
       => Backed(g, call[g].age)
    /\ call[g].op # "none" /\ call[g].clean => LateRelease(g) \notin late
    /\ belief[g].has /\ belief[g].clean =>
         LateRelease(g) \notin late /\ call[g].op # "release"

IInv == TypeOK /\ \A g \in Holders : Tracked(g)

-----------------------------------------------------------------------------
LEMMA InitIInv == Init => IInv
<1> SUFFICES ASSUME Init PROVE IInv
  OBVIOUS
<1>1. TypeOK
  BY TtlAssumption, CallsAssumption
  DEF Init, TypeOK, Free, NoCall, NoBelief, Keys, Calls, Beliefs, Ages
<1>2. ASSUME NEW g \in Holders PROVE Tracked(g)
  BY <1>2 DEF Init, Tracked, Sure, NoCall, NoBelief
<1> QED
  BY <1>1, <1>2 DEF IInv

(* No command takes the lock from a holder it is kept for, except this     *)
(* holder's own release.                                                   *)
LEMMA CommandKeeps ==
  ASSUME TypeOK, NEW g \in Holders, NEW h \in Holders, NEW op \in Ops,
         NEW age \in Ages, Backed(g, age), op = "release" => g # h,
         key' = Executed(op, h)
  PROVE  Backed(g, age)'
<1> USE HoldersAssumption, TtlAssumption
<1>1. key.left \in 0 .. Ttl /\ key.holder = g /\ g # NoHolder
  BY DEF TypeOK, Keys, Ages, Backed
<1>2. CASE op = "acquire"
  BY <1>1, <1>2 DEF Executed, Acquired, Backed
<1>3. CASE op = "renew"
  BY <1>1, <1>3 DEF Executed, Renewed, Backed, TypeOK, Keys, Ages
<1>4. CASE op = "release"
  BY <1>1, <1>4 DEF Executed, Released, Backed
<1> QED
  BY <1>2, <1>3, <1>4 DEF Ops

(* What a command that answers True leaves in Redis.                       *)
LEMMA CommandTakes ==
  ASSUME TypeOK, NEW h \in Holders, NEW op \in Ops, NEW age \in Ages,
         op # "release", Answer(op, h), key' = Executed(op, h)
  PROVE  Backed(h, age)'
<1> USE TtlAssumption
<1>1. CASE op = "acquire"
  BY <1>1 DEF Answer, Executed, Acquired, Backed, Ages
<1>2. CASE op = "renew"
  BY <1>2 DEF Answer, Executed, Renewed, Backed, TypeOK, Keys, Ages
<1> QED
  BY <1>1, <1>2 DEF Ops

LEMMA CommandType ==
  ASSUME TypeOK, NEW h \in Holders, NEW op \in Ops
  PROVE  Executed(op, h) \in Keys
  BY TtlAssumption
  DEF Executed, Acquired, Renewed, Released, Free, TypeOK, Keys, Ages

LEMMA AnswerType ==
  ASSUME TypeOK, NEW h \in Holders, NEW op \in Ops
  PROVE  Answer(op, h) \in BOOLEAN
  BY DEF Answer, Ops

-----------------------------------------------------------------------------
(* Type correctness of every step.                                         *)
LEMMA StepType == ASSUME TypeOK, [Next]_vars PROVE TypeOK'
<1> USE HoldersAssumption, TtlAssumption, CallsAssumption
<1>n. NoCall \in Calls /\ NoBelief \in Beliefs
  BY DEF NoCall, Calls, NoBelief, Beliefs, Ages
<1>1. ASSUME NEW h \in Holders, NEW op \in Ops, Call(h, op) PROVE TypeOK'
  <2>1. Sent(op, h) \in Calls
    BY DEF Sent, Calls, Ages
  <2> QED
    BY <1>1, <1>n, <2>1 DEF Call, TypeOK
<1>2. ASSUME NEW h \in Holders, Execute(h) PROVE TypeOK'
  <2>1. call[h] \in Calls /\ call[h].op \in Ops
    BY <1>2 DEF Execute, TypeOK, Calls
  <2>2. key' \in Keys
    BY <1>2, <2>1, CommandType DEF Execute
  <2>3. [call[h] EXCEPT !.done = TRUE, !.answer = Answer(call[h].op, h)] \in Calls
    BY <2>1, AnswerType DEF Calls
  <2> QED
    BY <1>2, <2>2, <2>3 DEF Execute, TypeOK
<1>3. ASSUME NEW h \in Holders, Return(h) PROVE TypeOK'
  <2>1. Concluded(h) \in Beliefs
    BY <1>n DEF Concluded, TypeOK, Calls, Beliefs
  <2> QED
    BY <1>3, <1>n, <2>1 DEF Return, TypeOK
<1>4. ASSUME NEW h \in Holders, Raise(h) \/ Restart(h) PROVE TypeOK'
  <2>1. late' \subseteq [op : Ops, holder : Holders]
    BY <1>4 DEF Raise, Restart, Abandoned, TypeOK, Calls
  <2> QED
    BY <1>4, <1>n, <2>1 DEF Raise, Restart, TypeOK
<1>5. ASSUME NEW c \in late, LateArrives(c) PROVE TypeOK'
  <2>1. c.op \in Ops /\ c.holder \in Holders
    BY DEF TypeOK
  <2>2. Executed(c.op, c.holder) \in Keys
    BY <2>1, CommandType
  <2>3. key' \in Keys /\ late' \subseteq late
    BY <1>5, <2>2 DEF LateArrives, TypeOK
  <2>4. UNCHANGED <<call, belief, calls>>
    BY <1>5 DEF LateArrives
  <2> QED
    BY <2>3, <2>4 DEF TypeOK
<1>6. ASSUME Tick PROVE TypeOK'
  <2>1. \A age \in Ages : Older(age) \in Ages
    BY DEF Older, Ages
  <2>2. key' \in Keys
    <3>1. key \in Keys /\ Free \in Keys
      BY DEF TypeOK, Free, Keys, Ages
    <3>2. CASE key.left \in {0, 1}
      BY <1>6, <3>1, <3>2 DEF Tick
    <3>3. CASE key.left \notin {0, 1}
      <4>1. key' = [key EXCEPT !.left = key.left - 1]
        BY <1>6, <3>3 DEF Tick
      <4>2. key.left - 1 \in Ages
        BY <3>1, <3>3 DEF Keys, Ages
      <4> QED
        BY <3>1, <4>1, <4>2 DEF Keys
    <3> QED
      BY <3>2, <3>3
  <2>3. \A h \in Holders : [call[h] EXCEPT !.age = Older(call[h].age)] \in Calls
    BY <2>1 DEF TypeOK, Calls
  <2>4. \A h \in Holders : [belief[h] EXCEPT !.age = Older(belief[h].age)] \in Beliefs
    BY <2>1 DEF TypeOK, Beliefs
  <2>5. call' \in [Holders -> Calls] /\ belief' \in [Holders -> Beliefs]
    BY <1>6, <2>3, <2>4 DEF Tick, TypeOK
  <2>6. UNCHANGED <<late, calls>>
    BY <1>6 DEF Tick
  <2> QED
    BY <2>2, <2>5, <2>6 DEF TypeOK
<1>7. ASSUME UNCHANGED vars PROVE TypeOK'
  BY <1>7 DEF vars, TypeOK
<1> QED
  BY <1>1, <1>2, <1>3, <1>4, <1>5, <1>6, <1>7 DEF Next

(* Every step keeps what relates holders and Redis.                        *)
LEMMA StepTracked == ASSUME IInv, [Next]_vars PROVE \A g \in Holders : Tracked(g)'
<1> SUFFICES ASSUME NEW g \in Holders PROVE Tracked(g)'
  OBVIOUS
<1> USE HoldersAssumption, TtlAssumption DEF IInv
<1>t. TypeOK /\ Tracked(g)
  OBVIOUS
<1>1. ASSUME NEW h \in Holders, NEW op \in Ops, Call(h, op) PROVE Tracked(g)'
  <2>1. CASE g = h
    BY <1>1, <1>t, <2>1
    DEF Call, Sent, Tracked, Sure, Backed, LateRelease, NoBelief, TypeOK, Keys, Calls, Beliefs, Ops
  <2>2. CASE g # h
    BY <1>1, <1>t, <2>2 DEF Call, Tracked, Sure, Backed, NoBelief, TypeOK, Keys, Calls, Beliefs
  <2> QED
    BY <2>1, <2>2
<1>2. ASSUME NEW h \in Holders, Execute(h) PROVE Tracked(g)'
  <2> DEFINE op == call[h].op
  <2>1. op \in Ops /\ key' = Executed(op, h) /\ belief' = belief /\ late' = late
    BY <1>2 DEF Execute, TypeOK, Keys, Calls, Beliefs
  <2>2. Sure(g) /\ op = "release" => g # h
    BY <1>t DEF Tracked, Sure
  <2>3. Sure(g)' => Backed(g, belief[g].age)'
    <3>1. SUFFICES ASSUME Sure(g)' PROVE Backed(g, belief[g].age)'
      OBVIOUS
    <3>2. Sure(g) /\ Backed(g, belief[g].age) /\ belief[g].age \in Ages
      BY <1>t, <2>1, <3>1 DEF Sure, Tracked, TypeOK, Keys, Calls, Beliefs
    <3> QED
      BY <1>t, <2>1, <2>2, <3>2, CommandKeeps DEF Backed
  <2>4. CASE g = h
    <3>1. call[g]' = [call[g] EXCEPT !.done = TRUE, !.answer = Answer(op, g)]
      BY <1>2, <2>4 DEF Execute, TypeOK, Keys, Calls, Beliefs
    <3>2. call[g].age \in Ages
      BY <1>t DEF TypeOK, Keys, Calls, Beliefs
    <3>3. op # "release" /\ Answer(op, g) => Backed(g, call[g].age)'
      BY <1>t, <2>1, <2>4, <3>1, <3>2, CommandTakes DEF Backed, TypeOK, Keys, Calls, Beliefs
    <3> QED
      BY <1>t, <1>2, <2>1, <2>3, <2>4, <3>1, <3>3 DEF Tracked, Execute, TypeOK, Keys, Calls, Beliefs
  <2>5. CASE g # h
    <3>1. call[g]' = call[g] /\ call[g].age \in Ages
      BY <1>2, <2>5 DEF Execute, TypeOK, Keys, Calls, Beliefs
    <3>2. Backed(g, call[g].age) => Backed(g, call[g].age)'
      BY <1>t, <2>1, <2>5, <3>1, CommandKeeps DEF Backed
    <3> QED
      BY <1>t, <2>1, <2>3, <3>1, <3>2 DEF Tracked
  <2> QED
    BY <2>4, <2>5
<1>3. ASSUME NEW h \in Holders, Return(h) PROVE Tracked(g)'
  <2>1. CASE g = h
    BY <1>3, <1>t, <2>1
    DEF Return, Concluded, Tracked, Sure, Backed, LateRelease, NoBelief, NoCall,
         TypeOK, Keys, Calls, Beliefs
  <2>2. CASE g # h
    BY <1>3, <1>t, <2>2 DEF Return, Tracked, Sure, Backed, TypeOK, Keys, Calls, Beliefs
  <2> QED
    BY <2>1, <2>2
<1>4. ASSUME NEW h \in Holders, Raise(h) \/ Restart(h) PROVE Tracked(g)'
  <2>1. CASE g = h
    BY <1>4, <1>t, <2>1
    DEF Raise, Restart, Abandoned, Tracked, Sure, Backed, LateRelease, NoBelief, NoCall,
         TypeOK, Keys, Calls, Beliefs
  <2>2. CASE g # h
    <3>1. LateRelease(g) \notin late => LateRelease(g) \notin late'
      BY <1>4, <2>2 DEF Raise, Restart, Abandoned, LateRelease
    <3>2. key' = key /\ call'[g] = call[g] /\ belief'[g] = belief[g]
      BY <1>4, <2>2 DEF Raise, Restart, TypeOK, Keys, Calls, Beliefs
    <3> QED
      BY <1>t, <3>1, <3>2 DEF Tracked, Sure, Backed
  <2> QED
    BY <2>1, <2>2
<1>5. ASSUME NEW c \in late, LateArrives(c) PROVE Tracked(g)'
  <2>1. c.op \in Ops /\ c.holder \in Holders /\ c = [op |-> c.op, holder |-> c.holder]
    BY DEF TypeOK, Keys, Calls, Beliefs
  <2>2. UNCHANGED <<call, belief>> /\ late' \subseteq late
    BY <1>5 DEF LateArrives
  <2>3. ASSUME NEW age \in Ages, Backed(g, age), LateRelease(g) \notin late
        PROVE  Backed(g, age)'
    <3>1. c.op = "release" => g # c.holder
      BY <2>1, <2>3 DEF LateRelease
    <3>2. CASE UNCHANGED key
      BY <2>3, <3>2 DEF Backed
    <3>3. CASE key' = Executed(c.op, c.holder)
      BY <1>t, <2>1, <2>3, <3>1, <3>3, CommandKeeps
    <3> QED
      BY <1>5, <3>2, <3>3 DEF LateArrives
  <2>4. belief[g].age \in Ages /\ call[g].age \in Ages
    BY <1>t DEF TypeOK, Keys, Calls, Beliefs
  <2>5. Sure(g) => Backed(g, belief[g].age)'
    BY <1>t, <2>2, <2>3, <2>4 DEF Tracked, Sure, Backed
  <2>6. call[g].done /\ call[g].clean /\ Backed(g, call[g].age) => Backed(g, call[g].age)'
    BY <1>t, <2>2, <2>3, <2>4 DEF Tracked, Backed
  <2> QED
    BY <1>t, <2>2, <2>5, <2>6 DEF Tracked, Sure, Backed
<1>6. ASSUME Tick PROVE Tracked(g)'
  <2>1. ASSUME NEW age \in Ages, Backed(g, age), Older(age) < Ttl
        PROVE  Backed(g, Older(age))'
    BY <1>6, <1>t, <2>1 DEF Tick, Backed, Older, TypeOK, Ages, Keys, Calls, Beliefs
  <2>2. belief[g].age \in Ages /\ call[g].age \in Ages
    BY <1>t DEF TypeOK, Keys, Calls, Beliefs
  <2>3. late' = late
    BY <1>6 DEF Tick
  <2>4. call'[g].op = call[g].op /\ call'[g].done = call[g].done
        /\ call'[g].answer = call[g].answer /\ call'[g].clean = call[g].clean
    BY <1>6, <1>t DEF Tick, TypeOK, Keys, Calls, Beliefs
  <2>5. belief'[g].has = belief[g].has /\ belief'[g].clean = belief[g].clean
    BY <1>6, <1>t DEF Tick, TypeOK, Keys, Calls, Beliefs
  <2>6. belief[g].has => belief'[g].age = Older(belief[g].age)
    BY <1>6, <1>t DEF Tick, TypeOK, Keys, Calls, Beliefs
  <2>7. call[g].op # "none" => call'[g].age = Older(call[g].age)
    BY <1>6, <1>t DEF Tick, TypeOK, Keys, Calls, Beliefs
  <2>8. \A age \in Ages : Older(age) < Ttl => age < Ttl
    BY DEF Older, Ages
  <2>9. Sure(g)' => Backed(g, belief[g].age)'
    BY <1>t, <2>1, <2>2, <2>5, <2>6, <2>8 DEF Tracked, Sure, Backed
  <2>10. call'[g].done /\ call'[g].op # "release" /\ call'[g].answer
         /\ call'[g].clean /\ call'[g].age < Ttl
         => Backed(g, call[g].age)'
    BY <1>t, <2>1, <2>2, <2>4, <2>7, <2>8 DEF Tracked, Backed
  <2> QED
    BY <1>t, <2>3, <2>4, <2>5, <2>9, <2>10 DEF Tracked
<1>7. ASSUME UNCHANGED vars PROVE Tracked(g)'
  BY <1>7, <1>t DEF vars, Tracked, Sure, Backed
<1> QED
  BY <1>1, <1>2, <1>3, <1>4, <1>5, <1>6, <1>7 DEF Next

(* Every reachable state satisfies the inductive invariant.                *)
THEOREM Inductive == Spec => []IInv
<1>1. IInv /\ [Next]_vars => IInv'
  BY StepType, StepTracked DEF IInv
<1> QED
  BY InitIInv, <1>1, PTL DEF Spec

-----------------------------------------------------------------------------
(* Every variable keeps its shape; in particular the key never outlives    *)
(* its time to live.                                                       *)
THEOREM TypeCorrect == Spec => []TypeOK
<1>1. IInv => TypeOK
  BY DEF IInv
<1> QED
  BY Inductive, <1>1, PTL

(* No two holders are sure of the lock at once: both would be the one that *)
(* Redis names.                                                            *)
THEOREM OneIsSure == Spec => []NeverBothSure
<1>1. IInv => NeverBothSure
  BY DEF IInv, Tracked, Backed, NeverBothSure
<1> QED
  BY Inductive, <1>1, PTL

-----------------------------------------------------------------------------
(* The lock is a lease.                                                    *)

Owner  == key.holder
SureOf == {h \in Holders : Sure(h)}

LEMMA SureIsOwner == ASSUME IInv' PROVE SureOf' \subseteq {Owner'}
  BY DEF IInv, Tracked, Backed, SureOf, Owner

(* Certainty that does not grow while the lock at most becomes free.       *)
LEMMA Fades ==
  ASSUME SureOf' \subseteq SureOf, Owner' \in {Owner, NoHolder}, SureOf' \subseteq {Owner'}
  PROVE  [Abstract!Next]_(Abstract!vars)
  BY DEF Abstract!Next, Abstract!Fade, SureOf, Owner

(* A command, of a call or late: the lock is granted or it fades.          *)
LEMMA CommandRefines ==
  ASSUME IInv, IInv', NEW h \in Holders, NEW op \in Ops,
         key' = Executed(op, h), UNCHANGED belief
  PROVE  [Abstract!Next]_(Abstract!vars)
<1>1. SureOf' = SureOf
  BY DEF SureOf, Sure
<1>2. SureOf' \subseteq {Owner'}
  BY SureIsOwner
<1>3. CASE op = "acquire" /\ key.holder = NoHolder
  <2>1. key.holder = NoHolder /\ key'.holder = h
    BY <1>3 DEF Executed, Acquired
  <2>2. Abstract!Grant(h)
    BY <1>1, <2>1 DEF Abstract!Grant, SureOf
  <2> QED
    BY <2>2 DEF Abstract!Next
<1>4. CASE ~(op = "acquire" /\ key.holder = NoHolder)
  <2>1. Owner' \in {Owner, NoHolder}
    BY <1>4 DEF Executed, Acquired, Renewed, Released, Free, Owner, IInv, TypeOK, Keys
  <2> QED
    BY <1>1, <1>2, <2>1, Fades
<1> QED
  BY <1>3, <1>4

LEMMA StepRefines ==
  ASSUME IInv, IInv', [Next]_vars
  PROVE  [Abstract!Next]_(Abstract!vars)
<1>s. SureOf' \subseteq {Owner'}
  BY SureIsOwner
<1>1. ASSUME NEW h \in Holders, NEW op \in Ops, Call(h, op)
      PROVE  [Abstract!Next]_(Abstract!vars)
  <2>1. Owner' = Owner /\ SureOf' \subseteq SureOf
    BY <1>1 DEF Call, Owner, SureOf, Sure, NoBelief, IInv, TypeOK
  <2> QED
    BY <1>s, <2>1, Fades
<1>2. ASSUME NEW h \in Holders, Execute(h) PROVE [Abstract!Next]_(Abstract!vars)
  <2>1. call[h].op \in Ops
    BY <1>2 DEF Execute, IInv, TypeOK, Calls
  <2> QED
    BY <1>2, <2>1, CommandRefines DEF Execute
<1>3. ASSUME NEW h \in Holders, Return(h) PROVE [Abstract!Next]_(Abstract!vars)
  <2>1. Owner' = Owner
    BY <1>3 DEF Return, Owner
  <2>2. \A g \in Holders : g # h /\ Sure(g)' => Sure(g)
    BY <1>3 DEF Return, Sure, IInv, TypeOK
  <2>3. CASE Sure(h)'
    <3>1. key.holder = h /\ SureOf' = {h}
      BY <1>s, <2>1, <2>3 DEF SureOf, Owner
    <3>2. Abstract!Confirm(h)
      BY <2>1, <3>1 DEF Abstract!Confirm, SureOf, Owner
    <3> QED
      BY <3>2 DEF Abstract!Next
  <2>4. CASE ~Sure(h)'
    <3>1. SureOf' \subseteq SureOf
      BY <2>2, <2>4 DEF SureOf
    <3> QED
      BY <1>s, <2>1, <3>1, Fades
  <2> QED
    BY <2>3, <2>4
<1>4. ASSUME NEW h \in Holders, Raise(h) \/ Restart(h)
      PROVE  [Abstract!Next]_(Abstract!vars)
  <2>1. Owner' = Owner /\ SureOf' \subseteq SureOf
    BY <1>4 DEF Raise, Restart, Owner, SureOf, Sure, NoBelief, IInv, TypeOK
  <2> QED
    BY <1>s, <2>1, Fades
<1>5. ASSUME NEW c \in late, LateArrives(c) PROVE [Abstract!Next]_(Abstract!vars)
  <2>1. c.op \in Ops /\ c.holder \in Holders
    BY DEF IInv, TypeOK
  <2>2. CASE UNCHANGED key
    <3>1. Owner' = Owner /\ SureOf' = SureOf
      BY <1>5, <2>2 DEF LateArrives, Owner, SureOf, Sure
    <3> QED
      BY <1>s, <3>1, Fades
  <2>3. CASE key' = Executed(c.op, c.holder)
    BY <1>5, <2>1, <2>3, CommandRefines DEF LateArrives
  <2> QED
    BY <1>5, <2>2, <2>3 DEF LateArrives
<1>6. ASSUME Tick PROVE [Abstract!Next]_(Abstract!vars)
  <2>1. Owner' \in {Owner, NoHolder}
    BY <1>6 DEF Tick, Owner, Free, IInv, TypeOK, Keys
  <2>2. \A age \in Ages : Older(age) < Ttl => age < Ttl
    BY TtlAssumption DEF Older, Ages
  <2>3. SureOf' \subseteq SureOf
    BY <1>6, <2>2 DEF Tick, SureOf, Sure, IInv, TypeOK, Beliefs
  <2> QED
    BY <1>s, <2>1, <2>3, Fades
<1>7. ASSUME UNCHANGED vars PROVE [Abstract!Next]_(Abstract!vars)
  <2>1. Owner' = Owner /\ SureOf' = SureOf
    BY <1>7 DEF vars, Owner, SureOf, Sure
  <2> QED
    BY <1>s, <2>1, Fades
<1> QED
  BY <1>1, <1>2, <1>3, <1>4, <1>5, <1>6, <1>7 DEF Next

(* The protocol implements the abstract lease: it never takes the lock     *)
(* from a holder that is sure of it.                                       *)
THEOREM Refinement == Spec => IsLease
<1>1. Init => Abstract!Init
  BY DEF Init, Abstract!Init, Free, Sure, NoBelief
<1>2. IInv /\ IInv' /\ [Next]_vars => [Abstract!Next]_(Abstract!vars)
  BY StepRefines
<1> QED
  BY <1>1, <1>2, Inductive, PTL DEF Spec, IsLease, Abstract!Spec
=============================================================================
