---------------------------- MODULE CapitalLock ----------------------------
(***************************************************************************)
(* The capital lock of common/locks.py (repeated in control/api.py): a     *)
(* Redis key with the name of its holder and a time to live, taken with    *)
(* SET NX EX, renewed and released by scripts that compare the name.       *)
(*                                                                         *)
(* A call is sent, executes at Redis and answers; its caller may get an    *)
(* error instead (LockError) at any time, and the command of a call given  *)
(* up on may still execute later.  A holder that restarts keeps its name.  *)
(* No runner of this branch takes the lock, so the holders here make any   *)
(* calls in any order, one at a time.                                      *)
(***************************************************************************)
EXTENDS Integers

CONSTANTS
    Holders,       \* the bots
    NoHolder,      \* the value of a key that does not exist
    Ttl,           \* ttl of acquire_lock and renew_lock, in ticks
    MaxCalls       \* bound: calls made

ASSUME HoldersAssumption == NoHolder \notin Holders
ASSUME TtlAssumption     == Ttl \in Nat \ {0}
ASSUME CallsAssumption   == MaxCalls \in Nat

VARIABLES
    key,       \* Redis: the holder and the ticks the key has left
    call,      \* per holder: its call, whether it executed, answer, ticks
    late,      \* commands of calls given up on that may still execute
    belief,    \* per holder: what the last answers let it conclude
    calls      \* calls made so far

vars == <<key, call, late, belief, calls>>

Ops   == {"acquire", "renew", "release"}
Ages  == 0 .. Ttl
Free  == [holder |-> NoHolder, left |-> 0]

Keys    == [holder : Holders \cup {NoHolder}, left : Ages]
Calls   == [op : Ops \cup {"none"}, done : BOOLEAN, answer : BOOLEAN, age : Ages,
            clean : BOOLEAN]
Beliefs == [has : BOOLEAN, age : Ages, clean : BOOLEAN]

(* No call; and a call op that was just sent.  clean: no release of this   *)
(* holder that was given up on is still around.                            *)
NoCall == [op |-> "none", done |-> FALSE, answer |-> FALSE, age |-> 0, clean |-> FALSE]

Sent(op, h) ==
    [op |-> op, done |-> FALSE, answer |-> FALSE, age |-> 0,
     clean |-> [op |-> "release", holder |-> h] \notin late]

(* age: ticks since the call was sent that last confirmed the lock.        *)
NoBelief == [has |-> FALSE, age |-> 0, clean |-> FALSE]

Older(age) == IF age < Ttl THEN age + 1 ELSE age

-----------------------------------------------------------------------------
(* The commands, as Redis executes them.                                   *)

(* Seeded: SET without NX.                                                 *)
AcquiredAlways(h) == [holder |-> h, left |-> Ttl]

(* Seeded: SET NX without EX.                                              *)
AcquiredForEver(h) ==
    IF key.holder = NoHolder THEN [holder |-> h, left |-> 0] ELSE key

Acquired(h) ==
    IF key.holder = NoHolder THEN [holder |-> h, left |-> Ttl] ELSE key

(* Seeded: EXPIRE, which counts in seconds, with milliseconds.             *)
RenewedTooLong(h) ==
    IF key.holder = h THEN [key EXCEPT !.left = Ttl * 1000] ELSE key

Renewed(h) ==
    IF key.holder = h THEN [key EXCEPT !.left = Ttl] ELSE key

(* Seeded: DEL without comparing the holder.                               *)
ReleasedAlways(h) == Free

Released(h) == IF key.holder = h THEN Free ELSE key

Executed(op, h) ==
    IF op = "acquire" THEN Acquired(h)
    ELSE IF op = "renew" THEN Renewed(h)
    ELSE Released(h)

(* What the command answers: SET NX only succeeds on a free key.           *)
Answer(op, h) ==
    /\ op = "acquire" => key.holder = NoHolder
    /\ op = "renew" => key.holder = h

-----------------------------------------------------------------------------
(* A holder that releases does no longer count on the lock.                *)
Call(h, op) ==
    /\ call[h].op = "none" /\ calls < MaxCalls
    /\ call' = [call EXCEPT ![h] = Sent(op, h)]
    /\ belief' = IF op = "release" THEN [belief EXCEPT ![h] = NoBelief] ELSE belief
    /\ calls' = calls + 1
    /\ UNCHANGED <<key, late>>

Execute(h) ==
    /\ call[h].op # "none" /\ ~call[h].done
    /\ key' = Executed(call[h].op, h)
    /\ call' = [call EXCEPT ![h] = [call[h] EXCEPT !.done = TRUE,
                                                  !.answer = Answer(call[h].op, h)]]
    /\ UNCHANGED <<late, belief, calls>>

(* True confirms the lock as of the time the call was sent; False ends it. *)
Concluded(h) ==
    IF call[h].op # "release" /\ call[h].answer
      THEN [has |-> TRUE, age |-> call[h].age, clean |-> call[h].clean]
      ELSE NoBelief

Return(h) ==
    /\ call[h].done
    /\ belief' = [belief EXCEPT ![h] = Concluded(h)]
    /\ call' = [call EXCEPT ![h] = NoCall]
    /\ UNCHANGED <<key, late, calls>>

Abandoned(h) ==
    IF call[h].op # "none" /\ ~call[h].done
      THEN {[op |-> call[h].op, holder |-> h]}
      ELSE {}

(* LockError.                                                              *)
Raise(h) ==
    /\ call[h].op # "none"
    /\ late' = late \cup Abandoned(h)
    /\ call' = [call EXCEPT ![h] = NoCall]
    /\ UNCHANGED <<key, belief, calls>>

(* The process of h dies and starts again under the same name.             *)
Restart(h) ==
    /\ late' = late \cup Abandoned(h)
    /\ call' = [call EXCEPT ![h] = NoCall]
    /\ belief' = [belief EXCEPT ![h] = NoBelief]
    /\ UNCHANGED <<key, calls>>

(* A command given up on executes after all, or is lost.                   *)
LateArrives(c) ==
    /\ late' = late \ {c}
    /\ key' = Executed(c.op, c.holder) \/ UNCHANGED key
    /\ UNCHANGED <<call, belief, calls>>

Tick ==
    /\ key' = IF key.left = 1 THEN Free
              ELSE IF key.left = 0 THEN key ELSE [key EXCEPT !.left = @ - 1]
    /\ call' = [h \in Holders |->
                  IF call[h].op = "none" THEN call[h]
                  ELSE [call[h] EXCEPT !.age = Older(@)]]
    /\ belief' = [h \in Holders |->
                    IF belief[h].has THEN [belief[h] EXCEPT !.age = Older(@)]
                    ELSE belief[h]]
    /\ UNCHANGED <<late, calls>>

Init ==
    /\ key = Free
    /\ call = [h \in Holders |-> NoCall]
    /\ late = {}
    /\ belief = [h \in Holders |-> NoBelief]
    /\ calls = 0

Next ==
    \/ \E h \in Holders :
         \/ \E op \in Ops : Call(h, op)
         \/ Execute(h) \/ Return(h) \/ Raise(h) \/ Restart(h)
    \/ \E c \in late : LateArrives(c)
    \/ Tick

Spec == Init /\ [][Next]_vars

(* Time passes.                                                            *)
FairSpec == Spec /\ WF_vars(Tick)

-----------------------------------------------------------------------------
(* Properties.                                                             *)

(* The shape of every variable.                                            *)
TypeOK ==
    /\ key \in Keys
    /\ call \in [Holders -> Calls]
    /\ late \subseteq [op : Ops, holder : Holders]
    /\ belief \in [Holders -> Beliefs]
    /\ calls \in 0 .. MaxCalls

(* h may act on having the lock: less than a time to live has passed since *)
(* it sent the call that confirmed it, and no release that it gave up on   *)
(* was still around then.                                                  *)
Sure(h) == belief[h].has /\ belief[h].age < Ttl /\ belief[h].clean

(* Two bots are never sure at the same time, whatever errors, restarts and *)
(* late commands do.                                                       *)
NeverBothSure == \A g, h \in Holders : Sure(g) /\ Sure(h) => g = h

(* The lock is a lease: nobody takes it from a holder that is sure of it,  *)
(* and it changes hands only through being free.                           *)
Abstract == INSTANCE Lease WITH owner <- key.holder, sure <- {h \in Holders : Sure(h)}
IsLease  == Abstract!Spec

(* Nobody keeps the lock without renewing it, not even by dying with it:   *)
(* calls being bounded, every ownership ends.                              *)
LockLapses == \A h \in Holders : key.holder = h ~> key.holder # h
=============================================================================
