------------------------------- MODULE Outbox -------------------------------
(***************************************************************************)
(* What a bot may rely on when it hands an event to the database writer:   *)
(* events wait in the order they were emitted and leave that order only at *)
(* its head; an event that was put in safety is not lost any more and      *)
(* leaves only by being done, once; nothing is done that was not emitted.  *)
(* An event that only waits may be lost, alone when its turn comes or with *)
(* all the others.                                                         *)
(***************************************************************************)
EXTENDS Integers, Sequences

VARIABLES
    emitted,   \* number of events, which are numbered as they are emitted
    waiting,   \* the events still in memory
    safe,      \* the events on disk that are not done
    done       \* the events in the database

vars == <<emitted, waiting, safe, done>>

Init == emitted = 0 /\ waiting = <<>> /\ safe = {} /\ done = {}

Done(e)   == done' = done \cup {e} /\ UNCHANGED safe
Secure(e) == safe' = safe \cup {e} /\ UNCHANGED done
Lose      == UNCHANGED <<safe, done>>

Emit ==
    /\ emitted' = emitted + 1
    /\ \/ waiting' = Append(waiting, emitted') /\ UNCHANGED <<safe, done>>
       \/ UNCHANGED waiting /\ (Secure(emitted') \/ Lose)

Take ==
    /\ waiting # <<>>
    /\ waiting' = Tail(waiting)
    /\ Done(Head(waiting)) \/ Secure(Head(waiting)) \/ Lose
    /\ UNCHANGED emitted

Finish ==
    /\ \E e \in safe : safe' = safe \ {e} /\ done' = done \cup {e}
    /\ UNCHANGED <<emitted, waiting>>

Forget ==
    /\ waiting' = <<>>
    /\ UNCHANGED <<emitted, safe, done>>

Next == Emit \/ Take \/ Finish \/ Forget

Spec == Init /\ [][Next]_vars
=============================================================================
