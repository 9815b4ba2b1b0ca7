------------------------- MODULE EmaExecutorProofs -------------------------
(***************************************************************************)
(* What module EmaExecutor promises for every value of its constants: any  *)
(* number of orders and failures, with and without shorts and stops, any   *)
(* mix of replies and of database outcomes.                                *)
(***************************************************************************)
EXTENDS EmaExecutor, FiniteSetTheorems, TLAPS

(* Where the handler is constrains what it works with: an exit has a       *)
(* position to leave, an entry has a side to go to and no position; and    *)
(* only a position has a stop.                                             *)
Control ==
    /\ position.side = "NONE" => position.stop = 0
    /\ pc \in {"cancel", "exit"} => position.side \in Sides
    /\ pc \in {"size", "enter", "stop"} => goal \in Sides

(* The exposure the handler accounts for: after the entry order it is the  *)
(* goal's, although the position is only recorded after the stop order.    *)
Held == IF pc = "stop" THEN goal ELSE position.side

(* Each direction has its own bound: the stop of a position may take the   *)
(* exposure away at any time, so it is not bounded from the other side.    *)
(* An entry given up on was paid for when its call failed, whichever way   *)
(* the exposure has gone since.                                            *)
LateEntries  == delayed["enter"]["LONG"] + delayed["enter"]["SHORT"]
LateBounded  == LateEntries <= faults
LongBounded  == net + LateEntries <= (IF Held = "LONG" THEN 1 ELSE 0) + faults
ShortBounded == LateEntries - net <= (IF Held = "SHORT" THEN 1 ELSE 0) + faults
Bounds       == LateBounded /\ LongBounded /\ ShortBounded

(* Without failures no order is delayed.                                   *)
NothingDelayed == faults = 0 => \A c \in OrderCalls, s \in Sides : delayed[c][s] = 0

IInv ==
    /\ TypeOK
    /\ Control
    /\ EntryOnlyWhenFlat
    /\ Bounds
    /\ NothingDelayed

-----------------------------------------------------------------------------
(* The initial state satisfies the inductive invariant.                    *)
LEMMA InitIInv == Init => IInv
  BY DEF Init, IInv, TypeOK, Control, EntryOnlyWhenFlat, Bounds, LateBounded,
         LongBounded, ShortBounded, LateEntries, NothingDelayed, Held, NoPosition, Phases, Sides,
         OrderCalls

-----------------------------------------------------------------------------
(* The parts of the type invariant that belong to the venue and to the     *)
(* database; every action is the handler's part and one of each.           *)
VenueOK ==
    /\ net \in Int
    /\ stops \subseteq [id : Nat, side : Sides]
    /\ executed \subseteq Nat
    /\ stopped \subseteq Nat
    /\ nextId \in Nat \ {0}
    /\ delayed \in [OrderCalls -> [Sides -> Nat]]

DbOK ==
    /\ rows \subseteq [id : Nat, kind : {"MARKET", "STOP_MARKET"},
                       status : {"NEW", "FILLED", "CANCELED"}]
    /\ fills \subseteq Nat

HandlerOK ==
    /\ pc \in Phases
    /\ goal \in Sides \cup {"NONE"}
    /\ position \in [side : Sides \cup {"NONE"}, stop : Nat]
    /\ faults \in Nat

(* TypeOK taken apart, before and after a step.                            *)
LEMMA TypeParts == TypeOK <=> HandlerOK /\ VenueOK /\ DbOK
  BY DEF TypeOK, HandlerOK, VenueOK, DbOK

LEMMA TypePartsNext == TypeOK' <=> HandlerOK' /\ VenueOK' /\ DbOK'
  BY DEF TypeOK, HandlerOK, VenueOK, DbOK

(* Orders are for one unit in one of the two directions.                   *)
LEMMA DirTyped == \A s : Dir(s) \in {-1, 0, 1}
  BY DEF Dir

(* What an order moves the exposure by.                                    *)
LEMMA CloseDirTyped == \A s : CloseDir(s) \in {-1, 0, 1}
<1> SUFFICES ASSUME NEW s PROVE CloseDir(s) \in {-1, 0, 1}
  OBVIOUS
<1>1. Dir(s) \in {-1, 0, 1}
  BY DirTyped
<1> QED
  BY <1>1 DEF CloseDir

(* The two directions of an entry, and of an exit.                         *)
LEMMA DirOf == Dir("LONG") = 1 /\ Dir("SHORT") = -1
  BY DEF Dir

LEMMA CloseDirOf == CloseDir("LONG") = -1 /\ CloseDir("SHORT") = 1
  BY DirOf DEF CloseDir

(* An order that takes effect keeps the venue well typed and moves the     *)
(* exposure by what its call says.                                         *)
LEMMA TakesEffectTyped ==
  ASSUME VenueOK, NEW call, NEW side \in Sides, TakesEffect(call, side),
         delayed' \in [OrderCalls -> [Sides -> Nat]]
  PROVE  /\ VenueOK'
         /\ \/ call = "stop" /\ net' = net
            \/ call = "exit" /\ Reduces(CloseDir(side)) /\ net' = net + CloseDir(side)
            \/ call = "enter" /\ net' = net + Dir(side)
<1> USE DEF VenueOK
<1>1. CASE call = "exit" /\ Accepts("exit", CloseDir(side)) /\ Execute(CloseDir(side))
  <2>1. Reduces(CloseDir(side))
    BY <1>1 DEF Accepts, ReduceOnly
  <2> QED
    BY <1>1, <2>1, CloseDirTyped DEF Execute
<1>2. CASE call = "enter" /\ Execute(Dir(side))
  BY <1>2, DirTyped DEF Execute
<1>3. CASE call = "stop" /\ RestStop(side)
  BY <1>3 DEF RestStop
<1> QED
  BY <1>1, <1>2, <1>3 DEF TakesEffect

(* What a reducing order of each side finds and leaves.                    *)
LEMMA ReduceOf ==
  ASSUME NEW side \in Sides, VenueOK, Reduces(CloseDir(side)), net' = net + CloseDir(side)
  PROVE  /\ side = "LONG" => net > 0 /\ net' = net - 1
         /\ side = "SHORT" => net < 0 /\ net' = net + 1
  BY CloseDirOf DEF Reduces, VenueOK, Sides

(* A cancellation keeps the venue well typed too.                          *)
LEMMA CancelRestingTyped ==
  ASSUME VenueOK, CancelResting, delayed' = delayed
  PROVE  VenueOK' /\ net' = net
  BY DEF VenueOK, CancelResting

(* One more or one less delayed order of one kind.                         *)
LEMMA DelayedMore ==
  ASSUME VenueOK, NEW c \in OrderCalls, NEW s \in Sides,
         delayed' = [delayed EXCEPT ![c][s] = @ + 1]
  PROVE  /\ delayed' \in [OrderCalls -> [Sides -> Nat]]
         /\ delayed'[c][s] = delayed[c][s] + 1
         /\ \A t \in Sides : c # "enter" \/ s # t => delayed'["enter"][t] = delayed["enter"][t]
  BY DEF VenueOK, OrderCalls

(* A delayed order arrives.                                                *)
LEMMA DelayedLess ==
  ASSUME VenueOK, NEW c \in OrderCalls, NEW s \in Sides, delayed[c][s] > 0,
         delayed' = [delayed EXCEPT ![c][s] = @ - 1]
  PROVE  /\ delayed' \in [OrderCalls -> [Sides -> Nat]]
         /\ delayed'[c][s] = delayed[c][s] - 1
         /\ \A t \in Sides : c # "enter" \/ s # t => delayed'["enter"][t] = delayed["enter"][t]
  BY DEF VenueOK, OrderCalls

(* What a call that failed on this side may have done: it leaves the venue *)
(* as far as the bounds see it, or it reduces the exposure, or it is an    *)
(* entry, executed or to be executed.                                      *)
LEMMA LostEffect ==
  ASSUME HandlerOK, VenueOK, Control, Lost
  PROVE  /\ VenueOK'
         /\ \/ net' = net /\ \A t \in Sides : delayed'["enter"][t] = delayed["enter"][t]
            \/ /\ pc = "exit" /\ Reduces(CloseDir(position.side))
               /\ net' = net + CloseDir(position.side) /\ delayed' = delayed
            \/ pc = "enter" /\ net' = net + Dir(goal) /\ delayed' = delayed
            \/ /\ pc = "enter" /\ net' = net
               /\ delayed'["enter"][goal] = delayed["enter"][goal] + 1
               /\ \A t \in Sides \ {goal} : delayed'["enter"][t] = delayed["enter"][t]
<1>1. CASE UNCHANGED venue
  BY <1>1 DEF VenueOK, venue
<1>2. CASE pc = "cancel" /\ CancelResting /\ UNCHANGED delayed
  BY <1>2, CancelRestingTyped
<1>3. CASE TakesEffect(pc, CallSide) /\ UNCHANGED delayed
  <2>1. pc \in OrderCalls /\ CallSide \in Sides
    BY <1>3 DEF TakesEffect, OrderCalls, CallSide, Control
  <2>2. VenueOK'
    BY <1>3, <2>1, TakesEffectTyped DEF VenueOK
  <2>3. \/ pc = "stop" /\ net' = net
        \/ pc = "exit" /\ Reduces(CloseDir(CallSide)) /\ net' = net + CloseDir(CallSide)
        \/ pc = "enter" /\ net' = net + Dir(CallSide)
    BY <1>3, <2>1, TakesEffectTyped DEF VenueOK
  <2> QED
    BY <1>3, <2>2, <2>3 DEF CallSide
<1>4. CASE /\ pc \in OrderCalls
           /\ delayed' = [delayed EXCEPT ![pc][CallSide] = @ + 1]
           /\ Settled
  <2>1. CallSide \in Sides /\ (pc # "exit" => CallSide = goal)
    BY <1>4 DEF OrderCalls, CallSide, Control
  <2>4. /\ delayed' \in [OrderCalls -> [Sides -> Nat]]
        /\ delayed'[pc][CallSide] = delayed[pc][CallSide] + 1
        /\ \A t \in Sides : pc # "enter" \/ CallSide # t
                              => delayed'["enter"][t] = delayed["enter"][t]
    BY <1>4, <2>1, DelayedMore
  <2>5. VenueOK' /\ net' = net
    BY <1>4, <2>4 DEF VenueOK, Settled
  <2>6. CASE pc = "enter"
    BY <2>1, <2>4, <2>5, <2>6
  <2>7. CASE pc # "enter"
    BY <2>4, <2>5, <2>7
  <2> QED
    BY <2>6, <2>7
<1> QED
  BY <1>1, <1>2, <1>3, <1>4 DEF Lost

(* Persisting an order of this venue keeps the database well typed.        *)
LEMMA PersistTyped ==
  ASSUME DbOK, NEW id \in Nat, NEW kind \in {"MARKET", "STOP_MARKET"},
         NEW status \in {"NEW", "FILLED", "CANCELED"}, NEW hasFills, NEW outcome,
         Persist(id, kind, status, hasFills, outcome)
  PROVE  DbOK'
  BY DEF DbOK, Persist

(* And so does marking one as cancelled.                                   *)
LEMMA MarkCanceledTyped ==
  ASSUME DbOK, NEW id, NEW outcome, MarkCanceled(id, outcome)
  PROVE  DbOK'
  BY DEF DbOK, MarkCanceled

-----------------------------------------------------------------------------
(* Every step preserves the inductive invariant: first the types of what   *)
(* the step touches at the venue and in the database, then the handler's   *)
(* part and the bounds.                                                    *)
LEMMA StepIInv == ASSUME IInv, [Next]_vars PROVE IInv'
<1> DEFINE Rest == /\ HandlerOK /\ Control /\ EntryOnlyWhenFlat
                   /\ Bounds /\ NothingDelayed
<1>0. Rest /\ VenueOK /\ DbOK
  BY TypeParts DEF IInv
<1>q. VenueOK' /\ DbOK' /\ Rest' => IInv'
  BY TypePartsNext DEF IInv
<1>d. /\ net \in Int
      /\ delayed["enter"]["LONG"] \in Nat
      /\ delayed["enter"]["SHORT"] \in Nat
      /\ faults \in Nat
  BY <1>0 DEF VenueOK, HandlerOK, OrderCalls, Sides
<1>b. Bounds
  BY <1>0
<1> USE DEF HandlerOK, Control, EntryOnlyWhenFlat, Bounds, LateBounded, LongBounded,
            ShortBounded, LateEntries, NothingDelayed, Held, Phases, Sides, NoPosition
<1>1. ASSUME NEW s \in Sides, OnCandleClose(s) PROVE IInv'
  <2>1. VenueOK' /\ net' = net /\ delayed' = delayed
    BY <1>1, <1>0 DEF OnCandleClose, VenueOK, venue
  <2>2. DbOK'
    BY <1>1, <1>0 DEF OnCandleClose, DbOK, db
  <2>3. Rest'
    BY <1>1, <1>0, <2>1 DEF OnCandleClose, FirstStep, WantedSide
  <2> QED
    BY <1>q, <2>1, <2>2, <2>3
<1>2. ASSUME NEW d \in DbOutcomes, CancelStop(d) PROVE IInv'
  <2>1. VenueOK' /\ net' = net /\ delayed' = delayed
    BY <1>2, <1>0, CancelRestingTyped DEF CancelStop
  <2>2. DbOK'
    BY <1>2, <1>0, MarkCanceledTyped DEF CancelStop
  <2>3. Rest'
    BY <1>2, <1>0, <2>1 DEF CancelStop, AfterCancel
  <2> QED
    BY <1>q, <2>1, <2>2, <2>3
<1>3. ASSUME CancelFails PROVE IInv'
  <2>1. VenueOK' /\ net' = net /\ \A t \in Sides : delayed'["enter"][t] = delayed["enter"][t]
    BY <1>3, <1>0, LostEffect DEF CancelFails
  <2>2. DbOK'
    BY <1>3, <1>0 DEF CancelFails, DbOK, db
  <2>3. Rest'
    BY <1>3, <1>0, <1>d, <2>1 DEF CancelFails, Fault, AfterCancel
  <2> QED
    BY <1>q, <2>1, <2>2, <2>3
<1>4. ASSUME NEW r \in ReplyKinds, NEW d \in DbOutcomes, ExitFilled(r, d) PROVE IInv'
  <2>1. TakesEffect("exit", position.side) /\ position.side \in Sides /\ delayed' = delayed
    BY <1>4, <1>0 DEF ExitFilled, TakesEffect
  <2>2. VenueOK'
    BY <1>0, <2>1, TakesEffectTyped DEF VenueOK
  <2>3. Reduces(CloseDir(position.side)) /\ net' = net + CloseDir(position.side)
    BY <1>0, <2>1, TakesEffectTyped DEF VenueOK
  <2>4. MarketStatus(r) \in {"NEW", "FILLED"}
    BY DEF MarketStatus
  <2>5. DbOK'
    BY <1>4, <1>0, <2>4, PersistTyped DEF ExitFilled, PersistMarket, VenueOK
  <2>6. /\ position.side = "LONG" => net > 0 /\ net' = net - 1
        /\ position.side = "SHORT" => net < 0 /\ net' = net + 1
    BY <1>0, <2>1, <2>3, ReduceOf
  <2>7. Rest'
    <3>1. HandlerOK' /\ Control' /\ EntryOnlyWhenFlat'
      BY <1>4, <1>0 DEF ExitFilled, AfterClose, WantedSide
    <3>2. Bounds'
      <4>1. Held' = "NONE" /\ Held = position.side /\ faults' = faults
        BY <1>4, <1>0 DEF ExitFilled, AfterClose
      <4> HIDE DEF Held
      <4> QED
        BY <1>b, <1>d, <2>1, <2>6, <4>1
    <3>3. NothingDelayed'
      BY <1>4, <1>0, <2>1 DEF ExitFilled
    <3> QED
      BY <3>1, <3>2, <3>3
  <2> QED
    BY <1>q, <2>2, <2>5, <2>7
<1>5. ASSUME ExitRejected PROVE IInv'
  <2>1. VenueOK' /\ net' = net /\ delayed' = delayed /\ DbOK'
    BY <1>5, <1>0 DEF ExitRejected, ExitRaises, VenueOK, DbOK, venue, db
  <2>2. ~Reduces(CloseDir(position.side))
    BY <1>5 DEF ExitRejected, Accepts, ReduceOnly
  <2>3. /\ position.side = "LONG" => net <= 0
        /\ position.side = "SHORT" => net >= 0
    BY <1>d, <2>2, CloseDirOf DEF Reduces
  <2>4. Rest'
    <3>1. HandlerOK' /\ Control' /\ EntryOnlyWhenFlat'
      BY <1>5, <1>0 DEF ExitRejected, ExitRaises, Handled, PlaceOrderError
    <3>2. Bounds'
      <4>1. Held' = "NONE" /\ Held = position.side /\ faults' = faults
        BY <1>5, <1>0 DEF ExitRejected, ExitRaises, Handled, PlaceOrderError
      <4> HIDE DEF Held
      <4> QED
        BY <1>b, <1>d, <2>1, <2>3, <4>1
    <3>3. NothingDelayed'
      BY <1>5, <1>0, <2>1 DEF ExitRejected
    <3> QED
      BY <3>1, <3>2, <3>3
  <2> QED
    BY <1>q, <2>1, <2>4
<1>6. ASSUME ExitFails PROVE IInv'
  <2>1. VenueOK' /\ DbOK'
    BY <1>6, <1>0, LostEffect DEF ExitFails, ExitRaises, DbOK, db
  <2>2. \/ net' = net /\ \A t \in Sides : delayed'["enter"][t] = delayed["enter"][t]
        \/ /\ Reduces(CloseDir(position.side)) /\ net' = net + CloseDir(position.side)
           /\ delayed' = delayed
    BY <1>6, <1>0, LostEffect DEF ExitFails, ExitRaises
  <2>3. Rest'
    BY <1>6, <1>0, <1>d, <2>2, CloseDirOf
    DEF ExitFails, ExitRaises, Fault, Handled, PlaceOrderError, Reduces
  <2> QED
    BY <1>q, <2>1, <2>3
<1>7. ASSUME SizeOk PROVE IInv'
  <2>1. VenueOK' /\ net' = net /\ delayed' = delayed
    BY <1>7, <1>0 DEF SizeOk, VenueOK, venue
  <2>2. DbOK'
    BY <1>7, <1>0 DEF SizeOk, DbOK, db
  <2>3. Rest'
    BY <1>7, <1>0, <1>d, <2>1 DEF SizeOk
  <2> QED
    BY <1>q, <2>1, <2>2, <2>3
<1>8. ASSUME SizeZero PROVE IInv'
  <2>1. VenueOK' /\ net' = net /\ delayed' = delayed
    BY <1>8, <1>0 DEF SizeZero, VenueOK, venue
  <2>2. DbOK'
    BY <1>8, <1>0 DEF SizeZero, DbOK, db
  <2>3. Rest'
    BY <1>8, <1>0, <1>d, <2>1 DEF SizeZero
  <2> QED
    BY <1>q, <2>1, <2>2, <2>3
<1>9. ASSUME SizeFails PROVE IInv'
  <2>1. VenueOK' /\ net' = net /\ delayed' = delayed
    BY <1>9, <1>0 DEF SizeFails, VenueOK, venue
  <2>2. DbOK'
    BY <1>9, <1>0 DEF SizeFails, DbOK, db
  <2>3. Rest'
    BY <1>9, <1>0, <1>d, <2>1 DEF SizeFails, Fault
  <2> QED
    BY <1>q, <2>1, <2>2, <2>3
<1>10. ASSUME NEW r \in ReplyKinds, NEW d \in DbOutcomes, EnterFilled(r, d) PROVE IInv'
  <2>1. TakesEffect("enter", goal) /\ goal \in Sides /\ delayed' = delayed
    BY <1>10, <1>0 DEF EnterFilled, TakesEffect
  <2>2. VenueOK' /\ net' = net + Dir(goal)
    BY <1>0, <2>1, TakesEffectTyped DEF VenueOK
  <2>3. MarketStatus(r) \in {"NEW", "FILLED"}
    BY DEF MarketStatus
  <2>4. DbOK'
    BY <1>10, <1>0, <2>3, PersistTyped DEF EnterFilled, PersistMarket, VenueOK
  <2>5. Rest'
    BY <1>10, <1>0, <1>d, <2>1, <2>2, DirOf DEF EnterFilled, Opened
  <2> QED
    BY <1>q, <2>2, <2>4, <2>5
<1>11. ASSUME EnterFails PROVE IInv'
  <2>1. VenueOK' /\ DbOK'
    BY <1>11, <1>0, LostEffect DEF EnterFails, DbOK, db
  <2>2. \/ net' = net /\ \A t \in Sides : delayed'["enter"][t] = delayed["enter"][t]
        \/ net' = net + Dir(goal) /\ delayed' = delayed
        \/ /\ net' = net
           /\ delayed'["enter"][goal] = delayed["enter"][goal] + 1
           /\ \A t \in Sides \ {goal} : delayed'["enter"][t] = delayed["enter"][t]
    BY <1>11, <1>0, LostEffect DEF EnterFails
  <2>3. Rest'
    BY <1>11, <1>0, <1>d, <2>2, DirOf DEF EnterFails, Fault
  <2> QED
    BY <1>q, <2>1, <2>3
<1>12. ASSUME NEW d \in DbOutcomes, StopPlaced(d) PROVE IInv'
  <2>1. TakesEffect("stop", goal) /\ goal \in Sides /\ delayed' = delayed
    BY <1>12, <1>0 DEF StopPlaced, TakesEffect
  <2>2. VenueOK' /\ net' = net
    BY <1>0, <2>1, TakesEffectTyped DEF VenueOK
  <2>3. DbOK'
    BY <1>12, <1>0, PersistTyped DEF StopPlaced, VenueOK
  <2>4. Rest'
    BY <1>12, <1>0, <2>1, <2>2 DEF StopPlaced, Opened, VenueOK
  <2> QED
    BY <1>q, <2>2, <2>3, <2>4
<1>13. ASSUME StopFails PROVE IInv'
  <2>1. VenueOK' /\ net' = net /\ \A t \in Sides : delayed'["enter"][t] = delayed["enter"][t]
    BY <1>13, <1>0, LostEffect DEF StopFails
  <2>2. DbOK'
    BY <1>13, <1>0 DEF StopFails, DbOK, db
  <2>3. Rest'
    BY <1>13, <1>0, <1>d, <2>1 DEF StopFails, Fault, Handled, PlaceOrderError
  <2> QED
    BY <1>q, <2>1, <2>2, <2>3
<1>14. ASSUME TriggerStop PROVE IInv'
  <2>1. PICK o \in stops :
          /\ stops' = stops \ {o}
          /\ IF Accepts("stop", CloseDir(o.side))
               THEN /\ net' = net + CloseDir(o.side)
                    /\ stopped' = stopped \cup {o.id}
               ELSE UNCHANGED <<net, stopped>>
    BY <1>14 DEF TriggerStop
  <2>2. \/ net' = net
        \/ net > 0 /\ net' = net - 1
        \/ net < 0 /\ net' = net + 1
    BY <1>0, <2>1, CloseDirOf DEF Accepts, ReduceOnly, Reduces, VenueOK
  <2>3. VenueOK' /\ DbOK'
    <3>1. o \in [id : Nat, side : Sides] /\ net' \in Int
      BY <1>0, <2>1, <2>2 DEF VenueOK
    <3>2. stopped' \subseteq Nat /\ stops' \subseteq [id : Nat, side : Sides]
      BY <1>0, <2>1, <3>1 DEF VenueOK
    <3> QED
      BY <1>14, <1>0, <3>1, <3>2 DEF TriggerStop, VenueOK, DbOK, db
  <2>4. UNCHANGED <<pc, goal, position, delayed, faults>>
    BY <1>14 DEF TriggerStop
  <2>5. Rest'
    <3>1. HandlerOK' /\ Control' /\ EntryOnlyWhenFlat'
      BY <1>0, <2>4
    <3>2. Bounds'
      <4>1. Held' = Held /\ faults' = faults /\ delayed' = delayed
        BY <2>4
      <4> HIDE DEF Held
      <4> QED
        BY <1>b, <1>d, <2>2, <4>1
    <3>3. NothingDelayed'
      BY <1>0, <2>4
    <3> QED
      BY <3>1, <3>2, <3>3
  <2> QED
    BY <1>q, <2>3, <2>5
<1>15. ASSUME DelayedArrives PROVE IInv'
  <2>1. PICK c \in OrderCalls, s \in Sides :
          /\ delayed[c][s] > 0
          /\ delayed' = [delayed EXCEPT ![c][s] = @ - 1]
          /\ \/ TakesEffect(c, s)
             \/ c = "exit" /\ ~Accepts("exit", CloseDir(s)) /\ Settled
    BY <1>15 DEF DelayedArrives
  <2>3. /\ delayed' \in [OrderCalls -> [Sides -> Nat]]
        /\ delayed'[c][s] = delayed[c][s] - 1
        /\ \A t \in Sides : c # "enter" \/ s # t => delayed'["enter"][t] = delayed["enter"][t]
    BY <1>0, <2>1, DelayedLess
  <2>4. VenueOK' /\ DbOK'
    <3>1. DbOK'
      BY <1>15, <1>0 DEF DelayedArrives, DbOK, db
    <3>2. CASE TakesEffect(c, s)
      BY <1>0, <2>3, <3>1, <3>2, TakesEffectTyped
    <3>3. CASE Settled
      BY <1>0, <2>3, <3>1, <3>3 DEF Settled, VenueOK
    <3> QED
      BY <2>1, <3>2, <3>3
  <2>5. \/ net' = net /\ c # "enter"
        \/ c = "exit" /\ Reduces(CloseDir(s)) /\ net' = net + CloseDir(s)
        \/ c = "enter" /\ net' = net + Dir(s)
    BY <1>0, <2>1, <2>3, TakesEffectTyped DEF Settled
  <2>6. Bounds' /\ NothingDelayed'
    <3>1. UNCHANGED <<pc, goal, position, faults>> /\ faults # 0
      BY <1>15, <1>0, <2>1 DEF DelayedArrives
    <3>2. Held' = Held
      BY <3>1
    <3>3. NothingDelayed'
      BY <3>1
    <3>4. /\ c = "enter" => LateEntries' = LateEntries - 1
          /\ c # "enter" => LateEntries' = LateEntries
      <4>1. CASE c = "enter" /\ s = "LONG"
        BY <1>d, <2>3, <4>1
      <4>2. CASE c = "enter" /\ s = "SHORT"
        BY <1>d, <2>3, <4>2
      <4>3. CASE c # "enter"
        BY <1>d, <2>3, <4>3
      <4> QED
        BY <4>1, <4>2, <4>3
    <3>5. LateEntries \in Nat
      BY <1>d
    <3> HIDE DEF Held, NothingDelayed, LateEntries
    <3>6. \/ c = "enter" /\ (net' = net + 1 \/ net' = net - 1)
          \/ c # "enter" /\ net' = net
          \/ c # "enter" /\ net > 0 /\ net' = net - 1
          \/ c # "enter" /\ net < 0 /\ net' = net + 1
      <4>1. CASE c = "enter"
        BY <1>d, <2>5, <4>1, DirOf
      <4>2. CASE c = "exit" /\ Reduces(CloseDir(s)) /\ net' = net + CloseDir(s)
        BY <1>0, <4>2, ReduceOf
      <4> QED
        BY <2>5, <4>1, <4>2
    <3> QED
      BY <1>b, <1>d, <3>1, <3>2, <3>3, <3>4, <3>5, <3>6
  <2>7. Rest'
    BY <1>15, <1>0, <2>6 DEF DelayedArrives
  <2> QED
    BY <1>q, <2>4, <2>7
<1>16. ASSUME Restart PROVE IInv'
  <2>1. VenueOK' /\ DbOK'
    BY <1>16, <1>0, LostEffect DEF Restart, DbOK, db
  <2>2. \/ net' = net /\ \A t \in Sides : delayed'["enter"][t] = delayed["enter"][t]
        \/ /\ pc = "exit" /\ Reduces(CloseDir(position.side))
           /\ net' = net + CloseDir(position.side) /\ delayed' = delayed
        \/ pc = "enter" /\ net' = net + Dir(goal) /\ delayed' = delayed
        \/ /\ pc = "enter" /\ net' = net
           /\ delayed'["enter"][goal] = delayed["enter"][goal] + 1
           /\ \A t \in Sides \ {goal} : delayed'["enter"][t] = delayed["enter"][t]
    BY <1>16, <1>0, LostEffect DEF Restart
  <2>3. Rest'
    BY <1>16, <1>0, <1>d, <2>2, DirOf, CloseDirOf DEF Restart, Fault, Reduces
  <2> QED
    BY <1>q, <2>1, <2>3
<1>17. ASSUME UNCHANGED vars PROVE IInv'
  BY <1>17, <1>0, <1>q DEF vars, venue, db, VenueOK, DbOK
<1> QED
  BY <1>1, <1>2, <1>3, <1>4, <1>5, <1>6, <1>7, <1>8, <1>9, <1>10, <1>11, <1>12,
     <1>13, <1>14, <1>15, <1>16, <1>17
  DEF Next, OnQuietCandle, HandlerStep, Answered, Failed

-----------------------------------------------------------------------------
(* Every reachable state satisfies the inductive invariant.                *)
THEOREM Inductive == Spec => []IInv
<1>1. Init => IInv
  BY InitIInv
<1>2. IInv /\ [Next]_vars => IInv'
  BY StepIInv
<1> QED
  BY <1>1, <1>2, PTL DEF Spec

(* The variables of the executor, the venue and the database keep their    *)
(* shape through every interleaving of handler, triggers and failures.     *)
THEOREM TypeCorrect == Spec => []TypeOK
<1>1. IInv => TypeOK
  BY DEF IInv
<1> QED
  BY <1>1, Inductive, PTL

(* _ensure_long and _ensure_short only get to size and send an entry after *)
(* _close_position gave the old position up.                               *)
THEOREM EntersFlat == Spec => []EntryOnlyWhenFlat
<1>1. IInv => EntryOnlyWhenFlat
  BY DEF IInv
<1> QED
  BY <1>1, Inductive, PTL

(* However long the bot runs, its exposure at the venue exceeds one entry  *)
(* by at most one for every call that failed and every restart.            *)
THEOREM ExposureIsBounded == Spec => []ExposureBounded
<1>1. IInv => ExposureBounded
  BY DEF IInv, TypeOK, Bounds, LongBounded, ShortBounded, LateEntries, ExposureBounded,
         OrderCalls, Sides
<1> QED
  BY <1>1, Inductive, PTL

-----------------------------------------------------------------------------
(* BeliefMatchesVenue is inductive beside IInv.  Steps that fail leave its *)
(* premise, so only the answered calls, the next signal and the trigger of *)
(* a stop remain.                                                          *)
LEMMA StepBelief ==
  ASSUME IInv, BeliefMatchesVenue, [Next]_vars
  PROVE  BeliefMatchesVenue'
<1> SUFFICES ASSUME faults' = 0 PROVE BeliefMatchesVenue'
  BY DEF BeliefMatchesVenue
<1>0. /\ HandlerOK /\ VenueOK /\ Control /\ EntryOnlyWhenFlat
      /\ NothingDelayed /\ BeliefMatchesVenue
  BY TypeParts DEF IInv
<1>f. ~Fault
  BY <1>0 DEF Fault, HandlerOK
<1> USE DEF HandlerOK, Control, EntryOnlyWhenFlat, Phases, Sides, NoPosition,
            VenueFlat, StoppedOut, VenueHolds, BeliefMatchesVenue
<1>1. ASSUME NEW s \in Sides, OnCandleClose(s) PROVE BeliefMatchesVenue'
  BY <1>1, <1>0 DEF OnCandleClose, FirstStep, WantedSide, venue, Dir
<1>2. ASSUME NEW d \in DbOutcomes, CancelStop(d) PROVE BeliefMatchesVenue'
  BY <1>2, <1>0 DEF CancelStop, AfterCancel, CancelResting
<1>3. ASSUME NEW r \in ReplyKinds, NEW d \in DbOutcomes, ExitFilled(r, d)
      PROVE  BeliefMatchesVenue'
  <2>1. net = Dir(position.side) /\ stops = {}
    BY <1>3, <1>0 DEF ExitFilled, Accepts, ReduceOnly, Reduces
  <2>2. net' = 0 /\ stops' = {}
    BY <1>3, <1>0, <2>1, CloseDirOf DEF ExitFilled, Execute, Dir
  <2> QED
    BY <1>3, <2>2 DEF ExitFilled, AfterClose
<1>4. ASSUME ExitRejected PROVE BeliefMatchesVenue'
  <2>1. ~Reduces(CloseDir(position.side))
    BY <1>4 DEF ExitRejected, Accepts, ReduceOnly
  <2>2. VenueFlat
    BY <1>4, <1>0, <2>1, CloseDirOf DEF ExitRejected, ExitRaises, Reduces, Dir
  <2> QED
    BY <1>4, <2>2 DEF ExitRejected, ExitRaises, Handled, PlaceOrderError, venue
<1>5. ASSUME SizeOk \/ SizeZero PROVE BeliefMatchesVenue'
  BY <1>5, <1>0 DEF SizeOk, SizeZero, venue
<1>6. ASSUME NEW r \in ReplyKinds, NEW d \in DbOutcomes, EnterFilled(r, d)
      PROVE  BeliefMatchesVenue'
  BY <1>6, <1>0, DirTyped DEF EnterFilled, Execute, Opened
<1>7. ASSUME NEW d \in DbOutcomes, StopPlaced(d) PROVE BeliefMatchesVenue'
  BY <1>7, <1>0 DEF StopPlaced, RestStop, Opened, VenueOK
<1>8. ASSUME TriggerStop PROVE BeliefMatchesVenue'
  <2>1. PICK o \in stops :
          /\ stops' = stops \ {o}
          /\ IF Accepts("stop", CloseDir(o.side))
               THEN /\ net' = net + CloseDir(o.side)
                    /\ stopped' = stopped \cup {o.id}
               ELSE UNCHANGED <<net, stopped>>
    BY <1>8 DEF TriggerStop
  <2>2. /\ pc # "exit" /\ position.side # "NONE" /\ VenueHolds(position)
        /\ position.stop # 0 /\ o = [id |-> position.stop, side |-> position.side]
    BY <1>8, <1>0, <2>1 DEF TriggerStop
  <2>3. net' = 0 /\ stops' = {} /\ position.stop \in stopped'
    BY <1>0, <2>1, <2>2, CloseDirOf DEF Accepts, ReduceOnly, Reduces, Dir
  <2> QED
    BY <1>8, <1>0, <2>2, <2>3 DEF TriggerStop
<1>9. ~DelayedArrives
  BY <1>0 DEF DelayedArrives, NothingDelayed
<1>10. ASSUME UNCHANGED vars PROVE BeliefMatchesVenue'
  BY <1>10, <1>0 DEF vars, venue
<1> QED
  BY <1>1, <1>2, <1>3, <1>4, <1>5, <1>6, <1>7, <1>8, <1>9, <1>10, <1>f
  DEF Next, OnQuietCandle, HandlerStep, Answered, Failed, CancelFails, ExitFails,
      SizeFails, EnterFails, StopFails, Restart

(* As long as no call failed and the process was not restarted, what the   *)
(* executor remembers is what the venue holds, or was until its stop.      *)
THEOREM BeliefIsRight == Spec => []BeliefMatchesVenue
<1>1. Init => BeliefMatchesVenue
  BY DEF Init, BeliefMatchesVenue, VenueFlat, NoPosition
<1>2. IInv /\ BeliefMatchesVenue /\ [Next]_vars => BeliefMatchesVenue'
  BY StepBelief
<1> QED
  BY <1>1, <1>2, Inductive, PTL DEF Spec

-----------------------------------------------------------------------------
(* What Persist and MarkCanceled do to the market rows and to the fills.   *)
LEMMA PersistMarketIds ==
  ASSUME NEW id, NEW status, NEW hasFills, NEW outcome,
         Persist(id, "MARKET", status, hasFills, outcome)
  PROVE  /\ outcome = "none" => MarketRows' = MarketRows
         /\ outcome # "none" => MarketRows' = MarketRows \cup {id}
<1>1. CASE outcome = "none"
  BY <1>1 DEF Persist, MarketRows
<1>2. CASE outcome # "none"
  <2> DEFINE row == [id |-> id, kind |-> "MARKET", status |-> status]
  <2>1. rows' = rows \cup {row} /\ row.id = id /\ row.kind = "MARKET"
    BY <1>2 DEF Persist
  <2> HIDE DEF row
  <2> QED
    BY <1>2, <2>1 DEF MarketRows
<1> QED
  BY <1>1, <1>2

(* A fill comes with the row of its order.                                 *)
LEMMA PersistMarketRows ==
  ASSUME NEW id, NEW status, NEW hasFills, NEW outcome,
         AuditTrail, Persist(id, "MARKET", status, hasFills, outcome)
  PROVE  fills' \subseteq MarketRows' /\ MarketRows' \subseteq MarketRows \cup {id}
<1>1. fills' = IF outcome = "all" /\ hasFills THEN fills \cup {id} ELSE fills
  BY DEF Persist
<1> QED
  BY <1>1, PersistMarketIds DEF AuditTrail

(* The row of a stop changes no market row.                                *)
LEMMA PersistStopRows ==
  ASSUME NEW id, NEW status, NEW outcome,
         Persist(id, "STOP_MARKET", status, FALSE, outcome)
  PROVE  fills' = fills /\ MarketRows' = MarketRows
  BY DEF Persist, MarketRows

(* Nor does a row that is marked as cancelled.                             *)
LEMMA MarkCanceledRows ==
  ASSUME DbOK, NEW id, NEW outcome, MarkCanceled(id, outcome)
  PROVE  fills' = fills /\ MarketRows' = MarketRows
<1> DEFINE mark(r) == IF r.id = id THEN [r EXCEPT !.status = "CANCELED"] ELSE r
<1>1. CASE outcome = "none"
  BY <1>1 DEF MarkCanceled, MarketRows
<1>2. CASE outcome # "none"
  <2>1. rows' = {mark(r) : r \in rows}
    BY <1>2 DEF MarkCanceled
  <2>2. \A r \in rows : mark(r).id = r.id /\ mark(r).kind = r.kind
    BY DEF DbOK
  <2> HIDE DEF mark
  <2>3. MarketRows' \subseteq MarketRows /\ MarketRows \subseteq MarketRows'
    BY <2>1, <2>2 DEF MarketRows
  <2> QED
    BY <2>3 DEF MarkCanceled
<1> QED
  BY <1>1, <1>2

(* AuditTrail is inductive: a market order is recorded by the step that    *)
(* executed it.                                                            *)
LEMMA StepAudit ==
  ASSUME IInv, AuditTrail, [Next]_vars
  PROVE  AuditTrail'
<1>0. DbOK
  BY TypeParts DEF IInv
<1>1. ASSUME UNCHANGED db, executed \subseteq executed' PROVE AuditTrail'
  BY <1>1 DEF AuditTrail, MarketRows, db
<1>2. ASSUME fills' = fills, MarketRows' = MarketRows, executed' = executed
      PROVE  AuditTrail'
  BY <1>2 DEF AuditTrail
<1>3. ASSUME NEW r \in ReplyKinds, NEW d \in DbOutcomes, ExitFilled(r, d) \/ EnterFilled(r, d)
      PROVE  AuditTrail'
  <2>1. executed' = executed \cup {nextId}
    BY <1>3 DEF ExitFilled, EnterFilled, Execute
  <2>2. fills' \subseteq MarketRows' /\ MarketRows' \subseteq MarketRows \cup {nextId}
    BY <1>3, PersistMarketRows DEF ExitFilled, EnterFilled, PersistMarket
  <2> QED
    BY <2>1, <2>2 DEF AuditTrail
<1>4. ASSUME NEW d \in DbOutcomes, CancelStop(d) PROVE AuditTrail'
  BY <1>4, <1>0, <1>2, MarkCanceledRows DEF CancelStop, CancelResting
<1>5. ASSUME NEW d \in DbOutcomes, StopPlaced(d) PROVE AuditTrail'
  BY <1>5, <1>2, PersistStopRows DEF StopPlaced, RestStop
<1>6. ASSUME Lost PROVE executed \subseteq executed'
  BY <1>6 DEF Lost, TakesEffect, CancelResting, Execute, RestStop, Settled, venue
<1>7. ASSUME Failed \/ Restart PROVE AuditTrail'
  BY <1>7, <1>1, <1>6
  DEF Failed, CancelFails, ExitFails, ExitRaises, SizeFails, EnterFails, StopFails,
      Restart, venue
<1>8. ASSUME NEW s \in Sides, OnCandleClose(s) PROVE AuditTrail'
  BY <1>8, <1>1 DEF OnCandleClose, venue
<1>9. ASSUME ExitRejected \/ SizeOk \/ SizeZero PROVE AuditTrail'
  BY <1>9, <1>1 DEF ExitRejected, ExitRaises, SizeOk, SizeZero, venue
<1>10. ASSUME TriggerStop PROVE AuditTrail'
  BY <1>10, <1>1 DEF TriggerStop
<1>11. ASSUME DelayedArrives PROVE AuditTrail'
  BY <1>11, <1>1 DEF DelayedArrives, TakesEffect, Execute, RestStop, Settled
<1>12. ASSUME UNCHANGED vars PROVE AuditTrail'
  BY <1>12, <1>1 DEF vars, venue
<1> QED
  BY <1>3, <1>4, <1>5, <1>7, <1>8, <1>9, <1>10, <1>11, <1>12
  DEF Next, OnQuietCandle, HandlerStep, Answered

(* Fills are only recorded for recorded orders and market orders only when *)
(* the venue executed them, whatever the database lost in between.         *)
THEOREM AuditIsFounded == Spec => []AuditTrail
<1>1. Init => AuditTrail
  BY DEF Init, AuditTrail, MarketRows
<1>2. IInv /\ AuditTrail /\ [Next]_vars => AuditTrail'
  BY StepAudit
<1> QED
  BY <1>1, <1>2, Inductive, PTL DEF Spec

(* Whatever was forgotten or left resting, an exit or a stop order never   *)
(* takes the exposure through zero.                                        *)
THEOREM ExitsOnlyReduce == Spec => ExitNeverOpens
<1> DEFINE Step == ExitExecutes \/ stopped' # stopped
                   => \/ net > 0 /\ net' = net - 1
                      \/ net < 0 /\ net' = net + 1
<1>1. ASSUME NEW d \in {-1, 0, 1}, VenueOK, Reduces(d), net' = net + d PROVE Step
  BY <1>1 DEF Reduces, VenueOK
<1>2. ASSUME VenueOK, NEW side, TakesEffect("exit", side) PROVE Step
  BY <1>1, <1>2, CloseDirTyped DEF TakesEffect, Accepts, ReduceOnly, Execute
<1>3. ASSUME stopped' = stopped, executed' = executed PROVE Step
  BY <1>3 DEF ExitExecutes
<1>4. ASSUME stopped' = stopped, pc # "exit",
             \A t \in Sides : ~(delayed'["exit"][t] < delayed["exit"][t])
      PROVE  Step
  BY <1>4 DEF ExitExecutes
<1>5. ASSUME IInv, Lost PROVE Step
  <2>0. VenueOK /\ HandlerOK /\ Control
    BY <1>5, TypeParts DEF IInv
  <2>1. CASE UNCHANGED venue
    BY <1>3, <2>1 DEF venue
  <2>2. CASE pc = "cancel" /\ CancelResting /\ UNCHANGED delayed
    BY <1>3, <2>2 DEF CancelResting
  <2>3. CASE TakesEffect(pc, CallSide) /\ pc = "exit"
    BY <1>2, <2>0, <2>3
  <2>4. CASE TakesEffect(pc, CallSide) /\ UNCHANGED delayed /\ pc # "exit"
    <3>1. stopped' = stopped
      BY <2>4 DEF TakesEffect, Execute, RestStop
    <3>2. \A t \in Sides : ~(delayed'["exit"][t] < delayed["exit"][t])
      BY <2>0, <2>4 DEF VenueOK, OrderCalls
    <3> QED
      BY <1>4, <2>4, <3>1, <3>2
  <2>5. CASE Settled
    BY <1>3, <2>5 DEF Settled
  <2> QED
    BY <1>5, <2>1, <2>2, <2>3, <2>4, <2>5 DEF Lost
<1>6. ASSUME IInv, DelayedArrives PROVE Step
  <2>0. VenueOK /\ HandlerOK /\ Control
    BY <1>6, TypeParts DEF IInv
  <2>1. PICK c \in OrderCalls, s \in Sides :
          /\ delayed' = [delayed EXCEPT ![c][s] = @ - 1]
          /\ \/ TakesEffect(c, s)
             \/ c = "exit" /\ ~Accepts("exit", CloseDir(s)) /\ Settled
    BY <1>6 DEF DelayedArrives
  <2>2. CASE c = "exit" /\ TakesEffect(c, s)
    BY <1>2, <2>0, <2>2
  <2>3. CASE Settled
    BY <1>3, <2>3 DEF Settled
  <2>4. CASE c # "exit" /\ TakesEffect(c, s)
    <3>1. stopped' = stopped
      BY <2>4 DEF TakesEffect, Execute, RestStop
    <3>2. \A t \in Sides : ~(delayed'["exit"][t] < delayed["exit"][t])
      BY <2>0, <2>1, <2>4 DEF VenueOK, OrderCalls
    <3>3. ~(pc = "exit" /\ position' = NoPosition)
      BY <1>6, <2>0 DEF DelayedArrives, Control, NoPosition, Sides
    <3> QED
      BY <3>1, <3>2, <3>3 DEF ExitExecutes
  <2> QED
    BY <2>1, <2>2, <2>3, <2>4
<1>7. ASSUME IInv, TriggerStop PROVE Step
  <2>0. VenueOK
    BY <1>7, TypeParts DEF IInv
  <2>1. PICK o \in stops :
          IF Accepts("stop", CloseDir(o.side))
            THEN /\ net' = net + CloseDir(o.side)
                 /\ stopped' = stopped \cup {o.id}
            ELSE UNCHANGED <<net, stopped>>
    BY <1>7 DEF TriggerStop
  <2>2. executed' = executed
    BY <1>7 DEF TriggerStop
  <2> QED
    BY <1>1, <1>3, <2>0, <2>1, <2>2, CloseDirTyped DEF Accepts, ReduceOnly
<1>8. ASSUME IInv, Failed \/ Restart PROVE Step
  <2>1. CASE SizeFails
    BY <1>3, <2>1 DEF SizeFails, venue
  <2>2. CASE Lost
    BY <1>5, <1>8, <2>2
  <2> QED
    BY <1>8, <2>1, <2>2
    DEF Failed, CancelFails, ExitFails, EnterFails, StopFails, Restart
<1>9. ASSUME IInv, Answered PROVE Step
  <2>0. VenueOK
    BY <1>9, TypeParts DEF IInv
  <2>1. ASSUME NEW r \in ReplyKinds, NEW d \in DbOutcomes, ExitFilled(r, d) PROVE Step
    BY <1>2, <2>0, <2>1 DEF ExitFilled, TakesEffect
  <2>2. ASSUME NEW r \in ReplyKinds, NEW d \in DbOutcomes, EnterFilled(r, d) PROVE Step
    <3>1. \A t \in Sides : ~(delayed'["exit"][t] < delayed["exit"][t])
      BY <2>0, <2>2 DEF EnterFilled, VenueOK, OrderCalls
    <3> QED
      BY <1>4, <2>2, <3>1 DEF EnterFilled, Execute
  <2>3. ASSUME NEW d \in DbOutcomes, CancelStop(d) \/ StopPlaced(d) PROVE Step
    BY <1>3, <2>3 DEF CancelStop, StopPlaced, CancelResting, RestStop
  <2>4. CASE ExitRejected \/ SizeOk \/ SizeZero
    BY <1>3, <2>4 DEF ExitRejected, SizeOk, SizeZero, venue
  <2> QED
    BY <1>9, <2>1, <2>2, <2>3, <2>4 DEF Answered
<1>10. ASSUME UNCHANGED vars \/ \E s \in Sides : OnCandleClose(s) PROVE Step
  BY <1>3, <1>10 DEF vars, venue, OnCandleClose
<1>11. IInv /\ [Next]_vars => [Step]_vars
  BY <1>6, <1>7, <1>8, <1>9, <1>10 DEF Next, OnQuietCandle, HandlerStep
<1> QED
  BY <1>11, Inductive, PTL DEF Spec, ExitNeverOpens

-----------------------------------------------------------------------------
(* Executions and the orders table.                                        *)

(* An execution that is not recorded was paid for by a failed call or a    *)
(* restart, and so was a market order that may still arrive.               *)
Unrecorded == executed \ MarketRows

LateMarket == delayed["enter"]["LONG"] + delayed["enter"]["SHORT"]
              + delayed["exit"]["LONG"] + delayed["exit"]["SHORT"]

UnrecordedPaid ==
    /\ IsFiniteSet(executed)
    /\ Cardinality(Unrecorded) + LateMarket <= faults

(* What delayed says of the market orders is a number of each kind.        *)
LEMMA LateTyped ==
  ASSUME VenueOK
  PROVE  /\ delayed["enter"]["LONG"] \in Nat /\ delayed["enter"]["SHORT"] \in Nat
         /\ delayed["exit"]["LONG"] \in Nat /\ delayed["exit"]["SHORT"] \in Nat
         /\ LateMarket \in Nat
  BY DEF VenueOK, OrderCalls, Sides, LateMarket

(* One more late market order, and one less.                               *)
LEMMA LateMore ==
  ASSUME VenueOK, NEW c \in OrderCalls, NEW s \in Sides,
         delayed' = [delayed EXCEPT ![c][s] = @ + 1]
  PROVE  LateMarket' \in {LateMarket, LateMarket + 1}
<1>1. \A d \in OrderCalls, t \in Sides :
        delayed'[d][t] = IF d = c /\ t = s THEN delayed[d][t] + 1 ELSE delayed[d][t]
  BY DEF VenueOK
<1> QED
  BY <1>1, LateTyped DEF LateMarket, OrderCalls, Sides

LEMMA LateLess ==
  ASSUME VenueOK, NEW c \in OrderCalls, NEW s \in Sides,
         delayed' = [delayed EXCEPT ![c][s] = @ - 1]
  PROVE  LateMarket' = IF c = "stop" THEN LateMarket ELSE LateMarket - 1
<1>1. \A d \in OrderCalls, t \in Sides :
        delayed'[d][t] = IF d = c /\ t = s THEN delayed[d][t] - 1 ELSE delayed[d][t]
  BY DEF VenueOK
<1>2. CASE c = "stop"
  BY <1>1, <1>2 DEF LateMarket, OrderCalls, Sides
<1>3. CASE c = "enter"
  BY <1>1, <1>3, LateTyped DEF LateMarket, OrderCalls, Sides
<1>4. CASE c = "exit"
  BY <1>1, <1>4, LateTyped DEF LateMarket, OrderCalls, Sides
<1> QED
  BY <1>2, <1>3, <1>4 DEF OrderCalls

(* One execution more leaves at most one more unrecorded.                  *)
LEMMA OneMoreUnrecorded ==
  ASSUME IsFiniteSet(executed), NEW id, executed' = executed \cup {id}, rows' = rows
  PROVE  /\ IsFiniteSet(executed')
         /\ Cardinality(Unrecorded) \in Nat /\ Cardinality(Unrecorded') \in Nat
         /\ Cardinality(Unrecorded') <= Cardinality(Unrecorded) + 1
<1>1. IsFiniteSet(executed') /\ MarketRows' = MarketRows
  BY FS_AddElement DEF MarketRows
<1>2. IsFiniteSet(Unrecorded) /\ Cardinality(Unrecorded) \in Nat
  BY FS_Difference, FS_CardinalityType DEF Unrecorded
<1>3. /\ IsFiniteSet(Unrecorded \cup {id})
      /\ Cardinality(Unrecorded \cup {id}) <= Cardinality(Unrecorded) + 1
  <2>1. /\ IsFiniteSet(Unrecorded \cup {id})
        /\ Cardinality(Unrecorded \cup {id})
             = IF id \in Unrecorded THEN Cardinality(Unrecorded) ELSE Cardinality(Unrecorded) + 1
    BY <1>2, FS_AddElement
  <2> HIDE DEF Unrecorded
  <2> QED
    BY <1>2, <2>1
<1>4. Unrecorded' \in SUBSET (Unrecorded \cup {id})
  BY <1>1 DEF Unrecorded
<1>5. /\ Cardinality(Unrecorded') <= Cardinality(Unrecorded \cup {id})
      /\ IsFiniteSet(Unrecorded')
  BY <1>3, <1>4, FS_Subset
<1>6. Cardinality(Unrecorded') \in Nat /\ Cardinality(Unrecorded \cup {id}) \in Nat
  BY <1>3, <1>5, FS_CardinalityType
<1> QED
  BY <1>1, <1>2, <1>3, <1>5, <1>6

(* The executions of an order that takes effect late.                      *)
LEMMA TakesEffectExecutes ==
  ASSUME NEW c, NEW s, TakesEffect(c, s)
  PROVE  \/ c = "stop" /\ executed' = executed
         \/ c \in {"enter", "exit"} /\ executed' = executed \cup {nextId}
  BY DEF TakesEffect, Execute, RestStop

(* A failed call leaves one execution or one late order at most.           *)
LEMMA LostPaid ==
  ASSUME IInv, UnrecordedPaid, Lost, rows' = rows
  PROVE  /\ IsFiniteSet(executed')
         /\ Cardinality(Unrecorded') + LateMarket' <= faults + 1
<1>0. VenueOK /\ Control /\ faults \in Nat /\ LateMarket \in Nat
  BY TypeParts, LateTyped DEF IInv, HandlerOK
<1>1. ASSUME executed' = executed, LateMarket' \in {LateMarket, LateMarket + 1}
      PROVE  /\ IsFiniteSet(executed')
             /\ Cardinality(Unrecorded') + LateMarket' <= faults + 1
  <2>1. Unrecorded' = Unrecorded
    BY <1>1 DEF Unrecorded, MarketRows
  <2>2. Cardinality(Unrecorded) \in Nat
    BY FS_Difference, FS_CardinalityType DEF Unrecorded, UnrecordedPaid
  <2> QED
    BY <1>0, <1>1, <2>1, <2>2 DEF UnrecordedPaid
<1>2. ASSUME executed' = executed \cup {nextId}, delayed' = delayed
      PROVE  /\ IsFiniteSet(executed')
             /\ Cardinality(Unrecorded') + LateMarket' <= faults + 1
  <2>1. /\ IsFiniteSet(executed')
        /\ Cardinality(Unrecorded) \in Nat /\ Cardinality(Unrecorded') \in Nat
        /\ Cardinality(Unrecorded') <= Cardinality(Unrecorded) + 1
    BY <1>2, OneMoreUnrecorded DEF UnrecordedPaid
  <2>2. LateMarket' = LateMarket
    BY <1>2 DEF LateMarket
  <2> QED
    BY <1>0, <2>1, <2>2 DEF UnrecordedPaid
<1>3. CASE UNCHANGED venue
  BY <1>1, <1>3 DEF venue, LateMarket
<1>4. CASE pc = "cancel" /\ CancelResting /\ UNCHANGED delayed
  BY <1>1, <1>4 DEF CancelResting, LateMarket
<1>5. CASE TakesEffect(pc, CallSide) /\ UNCHANGED delayed
  <2>1. LateMarket' = LateMarket
    BY <1>5 DEF LateMarket
  <2> QED
    BY <1>1, <1>2, <1>5, <2>1, TakesEffectExecutes
<1>6. CASE /\ pc \in OrderCalls
           /\ delayed' = [delayed EXCEPT ![pc][CallSide] = @ + 1]
           /\ Settled
  <2>1. CallSide \in Sides
    BY <1>0, <1>6 DEF OrderCalls, CallSide, Control
  <2>2. LateMarket' \in {LateMarket, LateMarket + 1}
    BY <1>0, <1>6, <2>1, LateMore
  <2> QED
    BY <1>1, <1>6, <2>2 DEF Settled
<1> QED
  BY <1>3, <1>4, <1>5, <1>6 DEF Lost

(* An order that is answered and recorded changes nothing, one that fails  *)
(* or arrives late was paid for.                                           *)
LEMMA StepRecorded ==
  ASSUME "none" \notin DbOutcomes, IInv, UnrecordedPaid, [Next]_vars
  PROVE  UnrecordedPaid'
<1>0. VenueOK /\ DbOK /\ faults \in Nat /\ LateMarket \in Nat
  BY TypeParts, LateTyped DEF IInv, HandlerOK
<1>c. IsFiniteSet(Unrecorded) /\ Cardinality(Unrecorded) \in Nat
  BY FS_Difference, FS_CardinalityType DEF Unrecorded, UnrecordedPaid
<1>1. ASSUME executed' = executed, MarketRows' = MarketRows, delayed' = delayed,
             faults' = faults \/ faults' = faults + 1
      PROVE  UnrecordedPaid'
  <2>1. Unrecorded' = Unrecorded /\ LateMarket' = LateMarket
    BY <1>1 DEF Unrecorded, LateMarket
  <2> QED
    BY <1>0, <1>1, <1>c, <2>1 DEF UnrecordedPaid
<1>2. ASSUME UNCHANGED <<executed, delayed, faults, rows>> PROVE UnrecordedPaid'
  BY <1>1, <1>2 DEF MarketRows
<1>3. ASSUME NEW r \in ReplyKinds, NEW d \in DbOutcomes, ExitFilled(r, d) \/ EnterFilled(r, d)
      PROVE  UnrecordedPaid'
  <2>1. executed' = executed \cup {nextId} /\ delayed' = delayed /\ faults' = faults
    BY <1>3 DEF ExitFilled, EnterFilled, Execute
  <2>2. MarketRows' = MarketRows \cup {nextId}
    BY <1>3, PersistMarketIds DEF ExitFilled, EnterFilled, PersistMarket
  <2>3. Unrecorded' \in SUBSET Unrecorded
    BY <2>1, <2>2 DEF Unrecorded
  <2>4. IsFiniteSet(executed')
    BY <2>1, FS_AddElement DEF UnrecordedPaid
  <2>5. Cardinality(Unrecorded') <= Cardinality(Unrecorded) /\ Cardinality(Unrecorded') \in Nat
    BY <1>c, <2>3, FS_Subset, FS_CardinalityType
  <2>6. LateMarket' = LateMarket
    BY <2>1 DEF LateMarket
  <2> QED
    BY <1>0, <1>c, <2>1, <2>4, <2>5, <2>6 DEF UnrecordedPaid
<1>4. ASSUME NEW d \in DbOutcomes, CancelStop(d) PROVE UnrecordedPaid'
  BY <1>4, <1>0, <1>1, MarkCanceledRows DEF CancelStop, CancelResting
<1>5. ASSUME NEW d \in DbOutcomes, StopPlaced(d) PROVE UnrecordedPaid'
  BY <1>5, <1>1, PersistStopRows DEF StopPlaced, RestStop
<1>6. ASSUME CancelFails \/ ExitFails \/ EnterFails \/ StopFails \/ Restart
      PROVE  UnrecordedPaid'
  <2>1. Lost /\ rows' = rows /\ faults' = faults + 1
    BY <1>6 DEF CancelFails, ExitFails, ExitRaises, EnterFails, StopFails, Restart, Fault, db
  <2> QED
    BY <2>1, LostPaid DEF UnrecordedPaid
<1>7. ASSUME SizeFails PROVE UnrecordedPaid'
  BY <1>7, <1>1 DEF SizeFails, Fault, venue, db, MarketRows
<1>8. ASSUME ExitRejected \/ SizeOk \/ SizeZero \/ TriggerStop \/ UNCHANGED vars
             \/ \E s \in Sides : OnCandleClose(s)
      PROVE  UnrecordedPaid'
  BY <1>8, <1>2 DEF ExitRejected, ExitRaises, SizeOk, SizeZero, TriggerStop, OnCandleClose,
                    vars, venue, db
<1>9. ASSUME DelayedArrives PROVE UnrecordedPaid'
  <2>1. PICK c \in OrderCalls, s \in Sides :
          /\ delayed[c][s] > 0
          /\ delayed' = [delayed EXCEPT ![c][s] = @ - 1]
          /\ \/ TakesEffect(c, s)
             \/ c = "exit" /\ ~Accepts("exit", CloseDir(s)) /\ Settled
    BY <1>9 DEF DelayedArrives
  <2>2. faults' = faults /\ rows' = rows
    BY <1>9 DEF DelayedArrives, db
  <2>3. LateMarket' = IF c = "stop" THEN LateMarket ELSE LateMarket - 1
    BY <1>0, <2>1, LateLess
  <2>4. CASE executed' = executed
    <3>1. Unrecorded' = Unrecorded
      BY <2>2, <2>4 DEF Unrecorded, MarketRows
    <3> QED
      BY <1>0, <1>c, <2>2, <2>3, <2>4, <3>1 DEF UnrecordedPaid
  <2>5. CASE c # "stop" /\ executed' = executed \cup {nextId}
    <3>1. /\ IsFiniteSet(executed')
          /\ Cardinality(Unrecorded') \in Nat
          /\ Cardinality(Unrecorded') <= Cardinality(Unrecorded) + 1
      BY <2>2, <2>5, OneMoreUnrecorded DEF UnrecordedPaid
    <3> QED
      BY <1>0, <1>c, <2>2, <2>3, <2>5, <3>1 DEF UnrecordedPaid
  <2> QED
    BY <2>1, <2>4, <2>5, TakesEffectExecutes DEF Settled
<1> QED
  BY <1>3, <1>4, <1>5, <1>6, <1>7, <1>8, <1>9
  DEF Next, OnQuietCandle, HandlerStep, Answered, Failed

(* As long as the orders table takes every insert, each execution missing  *)
(* from it is the doing of a failed call or of a restart of its own.       *)
THEOREM ExecutionsAreRecorded == "none" \notin DbOutcomes /\ Spec => []ExecutionsRecorded
<1> SUFFICES ASSUME "none" \notin DbOutcomes PROVE Spec => []ExecutionsRecorded
  OBVIOUS
<1>1. Init => UnrecordedPaid
  <2> SUFFICES ASSUME Init PROVE UnrecordedPaid
    OBVIOUS
  <2>1. Unrecorded = {} /\ executed = {} /\ faults = 0
    BY DEF Init, Unrecorded
  <2>2. LateMarket = 0
    BY DEF Init, LateMarket, OrderCalls, Sides
  <2> QED
    BY <2>1, <2>2, FS_EmptySet DEF UnrecordedPaid
<1>2. IInv /\ UnrecordedPaid /\ [Next]_vars => UnrecordedPaid'
  BY StepRecorded
<1>3. IInv /\ UnrecordedPaid => ExecutionsRecorded
  <2> SUFFICES ASSUME IInv, UnrecordedPaid PROVE ExecutionsRecorded
    OBVIOUS
  <2>1. faults \in Nat /\ LateMarket \in Nat
    BY TypeParts, LateTyped DEF IInv, HandlerOK
  <2>2. Cardinality(Unrecorded) \in Nat
    BY FS_Difference, FS_CardinalityType DEF Unrecorded, UnrecordedPaid
  <2> QED
    BY <2>1, <2>2 DEF UnrecordedPaid, ExecutionsRecorded, Unrecorded
<1> QED
  BY <1>1, <1>2, <1>3, Inductive, PTL DEF Spec

-----------------------------------------------------------------------------
(* Signals, of an executor without shorts.                                 *)

(* Without shorts an entry is LONG, an exit follows a SHORT, and no        *)
(* position is ever SHORT.                                                 *)
LongOnly ==
    /\ position.side # "SHORT"
    /\ pc \in {"size", "enter", "stop"} => goal = "LONG"
    /\ pc \in {"cancel", "exit"} => goal = "SHORT"

(* Every step keeps an executor without shorts honest.                     *)
LEMMA StepHonoured ==
  ASSUME ~AllowShorts, IInv, LongOnly, SignalHonoured, [Next]_vars
  PROVE  LongOnly' /\ SignalHonoured'
<1>0. HandlerOK /\ Control /\ EntryOnlyWhenFlat
  BY TypeParts DEF IInv
<1>f. Fault => faults' # 0
  BY <1>0 DEF Fault, HandlerOK
<1> USE DEF HandlerOK, Control, EntryOnlyWhenFlat, Phases, Sides, NoPosition, LongOnly,
            SignalHonoured
<1>1. ASSUME NEW s \in Sides, OnCandleClose(s) PROVE LongOnly' /\ SignalHonoured'
  BY <1>0, <1>1 DEF OnCandleClose, FirstStep, WantedSide
<1>2. ASSUME CancelFails \/ \E d \in DbOutcomes : CancelStop(d)
      PROVE  LongOnly' /\ SignalHonoured'
  BY <1>0, <1>2 DEF CancelFails, CancelStop, AfterCancel
<1>3. ASSUME NEW r \in ReplyKinds, NEW d \in DbOutcomes, ExitFilled(r, d)
      PROVE  LongOnly' /\ SignalHonoured'
  BY <1>0, <1>3 DEF ExitFilled, AfterClose, WantedSide
<1>4. ASSUME ExitRaises PROVE LongOnly' /\ SignalHonoured'
  BY <1>0, <1>4 DEF ExitRaises, Handled, PlaceOrderError
<1>5. ASSUME SizeOk \/ SizeZero \/ SizeFails PROVE LongOnly' /\ SignalHonoured'
  BY <1>0, <1>f, <1>5 DEF SizeOk, SizeZero, SizeFails
<1>6. ASSUME NEW r \in ReplyKinds, NEW d \in DbOutcomes, EnterFilled(r, d)
      PROVE  LongOnly' /\ SignalHonoured'
  BY <1>0, <1>6 DEF EnterFilled, Opened
<1>7. ASSUME EnterFails \/ StopFails \/ Restart PROVE LongOnly' /\ SignalHonoured'
  BY <1>0, <1>f, <1>7 DEF EnterFails, StopFails, Restart, Handled, PlaceOrderError
<1>8. ASSUME NEW d \in DbOutcomes, StopPlaced(d) PROVE LongOnly' /\ SignalHonoured'
  BY <1>0, <1>8 DEF StopPlaced, Opened
<1>9. ASSUME TriggerStop \/ DelayedArrives \/ UNCHANGED vars
      PROVE  LongOnly' /\ SignalHonoured'
  BY <1>9 DEF TriggerStop, DelayedArrives, vars
<1> QED
  BY <1>1, <1>2, <1>3, <1>4, <1>5, <1>6, <1>7, <1>8, <1>9
  DEF Next, OnQuietCandle, HandlerStep, Answered, Failed, ExitRejected, ExitFails

(* Without shorts and until something fails, a handler that returned has   *)
(* brought the position to where its signal wanted it, whatever the venue  *)
(* answered and whenever the stop executed.                                *)
THEOREM SignalsAreHonoured == ~AllowShorts /\ Spec => []SignalHonoured
<1> SUFFICES ASSUME ~AllowShorts PROVE Spec => []SignalHonoured
  OBVIOUS
<1>1. Init => LongOnly /\ SignalHonoured
  BY DEF Init, LongOnly, SignalHonoured, NoPosition
<1>2. IInv /\ LongOnly /\ SignalHonoured /\ [Next]_vars => LongOnly' /\ SignalHonoured'
  BY StepHonoured
<1> QED
  BY <1>1, <1>2, Inductive, PTL DEF Spec

-----------------------------------------------------------------------------
(* Protection of an entry.                                                 *)

(* The venue numbers its orders upwards.                                   *)
IdsAscend == \A e \in executed : e < nextId

(* The row of the last executed order says NEW, if there is one.           *)
NewestIsNew ==
    \A r \in rows : r.kind = "MARKET" /\ IsNewest(r) => r.status = "NEW"

(* A position without a stop was entered by an order that was only         *)
(* acknowledged; a cancellation has a stop to cancel.                      *)
BareIsAcknowledged ==
    faults = 0 =>
      /\ pc = "cancel" => position.stop # 0
      /\ UseStop /\ position.side # "NONE" /\ position.stop = 0 => NewestIsNew

(* The venue executes under its next id, or not at all.                    *)
LEMMA ExecutesNext ==
  ASSUME IInv, [Next]_vars
  PROVE  \/ executed' = executed /\ nextId' \in {nextId, nextId + 1}
         \/ executed' = executed \cup {nextId} /\ nextId' = nextId + 1
<1> DEFINE Goal == \/ executed' = executed /\ nextId' \in {nextId, nextId + 1}
                   \/ executed' = executed \cup {nextId} /\ nextId' = nextId + 1
<1>1. ASSUME NEW c, NEW s, TakesEffect(c, s) PROVE Goal
  BY <1>1 DEF TakesEffect, Execute, RestStop
<1>2. ASSUME Lost PROVE Goal
  BY <1>1, <1>2 DEF Lost, CancelResting, Settled, venue
<1>3. ASSUME Failed \/ Restart PROVE Goal
  BY <1>2, <1>3
  DEF Failed, CancelFails, ExitFails, SizeFails, EnterFails, StopFails, Restart, venue
<1>4. ASSUME DelayedArrives PROVE Goal
  BY <1>1, <1>4 DEF DelayedArrives, Settled
<1>5. ASSUME Answered PROVE Goal
  BY <1>5 DEF Answered, CancelStop, CancelResting, StopPlaced, RestStop, ExitFilled, EnterFilled,
              Execute, ExitRejected, SizeOk, SizeZero, venue
<1>6. ASSUME TriggerStop \/ UNCHANGED vars \/ \E s \in Sides : OnCandleClose(s) PROVE Goal
  BY <1>6 DEF TriggerStop, OnCandleClose, vars, venue
<1> QED
  BY <1>3, <1>4, <1>5, <1>6 DEF Next, OnQuietCandle, HandlerStep

(* Ids are only ever handed out upwards.                                   *)
LEMMA StepAscends ==
  ASSUME IInv, IdsAscend, [Next]_vars
  PROVE  IdsAscend'
<1>1. nextId \in Nat /\ executed \subseteq Nat
  BY TypeParts DEF IInv, VenueOK
<1>2. CASE executed' = executed /\ nextId' \in {nextId, nextId + 1}
  BY <1>1, <1>2 DEF IdsAscend
<1>3. CASE executed' = executed \cup {nextId} /\ nextId' = nextId + 1
  BY <1>1, <1>3 DEF IdsAscend
<1> QED
  BY <1>2, <1>3, ExecutesNext

(* Every step keeps the reason for a missing stop.                         *)
LEMMA StepAcknowledged ==
  ASSUME IInv, IdsAscend, AuditTrail, BareIsAcknowledged, [Next]_vars
  PROVE  BareIsAcknowledged'
<1>0. /\ HandlerOK /\ Control /\ NothingDelayed
      /\ nextId \in Nat \ {0} /\ executed \subseteq Nat
  BY TypeParts DEF IInv, VenueOK
<1>f. Fault => faults' # 0
  BY <1>0 DEF Fault, HandlerOK
<1>1. ASSUME UNCHANGED <<position, executed, rows, faults>>, pc' # "cancel"
      PROVE  BareIsAcknowledged'
  BY <1>1 DEF BareIsAcknowledged, NewestIsNew, IsNewest
<1>2. ASSUME position' = NoPosition, pc' # "cancel" PROVE BareIsAcknowledged'
  BY <1>2 DEF BareIsAcknowledged, NoPosition
<1>3. ASSUME Fault PROVE BareIsAcknowledged'
  BY <1>f, <1>3 DEF BareIsAcknowledged
<1>4. ASSUME NEW r \in ReplyKinds, NEW d \in DbOutcomes, EnterFilled(r, d)
      PROVE  BareIsAcknowledged'
  <2>1. pc' # "cancel"
    BY <1>4 DEF EnterFilled
  <2>2. CASE StopWanted(r)
    <3>1. position' = position /\ pc = "enter"
      BY <1>4, <2>2 DEF EnterFilled
    <3>2. position.side = "NONE"
      BY <3>1 DEF IInv, EntryOnlyWhenFlat, NoPosition
    <3> QED
      BY <2>1, <3>1, <3>2 DEF BareIsAcknowledged
  <2>3. CASE UseStop /\ ~StopWanted(r)
    <3>1. Persist(nextId, "MARKET", "NEW", FALSE, d) /\ executed' = executed \cup {nextId}
      BY <1>4, <2>3 DEF EnterFilled, PersistMarket, StopWanted, MarketStatus, Execute
    <3>2. ASSUME NEW x \in rows', x.kind = "MARKET", IsNewest(x)' PROVE x.status = "NEW"
      <4>1. nextId <= x.id
        BY <3>1, <3>2 DEF IsNewest
      <4>2. x \notin rows
        <5> SUFFICES ASSUME x \in rows PROVE FALSE
          OBVIOUS
        <5>1. x.id \in executed
          BY <3>2 DEF AuditTrail, MarketRows
        <5>2. x.id < nextId
          BY <5>1 DEF IdsAscend
        <5>3. x.id \in Nat /\ nextId \in Nat
          BY <1>0, <5>1
        <5> QED
          BY <4>1, <5>2, <5>3
      <4> DEFINE row == [id |-> nextId, kind |-> "MARKET", status |-> "NEW"]
      <4>3. rows' \subseteq rows \cup {row} /\ row.status = "NEW"
        BY <3>1 DEF Persist
      <4> HIDE DEF row
      <4> QED
        BY <3>2, <4>2, <4>3
    <3>3. NewestIsNew'
      BY <3>2 DEF NewestIsNew
    <3> QED
      BY <2>1, <3>3 DEF BareIsAcknowledged
  <2>4. CASE ~UseStop
    BY <2>1, <2>4 DEF BareIsAcknowledged
  <2> QED
    BY <2>2, <2>3, <2>4
<1>5. ASSUME NEW d \in DbOutcomes, StopPlaced(d) PROVE BareIsAcknowledged'
  BY <1>0, <1>5 DEF StopPlaced, Opened, BareIsAcknowledged
<1>6. ASSUME NEW d \in DbOutcomes, CancelStop(d) PROVE BareIsAcknowledged'
  BY <1>6 DEF CancelStop, AfterCancel, BareIsAcknowledged
<1>7. ASSUME NEW s \in Sides, OnCandleClose(s) PROVE BareIsAcknowledged'
  <2>1. UNCHANGED <<position, executed, rows, faults>>
    BY <1>7 DEF OnCandleClose, venue, db
  <2>2. pc' = "cancel" => position.stop # 0
    BY <1>7 DEF OnCandleClose, FirstStep
  <2> QED
    BY <2>1, <2>2 DEF BareIsAcknowledged, NewestIsNew, IsNewest
<1>8. ASSUME ExitRaises \/ \E r \in ReplyKinds, d \in DbOutcomes : ExitFilled(r, d)
      PROVE  BareIsAcknowledged'
  BY <1>2, <1>8 DEF ExitRaises, ExitFilled, AfterClose
<1>9. ASSUME SizeOk \/ SizeZero PROVE BareIsAcknowledged'
  BY <1>1, <1>9 DEF SizeOk, SizeZero, venue, db
<1>10. ASSUME TriggerStop \/ UNCHANGED vars PROVE BareIsAcknowledged'
  BY <1>10 DEF TriggerStop, vars, venue, db, BareIsAcknowledged, NewestIsNew, IsNewest
<1>11. ASSUME DelayedArrives PROVE BareIsAcknowledged'
  BY <1>0, <1>11 DEF DelayedArrives, NothingDelayed, BareIsAcknowledged
<1> QED
  BY <1>3, <1>4, <1>5, <1>6, <1>7, <1>8, <1>9, <1>10, <1>11
  DEF Next, OnQuietCandle, HandlerStep, Answered, Failed, ExitRejected, CancelFails,
      ExitFails, SizeFails, EnterFails, StopFails, Restart

(* Whatever the venue replies: until something fails, an exposure without  *)
(* a stop order is one whose entry was only acknowledged.                  *)
THEOREM UnprotectedAreAcknowledged == Spec => []UnprotectedIsAcknowledged
<1>1. Init => IdsAscend /\ BareIsAcknowledged
  BY DEF Init, IdsAscend, BareIsAcknowledged, NoPosition
<1>2. IInv /\ IdsAscend /\ [Next]_vars => IdsAscend'
  BY StepAscends
<1>3. IInv /\ IdsAscend /\ AuditTrail /\ BareIsAcknowledged /\ [Next]_vars => BareIsAcknowledged'
  BY StepAcknowledged
<1>4. IInv /\ BeliefMatchesVenue /\ BareIsAcknowledged => UnprotectedIsAcknowledged
  BY DEF IInv, TypeOK, BeliefMatchesVenue, BareIsAcknowledged, NewestIsNew,
         UnprotectedIsAcknowledged, VenueFlat, VenueHolds, StoppedOut
<1> QED
  BY <1>1, <1>2, <1>3, <1>4, Inductive, AuditIsFounded, BeliefIsRight, PTL DEF Spec
=============================================================================
