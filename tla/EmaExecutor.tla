---------------------------- MODULE EmaExecutor ----------------------------
(***************************************************************************)
(* The order executor of the EMA bot (ema/executor.py) between the signals *)
(* of its strategy and the venue it trades on.                             *)
(*                                                                         *)
(* The candle loop awaits one handler at a time, so the handler is one     *)
(* program counter that stops at every await: the cancellation of the old  *)
(* stop, the exit order, the sizing query, the entry order, the stop       *)
(* order.  Between two awaits the venue moves by itself (a resting stop    *)
(* triggers, an order given up on arrives after all), any call may fail    *)
(* with or without having had its effect, and the process may be           *)
(* restarted, which loses the position it had in memory and keeps          *)
(* everything the venue holds.                                             *)
(*                                                                         *)
(* The venue is external: a one-way account that nets one unit per entry.  *)
(* A call of place_order executes at most once (module PlaceOrder says     *)
(* under which condition on the venue).                                    *)
(***************************************************************************)
EXTENDS Integers, FiniteSets

CONSTANTS
    AllowShorts,   \* cfg.allow_shorts
    UseStop,       \* cfg.stop_pct > 0
    ReplyKinds,    \* what the venue answers to a market order, see Replies
    DbOutcomes,    \* how the two inserts after an order end, see Outcomes
    MaxOrders,     \* bound: no signal starts once this many ids were used
    MaxFaults      \* bound: failed calls and restarts

(* "result": average price and fills; "bare": neither of them; "ack": an   *)
(* acknowledgement whose average price is "0.00".                          *)
Replies == {"result", "bare", "ack"}

(* Neither insert commits, only the order's does, or both do.              *)
Outcomes == {"none", "order", "all"}

ASSUME FlagsAssumption   == AllowShorts \in BOOLEAN /\ UseStop \in BOOLEAN
ASSUME RepliesAssumption == ReplyKinds \subseteq Replies /\ ReplyKinds # {}
ASSUME DbAssumption      == DbOutcomes \subseteq Outcomes /\ DbOutcomes # {}
ASSUME BoundsAssumption  == MaxOrders \in Nat /\ MaxFaults \in Nat

VARIABLES
    pc,        \* the await the handler is at
    goal,      \* the side the last signal asked for
    position,  \* EmaExecutor.position, side "NONE" for None, stop 0 for None
    net,       \* venue: signed exposure, in entries
    stops,     \* venue: resting stop orders
    executed,  \* venue: ids of the market orders it executed
    stopped,   \* venue: ids of the stop orders that executed
    nextId,    \* venue: the next order id
    delayed,   \* venue: orders the executor gave up on that may still arrive
    rows,      \* database: table orders
    fills,     \* database: order ids that have rows in table fills
    faults     \* failed calls and restarts so far

venue == <<net, stops, executed, stopped, nextId, delayed>>
db    == <<rows, fills>>
vars  == <<pc, goal, position, venue, db, faults>>

Sides      == {"LONG", "SHORT"}
NoPosition == [side |-> "NONE", stop |-> 0]
Phases     == {"idle", "cancel", "exit", "size", "enter", "stop"}
OrderCalls == {"exit", "enter", "stop"}

Dir(side) == IF side = "LONG" THEN 1 ELSE IF side = "SHORT" THEN -1 ELSE 0

-----------------------------------------------------------------------------
(* Decisions of the executor.  An operator whose comment starts with       *)
(* "Seeded:" is a plausible slip in the one after it; no action uses it.   *)

(* Seeded: allow_shorts is not consulted.                                  *)
WantedSideAlways(signal) == signal

(* The side a signal leads to: a SHORT only closes without allow_shorts.   *)
WantedSide(signal) ==
    IF signal = "SHORT" /\ ~AllowShorts THEN "NONE" ELSE signal

(* Seeded: being on the side already is no reason to return.               *)
FirstStepRepeat(side) ==
    IF position.side \in {side, "NONE"} THEN "size" ELSE "cancel"

(* Seeded: a reversal does not close the old side.                         *)
FirstStepNoClose(side) == IF position.side = side THEN "idle" ELSE "size"

(* Seeded: the stop of the old side is left resting.                       *)
FirstStepNoCancel(side) ==
    IF position.side = side THEN "idle"
    ELSE IF position.side = "NONE" THEN "size" ELSE "exit"

(* The first await of the handler that wants side.                         *)
FirstStep(side) ==
    IF position.side = side THEN "idle"
    ELSE IF position.side = "NONE" THEN "size"
    ELSE IF position.stop # 0 THEN "cancel"
    ELSE "exit"

(* Seeded: the cancellation is repeated until the stop is unknown.         *)
AfterCancelRepeat == "cancel"

(* Where the handler goes once the old stop has been dealt with.           *)
AfterCancel == "exit"

(* Where the handler that wants side goes once _close_position returned.   *)
AfterClose(side) == IF side = "NONE" THEN "idle" ELSE "size"

(* Seeded: the exit is sent in the direction of the position.              *)
CloseDirSame(side) == Dir(side)

(* side_close of _close_position, as the sign of the exit order.           *)
CloseDir(side) == -Dir(side)

(* Seeded: the exit is a plain market order.                               *)
ReduceOnlyStops(kind) == kind = "stop"

(* The orders sent with reduce_only.                                       *)
ReduceOnly(kind) == kind \in {"exit", "stop"}

(* Seeded: no fall back to the close of the candle.                        *)
StopWantedPriced(reply) == UseStop /\ reply = "result"

(* A stop order follows the entry unless stop_pct is 0 or the average      *)
(* price of the reply reads as 0, which _fill_price takes for a price.     *)
StopWanted(reply) == UseStop /\ reply # "ack"

(* What place_order raises on a failing call: the SDK's own exception.     *)
PlaceOrderError == "SdkError"

(* The handlers around place_order are "except ExchangeError".             *)
Handled(error) == error = "ExchangeError"

(* What the executor keeps after an entry.                                 *)
Opened(side, stop) == [side |-> side, stop |-> stop]

-----------------------------------------------------------------------------
(* The venue.                                                              *)

(* An order in direction d leaves less exposure than there was.            *)
Reduces(d) == \/ d = 1  /\ net < 0
              \/ d = -1 /\ net > 0

Accepts(kind, d) == ReduceOnly(kind) => Reduces(d)

Execute(d) ==
    /\ net' = net + d
    /\ executed' = executed \cup {nextId}
    /\ nextId' = nextId + 1
    /\ UNCHANGED <<stops, stopped>>

RestStop(side) ==
    /\ stops' = stops \cup {[id |-> nextId, side |-> side]}
    /\ nextId' = nextId + 1
    /\ UNCHANGED <<net, executed, stopped>>

CancelResting ==
    /\ stops' = {o \in stops : o.id # position.stop}
    /\ UNCHANGED <<net, executed, stopped, nextId>>

(* The order that call sends for side takes effect.                        *)
TakesEffect(call, side) ==
    \/ call = "exit"  /\ Accepts("exit", CloseDir(side)) /\ Execute(CloseDir(side))
    \/ call = "enter" /\ Execute(Dir(side))
    \/ call = "stop"  /\ RestStop(side)

(* The side of the order the handler is waiting for.                       *)
CallSide == IF pc = "exit" THEN position.side ELSE goal

Settled == UNCHANGED <<net, stops, executed, stopped, nextId>>

(* An order given up on arrives; an exit may by then be refused.           *)
DelayedArrives ==
    /\ \E c \in OrderCalls, s \in Sides :
         /\ delayed[c][s] > 0
         /\ delayed' = [delayed EXCEPT ![c][s] = @ - 1]
         /\ \/ TakesEffect(c, s)
            \/ c = "exit" /\ ~Accepts("exit", CloseDir(s)) /\ Settled
    /\ UNCHANGED <<pc, goal, position, db, faults>>

(* A resting stop triggers; one with nothing left to reduce expires.       *)
TriggerStop ==
    /\ \E o \in stops :
         /\ stops' = stops \ {o}
         /\ IF Accepts("stop", CloseDir(o.side))
              THEN /\ net' = net + CloseDir(o.side)
                   /\ stopped' = stopped \cup {o.id}
              ELSE UNCHANGED <<net, stopped>>
    /\ UNCHANGED <<pc, goal, position, executed, nextId, delayed, db, faults>>

-----------------------------------------------------------------------------
(* The database: every error is swallowed, so an insert just may not       *)
(* happen; fills need the uid their order's insert returned.               *)

(* Seeded: the fills do not wait for the uid of their order.               *)
PersistBlindly(id, kind, status, hasFills, outcome) ==
    /\ rows' = IF outcome = "none" THEN rows
               ELSE rows \cup {[id |-> id, kind |-> kind, status |-> status]}
    /\ fills' = IF hasFills THEN fills \cup {id} ELSE fills

(* Seeded: an order without fills is not worth a row.                      *)
PersistFilled(id, kind, status, hasFills, outcome) ==
    /\ rows' = IF outcome = "none" \/ ~hasFills THEN rows
               ELSE rows \cup {[id |-> id, kind |-> kind, status |-> status]}
    /\ fills' = IF outcome = "all" /\ hasFills THEN fills \cup {id} ELSE fills

Persist(id, kind, status, hasFills, outcome) ==
    /\ rows' = IF outcome = "none" THEN rows
               ELSE rows \cup {[id |-> id, kind |-> kind, status |-> status]}
    /\ fills' = IF outcome = "all" /\ hasFills THEN fills \cup {id} ELSE fills

(* Seeded: no default for a reply without status.                          *)
MarketStatusRaw(reply) ==
    IF reply = "ack" THEN "NEW" ELSE IF reply = "result" THEN "FILLED" ELSE "None"

(* The status of a market order: the reply's, FILLED when it has none.     *)
MarketStatus(reply) == IF reply = "ack" THEN "NEW" ELSE "FILLED"

PersistMarket(id, reply, outcome) ==
    Persist(id, "MARKET", MarketStatus(reply), reply = "result", outcome)

MarkCanceled(id, outcome) ==
    /\ rows' = IF outcome = "none" THEN rows
               ELSE {IF r.id = id THEN [r EXCEPT !.status = "CANCELED"] ELSE r
                       : r \in rows}
    /\ UNCHANGED fills

-----------------------------------------------------------------------------
(* The handler.                                                            *)

Fault == faults < MaxFaults /\ faults' = faults + 1

(* A call failed on this side: it never got to the venue, or it had its    *)
(* effect there, or it is an order that will arrive later.                 *)
Lost ==
    \/ UNCHANGED venue
    \/ pc = "cancel" /\ CancelResting /\ UNCHANGED delayed
    \/ TakesEffect(pc, CallSide) /\ UNCHANGED delayed
    \/ /\ pc \in OrderCalls
       /\ delayed' = [delayed EXCEPT ![pc][CallSide] = @ + 1]
       /\ Settled

OnCandleClose(signal) ==
    /\ pc = "idle"
    /\ nextId <= MaxOrders
    /\ goal' = signal
    /\ pc' = FirstStep(WantedSide(signal))
    /\ UNCHANGED <<position, venue, db, faults>>

(* A candle with signal NONE.                                              *)
OnQuietCandle == pc = "idle" /\ UNCHANGED vars

(* cancel_order also returns normally when the stop no longer exists.      *)
CancelStop(outcome) ==
    /\ pc = "cancel"
    /\ CancelResting
    /\ MarkCanceled(position.stop, outcome)
    /\ pc' = AfterCancel
    /\ UNCHANGED <<goal, position, delayed, faults>>

CancelFails ==
    /\ pc = "cancel"
    /\ Fault /\ Lost
    /\ pc' = AfterCancel
    /\ UNCHANGED <<goal, position, db>>

ExitFilled(reply, outcome) ==
    /\ pc = "exit"
    /\ Accepts("exit", CloseDir(position.side))
    /\ Execute(CloseDir(position.side))
    /\ PersistMarket(nextId, reply, outcome)
    /\ position' = NoPosition
    /\ pc' = AfterClose(WantedSide(goal))
    /\ UNCHANGED <<goal, delayed, faults>>

(* The exit raised: the finally clause forgets the position, and only a    *)
(* handled exception lets the caller go on.                                *)
ExitRaises ==
    /\ pc = "exit"
    /\ position' = NoPosition
    /\ pc' = IF Handled(PlaceOrderError) THEN AfterClose(WantedSide(goal)) ELSE "idle"
    /\ UNCHANGED <<goal, db>>

(* The venue refuses a reduce-only order that has nothing to reduce.       *)
ExitRejected ==
    /\ ExitRaises
    /\ ~Accepts("exit", CloseDir(position.side))
    /\ UNCHANGED <<venue, faults>>

ExitFails == ExitRaises /\ Fault /\ Lost

SizeOk ==
    /\ pc = "size"
    /\ pc' = "enter"
    /\ UNCHANGED <<goal, position, venue, db, faults>>

(* The allocation buys less than one step: the signal asks for nothing.    *)
SizeZero ==
    /\ pc = "size"
    /\ pc' = "idle"
    /\ goal' = "NONE"
    /\ UNCHANGED <<position, venue, db, faults>>

SizeFails ==
    /\ pc = "size"
    /\ Fault
    /\ pc' = "idle"
    /\ UNCHANGED <<goal, position, venue, db>>

EnterFilled(reply, outcome) ==
    /\ pc = "enter"
    /\ Execute(Dir(goal))
    /\ PersistMarket(nextId, reply, outcome)
    /\ IF StopWanted(reply)
         THEN pc' = "stop" /\ UNCHANGED position
         ELSE pc' = "idle" /\ position' = Opened(goal, 0)
    /\ UNCHANGED <<goal, delayed, faults>>

EnterFails ==
    /\ pc = "enter"
    /\ Fault /\ Lost
    /\ pc' = "idle"
    /\ UNCHANGED <<goal, position, db>>

StopPlaced(outcome) ==
    /\ pc = "stop"
    /\ RestStop(goal)
    /\ Persist(nextId, "STOP_MARKET", "NEW", FALSE, outcome)
    /\ position' = Opened(goal, nextId)
    /\ pc' = "idle"
    /\ UNCHANGED <<goal, delayed, faults>>

StopFails ==
    /\ pc = "stop"
    /\ Fault /\ Lost
    /\ position' = IF Handled(PlaceOrderError) THEN Opened(goal, 0) ELSE position
    /\ pc' = "idle"
    /\ UNCHANGED <<goal, db>>

(* The process dies, perhaps with a call in flight, and starts again.      *)
Restart ==
    /\ Fault /\ Lost
    /\ pc' = "idle"
    /\ goal' = "NONE"
    /\ position' = NoPosition
    /\ UNCHANGED db

-----------------------------------------------------------------------------
Init ==
    /\ pc = "idle"
    /\ goal = "NONE"
    /\ position = NoPosition
    /\ net = 0
    /\ stops = {}
    /\ executed = {}
    /\ stopped = {}
    /\ nextId = 1
    /\ delayed = [c \in OrderCalls |-> [s \in Sides |-> 0]]
    /\ rows = {}
    /\ fills = {}
    /\ faults = 0

Answered ==
    \/ \E d \in DbOutcomes : CancelStop(d) \/ StopPlaced(d)
    \/ \E r \in ReplyKinds, d \in DbOutcomes : ExitFilled(r, d) \/ EnterFilled(r, d)
    \/ ExitRejected
    \/ SizeOk
    \/ SizeZero

Failed == CancelFails \/ ExitFails \/ SizeFails \/ EnterFails \/ StopFails

HandlerStep == Answered \/ Failed

Next ==
    \/ \E s \in Sides : OnCandleClose(s)
    \/ OnQuietCandle
    \/ HandlerStep
    \/ TriggerStop
    \/ DelayedArrives
    \/ Restart

Spec == Init /\ [][Next]_vars

(* Every awaited call returns or raises in the end.                        *)
FairSpec == Spec /\ WF_vars(HandlerStep)

-----------------------------------------------------------------------------
(* Properties.                                                             *)

(* The shape of every variable.                                            *)
TypeOK ==
    /\ pc \in Phases
    /\ goal \in Sides \cup {"NONE"}
    /\ position \in [side : Sides \cup {"NONE"}, stop : Nat]
    /\ net \in Int
    /\ stops \subseteq [id : Nat, side : Sides]
    /\ executed \subseteq Nat
    /\ stopped \subseteq Nat
    /\ nextId \in Nat \ {0}
    /\ delayed \in [OrderCalls -> [Sides -> Nat]]
    /\ rows \subseteq [id : Nat, kind : {"MARKET", "STOP_MARKET"},
                       status : {"NEW", "FILLED", "CANCELED"}]
    /\ fills \subseteq Nat
    /\ faults \in Nat

(* No signal sequence piles up entries: beyond one entry, every further    *)
(* unit of exposure is paid for by a failed call or a restart.             *)
ExposureBounded == net <= 1 + faults /\ -net <= 1 + faults

(* The executor never enters on top of a position it remembers: a reversal *)
(* has gone through _close_position first.                                 *)
EntryOnlyWhenFlat == pc \in {"size", "enter", "stop"} => position = NoPosition

(* The venue holds nothing at all.                                         *)
VenueFlat == net = 0 /\ stops = {}

(* The stop order s is gone because it executed, and took the exposure.    *)
StoppedOut(s) == VenueFlat /\ s # 0 /\ s \in stopped

(* The venue holds one entry of the remembered side and its own stop.      *)
VenueHolds(p) ==
    /\ net = Dir(p.side)
    /\ stops = IF p.stop = 0 THEN {} ELSE {[id |-> p.stop, side |-> p.side]}

(* Until something fails, what the executor believes is what the venue     *)
(* holds, or was until the stop executed; no stop order outlives its       *)
(* position and no position is forgotten, at every await of the handler.   *)
BeliefMatchesVenue ==
    faults = 0 =>
      /\ pc = "stop" => net = Dir(goal) /\ stops = {}
      /\ pc # "stop" /\ position.side = "NONE" => VenueFlat
      /\ pc = "exit" => \/ net = Dir(position.side) /\ stops = {}
                        \/ StoppedOut(position.stop)
      /\ pc # "exit" /\ position.side # "NONE" =>
            VenueHolds(position) \/ StoppedOut(position.stop)

(* An exit order executes: the one the handler waits for, or a delayed one.*)
ExitExecutes ==
    /\ executed' # executed
    /\ \/ pc = "exit" /\ position' = NoPosition
       \/ \E s \in Sides : delayed'["exit"][s] < delayed["exit"][s]

(* Exit and stop orders only ever take exposure away: they never open the  *)
(* opposite side, not even when a stop executes between the cancellation   *)
(* and the exit, or when a forgotten or delayed one executes much later.   *)
ExitNeverOpens ==
    [][ExitExecutes \/ stopped' # stopped
         => \/ net > 0 /\ net' = net - 1
            \/ net < 0 /\ net' = net + 1]_vars

MarketRows == {r.id : r \in {x \in rows : x.kind = "MARKET"}}

(* The audit trail is well founded: fills only of orders that are          *)
(* recorded, market orders only when they were executed.                   *)
AuditTrail == fills \subseteq MarketRows /\ MarketRows \subseteq executed

(* With a healthy database an execution is missing from the orders table   *)
(* only if its own call failed or the process died on it.                  *)
ExecutionsRecorded == Cardinality(executed \ MarketRows) <= faults

(* "En cruce opuesto cierra posicion (y opcionalmente abre SHORT ...)":    *)
(* without failures, a handler that returned has brought the executor to   *)
(* the side its signal asked for, flat when shorts are off.                *)
SignalHonoured ==
    faults = 0 /\ pc = "idle" =>
      position.side = IF goal = "SHORT" /\ ~AllowShorts THEN "NONE" ELSE goal

(* "Stop-loss fijo (STOP_PCT) via STOP_MARKET reduceOnly (si STOP_PCT >    *)
(* 0)": without failures, no exposure is left without a resting stop.  An  *)
(* order that is only acknowledged breaks it, see the next property.       *)
EntryProtected ==
    faults = 0 /\ UseStop /\ pc = "idle" /\ net # 0 => stops # {}

(* The order r is about is the last one the venue executed.                *)
IsNewest(r) == \A e \in executed : e <= r.id

(* Without failures, the only entry a handler leaves without a stop is one *)
(* that the venue merely acknowledged: the executor knows of no stop, and  *)
(* the row of that entry, if it has one, still says NEW.                   *)
UnprotectedIsAcknowledged ==
    faults = 0 /\ UseStop /\ pc = "idle" /\ net # 0 /\ stops = {} =>
      /\ position.stop = 0
      /\ \A r \in rows : r.kind = "MARKET" /\ IsNewest(r) => r.status = "NEW"

(* "si no pudimos poner stop, igual quedamos LONG": a stop order that      *)
(* fails leaves the entry remembered.                                      *)
StaysInPositionWithoutStop ==
    [][pc = "stop" /\ pc' = "idle" /\ goal' = goal => position'.side = goal]_vars

(* The handler never waits forever: the candle loop gets its turn back.    *)
HandlerReturns == pc # "idle" ~> pc = "idle"

(* A close that got as far as its exit order ends with none of that side's *)
(* exposure left at the venue, unless something failed.                    *)
CloseReachesFlat ==
    /\ pc = "exit" /\ position.side = "LONG"  ~> net <= 0 \/ faults > 0
    /\ pc = "exit" /\ position.side = "SHORT" ~> net >= 0 \/ faults > 0
=============================================================================
