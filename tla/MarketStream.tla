---------------------------- MODULE MarketStream ----------------------------
(***************************************************************************)
(* The market-data process (runner/marketdata.py) and its stream           *)
(* (datafeed/market_ws.py): a connection to the venue that is rebuilt      *)
(* whenever it is lost, and the messages of closed candles it stores in    *)
(* Redis.                                                                  *)
(*                                                                         *)
(* The stream reads a message only when the one before has been routed, so *)
(* a loss of the connection is noticed between two messages.  Candles that *)
(* close while it is not connected are not asked for later.                *)
(***************************************************************************)
EXTENDS CandleKey

VARIABLES
    market,    \* the process: "up" or "down"
    ws,        \* start(): "off", "connecting", "open" or "waiting"
    wire,      \* the candle whose closing message is under way
    routing    \* the candle _route_message is storing

stream == <<market, ws, wire, routing>>

StreamInit ==
    /\ market = "down"
    /\ ws = "off"
    /\ wire = 0
    /\ routing = 0

MarketStarts ==
    /\ market = "down"
    /\ market' = "up"
    /\ ws' = "connecting"
    /\ UNCHANGED <<wire, routing, venueAndKey>>

Connected ==
    /\ ws = "connecting"
    /\ ws' = "open"
    /\ UNCHANGED <<market, wire, routing, venueAndKey>>

(* Seeded: an exception ends the task of the stream.                       *)
AfterExceptionGone == "off"

(* An exception of the connection or of a message: wait, then try again.   *)
AfterException == "waiting"

ConnectFails ==
    /\ ws = "connecting"
    /\ ws' = AfterException
    /\ UNCHANGED <<market, wire, routing, venueAndKey>>

BackoffEnds ==
    /\ ws = "waiting"
    /\ ws' = "connecting"
    /\ UNCHANGED <<market, wire, routing, venueAndKey>>

(* The connection is lost with what was under way: closed by the peer,     *)
(* which is followed by an attempt at once, or with an exception.          *)
ConnectionLost ==
    /\ ws = "open" /\ routing = 0
    /\ ws' \in {"connecting", AfterException}
    /\ wire' = 0
    /\ missed' = missed \cup Some({wire})
    /\ UNCHANGED <<market, routing, closed, elapsed, key, unseen>>

Receive ==
    /\ ws = "open" /\ routing = 0 /\ wire # 0
    /\ routing' = wire
    /\ wire' = 0
    /\ UNCHANGED <<market, ws, venueAndKey>>

StoreReturns ==
    /\ routing # 0
    /\ Store(routing)
    /\ routing' = 0
    /\ UNCHANGED <<market, ws, wire, closed, elapsed>>

(* The SET raises, with or without having had its effect; the exception is *)
(* swallowed and the candle not tried again.                               *)
StoreRaises ==
    /\ routing # 0
    /\ \/ Store(routing)
       \/ missed' = missed \cup {routing} /\ UNCHANGED <<key, unseen>>
    /\ routing' = 0
    /\ UNCHANGED <<market, ws, wire, closed, elapsed>>

(* A signal cancels every task, or the process dies; a SET under way may   *)
(* have had its effect.                                                    *)
MarketEnds ==
    /\ market = "up"
    /\ market' = "down"
    /\ ws' = "off"
    /\ wire' = 0
    /\ routing' = 0
    /\ \/ routing # 0 /\ Store(routing)
       \/ missed' = missed \cup Some({wire, routing}) /\ UNCHANGED <<key, unseen>>
    /\ UNCHANGED <<closed, elapsed>>

(* What the process does when nothing stops it.                            *)
Reconnect == Connected \/ ConnectFails \/ BackoffEnds

StreamStep ==
    \/ MarketStarts
    \/ Reconnect
    \/ ConnectionLost
    \/ Receive
    \/ StoreReturns
    \/ StoreRaises
    \/ MarketEnds

StreamTypeOK ==
    /\ market \in {"up", "down"}
    /\ ws \in {"off", "connecting", "open", "waiting"}
    /\ wire \in 0 .. MaxCandles
    /\ routing \in 0 .. MaxCandles
=============================================================================
