----------------------------- MODULE CandleKey -----------------------------
(***************************************************************************)
(* What the market-data process and the bot share: the Redis key           *)
(* candle:last:{SYMBOL}:{TF}, which holds the last closed candle for a     *)
(* limited time, and the clock of the venue whose candles they follow.     *)
(* Redis and the venue are external.                                       *)
(*                                                                         *)
(* Candles are numbered as they close; 0 is no candle.  A tick is a time   *)
(* long for a poll and short for a candle.                                 *)
(***************************************************************************)
EXTENDS Integers

CONSTANTS
    Period,        \* ticks from one close to the next
    Ttl,           \* ticks a stored candle lives (MARKETDATA_TTL_SEC)
    Lag,           \* ticks a closing message may be under way
    MaxCandles     \* bound: candles that close

ASSUME PeriodAssumption  == Period \in Nat \ {0}
ASSUME TtlAssumption     == Ttl \in Nat \ {0}
ASSUME LagAssumption     == Lag \in Nat /\ Lag < Period
ASSUME CandlesAssumption == MaxCandles \in Nat

VARIABLES
    closed,    \* venue: candles that have closed
    elapsed,   \* venue: ticks since the last close
    key,       \* Redis: the stored candle and the ticks it has left
    unseen,    \* history: no GET has returned the stored candle
    missed     \* history: candles that something kept from the bot

venueAndKey == <<closed, elapsed, key, unseen, missed>>

Candles == 1 .. MaxCandles
NoKey   == [candle |-> 0, left |-> 0]

(* The candles among those named, where 0 names none.                      *)
Some(candles) == candles \ {0}

(* Seeded: SET without EX.                                                 *)
StoredForEver(c) == [candle |-> c, left |-> Ttl + MaxCandles * Period]

(* SET key candle EX ttl, whatever the key held.                           *)
Stored(c) == [candle |-> c, left |-> Ttl]

Aged(k) == IF k.left > 1 THEN [k EXCEPT !.left = @ - 1] ELSE NoKey

(* c is stored; a candle it replaces unseen has been missed.               *)
Store(c) ==
    /\ key' = Stored(c)
    /\ unseen' = TRUE
    /\ missed' = missed \cup IF unseen THEN {key.candle} ELSE {}

KeyInit ==
    /\ closed = 0
    /\ elapsed = 0
    /\ key = NoKey
    /\ unseen = FALSE
    /\ missed = {}

KeyTypeOK ==
    /\ closed \in 0 .. MaxCandles
    /\ elapsed \in Nat
    /\ key \in [candle : 0 .. MaxCandles, left : Nat]
    /\ unseen \in BOOLEAN
    /\ missed \subseteq Candles
=============================================================================
