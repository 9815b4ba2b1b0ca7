---------------------------- MODULE EmaStrategy ----------------------------
(***************************************************************************)
(* The strategy of the EMA bot (ema/strategy.py): two exponential moving   *)
(* averages of the closes and the signal of their crossings.               *)
(*                                                                         *)
(* An average is an exact fraction of two integers.  The program computes  *)
(* it in binary floating point, which matters where the two averages are   *)
(* exactly equal: which sign their computed difference then has is a       *)
(* property of the periods and the closes, and a constant here.            *)
(***************************************************************************)
EXTENDS Integers, Sequences

Signs   == {"below", "equal", "above"}
Signals == {"LONG", "SHORT", "NONE"}

CONSTANTS
    Fast, Slow,    \* the two periods
    Prices,        \* closes of a candle
    Rounded,       \* the signs computed for two equal averages
    MaxCandles     \* bound: candles since the strategy was created or reset

ASSUME PeriodsAssumption  == Fast \in Nat \ {0} /\ Slow \in Nat \ {0}
ASSUME PricesAssumption   == Prices \subseteq Nat
ASSUME RoundedAssumption  == Rounded \subseteq Signs /\ Rounded # {}
ASSUME CandlesAssumption  == MaxCandles \in Nat

VARIABLES
    fast, slow,   \* _ema_fast and _ema_slow, denominator 0 for None
    prev,         \* the sign of _prev_diff, "none" for None
    trail         \* history: close, question and answer of every candle

vars == <<fast, slow, prev, trail>>

NoValue == [num |-> 0, den |-> 0]

(* Seeded: the smoothing factor is 2 / period.                             *)
UpdatedShort(ema, period, close) ==
    IF ema.den = 0 THEN [num |-> close, den |-> 1]
    ELSE [num |-> 2 * close * ema.den + (period - 2) * ema.num,
          den |-> period * ema.den]

(* _EMA.update with the smoothing factor 2 / (period + 1).                 *)
Updated(ema, period, close) ==
    IF ema.den = 0 THEN [num |-> close, den |-> 1]
    ELSE [num |-> 2 * close * ema.den + (period - 1) * ema.num,
          den |-> (period + 1) * ema.den]

(* The sign of f - s.                                                      *)
Compare(f, s) ==
    IF f.num * s.den < s.num * f.den THEN "below"
    ELSE IF f.num * s.den > s.num * f.den THEN "above" ELSE "equal"

(* The signs the program may compute for f - s; the first averages are     *)
(* the first close itself, and equal for the program too.                  *)
ComputedSigns(f, s) ==
    IF f.den > 1 /\ Compare(f, s) = "equal" THEN Rounded ELSE {Compare(f, s)}

(* Seeded: any candle above, or below, is a crossing.                      *)
CrossLevel(before, now) ==
    IF now = "above" THEN "LONG" ELSE IF now = "below" THEN "SHORT" ELSE "NONE"

(* Seeded: the words of the venue instead of those the executor expects.   *)
CrossWords(before, now) ==
    IF before # "above" /\ now = "above" THEN "BUY"
    ELSE IF before # "below" /\ now = "below" THEN "SELL" ELSE "NONE"

(* The signal of a difference that went from sign before to sign now.      *)
Cross(before, now) ==
    IF before # "above" /\ now = "above" THEN "LONG"
    ELSE IF before # "below" /\ now = "below" THEN "SHORT" ELSE "NONE"

(* Seeded: _prev_diff changes only on a candle with a signal.              *)
KeptOnSignal(before, signal, now) == IF signal = "NONE" THEN before ELSE now

(* _prev_diff after a candle that was asked for a signal.                  *)
Kept(before, signal, now) == now

(* The part of update that both operations share.                          *)
Averages(close) ==
    /\ fast' = Updated(fast, Fast, close)
    /\ slow' = Updated(slow, Slow, close)

(* update also sets _prev_diff when it is None.                            *)
Before(now) == IF prev = "none" THEN now ELSE prev

-----------------------------------------------------------------------------
Init ==
    /\ fast = NoValue /\ slow = NoValue
    /\ prev = "none"
    /\ trail = <<>>

GenerateSignal(close) ==
    /\ Len(trail) < MaxCandles
    /\ Averages(close)
    /\ \E now \in ComputedSigns(fast', slow') :
         LET signal == Cross(Before(now), now)
         IN  /\ prev' = Kept(Before(now), signal, now)
             /\ trail' = Append(trail,
                           [close |-> close, asked |-> TRUE, signal |-> signal])

(* update, on_candle_close and update_candle: no question is asked.        *)
Update(close) ==
    /\ Len(trail) < MaxCandles
    /\ Averages(close)
    /\ \E now \in ComputedSigns(fast', slow') : prev' = Before(now)
    /\ trail' = Append(trail,
                  [close |-> close, asked |-> FALSE, signal |-> "NONE"])

Reset ==
    /\ fast' = NoValue /\ slow' = NoValue
    /\ prev' = "none"
    /\ trail' = <<>>

Next ==
    \/ \E p \in Prices : GenerateSignal(p) \/ Update(p)
    \/ Reset

Spec == Init /\ [][Next]_vars

-----------------------------------------------------------------------------
(* Properties.                                                             *)

Emas == [num : Nat, den : Nat]

(* The shape of every variable.                                            *)
TypeOK ==
    /\ fast \in Emas /\ slow \in Emas
    /\ prev \in Signs \cup {"none"}
    /\ trail \in Seq([close : Prices, asked : BOOLEAN, signal : Signals])

(* b to the power n.                                                       *)
Power(b, n) ==
    LET p[i \in 0 .. n] == IF i = 0 THEN 1 ELSE b * p[i - 1] IN p[n]

(* What close i of n weighs, over (period + 1) ^ (n - 1).                  *)
Weight(period, i, n) ==
    Power(period - 1, n - i) * IF i = 1 THEN 1 ELSE 2 * Power(period + 1, i - 2)

(* The weighted mean of the first n closes of t: the definition of the     *)
(* average, without its recursion over the candles.                        *)
Mean(t, period, n) ==
    LET sum[i \in 0 .. n] ==
          IF i = 0 THEN 0 ELSE sum[i - 1] + Weight(period, i, n) * t[i].close
    IN  [num |-> sum[n], den |-> Power(period + 1, n - 1)]

(* The averages are the weighted means of all closes since the start.      *)
AveragesAreMeans ==
    LET n == Len(trail)
    IN  n > 0 => fast = Mean(trail, Fast, n) /\ slow = Mean(trail, Slow, n)

SignAt(n) == Compare(Mean(trail, Fast, n), Mean(trail, Slow, n))

(* The candles whose difference was kept for the next question.            *)
KeptCandles == {1} \cup {i \in 1 .. Len(trail) : trail[i].asked}

(* i is the candle whose difference the question at candle n looks back to.*)
LooksBack(i, n) ==
    /\ i \in KeptCandles /\ i < n
    /\ \A k \in KeptCandles : k <= i \/ k >= n

(* A signal is the crossing of the averages between the last candle that   *)
(* was kept and this one, and without a crossing there is no signal        *)
(* ("'NONE' si no hay cruce en esta vela cerrada").                        *)
SignalIsCrossing ==
    \A n \in 1 .. Len(trail) : trail[n].asked =>
        IF n = 1 THEN trail[n].signal = "NONE"
        ELSE \A i \in 1 .. n : LooksBack(i, n) =>
               /\ trail[n].signal = "LONG"  <=> SignAt(i) # "above" /\ SignAt(n) = "above"
               /\ trail[n].signal = "SHORT" <=> SignAt(i) # "below" /\ SignAt(n) = "below"

(* Two equal signals in a row only when the averages met in between: the   *)
(* executor, which drops a repeated signal, loses no reversal by that.     *)
SignalsAlternate ==
    \A i, j \in 1 .. Len(trail) :
        /\ i < j /\ trail[i].signal # "NONE" /\ trail[j].signal = trail[i].signal
        /\ \A k \in i + 1 .. j - 1 : trail[k].signal = "NONE"
        => \E k \in i + 1 .. j - 1 : trail[k].asked /\ SignAt(k) = "equal"

(* The last candle was asked for a signal, or was the first.               *)
Fresh == trail = <<>> \/ Len(trail) \in KeptCandles

LastSignal(t) == IF t = <<>> THEN "NONE" ELSE t[Len(t)].signal
LastClose(t)  == t[Len(t)].close

(* With fast < slow and a question at every candle, no signal goes against *)
(* the price: LONG only on a close above the slow average, SHORT below it. *)
SignalFollowsPrice ==
    [][/\ Fresh
       /\ LastSignal(trail') # "NONE"
       => IF LastSignal(trail') = "LONG"
            THEN LastClose(trail') * slow.den > slow.num
            ELSE LastClose(trail') * slow.den < slow.num]_vars
=============================================================================
