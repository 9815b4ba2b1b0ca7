-------------------------- MODULE CandleFeedProofs --------------------------
(***************************************************************************)
(* The path of a candle and the row of a run, for any period, time to live *)
(* and lag, any number of candles and of lives of the bot.                 *)
(***************************************************************************)
EXTENDS CandleFeed, SequenceTheorems, TLAPS

(* A closing message arrives before the next candle closes.                *)
InFlight ==
    /\ wire # 0 => wire = closed /\ elapsed <= Lag
    /\ routing # 0 => wire = 0 /\ routing = closed /\ elapsed <= Lag

KeyShape ==
    /\ key.candle = 0 <=> key.left = 0
    /\ unseen => key.candle # 0
    /\ key.candle <= closed

LoopShape ==
    /\ reply # 0 => poll = "got"
    /\ poll # "off" => bot = "up"
    /\ bot # "down" => life # 0

(* What is stored or about to be handled is not older than anything that   *)
(* was handled, and last_t is the last of what this process handled.       *)
Ordered ==
    /\ reply <= closed
    /\ key.candle # 0 => reply <= key.candle
    /\ lastT # 0 => lastT \in Handled
    /\ \A i \in DOMAIN log :
         /\ log[i].candle <= closed
         /\ key.candle # 0 => log[i].candle <= key.candle
         /\ reply # 0 => log[i].candle <= reply
         /\ log[i].life <= life
         /\ log[i].life = life => log[i].candle <= lastT

(* A stored candle that the bot has seen does not need the key any more.   *)
SeenIsSafe ==
    ~unseen /\ key.candle # 0 => key.candle \in Handled \cup missed \cup {reply}

(* The run of the current process, and the call that may outlive it.       *)
RunShape ==
    /\ \A r \in runs \cup finished : r <= life
    /\ bot = "down" => run = 0
    /\ bot \in {"down", "starting"} => ~thread
    /\ bot # "down" => run = life \/ (run = 0 /\ life \in unclean)
    /\ bot \in {"starting", "up", "closing"} => life \notin finished
    /\ bot = "closed" => life \in finished \cup unclean
    /\ late = 0 \/ (late = 1 /\ ~thread /\ bot \in {"closed", "down"})

IInv ==
    /\ TypeOK
    /\ InFlight /\ KeyShape /\ LoopShape
    /\ Ordered /\ HandledInOrder
    /\ SeenIsSafe /\ CandlesAccountedFor
    /\ RunShape /\ StoppedIsFinished

-----------------------------------------------------------------------------
LEMMA InitIInv == Init => IInv
<1> SUFFICES ASSUME Init PROVE IInv
  OBVIOUS
<1> USE CandlesAssumption, LivesAssumption
<1> USE DEF Init, KeyInit, StreamInit, BotInit, NoKey
<1>1. KeyTypeOK
  <2>1. unseen \in BOOLEAN
    OBVIOUS
  <2>2. closed \in 0 .. MaxCandles /\ elapsed \in Nat
        /\ key \in [candle : 0 .. MaxCandles, left : Nat] /\ missed \subseteq Candles
    OBVIOUS
  <2> QED
    BY <2>1, <2>2 DEF KeyTypeOK
<1>2. StreamTypeOK
  BY DEF StreamTypeOK
<1>b. BotTypeOK
  <2>1. log \in Seq([life : Lives, candle : Candles])
    OBVIOUS
  <2>2. thread \in BOOLEAN
    OBVIOUS
  <2>3. runs \subseteq Lives /\ finished \subseteq Lives /\ unclean \subseteq Lives
    OBVIOUS
  <2> QED
    BY <2>1, <2>2, <2>3 DEF BotTypeOK
<1>3. InFlight /\ KeyShape /\ LoopShape
  BY DEF InFlight, KeyShape, LoopShape
<1>4. Ordered /\ HandledInOrder /\ SeenIsSafe
  BY DEF Ordered, HandledInOrder, SeenIsSafe
<1>5. CandlesAccountedFor
  BY DEF CandlesAccountedFor
<1>6. RunShape /\ StoppedIsFinished
  BY DEF RunShape, StoppedIsFinished
<1> QED
  BY <1>1, <1>2, <1>b, <1>3, <1>4, <1>5, <1>6 DEF IInv, TypeOK

-----------------------------------------------------------------------------
(* Types.                                                                  *)

LEMMA StoreType ==
  ASSUME KeyTypeOK, KeyShape, NEW c \in 1 .. MaxCandles, Store(c), UNCHANGED <<closed, elapsed>>
  PROVE  KeyTypeOK'
<1>1. key' \in [candle : 0 .. MaxCandles, left : Nat]
  BY TtlAssumption DEF Store, Stored
<1>2. unseen' \in BOOLEAN
  BY DEF Store
<1>3. missed' \subseteq Candles
  <2>1. missed \subseteq Candles /\ unseen => key.candle \in Candles
    BY CandlesAssumption DEF KeyTypeOK, KeyShape, Candles
  <2> QED
    BY <2>1 DEF Store, KeyTypeOK
<1> QED
  BY <1>1, <1>2, <1>3 DEF KeyTypeOK

LEMMA StreamType ==
  ASSUME IInv, StreamStep
  PROVE  KeyTypeOK' /\ StreamTypeOK'
<1> USE CandlesAssumption
<1>t. KeyTypeOK /\ StreamTypeOK /\ KeyShape
  BY DEF IInv, TypeOK
<1>1. CASE MarketStarts \/ Reconnect
  BY <1>t, <1>1 DEF MarketStarts, Reconnect, Connected, ConnectFails, BackoffEnds,
    AfterException, venueAndKey, KeyTypeOK, StreamTypeOK
<1>2. CASE ConnectionLost
  BY <1>t, <1>2 DEF ConnectionLost, AfterException, Some, Candles, KeyTypeOK, StreamTypeOK
<1>3. CASE Receive
  BY <1>t, <1>3 DEF Receive, venueAndKey, KeyTypeOK, StreamTypeOK
<1>4. CASE StoreReturns \/ StoreRaises
  <2>1. StreamTypeOK' /\ routing \in 1 .. MaxCandles /\ UNCHANGED <<closed, elapsed>>
    BY <1>t, <1>4 DEF StoreReturns, StoreRaises, StreamTypeOK
  <2>2. CASE Store(routing)
    BY <1>t, <2>1, <2>2, StoreType
  <2>3. CASE missed' = missed \cup {routing} /\ UNCHANGED <<key, unseen>>
    BY <1>t, <2>1, <2>3 DEF KeyTypeOK, Candles
  <2> QED
    BY <1>4, <2>1, <2>2, <2>3 DEF StoreReturns, StoreRaises
<1>5. CASE MarketEnds
  <2>1. StreamTypeOK' /\ UNCHANGED <<closed, elapsed>>
    BY <1>t, <1>5 DEF MarketEnds, StreamTypeOK
  <2>2. CASE routing # 0 /\ Store(routing)
    BY <1>t, <2>1, <2>2, StoreType DEF StreamTypeOK
  <2>3. CASE missed' = missed \cup Some({wire, routing}) /\ UNCHANGED <<key, unseen>>
    BY <1>t, <2>1, <2>3 DEF KeyTypeOK, StreamTypeOK, Some, Candles
  <2> QED
    BY <1>5, <2>1, <2>2, <2>3 DEF MarketEnds
<1> QED
  BY <1>1, <1>2, <1>3, <1>4, <1>5 DEF StreamStep

LEMMA BotType ==
  ASSUME IInv, BotStep
  PROVE  KeyTypeOK' /\ BotTypeOK'
<1> USE CandlesAssumption, LivesAssumption
<1>t. KeyTypeOK /\ BotTypeOK /\ LoopShape
  BY DEF IInv, TypeOK
<1> USE DEF venueAndKey, loop, table
<1>v. /\ life \in 0 .. MaxLives /\ reply \in 0 .. MaxCandles /\ run \in 0 .. MaxLives
      /\ runs \subseteq Lives /\ finished \subseteq Lives /\ unclean \subseteq Lives
      /\ missed \subseteq Candles /\ log \in Seq([life : Lives, candle : Candles])
      /\ late \in Nat
  BY <1>t DEF KeyTypeOK, BotTypeOK
<1>l. (bot # "down" => life \in Lives) /\ (run # 0 => run \in Lives)
      /\ (reply # 0 => reply \in Candles)
  BY <1>t, <1>v DEF LoopShape, Lives, Candles
<1>1. ASSUME BotStarts PROVE KeyTypeOK' /\ BotTypeOK'
  <2>1. life' \in Lives /\ life' \in 0 .. MaxLives
    BY <1>1, <1>t DEF BotStarts, BotTypeOK, Lives
  <2>2. run' \in 0 .. MaxLives /\ runs' \subseteq Lives /\ unclean' \subseteq Lives
    <3>1. CASE RunRecorded
      BY <1>v, <2>1, <3>1 DEF RunRecorded
    <3>2. CASE RunNotRecorded
      <4>1. run' = 0 /\ runs' \in {runs, runs \cup {life'}}
            /\ unclean' = unclean \cup {life'}
        BY <3>2 DEF RunNotRecorded
      <4> QED
        BY <1>v, <2>1, <4>1
    <3> QED
      BY <1>1, <3>1, <3>2 DEF BotStarts
  <2>3. KeyTypeOK'
    BY <1>1, <1>t DEF BotStarts, KeyTypeOK
  <2>4. bot' = "starting" /\ lastT' = 0 /\ late' = 0
        /\ UNCHANGED <<poll, reply, thread, finished, log>>
    BY <1>1 DEF BotStarts
  <2> QED
    BY <1>t, <2>1, <2>2, <2>3, <2>4 DEF BotTypeOK
<1>2. ASSUME Look \/ LookFails \/ Wake PROVE KeyTypeOK' /\ BotTypeOK'
  BY <1>2, <1>t DEF Look, LookFails, Wake, KeyTypeOK, BotTypeOK
<1>3. ASSUME React PROVE KeyTypeOK' /\ BotTypeOK'
  <2>1. CASE IsNew(reply)
    <3>1. life \in Lives /\ reply \in Candles
      BY <1>3, <1>t, <1>l, <2>1 DEF React, IsNew, LoopShape
    <3>2. log' \in Seq([life : Lives, candle : Candles])
      <4>1. log' = Append(log, [life |-> life, candle |-> reply])
        BY <1>3, <2>1 DEF React
      <4>2. [life |-> life, candle |-> reply] \in [life : Lives, candle : Candles]
        BY <3>1
      <4> QED
        BY <1>v, <4>1, <4>2
    <3> QED
      BY <1>3, <1>t, <2>1, <3>2 DEF React, KeyTypeOK, BotTypeOK
  <2>2. CASE ~IsNew(reply)
    BY <1>3, <1>t, <2>2 DEF React, KeyTypeOK, BotTypeOK
  <2> QED
    BY <2>1, <2>2
<1>4. ASSUME CallStarts \/ CallEnds \/ HandlerEnds PROVE KeyTypeOK' /\ BotTypeOK'
  <2>1. late' \in {late, late + 1} /\ poll' \in {poll, "handle", "rest"}
    BY <1>4 DEF CallStarts, CallEnds, HandlerEnds
  <2>3. thread' \in BOOLEAN
    BY <1>4, <1>t DEF CallStarts, CallEnds, HandlerEnds, BotTypeOK
  <2>4. late' \in Nat
    BY <1>v, <2>1
  <2>2. UNCHANGED <<bot, life, reply, lastT, log, table, venueAndKey>>
    BY <1>4 DEF CallStarts, CallEnds, HandlerEnds
  <2> QED
    BY <1>t, <2>1, <2>2, <2>3, <2>4 DEF KeyTypeOK, BotTypeOK
<1>5. ASSUME Interrupt \/ Kill PROVE KeyTypeOK' /\ BotTypeOK'
  <2>1. missed' \subseteq Candles
    BY <1>5, <1>v, <1>l DEF Interrupt, Kill, DropReply, Unhandled
  <2>2. unclean' \subseteq Lives
    BY <1>5, <1>v, <1>l DEF Interrupt, Kill
  <2>3. KeyTypeOK'
    BY <1>5, <1>t, <2>1 DEF Interrupt, Kill, KeyTypeOK
  <2>4. bot' \in {"closing", "down"} /\ poll' = "off" /\ reply' = 0
        /\ thread' \in {thread, FALSE} /\ run' \in {run, 0}
        /\ UNCHANGED <<life, lastT, log, runs, finished, late>>
    BY <1>5 DEF Interrupt, Kill, AfterCancel
  <2>5. thread' \in BOOLEAN
    BY <1>t, <2>4 DEF BotTypeOK
  <2>6. run' \in 0 .. MaxLives
    BY <1>v, <2>4
  <2> QED
    BY <1>t, <2>2, <2>3, <2>4, <2>5, <2>6 DEF BotTypeOK
<1>6. ASSUME FinishRun PROVE KeyTypeOK' /\ BotTypeOK'
  <2>1. finished' \subseteq Lives /\ unclean' \subseteq Lives
    BY <1>6, <1>v, <1>l DEF FinishRun, FinishedRows, Some
  <2>2. KeyTypeOK'
    BY <1>6, <1>t DEF FinishRun, KeyTypeOK
  <2> QED
    BY <1>6, <1>t, <2>1, <2>2 DEF FinishRun, BotTypeOK
<1>7. ASSUME Exit \/ Assembled PROVE KeyTypeOK' /\ BotTypeOK'
  BY <1>7, <1>t DEF Exit, Assembled, KeyTypeOK, BotTypeOK
<1>8. ASSUME AssemblyFails PROVE KeyTypeOK' /\ BotTypeOK'
  <2>1. unclean' \subseteq Lives
    BY <1>8, <1>v, <1>l DEF AssemblyFails
  <2> QED
    BY <1>8, <1>t, <2>1 DEF AssemblyFails, KeyTypeOK, BotTypeOK
<1> QED
  BY <1>1, <1>2, <1>3, <1>4, <1>5, <1>6, <1>7, <1>8 DEF BotStep

(* What a tick does, action by action.                                     *)
LEMMA TickType ==
  ASSUME IInv, Tick
  PROVE  KeyTypeOK' /\ StreamTypeOK'
<1> USE CandlesAssumption
<1>t. KeyTypeOK /\ StreamTypeOK /\ KeyShape
  BY DEF IInv, TypeOK
<1>1. closed' \in 0 .. MaxCandles /\ elapsed' \in Nat
  BY <1>t DEF Tick, KeyTypeOK
<1>2. key' \in [candle : 0 .. MaxCandles, left : Nat]
  <2>1. NoKey \in [candle : 0 .. MaxCandles, left : Nat]
    BY DEF NoKey
  <2>2. CASE key.left > 1
    <3>1. key' = [key EXCEPT !.left = key.left - 1] /\ key.left - 1 \in Nat
      BY <1>t, <2>2 DEF Tick, Aged, KeyTypeOK
    <3> QED
      BY <1>t, <3>1 DEF KeyTypeOK
  <2> QED
    BY <2>1, <2>2 DEF Tick, Aged
<1>3. unseen' \in BOOLEAN
  BY DEF Tick
<1>4. missed' \subseteq Candles
  <2>1. missed \subseteq Candles /\ (key.left = 1 => key.candle \in Candles)
    BY <1>t DEF KeyTypeOK, KeyShape, Candles
  <2>2. elapsed + 1 = Period => closed' \in Candles
    BY <1>t DEF Tick, KeyTypeOK, Candles
  <2> QED
    BY <2>1, <2>2 DEF Tick
<1>5. StreamTypeOK'
  <2>1. wire' \in {closed', wire} /\ UNCHANGED <<market, ws, routing>>
    BY DEF Tick
  <2> QED
    BY <1>1, <1>t, <2>1 DEF StreamTypeOK
<1> QED
  BY <1>1, <1>2, <1>3, <1>4, <1>5 DEF KeyTypeOK

LEMMA StepType == ASSUME IInv, [Next]_vars PROVE TypeOK'
<1>1. CASE StreamStep /\ UNCHANGED botVars
  BY <1>1, StreamType DEF IInv, TypeOK, BotTypeOK, botVars, loop, table
<1>2. CASE BotStep /\ UNCHANGED stream
  BY <1>2, BotType DEF IInv, TypeOK, StreamTypeOK, stream
<1>3. CASE Tick
  <2>1. UNCHANGED botVars
    BY <1>3 DEF Tick
  <2> QED
    BY <1>3, <2>1, TickType DEF IInv, TypeOK, BotTypeOK, botVars, loop, table
<1>4. CASE UNCHANGED vars
  BY <1>4 DEF IInv, TypeOK, KeyTypeOK, StreamTypeOK, BotTypeOK, vars, venueAndKey, stream,
    botVars, loop, table
<1> QED
  BY <1>1, <1>2, <1>3, <1>4 DEF Next

-----------------------------------------------------------------------------
(* What the steps do to candles.                                           *)

(* A step of the stream stores what it was routing, or leaves the key      *)
(* alone; what it gives up on has been missed.                             *)
LEMMA StreamEffect ==
  ASSUME InFlight, StreamStep
  PROVE  /\ UNCHANGED <<closed, elapsed>>
         /\ wire' \in {wire, 0} /\ routing' \in {routing, wire, 0}
         /\ routing' # 0 => wire' = 0
         /\ missed \subseteq missed'
         /\ UNCHANGED <<key, unseen>> \/ (routing # 0 /\ Store(routing))
         /\ Some({wire, routing}) \subseteq missed' \cup {wire', routing', key'.candle}
<1> USE DEF Some, InFlight
<1>1. CASE MarketStarts \/ Reconnect
  BY <1>1 DEF MarketStarts, Reconnect, Connected, ConnectFails, BackoffEnds, venueAndKey
<1>2. CASE ConnectionLost
  BY <1>2 DEF ConnectionLost
<1>3. CASE Receive
  BY <1>3 DEF Receive, venueAndKey
<1>4. CASE StoreReturns \/ StoreRaises
  <2>1. UNCHANGED <<closed, elapsed>> /\ wire' = wire /\ routing' = 0 /\ routing # 0
    BY <1>4 DEF StoreReturns, StoreRaises
  <2>2. CASE Store(routing)
    BY <2>1, <2>2 DEF Store, Stored
  <2>3. CASE missed' = missed \cup {routing} /\ UNCHANGED <<key, unseen>>
    BY <2>1, <2>3
  <2> QED
    BY <1>4, <2>2, <2>3 DEF StoreReturns, StoreRaises
<1>5. CASE MarketEnds
  <2>1. UNCHANGED <<closed, elapsed>> /\ wire' = 0 /\ routing' = 0
        /\ missed \subseteq missed'
    BY <1>5 DEF MarketEnds, Store
  <2>2. CASE routing # 0 /\ Store(routing)
    BY <2>1, <2>2 DEF Store, Stored
  <2>3. CASE missed' = missed \cup Some({wire, routing}) /\ UNCHANGED <<key, unseen>>
    BY <2>1, <2>3
  <2> QED
    BY <1>5, <2>2, <2>3 DEF MarketEnds
<1> QED
  BY <1>1, <1>2, <1>3, <1>4, <1>5 DEF StreamStep

(* A step of the bot looks at the key, handles a new reply, forgets a      *)
(* reply that is not new or is given up on, or does none of this.          *)
Starts == lastT' = 0 /\ life' = life + 1 /\ UNCHANGED <<reply, log, unseen, missed>>

Looks ==
    /\ reply' = key.candle /\ ~unseen'
    /\ UNCHANGED <<life, lastT, log, missed>>

Handles ==
    /\ IsNew(reply) /\ lastT' = reply /\ reply' = 0
    /\ log' = Append(log, [life |-> life, candle |-> reply])
    /\ UNCHANGED <<life, unseen, missed>>

Forgets ==
    /\ reply' = 0 /\ missed \subseteq missed'
    /\ reply \in missed' \cup {0, lastT}
    /\ UNCHANGED <<life, lastT, log, unseen>>

Idles == UNCHANGED <<life, reply, lastT, log, unseen, missed>>

LEMMA BotEffect ==
  ASSUME BotStep
  PROVE  /\ UNCHANGED <<closed, elapsed, key>>
         /\ \/ Starts
            \/ poll = "look" /\ Looks
            \/ Handles \/ Forgets \/ Idles
<1> USE DEF venueAndKey, loop
<1>1. CASE BotStarts
  BY <1>1 DEF BotStarts, Starts
<1>2. CASE Look
  BY <1>2 DEF Look, Looks
<1>3. CASE React
  <2>1. CASE IsNew(reply)
    BY <1>3, <2>1 DEF React, Handles
  <2>2. CASE ~IsNew(reply)
    BY <1>3, <2>2 DEF React, Forgets, IsNew
  <2> QED
    BY <2>1, <2>2
<1>4. CASE Interrupt \/ Kill
  BY <1>4 DEF Interrupt, Kill, DropReply, Unhandled, Forgets
<1>5. CASE \/ Assembled \/ AssemblyFails \/ LookFails \/ Wake
            \/ CallStarts \/ HandlerEnds \/ CallEnds \/ FinishRun \/ Exit
  BY <1>5 DEF Assembled, AssemblyFails, LookFails, Wake, CallStarts, HandlerEnds, CallEnds,
              FinishRun, Exit, Idles
<1> QED
  BY <1>1, <1>2, <1>3, <1>4, <1>5 DEF BotStep

(* A tick either ages the key or lets it expire, and lets a candle close   *)
(* only when none is under way.                                            *)
Passes ==
    /\ elapsed' = elapsed + 1 /\ UNCHANGED <<closed, wire>>
    /\ wire # 0 \/ routing # 0 => elapsed' <= Lag

Closes ==
    /\ wire = 0 /\ routing = 0
    /\ elapsed + 1 = Period /\ elapsed' = 0 /\ closed' = closed + 1
    /\ wire' \in {0, closed'} /\ closed' \in missed' \cup {wire'}

KeyAges ==
    /\ key.left > 1 /\ key' = [key EXCEPT !.left = key.left - 1]
    /\ unseen' = unseen

KeyEmpties ==
    /\ key.left <= 1 /\ key' = NoKey
    /\ ~unseen' /\ (unseen => key.candle \in missed')

LEMMA TickEffect ==
  ASSUME TypeOK, InFlight, KeyShape, Tick
  PROVE  /\ UNCHANGED <<routing, botVars>> /\ missed \subseteq missed'
         /\ Passes \/ Closes
         /\ KeyAges \/ KeyEmpties
<1> USE PeriodAssumption, LagAssumption
<1>t. closed \in Nat /\ elapsed \in Nat /\ key.left \in Nat /\ key.candle \in Nat
  BY CandlesAssumption DEF TypeOK, KeyTypeOK
<1>1. UNCHANGED <<routing, botVars>> /\ missed \subseteq missed' /\ key' = Aged(key)
  BY DEF Tick
<1>2. ASSUME elapsed + 1 # Period PROVE Passes
  <2>1. elapsed' = elapsed + 1 /\ UNCHANGED <<closed, wire>>
    BY <1>2 DEF Tick
  <2>2. wire # 0 \/ routing # 0 => elapsed < Lag
    BY DEF Tick, Prompt
  <2> QED
    BY <1>t, <2>1, <2>2 DEF Passes
<1>3. ASSUME elapsed + 1 = Period PROVE Closes
  <2>1. wire = 0 /\ routing = 0
    BY <1>t, <1>3 DEF Tick, Prompt
  <2>2. elapsed' = 0 /\ closed' = closed + 1 /\ closed' # 0
    BY <1>t, <1>3 DEF Tick
  <2>3. CASE ws = "open"
    <3>1. wire' = closed'
      BY <1>3, <2>3 DEF Tick
    <3> QED
      BY <1>3, <2>1, <2>2, <3>1 DEF Closes
  <2>4. CASE ws # "open"
    <3>1. wire' = wire /\ closed' \in missed'
      BY <1>3, <2>4 DEF Tick
    <3> QED
      BY <1>3, <2>1, <2>2, <3>1 DEF Closes
  <2> QED
    BY <2>3, <2>4
<1>4. ASSUME key.left > 1 PROVE KeyAges
  <2>1. key' = [key EXCEPT !.left = key.left - 1]
    BY <1>1, <1>4 DEF Aged
  <2>2. key.left # 1
    BY <1>t, <1>4
  <2>3. unseen' = unseen
    BY <2>2 DEF Tick, TypeOK, KeyTypeOK
  <2> QED
    BY <1>4, <2>1, <2>3 DEF KeyAges
<1>5. ASSUME key.left = 1 PROVE KeyEmpties
  <2>1. key' = NoKey
    BY <1>1, <1>5 DEF Aged
  <2>2. ~unseen'
    BY <1>5 DEF Tick
  <2>3. unseen => BotUnavailable
    BY DEF Tick, Prompt, BotUnavailable, TypeOK, BotTypeOK
  <2>4. unseen => key.candle \in missed'
    BY <1>5, <2>3 DEF Tick
  <2> QED
    BY <1>5, <2>1, <2>2, <2>4 DEF KeyEmpties
<1>6. ASSUME key.left = 0 PROVE KeyEmpties
  <2>1. key' = NoKey
    BY <1>1, <1>6 DEF Aged
  <2>2. ~unseen
    BY <1>6 DEF KeyShape
  <2>3. ~unseen'
    BY <2>2 DEF Tick
  <2> QED
    BY <1>6, <2>1, <2>2, <2>3 DEF KeyEmpties
<1>7. key.left > 1 \/ key.left = 1 \/ key.left = 0
  BY <1>t
<1> QED
  BY <1>1, <1>2, <1>3, <1>4, <1>5, <1>6, <1>7

-----------------------------------------------------------------------------
(* Shapes.                                                                 *)

LEMMA StepFlight == ASSUME IInv, [Next]_vars PROVE InFlight' /\ KeyShape'
<1> USE TtlAssumption, LagAssumption
<1>t. InFlight /\ KeyShape /\ TypeOK
  BY DEF IInv
<1>n. closed \in Nat /\ elapsed \in Nat /\ key.left \in Nat /\ key.candle \in Nat
  BY <1>t, CandlesAssumption DEF TypeOK, KeyTypeOK
<1>1. CASE StreamStep /\ UNCHANGED botVars
  <2>1. InFlight'
    BY <1>1, <1>t, StreamEffect DEF InFlight
  <2>2. CASE UNCHANGED <<key, unseen>>
    BY <1>1, <1>t, <2>1, <2>2, StreamEffect DEF KeyShape
  <2>3. CASE routing # 0 /\ Store(routing)
    BY <1>1, <1>t, <1>n, <2>1, <2>3, StreamEffect DEF InFlight, KeyShape, Store, Stored
  <2> QED
    BY <1>1, <1>t, <2>1, <2>2, <2>3, StreamEffect
<1>2. CASE BotStep /\ UNCHANGED stream
  <2>1. unseen' => unseen
    BY <1>2, BotEffect DEF Starts, Looks, Handles, Forgets, Idles
  <2> QED
    BY <1>2, <1>t, <2>1, BotEffect DEF InFlight, KeyShape, stream
<1>3. CASE Tick
  <2>1. InFlight'
    BY <1>3, <1>t, <1>n, TickEffect DEF InFlight, Passes, Closes
  <2>2. closed' >= closed /\ closed' \in Nat
    BY <1>3, <1>t, <1>n, TickEffect DEF Passes, Closes
  <2>3. CASE KeyAges
    <3>1. key'.candle = key.candle /\ key'.left # 0 /\ key.left # 0 /\ unseen' = unseen
      BY <1>t, <1>n, <2>3 DEF KeyAges, TypeOK, KeyTypeOK
    <3> QED
      BY <1>t, <1>n, <2>1, <2>2, <3>1 DEF KeyShape
  <2>4. CASE KeyEmpties
    BY <2>1, <2>2, <2>4 DEF KeyEmpties, KeyShape, NoKey
  <2> QED
    BY <1>3, <1>t, <2>3, <2>4, TickEffect
<1>4. CASE UNCHANGED vars
  BY <1>4, <1>t DEF InFlight, KeyShape, vars, venueAndKey, stream
<1> QED
  BY <1>1, <1>2, <1>3, <1>4 DEF Next

LEMMA StepLoop == ASSUME IInv, [Next]_vars PROVE LoopShape'
<1>t. LoopShape /\ bot \in {"down", "starting", "up", "closing", "closed"} /\ life \in Nat
      /\ poll \in {"off", "look", "got", "rest", "erred", "handle"}
  BY LivesAssumption DEF IInv, TypeOK, BotTypeOK
<1> USE DEF loop
<1>1. CASE BotStarts \/ Assembled \/ AssemblyFails
  BY <1>t, <1>1 DEF BotStarts, Assembled, AssemblyFails, LoopShape
<1>2. CASE Look \/ LookFails \/ React \/ Wake
  BY <1>t, <1>2 DEF Look, LookFails, React, Wake, LoopShape
<1>3. CASE CallStarts \/ CallEnds \/ HandlerEnds
  BY <1>t, <1>3 DEF CallStarts, CallEnds, HandlerEnds, LoopShape
<1>4. CASE Interrupt \/ Kill
  BY <1>t, <1>4 DEF Interrupt, Kill, AfterCancel, LoopShape
<1>5. CASE FinishRun \/ Exit
  BY <1>t, <1>5 DEF FinishRun, Exit, LoopShape
<1>6. CASE UNCHANGED botVars
  BY <1>t, <1>6 DEF botVars, LoopShape
<1>7. CASE Tick
  BY <1>6, <1>7 DEF Tick
<1> QED
  BY <1>1, <1>2, <1>3, <1>4, <1>5, <1>6, <1>7 DEF Next, BotStep, vars

-----------------------------------------------------------------------------
(* The run.                                                                *)

LEMMA StepRun == ASSUME IInv, [Next]_vars PROVE RunShape' /\ StoppedIsFinished'
<1>t. RunShape /\ StoppedIsFinished /\ LoopShape /\ life \in Nat /\ run \in Nat
      /\ bot \in {"down", "starting", "up", "closing", "closed"} /\ thread \in BOOLEAN
  BY LivesAssumption DEF IInv, TypeOK, BotTypeOK
<1>n. /\ \A r \in runs \cup finished : r \in Nat
      /\ runs \subseteq finished \cup unclean \cup (IF bot # "down" THEN {life} ELSE {})
  BY <1>t DEF IInv, TypeOK, BotTypeOK, Lives, StoppedIsFinished
<1> USE DEF loop, table
<1>1. CASE BotStarts
  <2>1. bot = "down" /\ bot' = "starting" /\ life' = life + 1 /\ late' = 0
        /\ UNCHANGED <<thread, finished>>
    BY <1>1 DEF BotStarts
  <2>2. /\ runs' \subseteq runs \cup {life'} /\ unclean \subseteq unclean'
        /\ run' = life' \/ (run' = 0 /\ life' \in unclean')
    BY <1>1 DEF BotStarts, RunRecorded, RunNotRecorded
  <2>3. RunShape'
    BY <1>t, <1>n, <2>1, <2>2 DEF RunShape
  <2>4. StoppedIsFinished'
    BY <1>n, <2>1, <2>2 DEF StoppedIsFinished
  <2> QED
    BY <2>3, <2>4
<1>2. CASE UNCHANGED <<bot, life, thread, table, late>>
  BY <1>t, <1>2 DEF RunShape, StoppedIsFinished
<1>3. CASE CallStarts
  BY <1>t, <1>3 DEF CallStarts, RunShape, LoopShape, StoppedIsFinished
<1>4. CASE CallEnds
  <2>1. thread /\ ~thread' /\ UNCHANGED <<bot, life, table>>
    BY <1>4 DEF CallEnds
  <2>2. late' = late \/ (run # 0 /\ run \in finished /\ late' = late + 1)
    BY <1>4 DEF CallEnds
  <2>3. late = 0
    BY <1>t, <2>1 DEF RunShape
  <2> QED
    BY <1>t, <2>1, <2>2, <2>3 DEF RunShape, StoppedIsFinished
<1>5. CASE Interrupt
  BY <1>t, <1>5 DEF Interrupt, RunShape, StoppedIsFinished
<1>6. CASE FinishRun
  <2>1. /\ bot = "closing" /\ bot' = "closed"
        /\ UNCHANGED <<life, thread, run, runs, late>>
        /\ \/ finished' = finished \cup Some({run}) /\ UNCHANGED unclean
           \/ unclean' = unclean \cup {life} /\ UNCHANGED finished
    BY <1>6 DEF FinishRun, FinishedRows
  <2>2. life # 0 /\ (run = life \/ (run = 0 /\ life \in unclean)) /\ late = 0
    BY <1>t, <2>1 DEF RunShape, LoopShape
  <2>3. finished' \subseteq finished \cup {life} /\ life \in finished' \cup unclean'
        /\ finished \subseteq finished' /\ unclean \subseteq unclean'
    BY <2>1, <2>2 DEF Some
  <2>4. \A r \in runs' \cup finished' : r <= life'
    <3>1. \A r \in runs \cup finished : r <= life
      BY <1>t DEF RunShape
    <3>2. runs' \cup finished' \subseteq (runs \cup finished) \cup {life} /\ life' = life
      BY <2>1, <2>3
    <3>3. life <= life
      BY <1>t
    <3> QED
      BY <3>1, <3>2, <3>3
  <2>6. RunShape'
    BY <1>t, <2>1, <2>2, <2>3, <2>4 DEF RunShape
  <2>5. StoppedIsFinished'
    BY <1>n, <2>1, <2>3 DEF StoppedIsFinished
  <2> QED
    BY <2>5, <2>6
<1>7. CASE Exit
  BY <1>t, <1>n, <1>7 DEF Exit, RunShape, StoppedIsFinished
<1>8. CASE Kill
  <2>1. /\ bot # "down" /\ bot' = "down" /\ run' = 0 /\ ~thread'
        /\ unclean' = unclean \cup {life} /\ UNCHANGED <<life, runs, finished, late>>
    BY <1>8 DEF Kill
  <2> QED
    BY <1>t, <1>n, <2>1 DEF RunShape, StoppedIsFinished
<1>9. CASE Look \/ LookFails \/ React \/ Wake \/ HandlerEnds
  BY <1>2, <1>9 DEF Look, LookFails, React, Wake, HandlerEnds
<1>10. CASE UNCHANGED botVars
  BY <1>2, <1>10 DEF botVars
<1>11. CASE Tick
  BY <1>10, <1>11 DEF Tick
<1>12. CASE Assembled
  BY <1>t, <1>12 DEF Assembled, RunShape, StoppedIsFinished
<1>13. CASE AssemblyFails
  <2>1. /\ bot = "starting" /\ bot' = "down" /\ run' = 0
        /\ unclean' = unclean \cup {life} /\ UNCHANGED <<life, thread, runs, finished, late>>
    BY <1>13 DEF AssemblyFails
  <2> QED
    BY <1>t, <1>n, <2>1 DEF RunShape, StoppedIsFinished
<1> QED
  BY <1>1, <1>3, <1>4, <1>5, <1>6, <1>7, <1>8, <1>9, <1>10, <1>11, <1>12, <1>13
  DEF Next, BotStep, vars

-----------------------------------------------------------------------------
(* The order of the candles handled.                                       *)

LEMMA HandledGrows ==
  ASSUME TypeOK, Handles
  PROVE  /\ DOMAIN log' = DOMAIN log \cup {Len(log) + 1}
         /\ Len(log) + 1 \notin DOMAIN log
         /\ \A i \in DOMAIN log : i < Len(log) + 1
         /\ \A i \in DOMAIN log : log'[i] = log[i]
         /\ log'[Len(log) + 1] = [life |-> life, candle |-> reply]
         /\ Handled' = Handled \cup {reply}
<1>1. log \in Seq([life : Lives, candle : Candles])
  BY DEF TypeOK, BotTypeOK
<1>2. Len(log) \in Nat /\ DOMAIN log = 1 .. Len(log)
  BY <1>1
<1>3. log' = Append(log, [life |-> life, candle |-> reply])
  BY DEF Handles
<1>4. DOMAIN log' = 1 .. (Len(log) + 1)
  BY <1>1, <1>3
<1>5. \A i \in DOMAIN log : log'[i] = log[i]
  BY <1>1, <1>2, <1>3
<1>6. log'[Len(log) + 1] = [life |-> life, candle |-> reply]
  BY <1>1, <1>3
<1>7. DOMAIN log' = DOMAIN log \cup {Len(log) + 1}
  BY <1>2, <1>4
<1>8. Handled' = Handled \cup {reply}
  BY <1>5, <1>6, <1>7 DEF Handled
<1> QED
  BY <1>2, <1>5, <1>6, <1>7, <1>8

LEMMA StepOrdered == ASSUME IInv, [Next]_vars PROVE Ordered' /\ HandledInOrder'
<1>t. TypeOK /\ InFlight /\ KeyShape /\ LoopShape /\ Ordered /\ HandledInOrder
  BY DEF IInv
<1>n. /\ closed \in Nat /\ key.candle \in Nat /\ reply \in Nat /\ lastT \in Nat
      /\ life \in Nat /\ routing \in Nat
      /\ \A i \in DOMAIN log : log[i].life \in Nat /\ log[i].candle \in Nat \ {0}
  <2>1. log \in Seq([life : Lives, candle : Candles])
    BY <1>t DEF TypeOK, BotTypeOK
  <2>2. \A i \in DOMAIN log : log[i] \in [life : Lives, candle : Candles]
    <3>1. DOMAIN log = 1 .. Len(log)
      BY <2>1
    <3> QED
      BY <2>1, <3>1, ElementOfSeq
  <2> QED
    BY <1>t, <2>2, CandlesAssumption, LivesAssumption
    DEF TypeOK, KeyTypeOK, StreamTypeOK, BotTypeOK, Lives, Candles
<1>i. ASSUME UNCHANGED <<lastT, log, life, reply>>,
             closed' \in Nat, closed' >= closed,
             key'.candle \in {key.candle, 0, closed}
      PROVE  Ordered' /\ HandledInOrder'
  BY <1>t, <1>n, <1>i DEF Ordered, HandledInOrder, Handled
<1>1. CASE StreamStep /\ UNCHANGED botVars
  <2>1. UNCHANGED <<lastT, log, life, reply>>
    BY <1>1 DEF botVars, loop
  <2>2. key' = key \/ (routing # 0 /\ key' = Stored(routing))
    BY <1>1, <1>t, StreamEffect DEF Store
  <2>3. key'.candle \in {key.candle, closed}
    BY <1>t, <2>2 DEF InFlight, Stored
  <2> QED
    BY <1>1, <1>t, <1>n, <1>i, <2>1, <2>3, StreamEffect
<1>2. CASE BotStep /\ UNCHANGED stream
  <2>e. UNCHANGED <<closed, elapsed, key>>
    BY <1>2, BotEffect
  <2>1. CASE Starts
    BY <1>t, <1>n, <2>e, <2>1 DEF Starts, Ordered, HandledInOrder, Handled
  <2>2. CASE poll = "look" /\ Looks
    BY <1>t, <1>n, <2>e, <2>2 DEF Looks, Ordered, HandledInOrder, Handled, KeyShape
  <2>3. CASE Handles
    <3>1. reply # 0 /\ reply # lastT /\ lastT' = reply /\ reply' = 0 /\ life' = life
      BY <1>n, <2>3 DEF Handles, IsNew
    <3>2. \A i \in DOMAIN log : log[i].candle <= reply /\ log[i].life <= life
      BY <1>t, <3>1 DEF Ordered
    <3>3. lastT <= reply
      BY <1>t, <1>n, <3>2 DEF Ordered, Handled
    <3>4. \A i \in DOMAIN log : log[i].life = life => log[i].candle < reply
      BY <1>t, <1>n, <3>1, <3>3 DEF Ordered
    <3>5. reply \in Handled'
      BY <1>t, <2>3, HandledGrows
    <3>6. Ordered'
      BY <1>t, <1>n, <2>e, <2>3, <3>1, <3>2, <3>5, HandledGrows DEF Ordered
    <3>7. HandledInOrder'
      BY <1>t, <1>n, <2>3, <3>2, <3>4, HandledGrows DEF HandledInOrder
    <3> QED
      BY <3>6, <3>7
  <2>4. CASE Forgets
    BY <1>t, <1>n, <2>e, <2>4 DEF Forgets, Ordered, HandledInOrder, Handled
  <2>5. CASE Idles
    BY <1>n, <1>i, <2>e, <2>5 DEF Idles
  <2> QED
    BY <1>2, <2>1, <2>2, <2>3, <2>4, <2>5, BotEffect
<1>3. CASE Tick
  <2>1. UNCHANGED <<lastT, log, life, reply>>
    BY <1>3 DEF Tick, botVars, loop
  <2>2. closed' \in Nat /\ closed' >= closed
    BY <1>3, <1>t, <1>n, TickEffect DEF Passes, Closes
  <2>3. key'.candle \in {key.candle, 0}
    <3>1. CASE KeyAges
      BY <1>t, <3>1 DEF KeyAges, TypeOK, KeyTypeOK
    <3>2. CASE KeyEmpties
      BY <3>2 DEF KeyEmpties, NoKey
    <3> QED
      BY <1>3, <1>t, <3>1, <3>2, TickEffect
  <2> QED
    BY <1>i, <2>1, <2>2, <2>3
<1>4. CASE UNCHANGED vars
  BY <1>4, <1>n, <1>i DEF vars, venueAndKey, botVars, loop
<1> QED
  BY <1>1, <1>2, <1>3, <1>4 DEF Next

-----------------------------------------------------------------------------
(* No candle disappears.                                                   *)

LEMMA StepAccounted == ASSUME IInv, [Next]_vars PROVE SeenIsSafe' /\ CandlesAccountedFor'
<1>t. TypeOK /\ InFlight /\ KeyShape /\ LoopShape /\ Ordered
  BY DEF IInv
<1>s. ~unseen /\ key.candle # 0 => key.candle \in Handled \cup missed \cup {reply}
  BY DEF IInv, SeenIsSafe
<1>c. \A c \in 1 .. closed : c \in Handled \cup missed \/ c \in {wire, routing, key.candle, reply}
  BY DEF IInv, CandlesAccountedFor, Some
<1>n. closed \in Nat /\ reply \in Nat
  BY <1>t, CandlesAssumption DEF TypeOK, KeyTypeOK, BotTypeOK
<1> SUFFICES /\ SeenIsSafe'
             /\ \A c \in 1 .. closed' : c \in Handled' \cup missed'
                                    \/ c \in {wire', routing', key'.candle, reply'}
  BY <1>n DEF CandlesAccountedFor, Some
<1>1. CASE StreamStep /\ UNCHANGED botVars
  <2>1. UNCHANGED <<closed, reply>> /\ Handled' = Handled /\ missed \subseteq missed'
    BY <1>1, <1>t, StreamEffect DEF botVars, loop, Handled
  <2>2. \A c \in 1 .. closed : c \in {wire, routing} =>
          c \in missed' \/ c \in {wire', routing', key'.candle}
    BY <1>1, <1>t, <1>n, StreamEffect DEF Some
  <2>3. CASE UNCHANGED <<key, unseen>>
    BY <1>s, <1>c, <2>1, <2>2, <2>3 DEF SeenIsSafe
  <2>4. CASE routing # 0 /\ Store(routing)
    <3>1. unseen' /\ (unseen => key.candle \in missed')
      BY <2>4 DEF Store
    <3>2. key.candle # 0 => key.candle \in Handled' \cup missed' \cup {reply'}
      BY <1>s, <2>1, <3>1
    <3> QED
      BY <1>c, <2>1, <2>2, <3>1, <3>2 DEF SeenIsSafe
  <2> QED
    BY <1>1, <1>t, <2>3, <2>4, StreamEffect
<1>2. CASE BotStep /\ UNCHANGED stream
  <2>e. UNCHANGED <<closed, key, wire, routing>>
    BY <1>2, BotEffect DEF stream
  <2>1. CASE Starts \/ Idles
    <3>1. UNCHANGED <<reply, unseen, missed>> /\ Handled' = Handled
      BY <2>1 DEF Starts, Idles, Handled
    <3> QED
      BY <1>s, <1>c, <2>e, <3>1 DEF SeenIsSafe
  <2>2. CASE poll = "look" /\ Looks
    <3>1. reply = 0 /\ reply' = key.candle /\ missed' = missed /\ Handled' = Handled
      BY <1>t, <2>2 DEF Looks, LoopShape, Handled
    <3> QED
      BY <1>c, <1>n, <2>e, <3>1 DEF SeenIsSafe
  <2>3. CASE Handles \/ Forgets
    <3>1. CASE Handles
      <4>1. Handled' = Handled \cup {reply} /\ missed' = missed /\ unseen' = unseen
        BY <1>t, <3>1, HandledGrows DEF Handles
      <4> QED
        BY <1>s, <1>c, <2>e, <4>1 DEF SeenIsSafe
    <3>2. CASE Forgets
      <4>1. Handled' = Handled /\ missed \subseteq missed' /\ unseen' = unseen
            /\ (reply # 0 => reply \in Handled' \cup missed')
        BY <1>t, <3>2 DEF Forgets, Handled, Ordered
      <4> QED
        BY <1>s, <1>c, <1>n, <2>e, <4>1 DEF SeenIsSafe
    <3> QED
      BY <2>3, <3>1, <3>2
  <2> QED
    BY <1>2, <2>1, <2>2, <2>3, BotEffect
<1>3. CASE Tick
  <2>1. UNCHANGED <<reply, routing>> /\ Handled' = Handled /\ missed \subseteq missed'
    BY <1>3, <1>t, TickEffect DEF botVars, loop, Handled
  <2>2. \A c \in 1 .. closed' : c \in 1 .. closed \/ c \in missed' \cup {wire'}
    BY <1>3, <1>t, <1>n, TickEffect DEF Passes, Closes
  <2>3. \A c \in 1 .. closed : c = wire => c = wire'
    BY <1>3, <1>t, <1>n, TickEffect DEF Passes, Closes
  <2>4. CASE KeyAges
    <3>1. key'.candle = key.candle /\ unseen' = unseen
      BY <1>t, <2>4 DEF KeyAges, TypeOK, KeyTypeOK
    <3> QED
      BY <1>s, <1>c, <2>1, <2>2, <2>3, <3>1 DEF SeenIsSafe
  <2>5. CASE KeyEmpties
    <3>1. key'.candle = 0 /\ (unseen => key.candle \in missed')
      BY <2>5 DEF KeyEmpties, NoKey
    <3>2. key.candle # 0 => key.candle \in Handled' \cup missed' \cup {reply'}
      BY <1>s, <2>1, <3>1
    <3>3. SeenIsSafe'
      BY <3>1 DEF SeenIsSafe
    <3> QED
      BY <1>c, <2>1, <2>2, <2>3, <3>2, <3>3
  <2> QED
    BY <1>3, <1>t, <2>4, <2>5, TickEffect
<1>4. CASE UNCHANGED vars
  <2>1. UNCHANGED <<closed, key, unseen, missed, wire, routing, reply>> /\ Handled' = Handled
    BY <1>4 DEF vars, venueAndKey, stream, botVars, loop, Handled
  <2> QED
    BY <1>s, <1>c, <2>1 DEF SeenIsSafe
<1> QED
  BY <1>1, <1>2, <1>3, <1>4 DEF Next

-----------------------------------------------------------------------------
(* Every reachable state satisfies the inductive invariant.                *)
THEOREM Inductive == Spec => []IInv
<1>1. IInv /\ [Next]_vars => IInv'
  BY StepType, StepFlight, StepLoop, StepOrdered, StepAccounted, StepRun DEF IInv
<1> QED
  BY InitIInv, <1>1, PTL DEF Spec

(* Every variable keeps its shape.                                         *)
THEOREM TypeCorrect == Spec => []TypeOK
<1>1. IInv => TypeOK
  BY DEF IInv
<1> QED
  BY Inductive, <1>1, PTL

(* A process handles every candle at most once and none of them goes back, *)
(* whatever ends, fails or restarts.                                       *)
THEOREM NeverTwice == Spec => []HandledInOrder
<1>1. IInv => HandledInOrder
  BY DEF IInv
<1> QED
  BY Inductive, <1>1, PTL

(* Every closed candle is under way, stored, handled, or was missed for a  *)
(* reason the model names.                                                 *)
THEOREM NothingDisappears == Spec => []CandlesAccountedFor
<1>1. IInv => CandlesAccountedFor
  BY DEF IInv
<1> QED
  BY Inductive, <1>1, PTL

(* After its run is marked finished a process handles nothing, and at most *)
(* one call of it still reaches the venue.                                 *)
THEOREM FinishedIsFinal == Spec => []FinishedHasStopped
<1>1. IInv => FinishedHasStopped
  BY DEF IInv, RunShape, LoopShape, FinishedHasStopped, TypeOK, BotTypeOK
<1> QED
  BY Inductive, <1>1, PTL

(* An unfinished run belongs to a process that is still there, was killed, *)
(* failed between the commit of its row and the wait for its tasks, or     *)
(* whose database failed.                                                  *)
THEOREM OrderlyEnd == Spec => []StoppedIsFinished
<1>1. IInv => StoppedIsFinished
  BY DEF IInv
<1> QED
  BY Inductive, <1>1, PTL

-----------------------------------------------------------------------------
(* Nothing old is acted on when a candle outlives the storage of the one   *)
(* before.                                                                 *)

Fresh ==
    /\ key.candle # 0 => key.candle = closed /\ key.left + elapsed <= Ttl + Lag
    /\ reply # 0 => reply = closed

LEMMA StepFresh ==
  ASSUME Ttl + Lag <= Period, IInv, Fresh, [Next]_vars
  PROVE  Fresh'
<1> USE PeriodAssumption, TtlAssumption, LagAssumption
<1>t. TypeOK /\ InFlight /\ KeyShape /\ LoopShape
  BY DEF IInv
<1>n. closed \in Nat /\ elapsed \in Nat /\ key.left \in Nat /\ key.candle \in Nat
  BY <1>t, CandlesAssumption DEF TypeOK, KeyTypeOK
<1>1. CASE StreamStep /\ UNCHANGED botVars
  <2>1. UNCHANGED <<closed, elapsed, reply>>
    BY <1>1, <1>t, StreamEffect DEF botVars, loop
  <2>2. CASE key' = key
    BY <2>1, <2>2 DEF Fresh
  <2>3. CASE routing # 0 /\ key' = Stored(routing)
    BY <1>t, <1>n, <2>1, <2>3 DEF Fresh, InFlight, Stored
  <2> QED
    BY <1>1, <1>t, <2>2, <2>3, StreamEffect DEF Store
<1>2. CASE BotStep /\ UNCHANGED stream
  <2>1. UNCHANGED <<closed, elapsed, key>> /\ reply' \in {reply, 0, key.candle}
    BY <1>2, BotEffect DEF Starts, Looks, Handles, Forgets, Idles
  <2> QED
    BY <2>1 DEF Fresh
<1>3. CASE Tick
  <2>1. reply = 0 /\ reply' = reply
    BY <1>3, <1>t DEF Tick, Prompt, LoopShape, botVars, loop
  <2>2. CASE KeyEmpties
    BY <2>1, <2>2 DEF Fresh, KeyEmpties, NoKey
  <2>3. CASE KeyAges
    <3>1. key'.candle = key.candle /\ key'.left = key.left - 1 /\ key.left > 1
      BY <1>t, <2>3 DEF KeyAges, TypeOK, KeyTypeOK
    <3>2. CASE Passes
      BY <1>n, <2>1, <3>1, <3>2 DEF Fresh, Passes
    <3>3. CASE Closes
      BY <1>n, <1>t, <2>1, <3>1, <3>3 DEF Fresh, Closes, KeyShape
    <3> QED
      BY <1>3, <1>t, <3>2, <3>3, TickEffect
  <2> QED
    BY <1>3, <1>t, <2>2, <2>3, TickEffect
<1>4. CASE UNCHANGED vars
  BY <1>4 DEF vars, venueAndKey, botVars, loop, Fresh
<1> QED
  BY <1>1, <1>2, <1>3, <1>4 DEF Next

(* The bot acts on the last candle that closed, provided that a candle and *)
(* the delay of its message do not outlive the period.                     *)
THEOREM ActsOnTheLatest == Ttl + Lag <= Period /\ Spec => ActsOnLatest
<1> SUFFICES ASSUME Ttl + Lag <= Period PROVE Spec => ActsOnLatest
  OBVIOUS
<1>1. Init => Fresh
  BY DEF Init, KeyInit, BotInit, NoKey, Fresh
<1>2. IInv /\ Fresh /\ [Next]_vars => Fresh'
  BY StepFresh
<1>3. IInv /\ Fresh /\ [Next]_vars => (log' # log => lastT' = closed)
  <2> SUFFICES ASSUME IInv, Fresh, [Next]_vars, log' # log PROVE lastT' = closed
    OBVIOUS
  <2>1. BotStep
    BY DEF Next, Tick, vars, botVars, loop
  <2>2. Handles
    BY <2>1, BotEffect DEF Starts, Looks, Forgets, Idles
  <2> QED
    BY <2>2 DEF Handles, IsNew, Fresh
<1> QED
  BY <1>1, <1>2, <1>3, Inductive, PTL DEF Spec, ActsOnLatest
=============================================================================
