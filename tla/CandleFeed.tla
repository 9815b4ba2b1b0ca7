----------------------------- MODULE CandleFeed -----------------------------
(***************************************************************************)
(* The market-data process and the bot, joined by the candle key and by    *)
(* time: what becomes of a candle from its close to its handler, while     *)
(* both processes fail and restart independently.                          *)
(***************************************************************************)
EXTENDS MarketStream, EmaRunner

vars == <<venueAndKey, stream, botVars>>

(* Messages do not stay under way, nor an idle bot without polling, for    *)
(* longer than this; everything else takes as long as it likes.            *)
Prompt ==
    /\ wire # 0 \/ routing # 0 => elapsed < Lag
    /\ poll \in {"look", "got", "rest"} => poll = "rest" /\ ~unseen

(* The bot is not there, is busy with a handler, or got no answer.         *)
BotUnavailable == poll \in {"off", "handle", "erred"}

(* A tick passes: the key ages, and every Period ticks a candle closes,    *)
(* which the venue sends to whoever is connected.                          *)
Tick ==
    /\ Prompt
    /\ closed = MaxCandles => elapsed + 1 < Period
    /\ key' = Aged(key)
    /\ LET closes  == elapsed + 1 = Period
           expires == key.left = 1
       IN  /\ closed' = IF closes THEN closed + 1 ELSE closed
           /\ elapsed' = IF closes THEN 0 ELSE elapsed + 1
           /\ wire' = IF closes /\ ws = "open" THEN closed' ELSE wire
           /\ unseen' = (unseen /\ ~expires)
           /\ missed' = missed
                \cup (IF closes /\ ws # "open" THEN {closed'} ELSE {})
                \cup (IF expires /\ unseen /\ BotUnavailable THEN {key.candle} ELSE {})
    /\ UNCHANGED <<market, ws, routing, botVars>>

Init == KeyInit /\ StreamInit /\ BotInit

Next ==
    \/ StreamStep /\ UNCHANGED botVars
    \/ BotStep /\ UNCHANGED stream
    \/ Tick

Spec == Init /\ [][Next]_vars

(* An attempt to connect ends (it has a timeout of twenty seconds), and so *)
(* does a wait.                                                            *)
FairSpec == Spec /\ WF_vars(Reconnect /\ UNCHANGED botVars)

-----------------------------------------------------------------------------
(* Properties.                                                             *)

(* The shape of every variable.                                            *)
TypeOK == KeyTypeOK /\ StreamTypeOK /\ BotTypeOK

(* A process handles a candle at most once, whatever its handler, Redis    *)
(* and the stream do, and no process goes back to an older candle than     *)
(* any before it has handled.                                              *)
HandledInOrder ==
    \A i, j \in DOMAIN log : i < j =>
      /\ log[i].candle <= log[j].candle
      /\ log[i].life = log[j].life => log[i].candle < log[j].candle

Handled == {log[i].candle : i \in DOMAIN log}

(* Every candle that closed is under way, stored, handled, or was kept     *)
(* from the bot by a lost connection, a failed SET, a process that died    *)
(* with it, or a bot that was not polling for as long as it was stored.    *)
CandlesAccountedFor ==
    1 .. closed \subseteq
      Handled \cup missed \cup Some({wire, routing, key.candle, reply})

(* The bot acts on a candle only as long as no newer one has closed: after *)
(* an outage of either process it trades nothing on an old price.          *)
ActsOnLatest == [][log' # log => lastT' = closed]_vars

(* A run that is marked finished has stopped: its process handles nothing  *)
(* more, and at most the one call that was under way still reaches the     *)
(* venue.                                                                  *)
FinishedHasStopped ==
    /\ run # 0 /\ run \in finished => poll = "off"
    /\ late <= 1

(* The other way round, a run is left unfinished only by a process that is *)
(* still there, was killed, failed before the wait for its tasks, or whose *)
(* database failed: however the tasks end, the stop sets finished_at.      *)
StoppedIsFinished ==
    runs \subseteq finished \cup unclean \cup (IF bot # "down" THEN {life} ELSE {})

(* The stream never gives up: without a connection it tries again as long  *)
(* as its process lives.                                                   *)
StreamTriesAgain ==
    market = "up" ~> ws \in {"connecting", "open"} \/ market = "down"
=============================================================================
