----------------------------- MODULE EmaRunner -----------------------------
(***************************************************************************)
(* The process of the bot (runner/ema.py): the run it records when it      *)
(* starts, the rest of its start, which may fail, the loop that polls the  *)
(* candle key, the handler of a new candle and the orderly stop.           *)
(*                                                                         *)
(* The handler is the executor's (module EmaExecutor), here any number of  *)
(* calls to the venue, one at a time.  A call runs in a thread, which a    *)
(* cancellation of the handler does not stop.  PostgreSQL is external.     *)
(***************************************************************************)
EXTENDS CandleKey, Sequences

CONSTANTS
    DbEnabled,     \* cfg.db_enabled and cfg.db_url
    MaxLives       \* bound: processes of the bot that are started

ASSUME DbEnabledAssumption == DbEnabled \in BOOLEAN
ASSUME LivesAssumption     == MaxLives \in Nat

VARIABLES
    bot,       \* main(): "down", "starting", "up", "closing", "closed"
    life,      \* processes started so far; the number of the last one
    poll,      \* candle_poll_loop: where it is
    reply,     \* what the last GET returned, while "got"
    lastT,     \* last_t, 0 for None
    thread,    \* a call of the handler is under way in a thread
    run,       \* run_id, 0 for None
    runs,      \* database: the rows of table runs
    finished,  \* database: those with finished_at
    log,       \* history: the candles handled, with the life that did
    late,      \* history: calls of this life that ended after its run had
    unclean    \* history: lives without an orderly end or without database

loop  == <<poll, reply, lastT, log>>
table == <<run, runs, finished, unclean>>
botVars == <<bot, life, loop, thread, table, late>>

Lives == 1 .. MaxLives

Unhandled(c) == c # 0 /\ c # lastT

(* The reply of a GET is dropped with the loop that waited for it.         *)
DropReply == missed' = missed \cup {c \in {reply} : Unhandled(c)}

BotInit ==
    /\ bot = "down"
    /\ life = 0
    /\ poll = "off"
    /\ reply = 0
    /\ lastT = 0
    /\ thread = FALSE
    /\ run = 0
    /\ runs = {}
    /\ finished = {}
    /\ log = <<>>
    /\ late = 0
    /\ unclean = {}

-----------------------------------------------------------------------------
(* Start: config and run are inserted in one transaction, and only then    *)
(* the tasks, the connections and the strategy are made.                   *)

RunRecorded ==
    /\ DbEnabled
    /\ run' = life'
    /\ runs' = runs \cup {life'}
    /\ UNCHANGED unclean

(* A failure, of the commit too, leaves the bot without persistence.       *)
RunNotRecorded ==
    /\ run' = 0
    /\ \/ UNCHANGED runs
       \/ DbEnabled /\ runs' = runs \cup {life'}
    /\ unclean' = unclean \cup {life'}

BotStarts ==
    /\ bot = "down" /\ life < MaxLives
    /\ bot' = "starting"
    /\ life' = life + 1
    /\ RunRecorded \/ RunNotRecorded
    /\ lastT' = 0
    /\ late' = 0
    /\ UNCHANGED <<poll, reply, thread, finished, log, venueAndKey>>

(* main reaches the wait for its tasks, and with it the try that ends the  *)
(* run in an orderly way.                                                  *)
Assembled ==
    /\ bot = "starting"
    /\ bot' = "up"
    /\ poll' = "look"
    /\ UNCHANGED <<life, reply, lastT, log, thread, table, late, venueAndKey>>

(* A period that is not positive or an URL that Redis does not understand  *)
(* ends the process before that try: nothing sets finished_at.             *)
AssemblyFails ==
    /\ bot = "starting"
    /\ bot' = "down"
    /\ run' = 0
    /\ unclean' = unclean \cup {life}
    /\ UNCHANGED <<life, loop, thread, runs, finished, late, venueAndKey>>

-----------------------------------------------------------------------------
(* The poll loop.                                                          *)

Look ==
    /\ poll = "look"
    /\ reply' = key.candle
    /\ unseen' = FALSE
    /\ poll' = "got"
    /\ UNCHANGED <<bot, life, lastT, log, thread, table, late,
                   closed, elapsed, key, missed>>

LookFails ==
    /\ poll = "look"
    /\ poll' = "erred"
    /\ UNCHANGED <<bot, life, reply, lastT, log, thread, table, late, venueAndKey>>

(* Seeded: any stored candle is handled.                                   *)
IsNewStored(c) == c # 0

(* Seeded: after a gap nothing is new.                                     *)
IsNewNext(c) == c # 0 /\ (lastT = 0 \/ c = lastT + 1)

(* Seeded: no key is taken for a candle.                                   *)
IsNewAny(c) == lastT = 0 \/ c # lastT

(* A closed candle other than the last one.                                *)
IsNew(c) == c # 0 /\ (lastT = 0 \/ c # lastT)

(* last_t is set before the handler is awaited, so a handler that raises   *)
(* is not repeated.                                                        *)
React ==
    /\ poll = "got"
    /\ IF IsNew(reply)
         THEN /\ poll' = "handle"
              /\ lastT' = reply
              /\ log' = Append(log, [life |-> life, candle |-> reply])
         ELSE /\ poll' = "rest"
              /\ UNCHANGED <<lastT, log>>
    /\ reply' = 0
    /\ UNCHANGED <<bot, life, thread, table, late, venueAndKey>>

(* The sleep between two polls.                                            *)
Wake ==
    /\ poll \in {"rest", "erred"}
    /\ poll' = "look"
    /\ UNCHANGED <<bot, life, reply, lastT, log, thread, table, late, venueAndKey>>

-----------------------------------------------------------------------------
(* The handler, and the thread of its call.                                *)

CallStarts ==
    /\ poll = "handle" /\ ~thread
    /\ thread' = TRUE
    /\ UNCHANGED <<bot, life, loop, table, late, venueAndKey>>

(* The call ends at the venue; a handler that still waits for it goes on   *)
(* or leaves with its exception.                                           *)
CallEnds ==
    /\ thread
    /\ thread' = FALSE
    /\ late' = IF run # 0 /\ run \in finished THEN late + 1 ELSE late
    /\ poll' \in IF poll = "handle" THEN {"handle", "rest"} ELSE {poll}
    /\ UNCHANGED <<bot, life, reply, lastT, log, table, venueAndKey>>

HandlerEnds ==
    /\ poll = "handle" /\ ~thread
    /\ poll' = "rest"
    /\ UNCHANGED <<bot, life, reply, lastT, log, thread, table, late, venueAndKey>>

-----------------------------------------------------------------------------
(* The end.                                                                *)

(* Seeded: only the HTTP task is cancelled.                                *)
AfterCancelGoesOn == poll

(* The poll loop is cancelled wherever it awaits.                          *)
AfterCancel == "off"

Interrupt ==
    /\ bot = "up"
    /\ bot' = "closing"
    /\ poll' = AfterCancel
    /\ reply' = 0
    /\ DropReply
    /\ UNCHANGED <<life, lastT, log, thread, table, late, closed, elapsed, key, unseen>>

(* Seeded: the connection is closed without a commit.                      *)
FinishedNone == {}

(* The row whose finished_at the executor's run_id sets.                   *)
FinishedRows == Some({run})

(* finished_at is set, unless the database fails; the connection closes.   *)
FinishRun ==
    /\ bot = "closing"
    /\ bot' = "closed"
    /\ \/ finished' = finished \cup FinishedRows /\ UNCHANGED unclean
       \/ unclean' = unclean \cup {life} /\ UNCHANGED finished
    /\ UNCHANGED <<life, loop, thread, run, runs, late, venueAndKey>>

(* The interpreter waits for the thread.                                   *)
Exit ==
    /\ bot = "closed" /\ ~thread
    /\ bot' = "down"
    /\ run' = 0
    /\ UNCHANGED <<life, loop, thread, runs, finished, unclean, late, venueAndKey>>

Kill ==
    /\ bot # "down"
    /\ bot' = "down"
    /\ poll' = "off"
    /\ reply' = 0
    /\ DropReply
    /\ thread' = FALSE
    /\ run' = 0
    /\ unclean' = unclean \cup {life}
    /\ UNCHANGED <<life, lastT, log, runs, finished, late, closed, elapsed, key, unseen>>

BotStep ==
    \/ BotStarts \/ Assembled \/ AssemblyFails
    \/ Look \/ LookFails \/ React \/ Wake
    \/ CallStarts \/ CallEnds \/ HandlerEnds
    \/ Interrupt \/ FinishRun \/ Exit \/ Kill

BotTypeOK ==
    /\ bot \in {"down", "starting", "up", "closing", "closed"}
    /\ life \in 0 .. MaxLives
    /\ poll \in {"off", "look", "got", "rest", "erred", "handle"}
    /\ reply \in 0 .. MaxCandles
    /\ lastT \in 0 .. MaxCandles
    /\ thread \in BOOLEAN
    /\ run \in 0 .. MaxLives
    /\ runs \subseteq Lives
    /\ finished \subseteq Lives
    /\ log \in Seq([life : Lives, candle : Candles])
    /\ late \in Nat
    /\ unclean \subseteq Lives
=============================================================================
