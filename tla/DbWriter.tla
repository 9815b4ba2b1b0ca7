------------------------------ MODULE DbWriter ------------------------------
(***************************************************************************)
(* The asynchronous database writer (storage/writer.py) and its backlog on *)
(* disk (storage/backlog.py).                                              *)
(*                                                                         *)
(* Events are numbered in the order the bot emits them.  They wait in a    *)
(* bounded queue in memory; what a full queue does not take, and what      *)
(* could not be written, goes to the end of the backlog file, which a      *)
(* periodic pass tries again.  Consumer and pass run in one event loop and *)
(* write without awaiting, so only a crash can come between the lines of a *)
(* pass.  PostgreSQL and the disk are external.                            *)
(***************************************************************************)
EXTENDS Integers, Sequences, SequencesExt

CONSTANTS
    Feed,          \* the events the bot emits: type, order, flaw
    QueueMax,      \* capacity of the queue
    MaxBatch,      \* lines of the backlog a pass tries
    MaxFaults      \* bound on the faults of every kind

Events == 1 .. Len(Feed)
Orders == {Feed[i].order : i \in Events}

(* "missing": a column was None and the helper dropped it, so the          *)
(* statement cannot be bound; "refused": a constraint of the table rejects *)
(* the row.                                                                *)
Flaws      == {"none", "missing", "refused"}
FaultKinds == {"connection", "disk", "close", "crash"}

ASSUME FeedAssumption ==
    Feed \in Seq([type : {"order", "fill", "other"}, order : STRING, flaw : Flaws])
ASSUME QueueAssumption  == QueueMax \in Nat \ {0}
ASSUME BatchAssumption  == MaxBatch \in Nat \ {0}
ASSUME FaultsAssumption == MaxFaults \in [FaultKinds -> Nat]

VARIABLES
    phase,      \* start and close
    conn,       \* the one connection of the writer
    sent,       \* events emitted so far
    queue,      \* _q
    consumer,   \* "get" or, after a failed write, "sleep"
    file,       \* the backlog, as the numbers of the events on its lines
    line,       \* the line a pass is at, 0 between passes
    keep,       \* lines the pass failed to write
    spilled,    \* history: events that were put into the backlog
    written,    \* events whose statement was committed (or ignored)
    row,        \* table orders: the event that gave the row its status
    faults

process  == <<phase, conn, queue, consumer>>
backlog  == <<file, line, keep, spilled>>
database == <<written, row>>
vars     == <<sent, process, backlog, database, faults>>

Fault(kind) ==
    /\ faults[kind] < MaxFaults[kind]
    /\ faults' = [faults EXCEPT ![kind] = @ + 1]

Running == phase = "running" /\ line = 0

-----------------------------------------------------------------------------
(* _write_event: it returns or it raises.                                  *)

(* Seeded: ON CONFLICT DO NOTHING.                                         *)
InsertedOnly(i) == IF row[Feed[i].order] = 0 THEN i ELSE row[Feed[i].order]

(* The status of the row after the upsert: that of the event, always.      *)
Upserted(i) == i

(* An order's row is inserted or updated, a fill's inserted or kept.       *)
Commit(i) ==
    /\ written' = written \cup {i}
    /\ row' = IF Feed[i].type = "order"
                THEN [row EXCEPT ![Feed[i].order] = Upserted(i)] ELSE row

OrderExists(i) == row[Feed[i].order] # 0

(* The statement of event i can be bound and sent on a usable connection.  *)
Sendable(i) ==
    /\ conn = "open"
    /\ Feed[i].flaw # "missing"
    /\ Feed[i].type = "fill" => OrderExists(i)

WriteReturns(i) ==
    /\ Feed[i].type # "other" => Sendable(i) /\ Feed[i].flaw = "none"
    /\ Commit(i)
    /\ UNCHANGED <<conn, faults>>

(* The server refuses the statement: the transaction is aborted, and since *)
(* nothing rolls it back every later statement is refused too.             *)
StatementRefused(i) ==
    /\ Sendable(i) /\ Feed[i].flaw = "refused"
    /\ conn' = "aborted"
    /\ UNCHANGED database

NeverSent(i) ==
    /\ ~Sendable(i)
    /\ UNCHANGED <<conn, database>>

Unwritten(i) ==
    /\ Feed[i].type # "other"
    /\ StatementRefused(i) \/ NeverSent(i)

(* The connection breaks, before or after the commit.  One step has one    *)
(* fault at most.                                                          *)
ConnectionBreaks(i) ==
    /\ Feed[i].type # "other"
    /\ conn = "open" /\ Fault("connection")
    /\ conn' = "broken"
    /\ UNCHANGED database \/ (Sendable(i) /\ Feed[i].flaw = "none" /\ Commit(i))

WriteRaises(i) == (Unwritten(i) /\ UNCHANGED faults) \/ ConnectionBreaks(i)

-----------------------------------------------------------------------------
(* The queue and its consumer.                                             *)

(* Seeded: one event too many fits.                                        *)
FullLate(q) == Len(q) > QueueMax

Full(q) == Len(q) >= QueueMax

Emit ==
    /\ line = 0
    /\ sent < Len(Feed)
    /\ sent' = sent + 1
    /\ \/ ~Full(queue) /\ queue' = Append(queue, sent') /\ UNCHANGED <<file, spilled, faults>>
       \/ /\ Full(queue)
          /\ file' = Append(file, sent')
          /\ spilled' = spilled \cup {sent'}
          /\ UNCHANGED <<queue, faults>>
       \/ Full(queue) /\ Fault("disk") /\ UNCHANGED <<queue, file, spilled>>
    /\ UNCHANGED <<phase, conn, consumer, line, keep, database>>

(* Seeded: a failed event is only waited out.                              *)
SpilledNot(i) == file

(* The backlog after event i could not be written.                         *)
Spilled(i) == Append(file, i)

ConsumeWrites ==
    /\ WriteReturns(Head(queue))
    /\ UNCHANGED <<consumer, backlog>>

(* An append that fails is swallowed: the event is gone.                   *)
ConsumeSpills ==
    /\ WriteRaises(Head(queue))
    /\ consumer' = "sleep"
    /\ file' = Spilled(Head(queue))
    /\ spilled' = spilled \cup {Head(queue)}
    /\ UNCHANGED <<line, keep>>

ConsumeLoses ==
    /\ Unwritten(Head(queue)) /\ Fault("disk")
    /\ consumer' = "sleep"
    /\ UNCHANGED backlog

Consume ==
    /\ Running /\ consumer = "get" /\ queue # <<>>
    /\ queue' = Tail(queue)
    /\ ConsumeWrites \/ ConsumeSpills \/ ConsumeLoses
    /\ UNCHANGED <<phase, sent>>

BackoffEnds ==
    /\ Running /\ consumer = "sleep"
    /\ consumer' = "get"
    /\ UNCHANGED <<phase, conn, sent, queue, backlog, database, faults>>

-----------------------------------------------------------------------------
(* A pass over the backlog.                                                *)

BatchEnd == IF Len(file) < MaxBatch THEN Len(file) ELSE MaxBatch

(* Seeded: an event that fails ends the pass.                              *)
NextLineOnSuccess(ok) == IF ok THEN line + 1 ELSE 0

NextLine(ok) == line + 1

(* Seeded: only the lines of the batch are written back.                   *)
RemainingOfBatch == keep

(* Seeded: the lines that failed are not written back.                     *)
RemainingUntried == SubSeq(file, MaxBatch + 1, Len(file))

(* The file after the pass: what failed and what it did not get to.        *)
Remaining == keep \o SubSeq(file, MaxBatch + 1, Len(file))

(* A pass over an empty backlog changes nothing.                           *)
DrainStarts ==
    /\ Running /\ file # <<>>
    /\ line' = 1
    /\ keep' = <<>>
    /\ UNCHANGED <<sent, process, file, spilled, database, faults>>

DrainLine ==
    /\ line \in 1 .. BatchEnd
    /\ \/ WriteReturns(file[line]) /\ line' = NextLine(TRUE) /\ UNCHANGED keep
       \/ /\ WriteRaises(file[line])
          /\ line' = NextLine(FALSE)
          /\ keep' = Append(keep, file[line])
    /\ UNCHANGED <<sent, phase, queue, consumer, file, spilled>>

(* The new file replaces the old one at once, or not at all.               *)
DrainCompacts ==
    /\ line > BatchEnd
    /\ line' = 0
    /\ \/ file' = Remaining /\ UNCHANGED faults
       \/ Fault("disk") /\ UNCHANGED file
    /\ UNCHANGED <<sent, process, keep, spilled, database>>

-----------------------------------------------------------------------------
(* Start and end.                                                          *)

Start ==
    /\ phase = "new"
    /\ \/ phase' = "running" /\ conn' = "open" /\ UNCHANGED faults
       \/ Fault("connection") /\ UNCHANGED <<phase, conn>>
    /\ UNCHANGED <<sent, queue, consumer, backlog, database>>

(* Both tasks are cancelled; what is still queued is not written.          *)
Close ==
    /\ Running
    /\ Fault("close")
    /\ phase' = "closed"
    /\ conn' = "closed"
    /\ UNCHANGED <<sent, queue, consumer, backlog, database>>

(* The process dies anywhere, and a new one is about to start.             *)
Crash ==
    /\ Fault("crash")
    /\ phase' = "new"
    /\ conn' = "closed"
    /\ queue' = <<>>
    /\ consumer' = "get"
    /\ line' = 0
    /\ keep' = <<>>
    /\ UNCHANGED <<sent, file, spilled, database>>

Init ==
    /\ phase = "new"
    /\ conn = "closed"
    /\ sent = 0
    /\ queue = <<>>
    /\ consumer = "get"
    /\ file = <<>>
    /\ line = 0
    /\ keep = <<>>
    /\ spilled = {}
    /\ written = {}
    /\ row = [o \in Orders |-> 0]
    /\ faults = [k \in FaultKinds |-> 0]

DrainStep == DrainStarts \/ DrainLine \/ DrainCompacts

Next == Emit \/ Consume \/ BackoffEnds \/ DrainStep \/ Start \/ Close \/ Crash

Spec == Init /\ [][Next]_vars

(* A pass ends, and the next one comes after drain_interval_s.  Passes     *)
(* disable the consumer while they last, but between two of them the event *)
(* loop gives every ready task its turn.                                   *)
FairSpec ==
    /\ Spec
    /\ WF_vars(Start) /\ WF_vars(DrainStep)
    /\ SF_vars(Consume) /\ SF_vars(BackoffEnds)

-----------------------------------------------------------------------------
(* Properties.                                                             *)

(* The shape of every variable; the queue within its capacity.             *)
TypeOK ==
    /\ phase \in {"new", "running", "closed"}
    /\ conn \in {"open", "aborted", "broken", "closed"}
    /\ sent \in 0 .. Len(Feed)
    /\ queue \in Seq(Events) /\ Len(queue) <= QueueMax
    /\ consumer \in {"get", "sleep"}
    /\ file \in Seq(Events)
    /\ line \in Nat
    /\ keep \in Seq(Events)
    /\ spilled \subseteq Events
    /\ written \subseteq Events
    /\ row \in [Orders -> 0 .. Len(Feed)]
    /\ faults \in [FaultKinds -> Nat]

(* Whatever the database and the connection do, an emitted event is        *)
(* written, queued or in the backlog: only a failing disk, a close or a    *)
(* crash loses any.                                                        *)
NothingLost ==
    faults["disk"] = 0 /\ faults["close"] = 0 /\ faults["crash"] = 0
    => 1 .. sent \subseteq written \cup ToSet(queue) \cup ToSet(file)

(* What reached the backlog stays there until it is written, through       *)
(* passes, failed compactions and crashes in the middle of a pass.         *)
SpilledIsSafe ==
    [][ToSet(file) \subseteq ToSet(file') \cup written']_vars

Abstract == INSTANCE Outbox WITH emitted <- sent, waiting <- queue,
                                 safe <- ToSet(file) \ written, done <- written

(* The writer is the outbox a bot expects: events leave the queue in order *)
(* and one at a time, and the rewriting of the backlog and the passes that *)
(* are cut short neither lose an event nor bring one back.                 *)
IsOutbox == Abstract!Spec

(* A row has the status of the last event written of its order, unless one *)
(* of the order's events went through the backlog, which reorders them.    *)
RowsUpToDate ==
    \A i \in written :
      Feed[i].type = "order" =>
        \/ row[Feed[i].order] >= i
        \/ \E j \in spilled : Feed[j].type = "order" /\ Feed[j].order = Feed[i].order

(* Event i can be written at all, and so can the order of a fill.          *)
Writable(i) ==
    /\ Feed[i].flaw = "none"
    /\ Feed[i].type = "fill" =>
         \E j \in 1 .. i : /\ Feed[j].type = "order" /\ Feed[j].flaw = "none"
                           /\ Feed[j].order = Feed[i].order

(* The connection is of no use any more, or something has failed.          *)
Impaired == conn \in {"aborted", "broken"} \/ \E k \in FaultKinds : faults[k] > 0

(* Lines that can never be written fill a batch: once they are in front,   *)
(* where every compaction puts what failed, a pass gets no further.        *)
Crowded ==
    Cardinality({n \in 1 .. Len(file) : ~Writable(file[n])}) >= MaxBatch

(* Every event that can be written is written in the end, although others  *)
(* in the backlog never can, unless those are enough to fill a batch or    *)
(* the writer itself is impaired: "intenta procesar cada evento" is more   *)
(* than the code keeps.                                                    *)
EventuallyWritten ==
    \A i \in Events :
      Writable(i) => (sent >= i ~> i \in written \/ Impaired \/ Crowded)

(* "Si falla, guarda en backlog JSONL y sigue": an event that fails is no  *)
(* obstacle to writing the others.                                         *)
FailureIsNoObstacle ==
    \A i \in Events : Writable(i) => (sent >= i ~> i \in written)
=============================================================================
